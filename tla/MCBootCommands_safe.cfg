SPECIFICATION Spec
CONSTANTS
  Retries = 3
  MaxUpgrades = 2
INVARIANTS TypeOK PendingMarked AttachedAsItself
PROPERTIES DetachAsItself BootEnds
CHECK_DEADLOCK FALSE
