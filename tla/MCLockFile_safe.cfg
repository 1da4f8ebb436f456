SPECIFICATION Spec
CONSTANTS
  p1 = p1
  p2 = p2
  p3 = p3
  Absent = Absent
  Torn = Torn
  Pids <- MCPids
  Commands <- MCDrop
  Faults <- MCCrash
  Overlap = TRUE
CONSTRAINT MCBreachBound
SYMMETRY MCSymmetry
INVARIANTS TypeOK ExclusiveUnlessBreached LockIsOwned NoticeWhileHeld CleanAtRest
PROPERTY ImplementsExclusiveLock
CHECK_DEADLOCK FALSE
