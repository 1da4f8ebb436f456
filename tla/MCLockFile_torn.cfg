SPECIFICATION Spec
CONSTANTS
  p1 = p1
  p2 = p2
  p3 = p3
  Absent = Absent
  Torn = Torn
  Pids <- MCPids
  Commands <- MCLocking
  Faults <- MCCrash
  Overlap = FALSE
SYMMETRY MCSymmetry
INVARIANT DeadLockRemoved
CHECK_DEADLOCK FALSE
