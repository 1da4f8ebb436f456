SPECIFICATION Spec
CONSTANTS
  p1 = p1
  p2 = p2
  p3 = p3
  p4 = p4
  s1 = s1
  s2 = s2
  None = None
  Pids <- MCPids
  Services <- MCServices
  Commands <- MCAll
  Faults <- MCAllFaults
SYMMETRY MCSymmetry
INVARIANTS TypeOK NoServiceUnattached RegistrationsAccounted CopyIsCurrent
PROPERTY TokenNotReplaced
CHECK_DEADLOCK FALSE
