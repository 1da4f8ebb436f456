SPECIFICATION FairSpec
CONSTANTS
  p1 = p1
  p2 = p2
  p3 = p3
  Absent = Absent
  Torn = Torn
  Pids <- MCTwoPids
  Commands <- MCAll
  Faults <- MCBothFaults
  Overlap = TRUE
PROPERTIES EveryCommandEnds WaitSeesCommand
CHECK_DEADLOCK FALSE
