SPECIFICATION Spec
CONSTANT Faults <- MCFaults
INVARIANTS TypeOK NeverBoth FipsBootable PendingRebootTold NoticesTrue
CONSTRAINT MCBreachBound
CHECK_DEADLOCK FALSE
