SPECIFICATION Spec
CONSTANT Faults <- MCFaults
PROPERTY LivepatchKept
CHECK_DEADLOCK FALSE
