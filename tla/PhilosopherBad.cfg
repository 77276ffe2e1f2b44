\* The program can deadlock (lines 13-14): StuckIffAllHoldLeft says how.
SPECIFICATION Spec
CONSTANT N = 5
CHECK_DEADLOCK FALSE
INVARIANTS IInv StuckIffAllHoldLeft
PROPERTY EatsOrDeadlocks
