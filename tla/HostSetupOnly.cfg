SPECIFICATION Spec
CONSTANT MaxRuns = 1
INVARIANT SetupOnlyRecreates
CHECK_DEADLOCK FALSE
