SPECIFICATION Spec
CONSTANT MaxRuns = 1
INVARIANT BrokenCacheIsNotFatal
CHECK_DEADLOCK FALSE
