SPECIFICATION LoadableSpec
CONSTANT MaxCalls = 2
INVARIANT FailuresBecomeResults
CHECK_DEADLOCK FALSE
