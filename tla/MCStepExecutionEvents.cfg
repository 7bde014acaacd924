SPECIFICATION Spec
CONSTANT MaxCalls = 2
INVARIANT StepEventsAreProgress
CHECK_DEADLOCK FALSE
