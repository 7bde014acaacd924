SPECIFICATION Spec
CONSTANT MaxCalls = 2
INVARIANTS
  TypeOK
  PolicyHolds
  OutcomeIsLastCall
  HandsBackOnlyIfStopped
CHECK_DEADLOCK FALSE
