SPECIFICATION FairSpec
CONSTANTS
  Executions = {first, second}
  Nobody = Nobody
INVARIANT SupervisorTypeOK
INVARIANT ReceiptIsProof
INVARIANT FailureIsFinal
PROPERTY EveryRunAnswered
CHECK_DEADLOCK FALSE
