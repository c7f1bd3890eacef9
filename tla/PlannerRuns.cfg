SPECIFICATION Spec
CONSTANTS
  None = None
  ProviderTimeout = 60000
  MaxModelCalls = 3
  Usages <- MCUsages
  Quantum = 40000
INVARIANT TypeOK
INVARIANT WorkersEndWithTheirCall
INVARIANT AuditsCoverTheRun
PROPERTY EveryCallEnds
CHECK_DEADLOCK FALSE
