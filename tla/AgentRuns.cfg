SPECIFICATION Spec
CONSTANTS
  None = None
  ComparisonPolicies <- MCPolicies
INVARIANT TypeOK
INVARIANT EveryTraceReplays
INVARIANT BudgetsFit
CHECK_DEADLOCK FALSE
