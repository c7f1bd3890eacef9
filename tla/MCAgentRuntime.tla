--------------------------- MODULE MCAgentRuntime ---------------------------
EXTENDS AgentRuntime
Budget(s, calls, runs, failed, same) ==
    [maxSteps |-> s, maxToolCalls |-> calls, maxRunCreations |-> runs,
     maxFailures |-> failed, maxSameAction |-> same, denied |-> {"inspect_query"}]
MCPolicies == {Budget(4, 3, 1, 2, 2), Budget(2, 3, 2, 3, 1)}
=============================================================================
