--------------------------- MODULE MCPlannerCalls ---------------------------
EXTENDS PlannerCalls
Usage(i, o) == [input |-> i, output |-> o]
MCUsages == {Usage(6000, 100), Usage(9000, 400)}
=============================================================================
