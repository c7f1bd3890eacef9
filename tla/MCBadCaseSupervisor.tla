------------------------- MODULE MCBadCaseSupervisor -------------------------
EXTENDS BadCaseSupervisor
=============================================================================
