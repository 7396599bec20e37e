------------------------------ MODULE MCAgentRun ------------------------------
EXTENDS AssistedRun
==============================================================================
