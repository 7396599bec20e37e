----------------------------- MODULE MCMcpManager -----------------------------
EXTENDS McpManager

CONSTANTS crm, email, r1
==============================================================================
