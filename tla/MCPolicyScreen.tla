--------------------------- MODULE MCPolicyScreen ---------------------------
EXTENDS PolicyScreen
=============================================================================
