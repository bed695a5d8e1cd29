--------------------------- MODULE MCAccessControl ---------------------------
EXTENDS AccessControl, TLC
=============================================================================
