--------------------------- MODULE MCRequestPath ---------------------------
EXTENDS RequestPath, TLC

CONSTANTS q1, q2, q3
=============================================================================
