------------------------------ MODULE MCClient ------------------------------
EXTENDS Client

\* Callers of WriteFrame.
CONSTANTS w1, w2
=============================================================================
