----------------------------- MODULE MCCtcpBbr -----------------------------
EXTENDS CtcpBbr

MCLongMin == -99
=============================================================================
