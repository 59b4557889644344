----------------------------- MODULE MCConsoles -----------------------------
\* Model values for the runs of Consoles.
EXTENDS Consoles, TLC
CONSTANTS w1, t1, t2
=============================================================================
