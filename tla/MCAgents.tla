------------------------------ MODULE MCAgents ------------------------------
\* Model values for the runs of Agents, and the targets users ask for.
EXTENDS Agents, TLC
CONSTANTS old, new, job1
MCRequests == {[sha |-> FALSE, v |-> old], [sha |-> FALSE, v |-> new], [sha |-> TRUE, v |-> new]}
=============================================================================
