----------------------------- MODULE MCLabJobs -----------------------------
EXTENDS LabJobs
FewTries == [up |-> 2, down |-> 1]
=============================================================================
