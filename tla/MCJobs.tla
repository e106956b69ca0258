------------------------------- MODULE MCJobs -------------------------------
EXTENDS Jobs

CONSTANTS e1, p1, u1, u2

MCRecipient == [j \in PushJobs |-> u1]
=============================================================================
