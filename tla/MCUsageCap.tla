----------------------------- MODULE MCUsageCap -----------------------------
EXTENDS UsageCap, TLC

\* Request handlers are interchangeable.
Symmetry == Permutations(Requests)
=============================================================================
