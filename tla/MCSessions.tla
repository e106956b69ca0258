----------------------------- MODULE MCSessions -----------------------------
EXTENDS Sessions, TLC

\* Request handlers and users are interchangeable.
Symmetry == Permutations(Requests) \cup Permutations(Users)
=============================================================================
