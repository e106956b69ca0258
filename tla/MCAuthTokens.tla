---------------------------- MODULE MCAuthTokens ----------------------------
EXTENDS AuthTokens, TLC

\* Request handlers are interchangeable.
Symmetry == Permutations(Requests)
=============================================================================
