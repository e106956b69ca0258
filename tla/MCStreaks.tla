------------------------------ MODULE MCStreaks ------------------------------
EXTENDS Streaks, TLC

OnePair == {<<1, 2>>}

Symmetry == Permutations(Requests)
=============================================================================
