---------------------------- MODULE MCClassFeed ----------------------------
EXTENDS ClassFeed, TLC

CONSTANTS rep, ann, ben

\* Requests are alike, and so are the two students.
Alike == Permutations(Requests) \cup Permutations({ann, ben})
=============================================================================
