------------------------------ MODULE ClassFeed ------------------------------
(***************************************************************************)
(* Classes and the announcements of the first class, running together:     *)
(* list_member_user_ids and the rep check of the announcement endpoints    *)
(* read the memberships that joins write.                                  *)
(***************************************************************************)
EXTENDS Integers, Sequences, FiniteSets

CONSTANTS Requests, Users, Reps, Codes, MaxClasses, MaxJoins, MaxFaults,
          PostIds, PageSize, Times, MaxPins, MaxLost

ASSUME ClassFeedAssumption ==
    /\ Reps \subseteq Users
    /\ PageSize \in Nat \ {0}
    /\ PostIds \cup Times \cup {MaxClasses, MaxJoins, MaxFaults, MaxPins, MaxLost} \subseteq Nat

VARIABLES classes, members, req, known, joined, joins, failures,
          posts, poster, reader, pushed, owed, pins, lost

C == INSTANCE Classes

A == INSTANCE Announcements WITH enrolled <- C!MembersOf(1), reps <- C!Rep(1)

classVars == <<classes, members, req, known, joined, joins, failures>>
feedVars == <<posts, poster, reader, pushed, owed, pins, lost>>
vars == <<classVars, feedVars>>

Init == C!Init /\ A!Init

Next ==
    \/ C!Next /\ UNCHANGED feedVars
    \/ A!Step /\ UNCHANGED classVars

Spec == Init /\ [][Next]_vars

-----------------------------------------------------------------------------
\* The properties of the two modules, of the composition.
\* member_count is the number of members, whatever joins race.
CountExact == C!CountExact

\* Who was told that they are in the class is in.
AnswersTrue == C!AnswersTrue

\* A walk through the feed neither repeats nor misses a post.
WalkComplete == A!WalkComplete

\* Pushes go to members other than the poster, to all who are owed one.
PushesRight == A!PushesRight
=============================================================================
