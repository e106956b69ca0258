----------------------------- MODULE MCPlanner -----------------------------
EXTENDS Planner

Entry(subject, start, end) == [subject |-> subject, day |-> 0, start |-> start, end |-> end]

MCEntries == {Entry("maths", 0, 1), Entry("art", 4, 6)}

MCPatches == {Entry("maths", 1, 3), Entry("art", 4, 6)}

\* A PATCH that moves the start alone may put it after the end.
MCInvertedPatches == {Entry("maths", 2, 1)}

MCBodies == {<<>>, <<[name |-> "exam", priority |-> 1, exam |-> 1]>>}

Gym(flexible) == [id |-> "gym", days |-> <<0>>, start |-> 2, end |-> 5, flexible |-> flexible]

MCRoutineLists == {<<>>, <<Gym(TRUE)>>, <<Gym(FALSE)>>}
=============================================================================
