----------------------------- MODULE StudySolver -----------------------------
(***************************************************************************)
(* The study-plan solver, app/litheral/study/solver.py: pure functions     *)
(* from what keeps a user busy, and the subjects, to study blocks.         *)
(*                                                                         *)
(* Times are numbers of some unit within a day.  A busy interval is a      *)
(* record [day, start, end]; the list of them is a set here, because it is *)
(* sorted by start before it is used and a repetition changes nothing.     *)
(***************************************************************************)
EXTENDS Integers, SequencesExt

CONSTANTS LastDay,          \* the days are 0..LastDay
          StudyStart,       \* STUDY_WINDOW_START_MINUTES
          StudyEnd,         \* STUDY_WINDOW_END_MINUTES
          MinBlock,         \* MIN_BLOCK_MINUTES
          MaxBlock,         \* MAX_BLOCK_MINUTES
          DayBudget,        \* MAX_STUDY_MINUTES_PER_DAY
          UrgencyDays       \* EXAM_URGENCY_WINDOW_DAYS

ASSUME StudyAssumption ==
    /\ {LastDay, StudyStart, StudyEnd, UrgencyDays} \subseteq Nat
    /\ StudyStart < StudyEnd
    /\ {MinBlock, MaxBlock, DayBudget} \subseteq Nat \ {0}
    /\ MinBlock <= MaxBlock

Least(a, b) == IF a < b THEN a ELSE b

Greatest(a, b) == IF a > b THEN a ELSE b

NoSlot == [none |-> TRUE]

NoExam == -1            \* the days until an exam that is not set, or over

(***************************************************************************)
(* free_intervals_for_day: sweep the day's busy intervals by start, and    *)
(* keep the gaps that are long enough.                                     *)
(***************************************************************************)
ByStart(S) ==
    CHOOSE s \in SetToSeqs(S) : \A i, j \in DOMAIN s : i < j => s[i].start <= s[j].start

Keep(free, gap) == IF gap.end - gap.start >= MinBlock THEN Append(free, gap) ELSE free

PassBusyByEnd(s, b) ==     \* slip: the cursor moves back to the end of a shorter interval
    [cursor |-> b.end,
     free   |-> IF b.start > s.cursor
                THEN Keep(s.free, [start |-> s.cursor, end |-> Least(b.start, StudyEnd)])
                ELSE s.free]

PassBusy(s, b) ==
    [cursor |-> Greatest(s.cursor, b.end),
     free   |-> IF b.start > s.cursor
                THEN Keep(s.free, [start |-> s.cursor, end |-> Least(b.start, StudyEnd)])
                ELSE s.free]

Sweep(busy) ==
    LET swept[k \in 0..Len(busy)] ==
          IF k = 0 THEN [cursor |-> StudyStart, free |-> <<>>]
          ELSE PassBusy(swept[k - 1], busy[k])
    IN swept

FreeIntervals(day, busy) ==
    LET byStart == ByStart({b \in busy : b.day = day})
        swept == Sweep(byStart)[Len(byStart)]
    IN IF swept.cursor < StudyEnd
       THEN Keep(swept.free, [start |-> swept.cursor, end |-> StudyEnd])
       ELSE swept.free

\* _split_into_blocks: as many blocks of full length as fit, and a shorter one
\* when what is left is long enough.
SplitIntoBlocks(f) ==
    LET room(i) == f.end - (f.start + i * MaxBlock)
    IN [i \in 1..Cardinality({i \in 0..(f.end - f.start) : room(i) >= MinBlock}) |->
          [start |-> f.start + (i - 1) * MaxBlock, end |-> Least(f.start + i * MaxBlock, f.end)]]

Split(free) ==
    LET split[k \in 0..Len(free)] ==
          IF k = 0 THEN <<>> ELSE split[k - 1] \o SplitIntoBlocks(free[k])
    IN split

Chunks(day, busy) ==
    LET free == FreeIntervals(day, busy) IN Split(free)[Len(free)]

(***************************************************************************)
(* _subject_score, and the ranking by it: a sort that keeps the order of   *)
(* subjects that score the same.                                           *)
(***************************************************************************)
SubjectScore(s) ==
    s.priority + (IF s.exam \in 0..UrgencyDays THEN (UrgencyDays - s.exam) * 2 ELSE 0)

RanksBefore(s, i, j) ==
    \/ SubjectScore(s[i]) > SubjectScore(s[j])
    \/ SubjectScore(s[i]) = SubjectScore(s[j]) /\ i < j

Ranked(subjects) ==
    LET order == CHOOSE o \in SetToSeqs(DOMAIN subjects) :
                   \A i, j \in DOMAIN o : i < j => RanksBefore(subjects, o[i], o[j])
    IN [i \in DOMAIN subjects |-> subjects[order[i]].name]

(***************************************************************************)
(* generate_study_blocks: the chunks of the days in turn, cut to what is   *)
(* left of the day's budget, dealt to the subjects in rank order.  A chunk *)
(* that the rest of the budget makes too short is skipped; the loop's      *)
(* break is the case of a rest of nothing.                                 *)
(***************************************************************************)
Place(p, c, day, names) ==
    LET end == Least(c.end, c.start + DayBudget - p.used) IN
    IF end - c.start < MinBlock THEN p
    ELSE [used   |-> p.used + end - c.start,
          blocks |-> Append(p.blocks,
                       [subject |-> names[(Len(p.blocks) % Len(names)) + 1],
                        day |-> day, start |-> c.start, end |-> end])]

StudyDay(day, chunks, names, plan) ==
    LET placed[k \in 0..Len(chunks)] ==
          IF k = 0 THEN [used |-> 0, blocks |-> plan]
          ELSE Place(placed[k - 1], chunks[k], day, names)
    IN placed

StudyDays(busy, names) ==
    LET plan[n \in 0..(LastDay + 1)] ==
          IF n = 0 THEN <<>>
          ELSE LET chunks == Chunks(n - 1, busy)
               IN StudyDay(n - 1, chunks, names, plan[n - 1])[Len(chunks)].blocks
    IN plan

GenerateStudyBlocks(busy, subjects) ==
    IF subjects = <<>> THEN <<>> ELSE StudyDays(busy, Ranked(subjects))[LastDay + 1]

(***************************************************************************)
(* find_replacement_slot: the day's first chunk that does not begin where  *)
(* the block did, and when there is none the first chunk of all.  The last *)
(* min of the code cuts nothing, since no chunk is longer than MaxBlock.   *)
(***************************************************************************)
FindReplacementSlotOwn(busy, others, day, exclude) ==   \* slip: the other blocks are not avoided
    LET chunks == Chunks(day, busy)
        elsewhere == {i \in DOMAIN chunks : chunks[i].start # exclude}
    IN IF elsewhere # {} THEN chunks[Min(elsewhere)]
       ELSE IF chunks # <<>> THEN Head(chunks) ELSE NoSlot

FindReplacementSlot(busy, others, day, exclude) ==
    LET chunks == Chunks(day, busy \cup others)
        elsewhere == {i \in DOMAIN chunks : chunks[i].start # exclude}
    IN IF elsewhere # {} THEN chunks[Min(elsewhere)]
       ELSE IF chunks # <<>> THEN Head(chunks) ELSE NoSlot
=============================================================================
