------------------------------- MODULE Solvers -------------------------------
(***************************************************************************)
(* The solvers, and the choice of the reminders, against what they are to  *)
(* compute, stated over the units of time a block occupies and without a   *)
(* sweep, a cursor or an order.  A behaviour takes one input and computes  *)
(* one answer.                                                             *)
(***************************************************************************)
EXTENDS StudySolver, LifeSolver, Reminders, FiniteSets

CONSTANTS BusySets,         \* sets of busy intervals
          SubjectLists,     \* sequences of records [name, priority, exam]
          Replacements,     \* records [busy, others, day, exclude]
          FixedLists,       \* sequences of fixed blocks
          RoutineInputs,    \* sequences of routines
          ReminderRuns      \* records [plan, deduped, redisUp, now, window]

\* Init and Next have names of their own, for proofs about Planner beside these.
VARIABLES task, solved, answer

solverVars == <<task, solved, answer>>

Tasks ==
    [kind: {"generate"}, busy: BusySets, subjects: SubjectLists]
      \cup [kind: {"replace"}, input: Replacements]
      \cup [kind: {"life"}, fixed: FixedLists, routines: RoutineInputs]
      \cup [kind: {"remind"}, input: ReminderRuns]

Given == task \in Tasks /\ solved = FALSE /\ answer = <<>>

Generate ==
    /\ task.kind = "generate"
    /\ answer' = GenerateStudyBlocks(task.busy, task.subjects)

Replace ==
    /\ task.kind = "replace"
    /\ answer' = FindReplacementSlot(task.input.busy, task.input.others,
                                     task.input.day, task.input.exclude)

Layer ==
    /\ task.kind = "life"
    /\ answer' = BuildLifeSchedule(task.fixed, task.routines)

Remind ==
    /\ task.kind = "remind"
    /\ answer' = RemindedOf(task.input.plan, task.input.deduped, task.input.redisUp,
                            task.input.now, task.input.window)

Solve ==
    /\ ~solved
    /\ solved' = TRUE
    /\ Generate \/ Replace \/ Layer \/ Remind
    /\ UNCHANGED task

Solving == Given /\ [][Solve]_solverVars

-----------------------------------------------------------------------------
(***************************************************************************)
(* The inputs the properties are about: classes, blocks and routines that  *)
(* end after they start (create requires it of an entry, a PATCH does not, *)
(* which is the run inverted_entry of Planner); routines of distinct ids;  *)
(* subjects of distinct names (a generate call that names one twice deals  *)
(* it the blocks of both); blocks that begin at a tick of the week.        *)
(***************************************************************************)
Intervals == [day: Int, start: Int, end: Int]

TimesForward(r) == r.day \in Int /\ r.start \in Int /\ r.end \in Int /\ r.start < r.end

Forward(B) == B \subseteq Intervals /\ \A b \in B : b.start < b.end

SubjectShaped(s) == s.priority \in Int /\ s.exam \in Int

RoutineShaped(r) ==
    /\ r.days \in Seq(Int) /\ r.flexible \in BOOLEAN
    /\ r.start \in Int /\ r.end \in Int /\ r.start < r.end

Weekly == [day: 0..(WeekDays - 1), start: 0..(DayTicks - 1)]

GenerateProper ==
    /\ \A busy \in BusySets : IsFiniteSet(busy) /\ Forward(busy)
    /\ \A subjects \in SubjectLists :
         /\ subjects \in Seq(ToSet(subjects)) /\ \A s \in ToSet(subjects) : SubjectShaped(s)
         /\ \A i, j \in DOMAIN subjects : subjects[i].name = subjects[j].name => i = j

ReplaceProper ==
    \A r \in Replacements : IsFiniteSet(r.busy \cup r.others) /\ Forward(r.busy \cup r.others)

LifeProper ==
    /\ \A fixed \in FixedLists :
         fixed \in Seq(ToSet(fixed)) /\ \A f \in ToSet(fixed) : TimesForward(f)
    /\ \A list \in RoutineInputs :
         /\ list \in Seq(ToSet(list)) /\ \A r \in ToSet(list) : RoutineShaped(r)
         /\ \A q, r \in ToSet(list) : q.id = r.id => q = r

RemindProper ==
    \A r \in ReminderRuns :
      r.plan \subseteq Weekly /\ {r.now, r.window.from, r.window.to} \subseteq Int

-----------------------------------------------------------------------------
Solved(kind) == solved /\ task.kind = kind

\* The units of time of a block, and those a set of intervals takes on a day.
Units(b) == b.start..(b.end - 1)

Taken(day, busy) == UNION {Units(b) : b \in {c \in busy : c.day = day}}

\* The times of a day from which d units in a row are free within the window.
FreeStarts(day, busy, d) ==
    {s \in StudyStart..(StudyEnd - d) : s..(s + d - 1) \cap Taken(day, busy) = {}}

(***************************************************************************)
(* The study plan: every block lies in the study window, has a length in   *)
(* range and shares no time with a class or another block; no day exceeds  *)
(* its budget; a day with a block's worth of budget left has no free       *)
(* stretch left for one; and no subject gets two blocks more than another. *)
(***************************************************************************)
GenerateSound ==
    Solved("generate") =>
      LET blocks == ToSet(answer)
          on(day) == {b \in blocks : b.day = day}
          used(day) == Cardinality(Taken(day, blocks))
          share(i) == Cardinality({k \in DOMAIN answer :
                                     answer[k].subject = task.subjects[i].name})
      IN /\ task.subjects = <<>> => answer = <<>>
         /\ \A b \in blocks :
              /\ b.end - b.start \in MinBlock..MaxBlock
              /\ Units(b) \subseteq StudyStart..(StudyEnd - 1)
              /\ Units(b) \cap Taken(b.day, task.busy) = {}
         /\ \A k, l \in DOMAIN answer :
              k # l /\ answer[k].day = answer[l].day => Units(answer[k]) \cap Units(answer[l]) = {}
         /\ \A day \in 0..LastDay :
              /\ used(day) <= DayBudget
              /\ task.subjects # <<>> /\ used(day) + MinBlock <= DayBudget =>
                   FreeStarts(day, task.busy \cup on(day), MinBlock) = {}
         /\ \A i, j \in DOMAIN task.subjects :
              /\ share(i) <= share(j) + 1
              /\ SubjectScore(task.subjects[i]) > SubjectScore(task.subjects[j]) =>
                   share(i) >= share(j)

(***************************************************************************)
(* The replacement of a block: it lies in the window and avoids classes    *)
(* and the other blocks; there is none only when no free stretch is long   *)
(* enough; and it begins where the block began only when every free        *)
(* stretch does, give or take a block's length.                            *)
(***************************************************************************)
ReplacementSound ==
    Solved("replace") =>
      LET t == task.input
          busy == t.busy \cup t.others
          starts == FreeStarts(t.day, busy, MinBlock)
      IN IF answer = NoSlot THEN starts = {}
         ELSE /\ answer.end - answer.start \in MinBlock..MaxBlock
              /\ Units(answer) \subseteq StudyStart..(StudyEnd - 1)
              /\ Units(answer) \cap Taken(t.day, busy) = {}
              /\ answer.start = t.exclude =>
                   starts \subseteq t.exclude..(t.exclude + MaxBlock - 1)

(***************************************************************************)
(* The life schedule: the fixed blocks stay as they are and each routine   *)
(* keeps its length and all its days; a block without the flag shares no   *)
(* time with what was placed before it; one with the flag does, at its own *)
(* time, and when it is flexible no gap of the window would take it.       *)
(***************************************************************************)
LifeSound ==
    Solved("life") =>
      LET n == Len(task.fixed)
          wanted == UNION {{k} \X DOMAIN task.routines[k].days : k \in DOMAIN task.routines}
          before(i) == {answer[j] : j \in 1..(i - 1)}
          routine(b) == CHOOSE r \in ToSet(task.routines) : r.id = b.id
      IN /\ Len(answer) = n + Cardinality(wanted)
         /\ \A i \in 1..n :
              /\ Units(answer[i]) = Units(task.fixed[i])
              /\ answer[i].id = task.fixed[i].id
              /\ ~answer[i].conflict
         /\ \A i \in (n + 1)..Len(answer) :
              LET b == answer[i]
                  r == routine(b)
                  taken == Taken(b.day, before(i))
              IN /\ b.day \in ToSet(r.days)
                 /\ b.end - b.start = r.end - r.start
                 /\ b.conflict <=> Units(b) \cap taken # {}
                 /\ b.start # r.start => r.flexible
                 /\ b.conflict =>
                      /\ b.start = r.start
                      /\ r.flexible =>
                           \A s \in LifeStart..(LifeEnd - (r.end - r.start)) :
                             s..(s + r.end - r.start - 1) \cap taken # {}

(***************************************************************************)
(* The reminders of a run: exactly the blocks that begin within the run's  *)
(* window, in whatever week and on whatever side of midnight, less those   *)
(* whose key is there.                                                     *)
(***************************************************************************)
RemindersSound ==
    Solved("remind") =>
      LET t == task.input
          begins(b) == \E k \in (t.now + t.window.from + 1)..(t.now + t.window.to) :
                         k % (WeekDays * DayTicks) = b.day * DayTicks + b.start
      IN answer = {b \in t.plan : begins(b)} \ (IF t.redisUp THEN t.deduped ELSE {})
=============================================================================
