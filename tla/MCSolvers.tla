----------------------------- MODULE MCSolvers -----------------------------
EXTENDS Solvers

\* A unit is a quarter of an hour; the window is cut down to three hours and
\* a quarter, and the rest of the day to a unit on either side of it.
Slots == {<<s, e>> \in (0..14) \X (0..14) : s < e}

On(day, slots) == {[day |-> day, start |-> t[1], end |-> t[2]] : t \in slots}

\* Up to two classes on the first day, and a few plans for the second.
MCBusySets ==
    {On(0, {t, u}) \cup On(1, v) :
       t \in {<<1, 2>>} \cup {t \in Slots : t[1] % 2 = 0},
       u \in Slots,
       v \in {{}, {<<3, 6>>, <<4, 5>>, <<9, 11>>}, {<<0, 14>>}}}

Subject(name, priority, exam) == [name |-> name, priority |-> priority, exam |-> exam]

MCSubjectLists ==
    {<<>>,
     <<Subject("a", 0, NoExam)>>,
     <<Subject("a", 3, NoExam), Subject("b", 0, 1), Subject("c", 3, 3)>>}

MCReplacements ==
    [busy: {On(0, {t, <<6, 7>>}) : t \in Slots},
     others: {On(0, {u}) \cup On(1, {<<1, 5>>}) : u \in {t \in Slots : t[2] - t[1] \in MinBlock..MaxBlock}},
     day: {0},
     exclude: {1, 4, 7, 9}]

Fixed(slots) ==
    [i \in DOMAIN slots |->
       [source |-> "class", id |-> i, day |-> 0, start |-> slots[i][1], end |-> slots[i][2]]]

MCFixedLists ==
    {Fixed(<<t, u>>) : t \in {t \in Slots : t[1] % 3 = 0}, u \in {<<2, 4>>, <<6, 9>>, <<13, 14>>}}
      \cup {<<>>}

MCRoutineInputs ==
    {<<[id |-> "gym", days |-> days, start |-> t[1], end |-> t[2], flexible |-> f],
       [id |-> "work", days |-> <<0>>, start |-> 5, end |-> 8, flexible |-> g]>> :
       days \in {<<0>>, <<1, 0>>}, t \in {t \in Slots : t[2] <= 9}, f \in BOOLEAN, g \in BOOLEAN}

\* Two blocks of a week of three days of four ticks; a window of the day
\* after give or take a tick, and one just ahead.
MCReminderRuns ==
    LET blocks == [day: 0..2, start: 0..3] IN
    [plan: {{b, c} : b \in blocks, c \in blocks},
     deduped: {{}, {[day |-> 1, start |-> 0], [day |-> 0, start |-> 2]}},
     redisUp: BOOLEAN,
     now: 0..23,
     window: {[from |-> 3, to |-> 5], [from |-> 1, to |-> 2]}]

ASSUME MCProper == GenerateProper /\ ReplaceProper /\ LifeProper /\ RemindProper
=============================================================================
