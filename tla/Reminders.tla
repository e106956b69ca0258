------------------------------ MODULE Reminders ------------------------------
(***************************************************************************)
(* Which study blocks a run of a reminder job of                           *)
(* app/litheral/study/jobs.py reminds of.  A tick is the resolution of a   *)
(* block's start_time; a run happens just after a tick, so an occurrence   *)
(* at the tick itself is over.                                            *)
(***************************************************************************)
EXTENDS Integers

CONSTANTS WeekDays,         \* the days of a week
          DayTicks          \* the ticks of a day

ASSUME RemindersAssumption == {WeekDays, DayTicks} \subseteq Nat \ {0}

(***************************************************************************)
(* _next_occurrence_of_weekly_block: later this week, next week, or on the *)
(* reference day when its time has not passed.                             *)
(***************************************************************************)
DaysAheadToday(day, start, reference) ==     \* slip: today, whether the time has passed or not
    LET today == (reference \div DayTicks) % WeekDays IN
    IF day >= today THEN day - today ELSE WeekDays - (today - day)

DaysAhead(day, start, reference) ==
    LET today == (reference \div DayTicks) % WeekDays IN
    CASE day > today -> day - today
      [] day < today -> WeekDays - (today - day)
      [] OTHER -> IF start > reference % DayTicks THEN 0 ELSE WeekDays

NextOccurrence(b, reference) ==
    ((reference \div DayTicks) + DaysAhead(b.day, b.start, reference)) * DayTicks + b.start

(***************************************************************************)
(* One run of either job for one user: the window begins and ends so and   *)
(* so far from now, and a block in it is reminded of unless its dedup key  *)
(* is there.  A dedup check that fails lets the reminder through.          *)
(***************************************************************************)
InWindow(b, from, to) ==
    LET next == NextOccurrence(b, from) IN from <= next /\ next <= to

RemindedOf(plan, deduped, redisUp, now, window) ==
    {b \in plan : /\ InWindow(b, now + window.from, now + window.to)
                  /\ redisUp => b \notin deduped}
=============================================================================
