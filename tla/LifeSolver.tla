----------------------------- MODULE LifeSolver -----------------------------
(***************************************************************************)
(* The life-schedule solver, app/litheral/life/solver.py: routines are     *)
(* layered over classes and study blocks.  Times, intervals and their sort *)
(* are those of StudySolver; a fixed block is a record [source, id, day,   *)
(* start, end], a routine a record [id, days, start, end, flexible].       *)
(***************************************************************************)
EXTENDS StudySolver

CONSTANTS LifeStart,        \* STUDY_WINDOW_START_MINUTES of this solver
          LifeEnd           \* STUDY_WINDOW_END_MINUTES

ASSUME LifeAssumption == {LifeStart, LifeEnd} \subseteq Nat /\ LifeStart < LifeEnd

NoRoom == [none |-> TRUE]

Overlaps(a, b) == a.start < b.end /\ b.start < a.end

HasConflict(slot, placed) ==
    \E i \in DOMAIN placed : placed[i].day = slot.day /\ Overlaps(slot, placed[i])

(***************************************************************************)
(* _find_free_slot: the first gap of the day that is long enough.  The gap *)
(* before a block is not cut at the end of the window.  Two blocks with    *)
(* the same times, or the order of two with the same start, change nothing *)
(* here, so the day's blocks are a set.                                    *)
(***************************************************************************)
OnDay(day, placed) ==
    {[day |-> day, start |-> placed[i].start, end |-> placed[i].end] :
       i \in {j \in DOMAIN placed : placed[j].day = day}}

TryGap(duration, s, b) ==
    IF s.slot # NoRoom THEN s
    ELSE IF b.start - s.cursor >= duration
         THEN [s EXCEPT !.slot = [start |-> s.cursor, end |-> s.cursor + duration]]
         ELSE [s EXCEPT !.cursor = Greatest(@, b.end)]

Seek(duration, blocks) ==
    LET sought[k \in 0..Len(blocks)] ==
          IF k = 0 THEN [cursor |-> LifeStart, slot |-> NoRoom]
          ELSE TryGap(duration, sought[k - 1], blocks[k])
    IN sought

FindFreeSlot(day, duration, placed) ==
    LET byStart == ByStart(OnDay(day, placed))
        s == Seek(duration, byStart)[Len(byStart)]
    IN IF s.slot # NoRoom THEN s.slot
       ELSE IF LifeEnd - s.cursor >= duration
            THEN [start |-> s.cursor, end |-> s.cursor + duration]
            ELSE NoRoom

(***************************************************************************)
(* build_life_schedule: the fixed blocks as they are; each routine on each *)
(* of its days where it is, or moved when it is flexible and there is      *)
(* room, or else where it is with the conflict flag.                       *)
(***************************************************************************)
LifeBlock(source, id, day, slot, flag) ==
    [source |-> source, id |-> id, day |-> day,
     start |-> slot.start, end |-> slot.end, conflict |-> flag]

PlaceRoutineDropped(placed, r, day) ==     \* slip: what fits nowhere is left out
    LET slot == [day |-> day, start |-> r.start, end |-> r.end]
        room == FindFreeSlot(day, r.end - r.start, placed)
    IN CASE ~HasConflict(slot, placed) ->
              Append(placed, LifeBlock("routine", r.id, day, slot, FALSE))
         [] HasConflict(slot, placed) /\ r.flexible /\ room # NoRoom ->
              Append(placed, LifeBlock("routine", r.id, day, room, FALSE))
         [] OTHER -> placed

PlaceRoutine(placed, r, day) ==
    LET slot == [day |-> day, start |-> r.start, end |-> r.end]
        room == FindFreeSlot(day, r.end - r.start, placed)
    IN CASE ~HasConflict(slot, placed) ->
              Append(placed, LifeBlock("routine", r.id, day, slot, FALSE))
         [] HasConflict(slot, placed) /\ r.flexible /\ room # NoRoom ->
              Append(placed, LifeBlock("routine", r.id, day, room, FALSE))
         [] OTHER ->
              Append(placed, LifeBlock("routine", r.id, day, slot, TRUE))

LayerRoutine(placed, r) ==
    LET layered[k \in 0..Len(r.days)] ==
          IF k = 0 THEN placed ELSE PlaceRoutine(layered[k - 1], r, r.days[k])
    IN layered

LayerRoutines(fixed, routines) ==
    LET layered[k \in 0..Len(routines)] ==
          IF k = 0
          THEN [i \in DOMAIN fixed |->
                  LifeBlock(fixed[i].source, fixed[i].id, fixed[i].day, fixed[i], FALSE)]
          ELSE LayerRoutine(layered[k - 1], routines[k])[Len(routines[k].days)]
    IN layered

BuildLifeSchedule(fixed, routines) == LayerRoutines(fixed, routines)[Len(routines)]
=============================================================================
