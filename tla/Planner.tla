------------------------------- MODULE Planner -------------------------------
(***************************************************************************)
(* One user's planning: the study plan (app/litheral/study/service.py),    *)
(* the life schedule layered over it (app/litheral/life/service.py), the   *)
(* timetable and the routines both are made from, and the conflict push of *)
(* app/notifications/service.py.                                           *)
(*                                                                         *)
(* Requests of the user (several tabs, a retried call) run at the same     *)
(* time, and every read and write of MongoDB and Redis is a step of its    *)
(* own.  The usage cap around each call is the module UsageCap and leaves  *)
(* this state alone; a call that it refuses has no effect here.            *)
(***************************************************************************)
EXTENDS StudySolver, LifeSolver, FiniteSets

CONSTANTS Handlers,         \* calls that may run at the same time
          Entries,          \* timetable entries a create may make: [subject, day, start, end]
          Patches,          \* what a PATCH may turn an entry into
          RoutineLists,     \* the lists of routines a user may have
          Bodies,           \* the subjects a generate call may name: sequences
          MaxEntries,       \* bound on the timetable
          MaxEdits,         \* bound on the edits of timetable and routines
          MaxCalls,         \* bound on the calls
          MaxFaults         \* bound on calls, queues and Redis failing

ASSUME PlannerAssumption == {MaxEntries, MaxEdits, MaxCalls, MaxFaults} \subseteq Nat

VARIABLES timetable,    \* timetable_entries of the user
          routines,
          docs,         \* study_plans and life_schedule_blocks: sets of [id, block]
          call,         \* what each handler is doing
          deduped,      \* whether the Redis key of the conflict push exists
          pushes,       \* history: pushes enqueued since the key last expired
          mixed,        \* history: stores last written by a call that others ran into
          cut,          \* history: stores whose rewrite ended between its two steps
          wrote,        \* history: ids of the blocks of each store's last rewrite
          untold,       \* history: a push was lost to a fault
          edits, calls, faults

stores == <<docs, mixed, cut, wrote>>
inputs == <<timetable, routines, edits>>
telling == <<deduped, pushes, untold>>
vars == <<inputs, stores, call, telling, calls, faults>>

Store == {"study", "life"}

Idle == [pc |-> "idle"]

Init ==
    /\ timetable = {}
    /\ routines \in RoutineLists
    /\ docs = [s \in Store |-> {}]
    /\ call = [h \in Handlers |-> Idle]
    /\ deduped = FALSE
    /\ pushes = 0
    /\ mixed = [s \in Store |-> FALSE]
    /\ cut = [s \in Store |-> FALSE]
    /\ wrote = [s \in Store |-> {}]
    /\ untold = FALSE
    /\ edits = 0
    /\ calls = 0
    /\ faults = 0

Goto(h, r) == call' = [call EXCEPT ![h] = r]

Finish(h) == Goto(h, Idle)

Called(h) ==
    /\ call[h] = Idle
    /\ calls < MaxCalls
    /\ calls' = calls + 1

Fault == faults < MaxFaults /\ faults' = faults + 1

-----------------------------------------------------------------------------
(***************************************************************************)
(* The timetable and the routines: create, PATCH and delete of an entry;   *)
(* any change of a routine.                                                *)
(***************************************************************************)
Edit == edits < MaxEdits /\ edits' = edits + 1

CreateEntry ==
    /\ Edit
    /\ Cardinality(timetable) < MaxEntries
    /\ \E e \in Entries : timetable' = timetable \cup {e}
    /\ UNCHANGED <<routines, stores, call, telling, calls, faults>>

UpdateEntry ==
    /\ Edit
    /\ \E e \in timetable, f \in Patches : timetable' = (timetable \ {e}) \cup {f}
    /\ UNCHANGED <<routines, stores, call, telling, calls, faults>>

DeleteEntry ==
    /\ Edit
    /\ \E e \in timetable : timetable' = timetable \ {e}
    /\ UNCHANGED <<routines, stores, call, telling, calls, faults>>

EditRoutines ==
    /\ Edit
    /\ routines' \in RoutineLists
    /\ UNCHANGED <<timetable, stores, call, telling, calls, faults>>

Busy(entries) == {[day |-> e.day, start |-> e.start, end |-> e.end] : e \in entries}

-----------------------------------------------------------------------------
(***************************************************************************)
(* A step of h that writes the store: calls that rely on what the store    *)
(* held, a rewrite between its two steps or a regenerate that has listed   *)
(* the other blocks, are overtaken when that changes.                      *)
(***************************************************************************)
RewriteCuts(c, s, new) == c.pc = "insert" /\ c.store = s /\ new # docs[s]

OthersChange(c, s, new) ==
    /\ c.pc = "update" /\ s = "study"
    /\ {d \in new : d.id # c.doc.id} # {d \in docs[s] : d.id # c.doc.id}

Write(h, s, new, next) ==
    /\ docs' = [docs EXCEPT ![s] = new]
    /\ call' = [g \in Handlers |->
                  IF g = h THEN next
                  ELSE IF RewriteCuts(call[g], s, new) \/ OthersChange(call[g], s, new)
                       THEN [call[g] EXCEPT !.overtaken = TRUE]
                       ELSE call[g]]

(***************************************************************************)
(* replace_all_for_user of both repositories: delete_many, and insert_many *)
(* when there is something to insert.  The id of a block is the number of  *)
(* its call and its place in it.                                           *)
(***************************************************************************)
Rewrite(s, n, blocks) ==
    [pc |-> "delete", store |-> s, blocks |-> {[id |-> <<n, i>>, block |-> blocks[i]] : i \in DOMAIN blocks}]

Ids(new) == {d.id : d \in new}

Conflicting(new) == \E d \in new : d.block.conflict

DeleteAll(h) ==
    LET c == call[h] IN
    /\ c.pc = "delete"
    /\ Write(h, c.store, {},
             IF c.blocks = {} THEN Idle
             ELSE [pc |-> "insert", store |-> c.store, blocks |-> c.blocks, overtaken |-> FALSE])
    /\ mixed' = [mixed EXCEPT ![c.store] = FALSE]
    /\ cut' = [cut EXCEPT ![c.store] = FALSE]
    /\ wrote' = [wrote EXCEPT ![c.store] = Ids(c.blocks)]
    /\ UNCHANGED <<inputs, telling, calls, faults>>

InsertAll(h) ==
    LET c == call[h] IN
    /\ c.pc = "insert"
    /\ Write(h, c.store, docs[c.store] \cup c.blocks,
             IF c.store = "life" /\ Conflicting(c.blocks) THEN [pc |-> "dedup"] ELSE Idle)
    /\ mixed' = [mixed EXCEPT ![c.store] = @ \/ c.overtaken]
    /\ cut' = [cut EXCEPT ![c.store] = FALSE]
    /\ wrote' = [wrote EXCEPT ![c.store] = Ids(c.blocks)]
    /\ UNCHANGED <<inputs, telling, calls, faults>>

-----------------------------------------------------------------------------
(***************************************************************************)
(* _resolve_subjects: those of the body, else those of the timetable in    *)
(* the order they are first seen.                                          *)
(***************************************************************************)
ResolveSubjects(body, entries) ==
    LET before(e, f) == e.day < f.day \/ (e.day = f.day /\ e.start < f.start)
        seen == SetToSortSeq(entries, before)
        first(i) == \A j \in 1..(i - 1) : seen[j].subject # seen[i].subject
        order == SetToSortSeq({i \in DOMAIN seen : first(i)}, <)
    IN IF body # <<>> THEN body
       ELSE [k \in DOMAIN order |-> [name |-> seen[order[k]].subject, priority |-> 0, exam |-> NoExam]]

\* LitheralStudyService.generate, up to the rewrite of the plan.
GenerateStudy(h) ==
    /\ Called(h)
    /\ \E body \in Bodies :
         Goto(h, Rewrite("study", calls',
                   GenerateStudyBlocks(Busy(timetable), ResolveSubjects(body, timetable))))
    /\ UNCHANGED <<inputs, stores, telling, faults>>

(***************************************************************************)
(* regenerate_block: find the block, read the timetable, list the other    *)
(* blocks and choose, update the block by its id.  No slot is a Conflict;  *)
(* an update of a block that is gone changes nothing, and the call ends in *)
(* an error after it was counted as a success.                             *)
(***************************************************************************)
RegenerateFind(h) ==
    /\ Called(h)
    /\ \E d \in docs["study"] : Goto(h, [pc |-> "classes", doc |-> d])
    /\ UNCHANGED <<inputs, stores, telling, faults>>

RegenerateRead(h) ==
    /\ call[h].pc = "classes"
    /\ Goto(h, [pc |-> "others", doc |-> call[h].doc, busy |-> Busy(timetable)])
    /\ UNCHANGED <<inputs, stores, telling, calls, faults>>

OtherBlocksOwn(doc) ==     \* slip: blocks of the same subject are not avoided
    {[day |-> d.block.day, start |-> d.block.start, end |-> d.block.end] :
       d \in {e \in docs["study"] : e.block.subject # doc.block.subject}}

OtherBlocks(doc) ==
    {[day |-> d.block.day, start |-> d.block.start, end |-> d.block.end] :
       d \in {e \in docs["study"] : e.id # doc.id}}

RegenerateChoose(h) ==
    LET doc == call[h].doc
        slot == FindReplacementSlot(call[h].busy, OtherBlocks(doc), doc.block.day, doc.block.start)
    IN /\ call[h].pc = "others"
       /\ IF slot = NoSlot THEN Finish(h)
          ELSE Goto(h, [pc |-> "update", doc |-> doc, slot |-> slot, overtaken |-> FALSE])
       /\ UNCHANGED <<inputs, stores, telling, calls, faults>>

Moved(doc, slot) ==
    [doc EXCEPT !.block = [doc.block EXCEPT !.start = slot.start, !.end = slot.end]]

RegenerateUpsert(h) ==     \* slip: a block that is gone is written again
    LET c == call[h]
        plan == docs["study"]
    IN /\ c.pc = "update"
       /\ Write(h, "study", {d \in plan : d.id # c.doc.id} \cup {Moved(c.doc, c.slot)}, Idle)
       /\ mixed' = [mixed EXCEPT !["study"] = @ \/ c.overtaken]
       /\ UNCHANGED <<inputs, cut, wrote, telling, calls, faults>>

RegenerateUpdate(h) ==
    LET c == call[h]
        plan == docs["study"]
    IN /\ c.pc = "update"
       /\ IF \E d \in plan : d.id = c.doc.id
          THEN /\ Write(h, "study", {d \in plan : d.id # c.doc.id} \cup {Moved(c.doc, c.slot)}, Idle)
               /\ mixed' = [mixed EXCEPT !["study"] = @ \/ c.overtaken]
          ELSE Finish(h) /\ UNCHANGED <<docs, mixed>>
       /\ UNCHANGED <<inputs, cut, wrote, telling, calls, faults>>

-----------------------------------------------------------------------------
(***************************************************************************)
(* LitheralLifeService._run, behind generate and adjust: three reads, the  *)
(* layering and the rewrite of the schedule.                               *)
(***************************************************************************)
LifeRead(h) ==
    /\ Called(h)
    /\ Goto(h, [pc |-> "plan", busy |-> Busy(timetable), number |-> calls'])
    /\ UNCHANGED <<inputs, stores, telling, faults>>

LifeReadPlan(h) ==
    /\ call[h].pc = "plan"
    /\ Goto(h, [pc |-> "routines", number |-> call[h].number, fixed |->
           {[source |-> "class", id |-> "class", day |-> b.day, start |-> b.start, end |-> b.end] :
              b \in call[h].busy}
         \cup
           {[source |-> "study", id |-> "study", day |-> d.block.day,
             start |-> d.block.start, end |-> d.block.end] : d \in docs["study"]}])
    /\ UNCHANGED <<inputs, stores, telling, calls, faults>>

LifeLayer(h) ==
    /\ call[h].pc = "routines"
    /\ Goto(h, Rewrite("life", call[h].number,
                 BuildLifeSchedule(SetToSeq(call[h].fixed), routines)))
    /\ UNCHANGED <<inputs, stores, telling, calls, faults>>

(***************************************************************************)
(* notify_life_schedule_conflict: SET NX with a time to live, which lets   *)
(* the push through when Redis fails; then the enqueue, whose failure is   *)
(* only logged.                                                            *)
(***************************************************************************)
DedupOrSkipRead(h) ==      \* slip: the key is looked up and never set
    /\ call[h].pc = "dedup"
    /\ IF deduped THEN Finish(h) ELSE Goto(h, [pc |-> "tell"])
    /\ UNCHANGED <<inputs, stores, telling, calls, faults>>

DedupOrSkip(h) ==
    /\ call[h].pc = "dedup"
    /\ IF deduped THEN Finish(h) ELSE Goto(h, [pc |-> "tell"])
    /\ deduped' = TRUE
    /\ UNCHANGED <<inputs, stores, pushes, untold, calls, faults>>

DedupFailsOpen(h) ==
    /\ call[h].pc = "dedup"
    /\ Fault
    /\ Goto(h, [pc |-> "tell"])
    /\ UNCHANGED <<inputs, stores, telling, calls>>

EnqueuePush(h) ==
    /\ call[h].pc = "tell"
    /\ pushes' = pushes + 1
    /\ Finish(h)
    /\ UNCHANGED <<inputs, stores, deduped, untold, calls, faults>>

EnqueueFails(h) ==
    /\ call[h].pc = "tell"
    /\ Fault
    /\ untold' = TRUE
    /\ Finish(h)
    /\ UNCHANGED <<inputs, stores, deduped, pushes, calls>>

DedupExpires ==
    /\ deduped
    /\ \A h \in Handlers : call[h].pc # "tell"
    /\ deduped' = FALSE
    /\ pushes' = 0
    /\ UNCHANGED <<inputs, stores, call, untold, calls, faults>>

-----------------------------------------------------------------------------
\* A call ends between two steps: an exception, or a process that dies.
CallFails(h) ==
    /\ call[h] # Idle
    /\ Fault
    /\ cut' = [s \in Store |-> cut[s] \/ (call[h].pc = "insert" /\ call[h].store = s)]
    /\ untold' = (untold \/ call[h].pc \in {"dedup", "tell"})
    /\ Finish(h)
    /\ UNCHANGED <<inputs, docs, mixed, wrote, deduped, pushes, calls>>

Next ==
    \/ CreateEntry \/ UpdateEntry \/ DeleteEntry \/ EditRoutines \/ DedupExpires
    \/ \E h \in Handlers :
         \/ GenerateStudy(h) \/ DeleteAll(h) \/ InsertAll(h)
         \/ RegenerateFind(h) \/ RegenerateRead(h) \/ RegenerateChoose(h) \/ RegenerateUpdate(h)
         \/ LifeRead(h) \/ LifeReadPlan(h) \/ LifeLayer(h)
         \/ DedupOrSkip(h) \/ DedupFailsOpen(h) \/ EnqueuePush(h) \/ EnqueueFails(h)
         \/ CallFails(h)

Spec == Init /\ [][Next]_vars

-----------------------------------------------------------------------------
(***************************************************************************)
(* The blocks of the study plan never overlap, whatever the timetable      *)
(* became meanwhile, unless the last write was by a call that another one  *)
(* overtook (the comment of app/litheral/life/solver.py, lines 76 to 78,   *)
(* relies on it).                                                          *)
(***************************************************************************)
PlanDisjoint ==
    \A d, e \in docs["study"] :
      d # e /\ d.block.day = e.block.day =>
        ~Overlaps(d.block, e.block) \/ mixed["study"]

(***************************************************************************)
(* Each store holds the blocks of one rewrite, all of them, unless the     *)
(* rewrite is under way, ended half way, or was overtaken by another: no   *)
(* regenerate adds a block or brings one back.                             *)
(***************************************************************************)
StoresWhole ==
    \A s \in Store :
      \/ /\ Ids(docs[s]) = wrote[s]
         /\ \A d, e \in docs[s] : d.id[1] = e.id[1] /\ (d.id = e.id => d = e)
      \/ mixed[s] \/ cut[s]
      \/ \E h \in Handlers : call[h].pc = "insert" /\ call[h].store = s

(***************************************************************************)
(* One push per window, and not none: a second push before the key expires *)
(* takes a fault of Redis, and the key that silences later calls is there  *)
(* only after a push, before one, or when a fault lost it.                 *)
(***************************************************************************)
TellsOnce ==
    /\ pushes <= 1 + faults
    /\ deduped => \/ pushes > 0 \/ untold
                  \/ \E h \in Handlers : call[h].pc = "tell"
=============================================================================
