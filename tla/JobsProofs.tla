----------------------------- MODULE JobsProofs -----------------------------
(***************************************************************************)
(* Proofs about Jobs, for any mails, pushes, users and devices, any limits *)
(* on the attempts and any number of dying workers.                        *)
(***************************************************************************)
EXTENDS Jobs, TLAPS

(***************************************************************************)
(* The inductive invariant, job by job.                                    *)
(*                                                                         *)
(* DroppedAfterDeaths is about the end of a job whose attempts went wrong; *)
(* DeathsCounted follows the count of the deaths along every attempt.      *)
(***************************************************************************)
LastsLost(n) == IF n < MaxTries THEN 0 ELSE n - MaxTries + 1

DeathsCounted(j) ==
    /\ status[j] = "new" => tries[j] = 0 /\ deaths[j] = 0
    /\ status[j] = "queued" => tries[j] <= QueueTries /\ deaths[j] = LastsLost(tries[j])
    /\ status[j] = "running" =>
         tries[j] \in 1..QueueTries /\ deaths[j] = LastsLost(tries[j] - 1)
    /\ status[j] = "dropped" => deaths[j] = LastsLost(QueueTries)

(***************************************************************************)
(* What an attempt relies on when it calls the job done: a stored marker   *)
(* stands for a mail that was accepted, and unless a push failed every     *)
(* listed device that is not in hand any more was reached or is dead.      *)
(***************************************************************************)
MailMet(j) ==
    /\ run[j].pc = "mail" => token[j] # "sent"
    /\ run[j].pc \in {"mail", "mark"} => listed[j] = {Inbox}
    /\ run[j].pc = "mark" => Inbox \in met[j]
    /\ token[j] = "sent" => Inbox \in met[j]

OwnOrMoved(j, d) == owner[d] = Recipient[j] \/ d \in moved[j]

PushMet(j) ==
    run[j].pc \in {"push", "prune"} =>
      /\ run[j].todo \subseteq listed[j]
      /\ run[j].flaky \/ listed[j] \ run[j].todo \subseteq met[j]
      /\ \A d \in run[j].todo : OwnOrMoved(j, d)

DoneMet(j) ==
    run[j].pc = "finish" /\ run[j].result = "done" => listed[j] \subseteq met[j]

JobInv(j) == /\ DeathsCounted(j)
             /\ DoneMet(j)
             /\ j \in EmailJobs => MailMet(j)
             /\ j \in PushJobs => PushMet(j)

IInv == TypeOK /\ \A j \in Job : JobInv(j)

-----------------------------------------------------------------------------
Status == {"new", "queued", "running", "done", "dead", "dropped", "failed", "lost"}

PushState == [pc: {"push"}, todo: (SUBSET Devices) \ {{}}, flaky: BOOLEAN]

PruneState == [pc: {"prune"}, todo: SUBSET Devices, flaky: BOOLEAN, device: Devices]

FinishState == [pc: {"finish"}, result: {"done", "dead"}]

RunState == {Idle} \cup [pc: {"lookup", "mail", "mark"}] \cup PushState \cup PruneState \cup FinishState

\* What the record of an attempt holds at each point of the job's program.
LEMMA RunShape ==
  ASSUME TypeOK, NEW j \in Job
  PROVE  /\ run[j] \in RunState /\ status[j] \in Status
         /\ run[j].pc = "idle" <=> run[j] = Idle
         /\ run[j] # Idle <=> status[j] = "running"
         /\ run[j].pc \in {"push", "prune"} => run[j].todo \subseteq Devices /\ run[j].flaky \in BOOLEAN
         /\ run[j].pc = "push" => run[j].todo # {}
         /\ run[j].pc = "prune" => run[j].device \in Devices
         /\ run[j].pc = "finish" => run[j].result \in {"done", "dead"}
<1>1. /\ run[j] \in RunState /\ status[j] \in Status
      /\ run[j] # Idle <=> status[j] = "running"
  BY DEF TypeOK, RunState, PushState, PruneState, FinishState, Status
<1>2. run[j].pc = "idle" <=> run[j] = Idle
  BY <1>1 DEF RunState, PushState, PruneState, FinishState, Idle
<1>3. run[j].pc = "push" => run[j] \in PushState
  BY <1>1 DEF RunState, PushState, PruneState, FinishState, Idle
<1>4. run[j].pc = "prune" => run[j] \in PruneState
  BY <1>1 DEF RunState, PushState, PruneState, FinishState, Idle
<1>5. run[j].pc = "finish" => run[j] \in FinishState
  BY <1>1 DEF RunState, PushState, PruneState, FinishState, Idle
<1>6. QED
  BY <1>1, <1>2, <1>3, <1>4, <1>5 DEF PushState, PruneState, FinishState

\* TypeOK of the queue's variables, and of the others.
QueueTyped ==
    /\ status \in [Job -> Status]
    /\ tries \in [Job -> 0..(QueueTries + 1)]
    /\ run \in [Job -> RunState]
    /\ \A j \in Job : run[j] # Idle <=> status[j] = "running"

RestTyped ==
    /\ token \in [EmailJobs -> {"unsent", "sent", "gone"}]
    /\ owner \in [Devices -> Users \cup {NoUser}]
    /\ alive \in [Devices -> BOOLEAN]
    /\ moves \in 0..MaxMoves
    /\ moved \in [PushJobs -> SUBSET Devices]

HistoryTyped ==
    /\ listed \in [Job -> SUBSET Target]
    /\ met \in [Job -> SUBSET Target]
    /\ deaths \in [Job -> 0..QueueTries]

LEMMA Typed == TypeOK <=> QueueTyped /\ RestTyped /\ HistoryTyped
BY DEF TypeOK, QueueTyped, RestTyped, HistoryTyped, Status, RunState, PushState, PruneState,
   FinishState

LEMMA TypedNext == QueueTyped' /\ RestTyped' /\ HistoryTyped' => TypeOK'
BY DEF TypeOK, QueueTyped, RestTyped, HistoryTyped, Status, RunState, PushState, PruneState,
   FinishState

LEMMA JobParts ==
  /\ \A j \in EmailJobs : j \in Job /\ j \notin PushJobs
  /\ \A j \in PushJobs : j \in Job /\ j \notin EmailJobs /\ Recipient[j] \in Users
  /\ QueueTries \in Nat /\ MaxTries \in Nat /\ 1 <= MaxTries /\ MaxTries <= QueueTries
  /\ Devices \subseteq Target /\ Inbox \in Target
BY JobsAssumption DEF Job, Target

\* A step of an attempt, and the end of one.
LEMMA GotoJob ==
  ASSUME TypeOK, NEW j \in Job, NEW r \in RunState, r # Idle, status[j] = "running",
         Goto(j, r), tries' = tries
  PROVE  /\ QueueTyped'
         /\ run'[j] = r /\ status' = status
         /\ \A k \in Job : k # j => run'[k] = run[k]
<1>1. run \in [Job -> RunState] /\ run' = [run EXCEPT ![j] = r] /\ status' = status
  BY Typed DEF QueueTyped, Goto
<1>2. /\ run' \in [Job -> RunState] /\ run'[j] = r
      /\ \A k \in Job : k # j => run'[k] = run[k]
  BY <1>1
<1>3. QED
  BY <1>1, <1>2, Typed DEF QueueTyped

LEMMA LeaveJob ==
  ASSUME TypeOK, NEW j \in Job, NEW s \in Status \ {"running"}, Leave(j, s), tries' = tries
  PROVE  /\ QueueTyped'
         /\ run'[j] = Idle /\ Idle.pc = "idle" /\ status'[j] = s
         /\ \A k \in Job : k # j => run'[k] = run[k] /\ status'[k] = status[k]
<1>1. /\ run \in [Job -> RunState] /\ run' = [run EXCEPT ![j] = Idle]
      /\ status \in [Job -> Status] /\ status' = [status EXCEPT ![j] = s]
      /\ Idle \in RunState /\ Idle.pc = "idle"
  BY Typed DEF QueueTyped, Leave, RunState, Idle
<1>2. /\ run' \in [Job -> RunState] /\ run'[j] = Idle
      /\ status' \in [Job -> Status] /\ status'[j] = s
      /\ \A k \in Job : k # j => run'[k] = run[k] /\ status'[k] = status[k]
  BY <1>1
<1>3. QED
  BY <1>1, <1>2, Typed DEF QueueTyped

\* The jobs that a step is not about keep their invariant.
LEMMA OthersKeep ==
  ASSUME NEW k \in Job, JobInv(k),
         status'[k] = status[k], tries'[k] = tries[k], run'[k] = run[k],
         listed'[k] = listed[k], met'[k] = met[k], deaths'[k] = deaths[k],
         k \in EmailJobs => token'[k] = token[k] \/ token'[k] = "gone",
         k \in PushJobs => \A d \in run[k].todo : OwnOrMoved(k, d) => OwnOrMoved(k, d)'
  PROVE  JobInv(k)'
BY DEF JobInv, DeathsCounted, DoneMet, MailMet, PushMet

LEMMA InitIInv == Init => IInv
<1> SUFFICES ASSUME Init PROVE IInv
  OBVIOUS
<1>1. QueueTyped /\ RestTyped /\ HistoryTyped
  BY JobParts, JobsAssumption DEF Init, QueueTyped, RestTyped, HistoryTyped, Status, RunState
<1>2. \A j \in Job : JobInv(j)
  BY DEF Init, JobInv, DeathsCounted, DoneMet, MailMet, PushMet, Idle
<1>3. QED
  BY <1>1, <1>2, Typed DEF IInv

-----------------------------------------------------------------------------
(***************************************************************************)
(* The steps of the queue.                                                 *)
(***************************************************************************)
LEMMA EnqueueStep ==
  ASSUME IInv, NEW j \in Job, Enqueue(j)
  PROVE  IInv'
<1>1. PICK s \in {"queued", "lost"} : status' = [status EXCEPT ![j] = s]
  BY DEF Enqueue
<1>2. /\ TypeOK /\ status[j] = "new" /\ tries[j] = 0 /\ deaths[j] = 0 /\ run[j] = Idle
      /\ UNCHANGED <<tries, run, token, deviceVars, moved, listed, met, deaths>>
  BY RunShape DEF IInv, JobInv, DeathsCounted, Enqueue
<1>3. /\ status' \in [Job -> Status] /\ status'[j] = s
      /\ \A k \in Job : k # j => status'[k] = status[k]
  BY <1>1, <1>2, Typed DEF QueueTyped, Status
<1>4. TypeOK'
  BY <1>2, <1>3, Typed, TypedNext DEF QueueTyped, RestTyped, HistoryTyped, deviceVars
<1>5. JobInv(j)'
  BY <1>2, <1>3, JobParts DEF IInv, JobInv, DeathsCounted, DoneMet, MailMet, PushMet, LastsLost,
     OwnOrMoved, deviceVars
<1>6. \A k \in Job : k # j => JobInv(k)'
  BY <1>2, <1>3, OthersKeep DEF IInv, OwnOrMoved, deviceVars
<1>7. QED
  BY <1>4, <1>5, <1>6 DEF IInv

LEMMA BeginStep ==
  ASSUME IInv, NEW j \in Job, Begin(j)
  PROVE  IInv'
<1>1. /\ TypeOK /\ status[j] = "queued" /\ run[j] = Idle /\ Idle.pc = "idle"
      /\ tries[j] \in Nat /\ tries[j] <= QueueTries /\ deaths[j] = LastsLost(tries[j])
      /\ UNCHANGED <<token, deviceVars, moved, listed, met, deaths>>
  BY RunShape, Typed, JobParts DEF IInv, JobInv, DeathsCounted, Begin, QueueTyped, Idle
<1>2. /\ tries' \in [Job -> 0..(QueueTries + 1)] /\ tries'[j] = tries[j] + 1
      /\ \A k \in Job : k # j => tries'[k] = tries[k]
  BY <1>1, Typed, JobParts DEF QueueTyped, Begin
<1>3. CASE TooMany(tries[j] + 1)
  <2>1. status' = [status EXCEPT ![j] = "dropped"] /\ run' = run /\ tries[j] = QueueTries
    BY <1>1, <1>3, JobParts DEF Begin, TooMany
  <2>2. /\ status' \in [Job -> Status] /\ status'[j] = "dropped"
        /\ \A k \in Job : k # j => status'[k] = status[k]
    BY <2>1, <1>1, Typed DEF QueueTyped, Status
  <2>3. TypeOK'
    BY <1>1, <1>2, <2>1, <2>2, Typed, TypedNext DEF QueueTyped, RestTyped, HistoryTyped, deviceVars
  <2>4. JobInv(j)'
    BY <1>1, <2>1, <2>2, JobParts DEF IInv, JobInv, DeathsCounted, DoneMet, MailMet, PushMet
  <2>5. \A k \in Job : k # j => JobInv(k)'
    BY <1>1, <1>2, <2>1, <2>2, OthersKeep DEF IInv, OwnOrMoved, deviceVars
  <2>6. QED
    BY <2>3, <2>4, <2>5 DEF IInv
<1>4. CASE ~ TooMany(tries[j] + 1)
  <2>1. /\ status' = [status EXCEPT ![j] = "running"]
        /\ run' = [run EXCEPT ![j] = [pc |-> "lookup"]]
        /\ tries[j] + 1 \in 1..QueueTries
    BY <1>1, <1>4, JobParts DEF Begin, TooMany
  <2>2. /\ status' \in [Job -> Status] /\ status'[j] = "running"
        /\ \A k \in Job : k # j => status'[k] = status[k]
    BY <2>1, <1>1, Typed DEF QueueTyped, Status
  <2>3. /\ run' \in [Job -> RunState] /\ run'[j] # Idle /\ run'[j].pc = "lookup"
        /\ \A k \in Job : k # j => run'[k] = run[k]
    BY <2>1, <1>1, Typed DEF QueueTyped, RunState, Idle
  <2>4. TypeOK'
    BY <1>1, <1>2, <2>2, <2>3, Typed, TypedNext DEF QueueTyped, RestTyped, HistoryTyped, deviceVars
  <2>5. JobInv(j)'
    <3>1. tries'[j] - 1 = tries[j]
      BY <1>1, <1>2
    <3>2. QED
      BY <1>1, <1>2, <2>1, <2>2, <2>3, <3>1
         DEF IInv, JobInv, DeathsCounted, DoneMet, MailMet, PushMet, LastsLost
  <2>6. \A k \in Job : k # j => JobInv(k)'
    BY <1>1, <1>2, <2>2, <2>3, OthersKeep DEF IInv, OwnOrMoved, deviceVars
  <2>7. QED
    BY <2>4, <2>5, <2>6 DEF IInv
<1>5. QED
  BY <1>3, <1>4

(***************************************************************************)
(* Attempts that end: the job is settled, or goes back to the queue with   *)
(* its deaths counted.                                                     *)
(***************************************************************************)
LEMMA LeaveAny ==
  ASSUME IInv, NEW j \in Job, NEW s \in Status \ {"running", "new", "dropped"}, Leave(j, s),
         UNCHANGED <<tries, token>>,
         RestTyped', HistoryTyped',
         met[j] \subseteq met'[j],
         \A k \in Job : k # j =>
            met'[k] = met[k] /\ listed'[k] = listed[k] /\ deaths'[k] = deaths[k],
         \A k \in PushJobs, d \in Devices : k # j /\ OwnOrMoved(k, d) => OwnOrMoved(k, d)',
         s = "queued" => tries[j] <= QueueTries /\ deaths'[j] = LastsLost(tries[j])
  PROVE  IInv'
<1>0. TypeOK
  BY DEF IInv
<1>1. /\ QueueTyped' /\ run'[j].pc = "idle" /\ status'[j] = s
      /\ \A k \in Job : k # j => run'[k] = run[k] /\ status'[k] = status[k]
  BY <1>0, LeaveJob
<1>2. TypeOK'
  BY <1>1, TypedNext
<1>3. JobInv(j)'
  BY <1>1 DEF IInv, JobInv, DeathsCounted, DoneMet, MailMet, PushMet, LastsLost
<1>4. ASSUME NEW k \in Job, k # j PROVE JobInv(k)'
  <2>1. JobInv(k)
    BY DEF IInv
  <2>2. CASE run[k].pc \in {"push", "prune"}
    <3>1. \A d \in run[k].todo : d \in Devices
      BY <1>0, <2>2, RunShape
    <3>2. QED
      BY <1>1, <1>4, <2>1, <3>1, OthersKeep
  <2>3. CASE run[k].pc \notin {"push", "prune"}
    BY <1>1, <1>4, <2>1, <2>3 DEF JobInv, DeathsCounted, DoneMet, MailMet, PushMet
  <2>4. QED
    BY <2>2, <2>3
<1>5. QED
  BY <1>2, <1>3, <1>4 DEF IInv

LEMMA LeaveStep ==
  ASSUME IInv, NEW j \in Job, NEW s \in Status \ {"running", "new", "dropped"}, Leave(j, s),
         UNCHANGED <<tries, token, deviceVars, moved, listed>>,
         HistoryTyped',
         met[j] \subseteq met'[j],
         \A k \in Job : k # j => met'[k] = met[k] /\ deaths'[k] = deaths[k],
         s = "queued" => tries[j] <= QueueTries /\ deaths'[j] = LastsLost(tries[j])
  PROVE  IInv'
<1>1. RestTyped'
  BY Typed DEF IInv, RestTyped, deviceVars
<1>2. \A k \in PushJobs, d \in Devices : OwnOrMoved(k, d) => OwnOrMoved(k, d)'
  BY DEF OwnOrMoved, deviceVars
<1>3. QED
  BY <1>1, <1>2, LeaveAny

LEMMA FinishStep ==
  ASSUME IInv, NEW j \in Job, Finish(j)
  PROVE  IInv'
<1>1. TypeOK /\ run[j].result \in {"done", "dead"}
  BY RunShape DEF IInv, Finish
<1>2. HistoryTyped'
  BY <1>1, Typed DEF HistoryTyped, Finish
<1>3. QED
  BY <1>1, <1>2, LeaveStep DEF Finish, Status

LEMMA StoreFailsStep ==
  ASSUME IInv, NEW j \in Job, StoreFails(j)
  PROVE  IInv'
<1>1. HistoryTyped'
  BY Typed DEF IInv, HistoryTyped, StoreFails
<1>2. QED
  BY <1>1, LeaveStep DEF StoreFails, Status

LEMMA WorkerDiesStep ==
  ASSUME IInv, NEW j \in Job, WorkerDies(j)
  PROVE  IInv'
<1>1. /\ TypeOK /\ status[j] = "running" /\ tries[j] \in 1..QueueTries
      /\ deaths[j] = LastsLost(tries[j] - 1)
      /\ UNCHANGED <<tries, token, deviceVars, moved, listed, met>>
      /\ deaths' = [deaths EXCEPT ![j] = IF tries[j] >= MaxTries THEN deaths[j] + 1 ELSE deaths[j]]
  BY DEF IInv, JobInv, DeathsCounted, WorkerDies
<1>2. /\ (IF tries[j] >= MaxTries THEN deaths[j] + 1 ELSE deaths[j]) = LastsLost(tries[j])
      /\ LastsLost(tries[j]) \in 0..QueueTries
  BY <1>1, JobParts DEF LastsLost
<1>3. /\ deaths' \in [Job -> 0..QueueTries] /\ deaths'[j] = LastsLost(tries[j])
      /\ \A k \in Job : k # j => deaths'[k] = deaths[k]
  BY <1>1, <1>2, Typed DEF HistoryTyped
<1>4. HistoryTyped' /\ tries[j] <= QueueTries
  BY <1>1, <1>3, Typed, JobParts DEF HistoryTyped
<1>5. QED
  BY <1>1, <1>3, <1>4, LeaveStep DEF WorkerDies, Status

\* A failed send before the last attempt goes back to the queue; deaths are
\* counted from the last attempt on, so there are none.
LEMMA RetryCounted ==
  ASSUME IInv, NEW j \in Job, status[j] = "running", tries[j] < MaxTries
  PROVE  tries[j] <= QueueTries /\ deaths[j] = LastsLost(tries[j])
<1>1. tries[j] \in 1..QueueTries /\ deaths[j] = LastsLost(tries[j] - 1)
  BY DEF IInv, JobInv, DeathsCounted
<1>2. QED
  BY <1>1, JobParts DEF LastsLost

(***************************************************************************)
(* A step within an attempt.                                               *)
(***************************************************************************)
LEMMA GotoStep ==
  ASSUME IInv, NEW j \in Job, NEW r \in RunState, r # Idle, run[j] # Idle, Goto(j, r),
         UNCHANGED <<tries, deaths>>,
         RestTyped', HistoryTyped',
         DoneMet(j)', j \in EmailJobs => MailMet(j)', j \in PushJobs => PushMet(j)',
         \A k \in Job : k # j => met'[k] = met[k] /\ listed'[k] = listed[k],
         \A k \in EmailJobs : k # j => token'[k] = token[k],
         \A k \in PushJobs, d \in Devices : k # j /\ OwnOrMoved(k, d) => OwnOrMoved(k, d)'
  PROVE  IInv'
<1>0. TypeOK /\ status[j] = "running"
  BY RunShape DEF IInv
<1>1. /\ QueueTyped' /\ run'[j] = r /\ status' = status
      /\ \A k \in Job : k # j => run'[k] = run[k]
  BY <1>0, GotoJob
<1>2. TypeOK'
  BY <1>1, TypedNext
<1>3. JobInv(j)'
  BY <1>1 DEF IInv, JobInv, DeathsCounted
<1>4. ASSUME NEW k \in Job, k # j PROVE JobInv(k)'
  <2>1. JobInv(k)
    BY DEF IInv
  <2>2. CASE run[k].pc \in {"push", "prune"}
    <3>1. \A d \in run[k].todo : d \in Devices
      BY <1>0, <2>2, RunShape
    <3>2. QED
      BY <1>1, <1>4, <2>1, <3>1, OthersKeep
  <2>3. CASE run[k].pc \notin {"push", "prune"}
    BY <1>1, <1>4, <2>1, <2>3 DEF JobInv, DeathsCounted, DoneMet, MailMet, PushMet
  <2>4. QED
    BY <2>2, <2>3
<1>5. QED
  BY <1>2, <1>3, <1>4 DEF IInv

-----------------------------------------------------------------------------
(***************************************************************************)
(* Mails.                                                                  *)
(***************************************************************************)
LEMMA LookupStep ==
  ASSUME IInv, NEW j \in EmailJobs, Lookup(j)
  PROVE  IInv'
<1>0. /\ TypeOK /\ j \in Job /\ j \notin PushJobs /\ run[j] # Idle /\ run[j].pc = "lookup"
      /\ token[j] = "sent" => Inbox \in met[j]
      /\ token[j] \in {"unsent", "sent", "gone"}
      /\ UNCHANGED <<tries, token, deviceVars, moved, met, deaths>>
  BY RunShape, JobParts, Typed DEF IInv, JobInv, MailMet, Lookup, RestTyped, Idle
<1>1. /\ listed' \in [Job -> SUBSET Target]
      /\ listed'[j] = (IF token[j] = "gone" THEN {} ELSE {Inbox})
      /\ \A k \in Job : k # j => listed'[k] = listed[k]
  BY <1>0, Typed, JobParts DEF HistoryTyped, Lookup
<1>2. RestTyped' /\ HistoryTyped'
  BY <1>0, <1>1, Typed DEF RestTyped, HistoryTyped, deviceVars
<1> DEFINE r == IF token[j] = "unsent" THEN [pc |-> "mail"] ELSE [pc |-> "finish", result |-> "done"]
<1>3. /\ Goto(j, r) /\ r \in RunState /\ r # Idle
      /\ token[j] = "unsent" => r.pc = "mail"
      /\ token[j] # "unsent" => r.pc = "finish"
  <2>1. CASE token[j] = "unsent"
    BY <2>1 DEF Lookup, RunState, Idle
  <2>2. CASE token[j] # "unsent"
    BY <2>2 DEF Lookup, Returns, RunState, FinishState, Idle
  <2>3. QED
    BY <2>1, <2>2
<1> HIDE DEF r
<1>4. run'[j] = r
  BY <1>0, <1>3, Typed DEF QueueTyped, Goto
<1>5. DoneMet(j)' /\ MailMet(j)'
  BY <1>0, <1>1, <1>3, <1>4 DEF DoneMet, MailMet
<1>6. QED
  BY <1>0, <1>1, <1>2, <1>3, <1>5, GotoStep DEF OwnOrMoved, deviceVars

LEMMA SendEmailStep ==
  ASSUME IInv, NEW j \in EmailJobs, SendEmail(j)
  PROVE  IInv'
<1>0. /\ TypeOK /\ j \in Job /\ j \notin PushJobs /\ run[j] # Idle /\ status[j] = "running"
      /\ listed[j] = {Inbox}
      /\ UNCHANGED <<tries, token, deviceVars, moved, listed, deaths>>
      /\ token[j] = "sent" => Inbox \in met[j]
  BY RunShape, JobParts DEF IInv, JobInv, MailMet, SendEmail, Idle
<1>1. /\ met' \in [Job -> SUBSET Target] /\ met[j] \subseteq met'[j]
      /\ \A k \in Job : k # j => met'[k] = met[k]
  BY <1>0, Typed, JobParts DEF HistoryTyped, SendEmail, MailAccepted
<1>2. RestTyped' /\ HistoryTyped'
  BY <1>0, <1>1, Typed DEF RestTyped, HistoryTyped, deviceVars
<1>3. CASE MailAccepted(j) /\ Goto(j, [pc |-> "mark"])
  <2>1. Inbox \in met'[j]
    BY <1>0, <1>3, Typed DEF HistoryTyped, MailAccepted
  <2>2. run'[j].pc = "mark" /\ [pc |-> "mark"] \in RunState /\ [pc |-> "mark"] # Idle
    BY <1>0, <1>3, Typed DEF QueueTyped, Goto, RunState, Idle
  <2>3. DoneMet(j)' /\ MailMet(j)'
    BY <1>0, <2>1, <2>2 DEF DoneMet, MailMet
  <2>4. QED
    BY <1>0, <1>1, <1>2, <1>3, <2>2, <2>3, GotoStep DEF OwnOrMoved, deviceVars
<1>4. CASE tries[j] >= MaxTries /\ Returns(j, "dead")
  <2> DEFINE r == [pc |-> "finish", result |-> "dead"]
  <2>1. Goto(j, r) /\ r \in RunState /\ r # Idle /\ r.pc = "finish" /\ r.result = "dead"
    BY <1>4 DEF Returns, RunState, FinishState, Idle
  <2> HIDE DEF r
  <2>2. run'[j] = r
    BY <1>0, <2>1, Typed DEF QueueTyped, Goto
  <2>3. DoneMet(j)' /\ MailMet(j)'
    BY <1>0, <1>1, <2>1, <2>2 DEF DoneMet, MailMet
  <2>4. QED
    BY <1>0, <1>1, <1>2, <2>1, <2>3, GotoStep DEF OwnOrMoved, deviceVars
<1>5. CASE ~(tries[j] >= MaxTries) /\ Leave(j, "queued")
  <2>1. tries[j] < MaxTries
    BY <1>0, <1>5, Typed, JobParts DEF QueueTyped
  <2>2. tries[j] <= QueueTries /\ deaths[j] = LastsLost(tries[j])
    BY <1>0, <2>1, RetryCounted
  <2>3. QED
    BY <1>0, <1>1, <1>2, <1>5, <2>2, LeaveStep DEF Status
<1>6. QED
  BY <1>3, <1>4, <1>5 DEF SendEmail, DeadLetterOrRetry

LEMMA MarkSentStep ==
  ASSUME IInv, NEW j \in EmailJobs, MarkSent(j)
  PROVE  IInv'
<1>0. /\ TypeOK /\ j \in Job /\ j \notin PushJobs /\ run[j] # Idle
      /\ listed[j] = {Inbox} /\ Inbox \in met[j]
      /\ UNCHANGED <<tries, deviceVars, moved, listed, met, deaths>>
  BY RunShape, JobParts DEF IInv, JobInv, MailMet, MarkSent, Idle
<1>1. /\ token' \in [EmailJobs -> {"unsent", "sent", "gone"}]
      /\ \A k \in EmailJobs : k # j => token'[k] = token[k]
  BY <1>0, Typed DEF RestTyped, MarkSent
<1>2. RestTyped' /\ HistoryTyped'
  BY <1>0, <1>1, Typed DEF RestTyped, HistoryTyped, deviceVars
<1> DEFINE r == [pc |-> "finish", result |-> "done"]
<1>3. Goto(j, r) /\ r \in RunState /\ r # Idle /\ r.pc = "finish"
  BY DEF MarkSent, Returns, RunState, FinishState, Idle
<1> HIDE DEF r
<1>4. run'[j] = r
  BY <1>0, <1>3, Typed DEF QueueTyped, Goto
<1>5. DoneMet(j)' /\ MailMet(j)'
  BY <1>0, <1>3, <1>4 DEF DoneMet, MailMet
<1>6. QED
  BY <1>0, <1>1, <1>2, <1>3, <1>5, GotoStep DEF OwnOrMoved, deviceVars

LEMMA TokenExpiresStep ==
  ASSUME IInv, NEW j \in EmailJobs, TokenExpires(j)
  PROVE  IInv'
<1>0. /\ TypeOK /\ UNCHANGED <<queueVars, deviceVars, moved, listed, met, deaths>>
      /\ token' = [token EXCEPT ![j] = "gone"]
  BY DEF IInv, TokenExpires
<1>1. /\ token' \in [EmailJobs -> {"unsent", "sent", "gone"}]
      /\ \A k \in EmailJobs : token'[k] = token[k] \/ token'[k] = "gone"
  BY <1>0, Typed DEF RestTyped
<1>2. TypeOK'
  BY <1>0, <1>1, Typed, TypedNext DEF QueueTyped, RestTyped, HistoryTyped, queueVars, deviceVars
<1>3. \A k \in Job : JobInv(k)'
  BY <1>0, <1>1, OthersKeep DEF IInv, OwnOrMoved, queueVars, deviceVars
<1>4. QED
  BY <1>2, <1>3 DEF IInv

-----------------------------------------------------------------------------
(***************************************************************************)
(* Pushes.                                                                 *)
(***************************************************************************)
LEMMA FanOutStep ==
  ASSUME IInv, NEW j \in PushJobs, NEW todo \in SUBSET Devices, NEW flaky \in BOOLEAN,
         run[j] # Idle, FanOut(j, todo, flaky),
         UNCHANGED <<tries, token, deaths>>,
         RestTyped', HistoryTyped',
         met[j] \subseteq met'[j],
         \A k \in Job : k # j => met'[k] = met[k] /\ listed'[k] = listed[k],
         \A k \in PushJobs, d \in Devices : k # j /\ OwnOrMoved(k, d) => OwnOrMoved(k, d)',
         todo \subseteq listed'[j],
         flaky \/ listed'[j] \ todo \subseteq met'[j],
         \A d \in todo : OwnOrMoved(j, d)'
  PROVE  IInv'
<1>0. TypeOK /\ j \in Job /\ j \notin EmailJobs /\ status[j] = "running"
  BY RunShape, JobParts DEF IInv
<1>1. CASE todo # {}
  <2> DEFINE r == [pc |-> "push", todo |-> todo, flaky |-> flaky]
  <2>1. Goto(j, r) /\ r.pc = "push" /\ r.todo = todo /\ r.flaky = flaky
    BY <1>1 DEF FanOut
  <2>2. r \in RunState /\ r # Idle
    BY <1>1 DEF RunState, PushState, Idle
  <2> HIDE DEF r
  <2>3. run'[j] = r
    BY <1>0, <2>1, <2>2, Typed DEF QueueTyped, Goto
  <2>4. DoneMet(j)' /\ PushMet(j)'
    BY <2>1, <2>3 DEF DoneMet, PushMet
  <2>5. QED
    BY <1>0, <2>1, <2>2, <2>4, GotoStep
<1>2. ASSUME NEW result \in {"done", "dead"}, Returns(j, result),
             result = "done" => listed'[j] \subseteq met'[j]
      PROVE  IInv'
  <2> DEFINE r == [pc |-> "finish", result |-> result]
  <2>1. Goto(j, r) /\ r \in RunState /\ r # Idle /\ r.pc = "finish" /\ r.result = result
    BY <1>2 DEF Returns, RunState, FinishState, Idle
  <2> HIDE DEF r
  <2>2. run'[j] = r
    BY <1>0, <2>1, Typed DEF QueueTyped, Goto
  <2>3. DoneMet(j)' /\ PushMet(j)'
    BY <1>2, <2>1, <2>2 DEF DoneMet, PushMet
  <2>4. QED
    BY <1>0, <2>1, <2>3, GotoStep
<1>3. CASE todo = {} /\ ~flaky
  <2>1. Returns(j, "done")
    BY <1>3 DEF FanOut
  <2>2. listed'[j] \subseteq met'[j]
    BY <1>3
  <2>3. QED
    BY <1>2, <2>1, <2>2
<1>4. CASE todo = {} /\ flaky /\ tries[j] >= MaxTries
  BY <1>2, <1>4 DEF FanOut, DeadLetterOrRetry
<1>5. CASE todo = {} /\ flaky /\ ~(tries[j] >= MaxTries)
  <2>1. tries[j] < MaxTries /\ Leave(j, "queued")
    BY <1>0, <1>5, Typed, JobParts DEF QueueTyped, FanOut, DeadLetterOrRetry
  <2>2. tries[j] <= QueueTries /\ deaths[j] = LastsLost(tries[j])
    BY <1>0, <2>1, RetryCounted
  <2>3. QED
    BY <1>0, <2>1, <2>2, LeaveAny DEF Status
<1>6. QED
  BY <1>1, <1>3, <1>4, <1>5

LEMMA ListTokensStep ==
  ASSUME IInv, NEW j \in PushJobs, ListTokens(j)
  PROVE  IInv'
<1>0. /\ TypeOK /\ j \in Job /\ run[j] # Idle /\ DevicesOf(j) \in SUBSET Devices
      /\ UNCHANGED <<tries, token, deviceVars, met, deaths>>
      /\ listed' = [listed EXCEPT ![j] = DevicesOf(j)] /\ moved' = [moved EXCEPT ![j] = {}]
  BY RunShape, JobParts DEF IInv, ListTokens, DevicesOf, Idle
<1>1. /\ listed' \in [Job -> SUBSET Target] /\ listed'[j] = DevicesOf(j)
      /\ \A k \in Job : k # j => listed'[k] = listed[k]
  BY <1>0, Typed, JobParts DEF HistoryTyped
<1>2. /\ moved' \in [PushJobs -> SUBSET Devices]
      /\ \A k \in PushJobs : k # j => moved'[k] = moved[k]
  BY <1>0, Typed DEF RestTyped
<1>3. RestTyped' /\ HistoryTyped'
  BY <1>0, <1>1, <1>2, Typed DEF RestTyped, HistoryTyped, deviceVars
<1>4. \A d \in DevicesOf(j) : OwnOrMoved(j, d)'
  BY <1>0 DEF DevicesOf, OwnOrMoved, deviceVars
<1>5. \A k \in PushJobs, d \in Devices : k # j /\ OwnOrMoved(k, d) => OwnOrMoved(k, d)'
  BY <1>0, <1>2 DEF OwnOrMoved, deviceVars
<1>6. FanOut(j, DevicesOf(j), FALSE)
  BY DEF ListTokens
<1>7. QED
  BY <1>0, <1>1, <1>3, <1>4, <1>5, <1>6, FanOutStep

LEMMA SendPushStep ==
  ASSUME IInv, NEW j \in PushJobs, SendPush(j)
  PROVE  IInv'
<1>0. /\ TypeOK /\ j \in Job /\ j \notin EmailJobs /\ run[j] # Idle /\ run[j].todo \subseteq Devices
      /\ run[j].flaky \in BOOLEAN
      /\ run[j].todo \subseteq listed[j]
      /\ run[j].flaky \/ listed[j] \ run[j].todo \subseteq met[j]
      /\ \A d \in run[j].todo : OwnOrMoved(j, d)
      /\ UNCHANGED <<tries, token, deviceVars, moved, listed, deaths>>
  BY RunShape, JobParts DEF IInv, JobInv, PushMet, SendPush, Idle
<1>1. PICK d \in run[j].todo :
         \/ /\ met' = [met EXCEPT ![j] = met[j] \cup {d}]
            /\ \E lost \in BOOLEAN : FanOut(j, run[j].todo \ {d}, run[j].flaky \/ lost)
         \/ FanOut(j, run[j].todo \ {d}, TRUE) /\ UNCHANGED met
         \/ /\ met' = [met EXCEPT ![j] = met[j] \cup {d}]
            /\ Goto(j, [pc |-> "prune", todo |-> run[j].todo \ {d}, flaky |-> run[j].flaky,
                        device |-> d])
  BY DEF SendPush
<1> DEFINE rest == run[j].todo \ {d}
<1>2. /\ d \in Devices /\ d \in Target /\ rest \in SUBSET Devices /\ rest \subseteq listed[j]
      /\ listed'[j] = listed[j]
  BY <1>0, JobParts
<1>3. RestTyped' /\ \A k \in PushJobs, e \in Devices : OwnOrMoved(k, e) <=> OwnOrMoved(k, e)'
  BY <1>0, Typed DEF RestTyped, OwnOrMoved, deviceVars
<1>4. \A e \in rest : OwnOrMoved(j, e)'
  BY <1>0, <1>3
<1>5. ASSUME met' = [met EXCEPT ![j] = met[j] \cup {d}]
      PROVE  /\ HistoryTyped' /\ met'[j] = met[j] \cup {d}
             /\ \A k \in Job : k # j => met'[k] = met[k]
  <2>1. /\ met' \in [Job -> SUBSET Target] /\ met'[j] = met[j] \cup {d}
        /\ \A k \in Job : k # j => met'[k] = met[k]
    BY <1>0, <1>2, <1>5, Typed DEF HistoryTyped
  <2>2. QED
    BY <1>0, <2>1, Typed DEF HistoryTyped
<1>6. CASE /\ met' = [met EXCEPT ![j] = met[j] \cup {d}]
           /\ \E lost \in BOOLEAN : FanOut(j, rest, run[j].flaky \/ lost)
  <2>1. PICK lost \in BOOLEAN : FanOut(j, rest, run[j].flaky \/ lost)
    BY <1>6
  <2> DEFINE flaky == run[j].flaky \/ lost
  <2>2. flaky \in BOOLEAN /\ FanOut(j, rest, flaky)
    BY <2>1
  <2>3. flaky \/ listed'[j] \ rest \subseteq met'[j]
    BY <1>0, <1>2, <1>5, <1>6
  <2> HIDE DEF flaky, rest
  <2>4. QED
    BY <1>0, <1>2, <1>3, <1>4, <1>5, <1>6, <2>2, <2>3, FanOutStep
<1>7. CASE FanOut(j, rest, TRUE) /\ UNCHANGED met
  <2>1. HistoryTyped'
    BY <1>0, <1>7, Typed DEF HistoryTyped
  <2> HIDE DEF rest
  <2>2. QED
    BY <1>0, <1>2, <1>3, <1>4, <1>7, <2>1, FanOutStep
<1>8. CASE /\ met' = [met EXCEPT ![j] = met[j] \cup {d}]
           /\ Goto(j, [pc |-> "prune", todo |-> rest, flaky |-> run[j].flaky, device |-> d])
  <2> DEFINE r == [pc |-> "prune", todo |-> rest, flaky |-> run[j].flaky, device |-> d]
  <2>1. Goto(j, r) /\ r.pc = "prune" /\ r.todo = rest /\ r.flaky = run[j].flaky
    BY <1>8
  <2>2. r \in RunState /\ r # Idle
    BY <1>0, <1>2 DEF RunState, PruneState, Idle
  <2> HIDE DEF r
  <2>3. run'[j] = r
    BY <1>0, <2>1, <2>2, Typed DEF QueueTyped, Goto
  <2>4. run'[j].flaky \/ listed'[j] \ rest \subseteq met'[j]
    BY <1>0, <1>2, <1>5, <1>8, <2>1, <2>3
  <2>5. DoneMet(j)' /\ PushMet(j)'
    BY <1>2, <1>4, <2>1, <2>3, <2>4 DEF DoneMet, PushMet
  <2>6. QED
    BY <1>0, <1>3, <1>5, <1>8, <2>1, <2>2, <2>5, GotoStep
<1>9. QED
  BY <1>1, <1>6, <1>7, <1>8

\* A registration that changes hands is remembered by every attempt.
LEMMA HandOverMoves ==
  ASSUME TypeOK, NEW d \in Devices, NEW u \in Users \cup {NoUser}, HandOver(d, u)
  PROVE  /\ owner' \in [Devices -> Users \cup {NoUser}] /\ moved' \in [PushJobs -> SUBSET Devices]
         /\ \A k \in PushJobs, e \in Devices : OwnOrMoved(k, e) => OwnOrMoved(k, e)'
<1>1. owner' = [owner EXCEPT ![d] = u] /\ owner \in [Devices -> Users \cup {NoUser}]
      /\ moved \in [PushJobs -> SUBSET Devices]
      /\ moved' = [k \in PushJobs |-> IF owner[d] # u THEN moved[k] \cup {d} ELSE moved[k]]
  BY Typed DEF HandOver, RestTyped
<1>2. owner' \in [Devices -> Users \cup {NoUser}] /\ moved' \in [PushJobs -> SUBSET Devices]
  BY <1>1
<1>3. ASSUME NEW k \in PushJobs, NEW e \in Devices, OwnOrMoved(k, e) PROVE OwnOrMoved(k, e)'
  <2>1. CASE e = d /\ owner[d] # u
    BY <1>1, <2>1 DEF OwnOrMoved
  <2>2. CASE e # d \/ owner[d] = u
    BY <1>1, <1>3, <2>2 DEF OwnOrMoved
  <2>3. QED
    BY <2>1, <2>2
<1>4. QED
  BY <1>2, <1>3

LEMMA PruneStep ==
  ASSUME IInv, NEW j \in PushJobs, Prune(j)
  PROVE  IInv'
<1>0. /\ TypeOK /\ j \in Job /\ run[j] # Idle /\ run[j].todo \in SUBSET Devices
      /\ run[j].flaky \in BOOLEAN /\ run[j].device \in Devices
      /\ run[j].todo \subseteq listed[j]
      /\ run[j].flaky \/ listed[j] \ run[j].todo \subseteq met[j]
      /\ \A d \in run[j].todo : OwnOrMoved(j, d)
      /\ UNCHANGED <<tries, token, alive, moves, listed, met, deaths>>
      /\ HandOver(run[j].device, NoUser) /\ FanOut(j, run[j].todo, run[j].flaky)
  BY RunShape, JobParts DEF IInv, JobInv, PushMet, Prune, Idle
<1>1. /\ owner' \in [Devices -> Users \cup {NoUser}] /\ moved' \in [PushJobs -> SUBSET Devices]
      /\ \A k \in PushJobs, e \in Devices : OwnOrMoved(k, e) => OwnOrMoved(k, e)'
  BY <1>0, HandOverMoves
<1>2. RestTyped' /\ HistoryTyped'
  BY <1>0, <1>1, Typed DEF RestTyped, HistoryTyped
<1>3. \A d \in run[j].todo : OwnOrMoved(j, d)'
  BY <1>0, <1>1
<1>4. QED
  BY <1>0, <1>1, <1>2, <1>3, FanOutStep

-----------------------------------------------------------------------------
\* The devices change under the jobs' feet.
LEMMA DeviceStep ==
  ASSUME IInv, NEW d \in Devices,
         (\E u \in Users : RegisterDevice(u, d) \/ UnregisterDevice(u, d)) \/ DeviceDies(d)
  PROVE  IInv'
<1>0. /\ TypeOK /\ UNCHANGED <<queueVars, token, listed, met, deaths>>
      /\ moves' = moves + 1 /\ moves < MaxMoves
  BY DEF IInv, RegisterDevice, UnregisterDevice, DeviceDies, Moves
<1>1. /\ owner' \in [Devices -> Users \cup {NoUser}] /\ moved' \in [PushJobs -> SUBSET Devices]
      /\ alive' \in [Devices -> BOOLEAN]
      /\ \A k \in PushJobs, e \in Devices : OwnOrMoved(k, e) => OwnOrMoved(k, e)'
  <2>1. CASE \E u \in Users : RegisterDevice(u, d) \/ UnregisterDevice(u, d)
    <3>1. PICK u \in Users \cup {NoUser} : HandOver(d, u)
      BY <2>1 DEF RegisterDevice, UnregisterDevice
    <3>2. alive' \in [Devices -> BOOLEAN]
      BY <1>0, <2>1, Typed DEF RestTyped, RegisterDevice, UnregisterDevice
    <3>3. QED
      BY <1>0, <3>1, <3>2, HandOverMoves
  <2>2. CASE DeviceDies(d)
    <3>1. alive' \in [Devices -> BOOLEAN] /\ UNCHANGED <<owner, moved>>
      BY <1>0, <2>2, Typed DEF RestTyped, DeviceDies
    <3>2. QED
      BY <1>0, <3>1, Typed DEF RestTyped, OwnOrMoved
  <2>3. QED
    BY <2>1, <2>2
<1>2. moves' \in 0..MaxMoves
  BY <1>0, Typed, JobsAssumption DEF RestTyped
<1>3. TypeOK'
  BY <1>0, <1>1, <1>2, Typed, TypedNext DEF QueueTyped, RestTyped, HistoryTyped, queueVars
<1>4. ASSUME NEW k \in Job PROVE JobInv(k)'
  <2>1. CASE run[k].pc \in {"push", "prune"}
    <3>1. \A e \in run[k].todo : e \in Devices
      BY <1>0, <2>1, RunShape
    <3>2. QED
      BY <1>0, <1>1, <3>1, OthersKeep DEF IInv, queueVars
  <2>2. CASE run[k].pc \notin {"push", "prune"}
    BY <1>0, <2>2 DEF IInv, JobInv, DeathsCounted, DoneMet, MailMet, PushMet, queueVars
  <2>3. QED
    BY <2>1, <2>2
<1>5. QED
  BY <1>3, <1>4 DEF IInv

-----------------------------------------------------------------------------
LEMMA Inductive == IInv /\ [Next]_vars => IInv'
<1> SUFFICES ASSUME IInv, [Next]_vars PROVE IInv'
  OBVIOUS
<1>1. ASSUME NEW j \in Job, Enqueue(j) \/ Work(j) \/ WorkerDies(j) PROVE IInv'
  BY <1>1, EnqueueStep, BeginStep, FinishStep, StoreFailsStep, WorkerDiesStep, LookupStep,
     SendEmailStep, MarkSentStep, ListTokensStep, SendPushStep, PruneStep DEF Work
<1>2. ASSUME NEW j \in EmailJobs, TokenExpires(j) PROVE IInv'
  BY <1>2, TokenExpiresStep
<1>3. ASSUME NEW d \in Devices,
             (\E u \in Users : RegisterDevice(u, d) \/ UnregisterDevice(u, d)) \/ DeviceDies(d)
      PROVE IInv'
  BY <1>3, DeviceStep
<1>4. CASE UNCHANGED vars
  <2>1. TypeOK'
    BY <1>4, Typed, TypedNext DEF IInv, QueueTyped, RestTyped, HistoryTyped, vars, queueVars,
       deviceVars
  <2>2. \A k \in Job : JobInv(k)'
    BY <1>4, OthersKeep DEF IInv, OwnOrMoved, vars, queueVars, deviceVars
  <2>3. QED
    BY <2>1, <2>2 DEF IInv
<1>5. QED
  BY <1>1, <1>2, <1>3, <1>4 DEF Next

LEMMA Invariance == Spec => []IInv
BY InitIInv, Inductive, PTL DEF Spec

-----------------------------------------------------------------------------
\* The queue, the attempts, the registry and the histories keep their types.
THEOREM TypeCorrect == Spec => []TypeOK
BY Invariance, PTL DEF IInv

\* A mail whose sent_at marker is stored is not sent again (_send_token_email).
THEOREM MarkedNotMailedHolds == Spec => []MarkedNotMailed
<1>1. IInv => MarkedNotMailed
  BY JobParts DEF IInv, JobInv, MailMet, MarkedNotMailed
<1>2. QED
  BY <1>1, Invariance, PTL

\* ARQ drops a job only after dying workers took every attempt that would have
\* written the dead letter (max_tries of WorkerSettings over MAX_TRIES).
THEOREM DroppedAfterDeathsHolds == Spec => []DroppedAfterDeaths
<1>1. IInv => DroppedAfterDeaths
  BY JobParts DEF IInv, JobInv, DeathsCounted, LastsLost, DroppedAfterDeaths
<1>2. QED
  BY <1>1, Invariance, PTL

\* send_push_to_user pushes to devices that are the user's, or left him since
\* this attempt listed them.
THEOREM PushesToOwnDevicesHolds == Spec => []PushesToOwnDevices
<1>1. IInv => PushesToOwnDevices
  BY JobParts DEF IInv, JobInv, PushMet, OwnOrMoved, PushesToOwnDevices
<1>2. QED
  BY <1>1, Invariance, PTL

-----------------------------------------------------------------------------
(***************************************************************************)
(* Every step of the jobs is one of Delivery, or changes nothing that      *)
(* Delivery speaks of.                                                     *)
(***************************************************************************)
LEMMA OutcomeMoves ==
  ASSUME TypeOK, NEW j \in Job, NEW s \in Status, status' = [status EXCEPT ![j] = s]
  PROVE  outcome' = [outcome EXCEPT ![j] = Outcome(s)]
<1>1. status'[j] = s /\ \A k \in Job : k # j => status'[k] = status[k]
  BY Typed DEF QueueTyped
<1>2. \A k \in Job : outcome'[k] = IF k = j THEN Outcome(s) ELSE outcome[k]
  BY <1>1 DEF outcome
<1>3. QED
  BY <1>2 DEF outcome

LEMMA OutcomeStays ==
  ASSUME TypeOK, NEW j \in Job, NEW s \in {"queued", "running"},
         status[j] \in {"queued", "running"}, status' = [status EXCEPT ![j] = s]
  PROVE  outcome' = outcome
<1>1. status'[j] = s /\ \A k \in Job : k # j => status'[k] = status[k]
  BY Typed DEF QueueTyped
<1>2. \A k \in Job : Outcome(status'[k]) = Outcome(status[k])
  BY <1>1 DEF Outcome
<1>3. QED
  BY <1>2 DEF outcome

LEMMA Pending ==
  ASSUME NEW j \in Job, status[j] \in {"queued", "running"}
  PROVE  outcome[j] = "pending"
BY DEF outcome, Outcome

\* A job that is settled.
LEMMA SettleStep ==
  ASSUME IInv, NEW j \in Job, status[j] \in {"queued", "running"},
         NEW s \in {"done", "dead", "dropped", "failed"}, status' = [status EXCEPT ![j] = s],
         s = "done" => listed[j] \subseteq met[j],
         UNCHANGED <<listed, met>>
  PROVE  Promise!Settle(j)
<1>1. outcome' = [outcome EXCEPT ![j] = Outcome(s)]
  <2>1. s \in Status /\ TypeOK
    BY DEF Status, IInv
  <2>2. QED
    BY <2>1, OutcomeMoves
<1>2. Outcome(s) \in {"done", "given up"} /\ (Outcome(s) = "done" => s = "done")
  BY DEF Outcome
<1>3. QED
  BY <1>1, <1>2, Pending DEF Promise!Settle, Promise!Settled

\* An attempt that goes on, or goes back to the queue, having reached one target or none.
LEMMA ReachStep ==
  ASSUME IInv, NEW j \in Job, status[j] = "running", outcome' = outcome, UNCHANGED listed,
         met' = met \/ \E t \in listed[j] : met' = [met EXCEPT ![j] = met[j] \cup {t}]
  PROVE  Promise!Reach(j) \/ UNCHANGED <<outcome, listed, met>>
BY Pending DEF Promise!Reach

LEMMA RetryOrFinish ==
  ASSUME IInv, NEW j \in Job, status[j] = "running", DeadLetterOrRetry(j)
  PROVE  outcome' = outcome
BY OutcomeStays DEF IInv, DeadLetterOrRetry, Leave, Returns, Goto, outcome

LEMMA FanOutOutcome ==
  ASSUME IInv, NEW j \in Job, status[j] = "running", NEW todo, NEW flaky, FanOut(j, todo, flaky)
  PROVE  outcome' = outcome
BY RetryOrFinish DEF FanOut, Returns, Goto, outcome

LEMMA RefinementStep == IInv /\ [Next]_vars => [Promise!Next]_(Promise!vars)
<1> SUFFICES ASSUME IInv, [Next]_vars
             PROVE  (\E j \in Job : Promise!Submit(j) \/ Promise!FindDue(j) \/ Promise!Reach(j)
                                      \/ Promise!Settle(j))
                    \/ UNCHANGED <<outcome, listed, met>>
  BY DEF Promise!Next, Promise!vars
<1>0. TypeOK
  BY DEF IInv
<1>1. ASSUME NEW j \in Job, Enqueue(j) PROVE Promise!Submit(j)
  <2>1. PICK s \in {"queued", "lost"} : status' = [status EXCEPT ![j] = s]
    BY <1>1 DEF Enqueue
  <2>2. outcome' = [outcome EXCEPT ![j] = Outcome(s)]
    <3>1. s \in Status
      BY DEF Status
    <3>2. QED
      BY <1>0, <2>1, <3>1, OutcomeMoves
  <2>3. Outcome(s) \in {"pending", "lost"} /\ outcome[j] = "new"
    BY <1>1 DEF Enqueue, Outcome, outcome
  <2>4. QED
    BY <1>1, <2>2, <2>3 DEF Enqueue, Promise!Submit
<1>2. ASSUME NEW j \in Job, Begin(j) PROVE Promise!Settle(j) \/ UNCHANGED <<outcome, listed, met>>
  BY <1>0, <1>2, SettleStep, OutcomeStays DEF Begin
<1>3. ASSUME NEW j \in Job, Finish(j) PROVE Promise!Settle(j)
  <2>1. status[j] = "running" /\ run[j].result \in {"done", "dead"}
    BY <1>0, <1>3, RunShape DEF Finish, Idle
  <2>2. run[j].result = "done" => listed[j] \subseteq met[j]
    BY <1>3 DEF IInv, JobInv, DoneMet, Finish
  <2>3. QED
    BY <1>3, <2>1, <2>2, SettleStep DEF Finish, Leave
<1>4. ASSUME NEW j \in Job, StoreFails(j) PROVE Promise!Settle(j)
  <2>1. status[j] = "running"
    BY <1>0, <1>4, RunShape DEF StoreFails, Idle
  <2>2. QED
    BY <1>4, <2>1, SettleStep DEF StoreFails, Leave
<1>5. ASSUME NEW j \in Job, WorkerDies(j) PROVE UNCHANGED <<outcome, listed, met>>
  BY <1>0, <1>5, OutcomeStays DEF WorkerDies, Leave
<1>6. ASSUME NEW j \in Job, NEW T \in SUBSET Target, listed' = [listed EXCEPT ![j] = T],
             status[j] = "running", outcome' = outcome, UNCHANGED met
      PROVE Promise!FindDue(j)
  BY <1>6, Pending DEF Promise!FindDue
<1>7. ASSUME NEW j \in EmailJobs, Lookup(j) PROVE Promise!FindDue(j)
  <2>1. j \in Job /\ status[j] = "running" /\ Inbox \in Target
    BY <1>0, <1>7, RunShape, JobParts DEF Lookup, Idle
  <2>2. status' = status
    BY <1>7 DEF Lookup, Goto, Returns
  <2>3. outcome' = outcome
    BY <2>2 DEF outcome
  <2>4. PICK T \in SUBSET Target : listed' = [listed EXCEPT ![j] = T]
    BY <1>7, <2>1 DEF Lookup
  <2>5. QED
    BY <1>6, <1>7, <2>1, <2>3, <2>4 DEF Lookup
<1>8. ASSUME NEW j \in EmailJobs, SendEmail(j)
      PROVE  Promise!Reach(j) \/ UNCHANGED <<outcome, listed, met>>
  <2>1. j \in Job /\ status[j] = "running" /\ Inbox \in listed[j]
    BY <1>0, <1>8, RunShape, JobParts DEF IInv, JobInv, MailMet, SendEmail, Idle
  <2>2. outcome' = outcome
    BY <1>8, <2>1, RetryOrFinish DEF SendEmail, Goto, outcome
  <2>3. UNCHANGED listed /\ (met' = met \/ met' = [met EXCEPT ![j] = met[j] \cup {Inbox}])
    BY <1>8 DEF SendEmail, MailAccepted
  <2>4. QED
    BY <2>1, <2>2, <2>3, ReachStep
<1>9. ASSUME NEW j \in EmailJobs, MarkSent(j) PROVE UNCHANGED <<outcome, listed, met>>
  BY <1>9 DEF MarkSent, Returns, Goto, outcome
<1>10. ASSUME NEW j \in PushJobs, ListTokens(j) PROVE Promise!FindDue(j)
  <2>1. j \in Job /\ status[j] = "running" /\ DevicesOf(j) \in SUBSET Target
    BY <1>0, <1>10, RunShape, JobParts DEF ListTokens, DevicesOf, Idle
  <2>2. outcome' = outcome
    BY <1>10, <2>1, FanOutOutcome DEF ListTokens
  <2>3. QED
    BY <1>6, <1>10, <2>1, <2>2 DEF ListTokens
<1>11. ASSUME NEW j \in PushJobs, SendPush(j)
       PROVE  Promise!Reach(j) \/ UNCHANGED <<outcome, listed, met>>
  <2>1. j \in Job /\ status[j] = "running" /\ run[j].todo \subseteq listed[j]
    BY <1>0, <1>11, RunShape, JobParts DEF IInv, JobInv, PushMet, SendPush, Idle
  <2>2. PICK d \in run[j].todo :
          /\ met' = met \/ met' = [met EXCEPT ![j] = met[j] \cup {d}]
          /\ \/ \E flaky : FanOut(j, run[j].todo \ {d}, flaky)
             \/ UNCHANGED status
    BY <1>11 DEF SendPush, Goto
  <2>3. outcome' = outcome
    BY <2>1, <2>2, FanOutOutcome DEF outcome
  <2>4. UNCHANGED listed
    BY <1>11 DEF SendPush
  <2>5. QED
    BY <2>1, <2>2, <2>3, <2>4, ReachStep
<1>12. ASSUME NEW j \in PushJobs, Prune(j) PROVE UNCHANGED <<outcome, listed, met>>
  <2>1. j \in Job /\ status[j] = "running"
    BY <1>0, <1>12, RunShape, JobParts DEF Prune, Idle
  <2>2. QED
    BY <1>12, <2>1, FanOutOutcome DEF Prune
<1>13. ASSUME UNCHANGED <<status, listed, met>> PROVE UNCHANGED <<outcome, listed, met>>
  BY <1>13 DEF outcome
<1>14. CASE \E j \in EmailJobs : TokenExpires(j)
  BY <1>13, <1>14 DEF TokenExpires, queueVars
<1>15. CASE (\E u \in Users, d \in Devices : RegisterDevice(u, d) \/ UnregisterDevice(u, d))
              \/ (\E d \in Devices : DeviceDies(d)) \/ UNCHANGED vars
  BY <1>13, <1>15 DEF RegisterDevice, UnregisterDevice, DeviceDies, queueVars, vars
<1>16. CASE \E j \in Job : Enqueue(j) \/ Work(j) \/ WorkerDies(j)
  BY <1>1, <1>2, <1>3, <1>4, <1>5, <1>7, <1>8, <1>9, <1>10, <1>11, <1>12, <1>16, JobParts DEF Work
<1>17. QED
  BY <1>14, <1>15, <1>16 DEF Next

(***************************************************************************)
(* The safety of Delivery: a job is settled once, and it counts as done    *)
(* only when everyone the last attempt found was reached or is dead,       *)
(* whatever attempts fail, workers die and devices move on the way.        *)
(***************************************************************************)
THEOREM SafeDelivery == Spec => Promise!Safety
<1>1. Init => Promise!Init
  BY DEF Init, Promise!Init, outcome, Outcome
<1>2. QED
  BY <1>1, Invariance, RefinementStep, PTL DEF Spec, Promise!Safety
=============================================================================
