-------------------------------- MODULE Jobs --------------------------------
(***************************************************************************)
(* The ARQ jobs that send email and pushes: app/shared/jobs.py (enqueue),  *)
(* app/auth/jobs.py, app/notifications/jobs.py, the device registry of     *)
(* app/notifications, and the retry settings of app/worker.py.             *)
(*                                                                         *)
(* The queue belongs to ARQ and is external: taking a job counts an        *)
(* attempt, a job whose attempts exceed max_tries is dropped, Retry and    *)
(* the death of a worker put the job back, any other exception ends it.    *)
(* One attempt of a job runs at a time; attempts of different jobs, the    *)
(* devices and the tokens interleave.  Backoff delays are left out, and so *)
(* is the configuration without provider keys, where nothing is sent.      *)
(***************************************************************************)
EXTENDS Integers, FiniteSets

CONSTANTS EmailJobs,        \* jobs that mail a token, one token each
          PushJobs,         \* jobs that push to a user
          Users,
          Recipient,        \* [PushJobs -> Users]
          Devices,          \* push tokens
          NoUser,           \* the owner of a device that is not registered
          MaxTries,         \* MAX_TRIES of both job modules
          QueueTries,       \* max_tries of WorkerSettings
          MaxJobs,          \* bound on the jobs submitted
          MaxMoves          \* bound on the changes of the devices

ASSUME JobsAssumption ==
    /\ QueueTries \in Nat
    /\ MaxTries \in 1..QueueTries      \* 5 and 6: ARQ gives up after the dead letter
    /\ MaxJobs \in Nat
    /\ MaxMoves \in Nat
    /\ Recipient \in [PushJobs -> Users]
    /\ NoUser \notin Users
    /\ EmailJobs \cap PushJobs = {}

VARIABLES status,       \* of each job in the queue
          tries,        \* job_try of the latest attempt
          run,          \* the attempt that runs
          token,        \* auth_tokens: what sent_at says, or that the token is gone
          owner,        \* device_tokens: user_id
          alive,        \* what FCM knows of the device
          moves,        \* changes of the registry
          moved,        \* history: devices that changed hands since the attempt listed them
          listed,       \* history: who the latest attempt found to be due a message
          met,          \* history: who got it, or was found dead by FCM
          deaths        \* history: attempts from MaxTries on that a dying worker took along

queueVars == <<status, tries, run>>
deviceVars == <<owner, alive, moves>>
vars == <<queueVars, token, deviceVars, moved, listed, met, deaths>>

Job == EmailJobs \cup PushJobs

Inbox == "inbox"        \* the address an email job was given

Target == Devices \cup {Inbox}

Idle == [pc |-> "idle"]

TypeOK ==
    /\ status \in [Job -> {"new", "queued", "running", "done", "dead", "dropped", "failed", "lost"}]
    /\ tries \in [Job -> 0..(QueueTries + 1)]
    /\ run \in [Job -> {Idle} \cup [pc: {"lookup", "mail", "mark"}]
                  \cup [pc: {"push"}, todo: (SUBSET Devices) \ {{}}, flaky: BOOLEAN]
                  \cup [pc: {"prune"}, todo: SUBSET Devices, flaky: BOOLEAN, device: Devices]
                  \cup [pc: {"finish"}, result: {"done", "dead"}]]
    /\ \A j \in Job : run[j] # Idle <=> status[j] = "running"
    /\ token \in [EmailJobs -> {"unsent", "sent", "gone"}]
    /\ owner \in [Devices -> Users \cup {NoUser}]
    /\ alive \in [Devices -> BOOLEAN]
    /\ moves \in 0..MaxMoves
    /\ moved \in [PushJobs -> SUBSET Devices]
    /\ listed \in [Job -> SUBSET Target]
    /\ met \in [Job -> SUBSET Target]
    /\ deaths \in [Job -> 0..QueueTries]

-----------------------------------------------------------------------------
Init ==
    /\ status = [j \in Job |-> "new"]
    /\ tries = [j \in Job |-> 0]
    /\ run = [j \in Job |-> Idle]
    /\ token = [j \in EmailJobs |-> "unsent"]
    /\ owner \in [Devices -> Users \cup {NoUser}]
    /\ alive = [d \in Devices |-> TRUE]
    /\ moves = 0
    /\ moved = [j \in PushJobs |-> {}]
    /\ listed = [j \in Job |-> {}]
    /\ met = [j \in Job |-> {}]
    /\ deaths = [j \in Job |-> 0]

-----------------------------------------------------------------------------
(***************************************************************************)
(* _enqueue: a queue that does not answer fails nobody's request; the job  *)
(* is lost, and only the log says so.                                      *)
(***************************************************************************)
Enqueue(j) ==
    /\ status[j] = "new"
    /\ Cardinality({k \in Job : status[k] # "new"}) < MaxJobs
    /\ \E s \in {"queued", "lost"} : status' = [status EXCEPT ![j] = s]
    /\ UNCHANGED <<tries, run, token, deviceVars, moved, listed, met, deaths>>

(***************************************************************************)
(* What ARQ does with a job: take it, drop it for good, take it back.      *)
(***************************************************************************)
DroppedLate(n) == n > QueueTries + 1    \* slip: max_tries counts the retries, not the attempts

TooMany(n) == n > QueueTries

Begin(j) ==
    /\ status[j] = "queued"
    /\ tries' = [tries EXCEPT ![j] = @ + 1]
    /\ IF TooMany(tries[j] + 1)
       THEN status' = [status EXCEPT ![j] = "dropped"] /\ UNCHANGED run
       ELSE /\ status' = [status EXCEPT ![j] = "running"]
            /\ run' = [run EXCEPT ![j] = [pc |-> "lookup"]]
    /\ UNCHANGED <<token, deviceVars, moved, listed, met, deaths>>

Goto(j, r) == run' = [run EXCEPT ![j] = r] /\ UNCHANGED status

Leave(j, s) ==
    /\ status' = [status EXCEPT ![j] = s]
    /\ run' = [run EXCEPT ![j] = Idle]

Returns(j, result) == Goto(j, [pc |-> "finish", result |-> result])

\* A send failed: dead letter on the last attempt, Retry before.
DeadLetterOrRetryForever(j) == Leave(j, "queued")    \* slip: retried whatever job_try says

DeadLetterOrRetry(j) ==
    IF tries[j] >= MaxTries THEN Returns(j, "dead") ELSE Leave(j, "queued")

\* The job function returned and ARQ takes the job off the queue.
Finish(j) ==
    /\ run[j].pc = "finish"
    /\ Leave(j, run[j].result)
    /\ UNCHANGED <<tries, token, deviceVars, moved, listed, met, deaths>>

\* MongoDB does not answer: the exception is not a Retry, and ARQ ends the job.
StoreFails(j) ==
    /\ run[j].pc \in {"lookup", "mark", "prune"}
    /\ Leave(j, "failed")
    /\ UNCHANGED <<tries, token, deviceVars, moved, listed, met, deaths>>

\* The worker is killed or shut down, and the job goes back to the queue.
WorkerDies(j) ==
    /\ status[j] = "running"
    /\ Leave(j, "queued")
    /\ deaths' = [deaths EXCEPT ![j] = IF tries[j] >= MaxTries THEN @ + 1 ELSE @]
    /\ UNCHANGED <<tries, token, deviceVars, moved, listed, met>>

-----------------------------------------------------------------------------
(***************************************************************************)
(* _send_token_email: look the token up, mail it unless sent_at is set,    *)
(* set sent_at.                                                            *)
(***************************************************************************)
LookupUnmarked(j) ==      \* slip: the sent_at marker is not consulted
    /\ run[j].pc = "lookup"
    /\ listed' = [listed EXCEPT ![j] = IF token[j] = "gone" THEN {} ELSE {Inbox}]
    /\ IF token[j] # "gone" THEN Goto(j, [pc |-> "mail"]) ELSE Returns(j, "done")
    /\ UNCHANGED <<tries, token, deviceVars, moved, met, deaths>>

Lookup(j) ==
    /\ run[j].pc = "lookup"
    /\ listed' = [listed EXCEPT ![j] = IF token[j] = "gone" THEN {} ELSE {Inbox}]
    /\ IF token[j] = "unsent" THEN Goto(j, [pc |-> "mail"]) ELSE Returns(j, "done")
    /\ UNCHANGED <<tries, token, deviceVars, moved, met, deaths>>

\* The provider accepts the mail, and its answer arrives or is lost (a
\* timeout, a broken connection), or it refuses.
MailAccepted(j) == met' = [met EXCEPT ![j] = @ \cup {Inbox}]

SendEmail(j) ==
    /\ run[j].pc = "mail"
    /\ \/ MailAccepted(j) /\ Goto(j, [pc |-> "mark"])
       \/ (MailAccepted(j) \/ UNCHANGED met) /\ DeadLetterOrRetry(j)
    /\ UNCHANGED <<tries, token, deviceVars, moved, listed, deaths>>

MarkSent(j) ==
    /\ run[j].pc = "mark"
    /\ token' = [token EXCEPT ![j] = IF @ = "gone" THEN @ ELSE "sent"]
    /\ Returns(j, "done")
    /\ UNCHANGED <<tries, deviceVars, moved, listed, met, deaths>>

\* MongoDB's TTL index removes the token.
TokenExpires(j) ==
    /\ token[j] # "gone"
    /\ token' = [token EXCEPT ![j] = "gone"]
    /\ UNCHANGED <<queueVars, deviceVars, moved, listed, met, deaths>>

-----------------------------------------------------------------------------
(***************************************************************************)
(* send_push_to_user: list the user's devices, push to each, prune those   *)
(* FCM calls dead, and retry the whole fan-out when a push failed.         *)
(***************************************************************************)
FanOutForgets(j, todo, flaky) ==    \* slip: only the last device's failure counts
    IF todo # {} THEN Goto(j, [pc |-> "push", todo |-> todo, flaky |-> FALSE])
    ELSE IF flaky THEN DeadLetterOrRetry(j) ELSE Returns(j, "done")

FanOut(j, todo, flaky) ==
    IF todo # {} THEN Goto(j, [pc |-> "push", todo |-> todo, flaky |-> flaky])
    ELSE IF flaky THEN DeadLetterOrRetry(j) ELSE Returns(j, "done")

DevicesOf(j) == {d \in Devices : owner[d] = Recipient[j]}

ListTokensOnce(j) ==    \* slip: a retry pushes to the devices of the first attempt
    LET todo == IF tries[j] = 1 THEN DevicesOf(j) ELSE listed[j] IN
    /\ run[j].pc = "lookup"
    /\ listed' = [listed EXCEPT ![j] = todo]
    /\ moved' = [moved EXCEPT ![j] = {}]
    /\ FanOut(j, todo, FALSE)
    /\ UNCHANGED <<tries, token, deviceVars, met, deaths>>

ListTokens(j) ==
    /\ run[j].pc = "lookup"
    /\ listed' = [listed EXCEPT ![j] = DevicesOf(j)]
    /\ moved' = [moved EXCEPT ![j] = {}]
    /\ FanOut(j, DevicesOf(j), FALSE)
    /\ UNCHANGED <<tries, token, deviceVars, met, deaths>>

SendPush(j) ==
    /\ run[j].pc = "push"
    /\ \E d \in run[j].todo :
         LET rest == run[j].todo \ {d} IN
         \/ /\ alive[d]
            /\ met' = [met EXCEPT ![j] = @ \cup {d}]
            /\ \E lost \in BOOLEAN : FanOut(j, rest, run[j].flaky \/ lost)   \* lost: its answer
         \/ FanOut(j, rest, TRUE) /\ UNCHANGED met
         \/ /\ ~alive[d]
            /\ met' = [met EXCEPT ![j] = @ \cup {d}]
            /\ Goto(j, [pc |-> "prune", todo |-> rest, flaky |-> run[j].flaky, device |-> d])
    /\ UNCHANGED <<tries, token, deviceVars, moved, listed, deaths>>

HandOver(d, u) ==
    /\ owner' = [owner EXCEPT ![d] = u]
    /\ moved' = [j \in PushJobs |-> IF owner[d] # u THEN moved[j] \cup {d} ELSE moved[j]]

\* delete_by_token takes the registration away whoever's it is by now.
Prune(j) ==
    /\ run[j].pc = "prune"
    /\ HandOver(run[j].device, NoUser)
    /\ FanOut(j, run[j].todo, run[j].flaky)
    /\ UNCHANGED <<tries, token, alive, moves, listed, met, deaths>>

-----------------------------------------------------------------------------
(***************************************************************************)
(* The devices: register_device is an upsert by token, unregister_device   *)
(* is scoped to its user, and FCM retires a token for good.                *)
(***************************************************************************)
Moves == moves < MaxMoves /\ moves' = moves + 1

RegisterDevice(u, d) ==
    /\ Moves
    /\ alive[d] /\ owner[d] # u
    /\ HandOver(d, u)
    /\ UNCHANGED <<queueVars, token, alive, listed, met, deaths>>

UnregisterDevice(u, d) ==
    /\ Moves
    /\ owner[d] = u
    /\ HandOver(d, NoUser)
    /\ UNCHANGED <<queueVars, token, alive, listed, met, deaths>>

DeviceDies(d) ==
    /\ Moves
    /\ alive[d]
    /\ alive' = [alive EXCEPT ![d] = FALSE]
    /\ UNCHANGED <<queueVars, token, owner, moved, listed, met, deaths>>

-----------------------------------------------------------------------------
\* What the worker does for a job, once it has been accepted.
Work(j) ==
    \/ Begin(j) \/ Finish(j) \/ StoreFails(j)
    \/ j \in EmailJobs /\ (Lookup(j) \/ SendEmail(j) \/ MarkSent(j))
    \/ j \in PushJobs /\ (ListTokens(j) \/ SendPush(j) \/ Prune(j))

Next ==
    \/ \E j \in Job : Enqueue(j) \/ Work(j) \/ WorkerDies(j)
    \/ \E j \in EmailJobs : TokenExpires(j)
    \/ \E u \in Users, d \in Devices : RegisterDevice(u, d) \/ UnregisterDevice(u, d)
    \/ \E d \in Devices : DeviceDies(d)

Spec == Init /\ [][Next]_vars

(***************************************************************************)
(* Some worker of the pool goes on with every job that is queued or runs.  *)
(* Workers may die at any time and any number of times.                    *)
(***************************************************************************)
FairSpec == Spec /\ \A j \in Job : WF_vars(Work(j))

-----------------------------------------------------------------------------
(***************************************************************************)
(* The jobs keep the promise of Delivery: once accepted, a job ends, and   *)
(* it counts as done only when every target the last attempt found was     *)
(* reached or is dead.                                                     *)
(***************************************************************************)
Outcome(s) ==
    CASE s \in {"queued", "running"} -> "pending"
      [] s \in {"dead", "dropped", "failed"} -> "given up"
      [] OTHER -> s

outcome == [j \in Job |-> Outcome(status[j])]

Promise == INSTANCE Delivery WITH due <- listed

KeepsPromise == Promise!Spec

(***************************************************************************)
(* The sent_at marker (docs/ARCHITECTURE.md, section 8): a mail whose      *)
(* marker was stored is not sent again, whatever dies or is retried after. *)
(* A mail whose answer or marker was lost may be.                          *)
(***************************************************************************)
MarkedNotMailed == \A j \in EmailJobs : run[j].pc = "mail" => token[j] # "sent"

(***************************************************************************)
(* ARQ never gives up before the dead letter had a chance (app/worker.py,  *)
(* lines 49 to 51): a job it drops lost the attempt that would have been   *)
(* dead-lettered, and every later one, to a dying worker.                  *)
(***************************************************************************)
DroppedAfterDeaths == \A j \in Job : status[j] = "dropped" => deaths[j] = QueueTries - MaxTries + 1

(***************************************************************************)
(* An attempt pushes to devices that are the user's, or that changed hands *)
(* after it listed them: a device that left the user in an earlier attempt *)
(* is not pushed to.                                                       *)
(***************************************************************************)
PushesToOwnDevices ==
    \A j \in PushJobs :
      run[j].pc = "push" =>
        \A d \in run[j].todo : owner[d] = Recipient[j] \/ d \in moved[j]
=============================================================================
