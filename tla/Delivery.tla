------------------------------ MODULE Delivery ------------------------------
(***************************************************************************)
(* What the background jobs of docs/ARCHITECTURE.md, section 8, promise:   *)
(* a job that was accepted ends, once; while it is pending, the worker     *)
(* finds out who is due a message and reaches some of them; it is done     *)
(* only when all of those are reached, and given up otherwise.  Delivery   *)
(* is at least once: how often a target is reached is not said.            *)
(***************************************************************************)
CONSTANTS Job, Target

VARIABLES outcome,      \* of each job
          due,          \* who the worker last found to be due a message of the job
          met           \* who got it, or is known to be beyond reach

vars == <<outcome, due, met>>

Settled == {"done", "given up"}

Init ==
    /\ outcome = [j \in Job |-> "new"]
    /\ due = [j \in Job |-> {}]
    /\ met = [j \in Job |-> {}]

\* The request that causes the job succeeds whether the job is accepted or not.
Submit(j) ==
    /\ outcome[j] = "new"
    /\ \E o \in {"pending", "lost"} : outcome' = [outcome EXCEPT ![j] = o]
    /\ UNCHANGED <<due, met>>

FindDue(j) ==
    /\ outcome[j] = "pending"
    /\ \E T \in SUBSET Target : due' = [due EXCEPT ![j] = T]
    /\ UNCHANGED <<outcome, met>>

Reach(j) ==
    /\ outcome[j] = "pending"
    /\ \E t \in due[j] : met' = [met EXCEPT ![j] = @ \cup {t}]
    /\ UNCHANGED <<outcome, due>>

Settle(j) ==
    /\ outcome[j] = "pending"
    /\ \E o \in Settled :
         /\ o = "done" => due[j] \subseteq met[j]
         /\ outcome' = [outcome EXCEPT ![j] = o]
    /\ UNCHANGED <<due, met>>

Next == \E j \in Job : Submit(j) \/ FindDue(j) \/ Reach(j) \/ Settle(j)

EverySettled == \A j \in Job : outcome[j] = "pending" ~> outcome[j] \in Settled

Safety == Init /\ [][Next]_vars

Spec == Safety /\ EverySettled
=============================================================================
