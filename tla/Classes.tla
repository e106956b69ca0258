------------------------------ MODULE Classes ------------------------------
(***************************************************************************)
(* Classes and their members: app/classes/service.py and repository.py,    *)
(* run_in_transaction of app/shared/db.py and the unique indexes it makes. *)
(*                                                                         *)
(* Creating a class is two inserts without a transaction.  Joining looks   *)
(* the membership up and then, in a transaction, inserts it and counts it. *)
(* MongoDB's transactions are external: a write conflicts with what        *)
(* another open transaction wrote, or what was committed after this one    *)
(* began, and the transaction is aborted; nothing retries it.              *)
(*                                                                         *)
(* Join codes are secret until create_class has answered, so only classes  *)
(* whose creation ended are joined.                                        *)
(***************************************************************************)
EXTENDS Integers, Sequences, FiniteSets

CONSTANTS Requests,         \* handlers that may run at the same time
          Users,
          Reps,             \* the users who create classes
          Codes,            \* join codes
          MaxClasses,       \* bound on the classes
          MaxJoins,         \* bound on the join calls
          MaxFaults         \* bound on handlers and commits that fail

VARIABLES classes,      \* the classes: records [code, count]
          members,      \* class_members: records [class, user, role]
          req,          \* what each handler is doing
          known,        \* classes whose join code was given out
          joined,       \* history: the <<class, user>> told that they are in
          joins, failures

own == <<classes, req, known, joined, joins, failures>>
vars == <<members, own>>

Class == DOMAIN classes

Idle == [pc |-> "idle"]

Init ==
    /\ classes = <<>>
    /\ members = {}
    /\ req = [r \in Requests |-> Idle]
    /\ known = {}
    /\ joined = {}
    /\ joins = 0
    /\ failures = 0

Goto(r, s) == req' = [req EXCEPT ![r] = s]

Finish(r) == Goto(r, Idle)

Role(c, u) == {m.role : m \in {n \in members : n.class = c /\ n.user = u}}

IsMember(c, u) == Role(c, u) # {}

Rep(c) == {m.user : m \in {n \in members : n.class = c /\ n.role = "rep"}}

MembersOf(c) == {m.user : m \in {n \in members : n.class = c}}

-----------------------------------------------------------------------------
(***************************************************************************)
(* create_class: a code that no class has (five tries, then a Conflict),   *)
(* the class with a count of one, the creator as its rep.                  *)
(***************************************************************************)
CodeTaken(code) == \E c \in Class : classes[c].code = code

PickCode(r) ==
    /\ req[r] = Idle
    /\ Len(classes) + Cardinality({q \in Requests : req[q].pc = "create"}) < MaxClasses
    /\ \E u \in Reps, code \in Codes :
         /\ ~CodeTaken(code)
         /\ Goto(r, [pc |-> "create", user |-> u, code |-> code])
    /\ UNCHANGED <<classes, members, known, joined, joins, failures>>

\* The unique index on join_code turns a second class with the code away.
InsertClass(r) ==
    /\ req[r].pc = "create"
    /\ IF CodeTaken(req[r].code)
       THEN Finish(r) /\ UNCHANGED classes
       ELSE /\ classes' = Append(classes, [code |-> req[r].code, count |-> 1])
            /\ Goto(r, [pc |-> "rep", user |-> req[r].user, class |-> Len(classes) + 1])
    /\ UNCHANGED <<members, known, joined, joins, failures>>

AddRep(r) ==
    LET c == req[r].class IN
    /\ req[r].pc = "rep"
    /\ members' = members \cup {[class |-> c, user |-> req[r].user, role |-> "rep"]}
    /\ known' = known \cup {c}
    /\ Finish(r)
    /\ UNCHANGED <<classes, joined, joins, failures>>

-----------------------------------------------------------------------------
(***************************************************************************)
(* join_class: find the class by its code, then the membership; who is in  *)
(* already is told so.                                                     *)
(***************************************************************************)
JoinFindClass(r) ==
    /\ req[r] = Idle
    /\ joins < MaxJoins
    /\ joins' = joins + 1
    /\ \E u \in Users, c \in known : Goto(r, [pc |-> "look", user |-> u, class |-> c])
    /\ UNCHANGED <<classes, members, known, joined, failures>>

Key(r) == <<req[r].class, req[r].user>>

JoinFindMember(r) ==
    /\ req[r].pc = "look"
    /\ IF IsMember(req[r].class, req[r].user)
       THEN joined' = joined \cup {Key(r)} /\ Finish(r)
       ELSE Goto(r, [req[r] EXCEPT !.pc = "add"]) /\ UNCHANGED joined
    /\ UNCHANGED <<classes, members, known, joins, failures>>

(***************************************************************************)
(* The transaction: insert the member, count it, commit.  The unique index *)
(* on {class_id, user_id} and MongoDB's write conflicts abort it.          *)
(***************************************************************************)
Aborts(r) == Goto(r, [pc |-> "again", user |-> req[r].user, class |-> req[r].class])

InTransaction(q) == req[q].pc \in {"count", "commit"}

JoinAddUnindexed(r) ==     \* slip: no unique index on {class_id, user_id}
    LET c == req[r].class IN
    /\ req[r].pc = "add"
    /\ Goto(r, [pc |-> "count", user |-> req[r].user, class |-> c, seen |-> classes[c].count])
    /\ UNCHANGED <<classes, members, known, joined, joins, failures>>

JoinAdd(r) ==
    LET c == req[r].class IN
    /\ req[r].pc = "add"
    /\ IF \/ IsMember(c, req[r].user)
          \/ \E q \in Requests \ {r} : InTransaction(q) /\ Key(q) = Key(r)
       THEN Aborts(r)
       ELSE Goto(r, [pc |-> "count", user |-> req[r].user, class |-> c, seen |-> classes[c].count])
    /\ UNCHANGED <<classes, members, known, joined, joins, failures>>

JoinCount(r) ==
    LET c == req[r].class IN
    /\ req[r].pc = "count"
    /\ IF \/ classes[c].count # req[r].seen
          \/ \E q \in Requests \ {r} : req[q].pc = "commit" /\ req[q].class = c
       THEN Aborts(r)
       ELSE Goto(r, [pc |-> "commit", user |-> req[r].user, class |-> c])
    /\ UNCHANGED <<classes, members, known, joined, joins, failures>>

Enter(r) ==
    LET c == req[r].class IN
    /\ members' = members \cup {[class |-> c, user |-> req[r].user, role |-> "member"]}
    /\ classes' = [classes EXCEPT ![c].count = @ + 1]

JoinCommit(r) ==
    /\ req[r].pc = "commit"
    /\ Enter(r)
    /\ joined' = joined \cup {Key(r)}
    /\ Finish(r)
    /\ UNCHANGED <<known, joins, failures>>

Fault == failures < MaxFaults /\ failures' = failures + 1

\* The commit's answer is lost, and so is the commit or not.
CommitFails(r) ==
    /\ req[r].pc = "commit"
    /\ Fault
    /\ Enter(r) \/ UNCHANGED <<members, classes>>
    /\ Aborts(r)
    /\ UNCHANGED <<known, joined, joins>>

\* After any exception: whoever is in by now is told so, the others are refused.
JoinAgainTells(r) ==      \* slip: every exception is taken for the duplicate
    /\ req[r].pc = "again"
    /\ joined' = joined \cup {Key(r)}
    /\ Finish(r)
    /\ UNCHANGED <<classes, members, known, joins, failures>>

JoinAgain(r) ==
    /\ req[r].pc = "again"
    /\ IF IsMember(req[r].class, req[r].user)
       THEN joined' = joined \cup {Key(r)}
       ELSE UNCHANGED joined
    /\ Finish(r)
    /\ UNCHANGED <<classes, members, known, joins, failures>>

\* The process dies, or a call outside the transaction fails; what was not
\* committed is gone.
HandlerFails(r) ==
    /\ req[r] # Idle
    /\ Fault
    /\ Finish(r)
    /\ UNCHANGED <<classes, members, known, joined, joins>>

Next ==
    \E r \in Requests :
      \/ PickCode(r) \/ InsertClass(r) \/ AddRep(r)
      \/ JoinFindClass(r) \/ JoinFindMember(r) \/ JoinAdd(r) \/ JoinCount(r)
      \/ JoinCommit(r) \/ CommitFails(r) \/ JoinAgain(r) \/ HandlerFails(r)

Spec == Init /\ [][Next]_vars

-----------------------------------------------------------------------------
(***************************************************************************)
(* member_count, which is never recomputed, is the number of members; a    *)
(* class whose creator is not in yet, or never came, counts one more.      *)
(***************************************************************************)
CountExact ==
    \A c \in Class :
      classes[c].count = Cardinality(MembersOf(c)) + (IF Rep(c) = {} THEN 1 ELSE 0)

(***************************************************************************)
(* Who was told that they are in the class is in, however the exceptions   *)
(* of racing joins, of aborted transactions and of lost commits fell.      *)
(***************************************************************************)
AnswersTrue == \A k \in joined : IsMember(k[1], k[2])
=============================================================================
