-------------------------- MODULE ClassFeedProofs --------------------------
(***************************************************************************)
(* Proofs about ClassFeed: classes, memberships and the fan-out of the     *)
(* announcements, for any users and any number of concurrent joins.        *)
(***************************************************************************)
EXTENDS ClassFeed, TLAPS, FiniteSetTheorems, SequenceTheorems, WellFoundedInduction

(***************************************************************************)
(* The shape of a handler of Classes.                                      *)
(***************************************************************************)
ClassIds == Nat \ {0}

RequestState ==
  {C!Idle}
    \cup [pc: {"create"}, user: Users, code: Codes]
    \cup [pc: {"rep", "look", "add", "commit", "again"}, user: Users, class: ClassIds]
    \cup [pc: {"count"}, user: Users, class: ClassIds, seen: Nat]

MemberRow == [class: ClassIds, user: Users, role: {"rep", "member"}]

ClassesTyped ==
  /\ classes \in Seq([code: Codes, count: Nat])
  /\ members \in SUBSET MemberRow
  /\ req \in [Requests -> RequestState]
  /\ known \subseteq C!Class
  /\ joined \subseteq ClassIds \X Users

(***************************************************************************)
(* The inductive invariant of Classes.  Members are of classes whose code  *)
(* was given out; a creator is still to come into a class of its own,      *)
(* which has no member; and a join that got past the insert is of a key    *)
(* that nobody holds, neither a row nor another open transaction, which is *)
(* what makes its commit add one member to what it adds one to.            *)
(***************************************************************************)
MembersKnown == \A m \in members : m.class \in known

RepsApart ==
  /\ \A r \in Requests : req[r].pc = "rep" => req[r].class \in C!Class \ known
  /\ \A r, q \in Requests :
       req[r].pc = "rep" /\ req[q].pc = "rep" /\ r # q => req[r].class # req[q].class

Joining(r) == req[r].pc \in {"look", "add", "count", "commit", "again"}

NotIn(r) == C!InTransaction(r) => ~C!IsMember(req[r].class, req[r].user)

KeysFree ==
  /\ \A r \in Requests : Joining(r) => req[r].class \in known
  /\ \A r \in Requests : NotIn(r)
  /\ \A r, q \in Requests :
       C!InTransaction(r) /\ C!InTransaction(q) /\ r # q => C!Key(r) # C!Key(q)

MembersFinite == \A c \in C!Class : IsFiniteSet(C!MembersOf(c))

CountInv ==
  \A c \in C!Class :
    classes[c].count = Cardinality(C!MembersOf(c)) + (IF C!Rep(c) = {} THEN 1 ELSE 0)

ClassInv ==
  /\ ClassesTyped /\ MembersKnown /\ RepsApart /\ KeysFree /\ MembersFinite
  /\ CountInv /\ AnswersTrue

-----------------------------------------------------------------------------
(***************************************************************************)
(* What is in the operators of Classes.                                    *)
(***************************************************************************)
LEMMA SameCardinality == ASSUME NEW S PROVE C!Cardinality(S) = Cardinality(S)
BY DEF C!Cardinality, Cardinality

LEMMA MemberMeans ==
  ASSUME NEW c, NEW u
  PROVE  /\ C!IsMember(c, u) <=> \E m \in members : m.class = c /\ m.user = u
         /\ C!IsMember(c, u) <=> u \in C!MembersOf(c)
BY DEF C!IsMember, C!Role, C!MembersOf

LEMMA Shape ==
  ASSUME ClassesTyped, NEW r \in Requests
  PROVE  /\ req[r].pc \in {"idle", "create", "rep", "look", "add", "count", "commit", "again"}
         /\ req[r].pc = "idle" => req[r] = C!Idle
         /\ req[r].pc = "create" => req[r].user \in Users /\ req[r].code \in Codes
         /\ req[r].pc \notin {"idle", "create"} =>
              req[r].user \in Users /\ req[r].class \in ClassIds
<1>1. req[r] \in RequestState
  BY DEF ClassesTyped
<1>2. QED
  BY <1>1 DEF RequestState, C!Idle

LEMMA ClassRow ==
  ASSUME ClassesTyped, NEW c \in C!Class
  PROVE  /\ classes \in Seq([code: Codes, count: Nat]) /\ c \in 1..Len(classes)
         /\ classes[c] \in [code: Codes, count: Nat] /\ classes[c].count \in Nat
<1> DEFINE ClassDoc == [code: Codes, count: Nat]
<1>1. classes \in Seq(ClassDoc) /\ c \in 1..Len(classes)
  BY DEF ClassesTyped, C!Class
<1> HIDE DEF ClassDoc
<1>2. classes[c] \in ClassDoc
  BY <1>1, ElementOfSeq
<1>3. QED
  BY <1>1, <1>2 DEF ClassDoc

LEMMA InitClassInv == C!Init => ClassInv
<1> SUFFICES ASSUME C!Init PROVE ClassInv
  OBVIOUS
<1>1. ClassesTyped
  BY DEF C!Init, ClassesTyped, RequestState, C!Class
<1>2. MembersKnown /\ RepsApart /\ KeysFree
  BY DEF C!Init, MembersKnown, RepsApart, KeysFree, NotIn, Joining, C!InTransaction, C!Idle
<1>3. C!Class = {}
  BY DEF C!Init, C!Class
<1>4. MembersFinite /\ CountInv /\ AnswersTrue
  BY <1>3 DEF MembersFinite, CountInv, AnswersTrue, C!AnswersTrue, C!Init
<1>5. QED
  BY <1>1, <1>2, <1>4 DEF ClassInv

(***************************************************************************)
(* A handler that goes on, the collections as they are: every step of a    *)
(* join but its commit.                                                    *)
(***************************************************************************)
LEMMA GotoOnly ==
  ASSUME ClassInv, NEW r \in Requests, NEW s \in RequestState, C!Goto(r, s),
         UNCHANGED <<classes, members, known>>,
         joined' \subseteq ClassIds \X Users, C!AnswersTrue',
         s.pc # "rep",
         s.pc \in {"look", "add", "count", "commit", "again"} => s.class \in known,
         s.pc \in {"count", "commit"} =>
           /\ ~C!IsMember(s.class, s.user)
           /\ \A q \in Requests : C!InTransaction(q) /\ q # r => C!Key(q) # <<s.class, s.user>>
  PROVE  ClassInv'
<1>1. /\ req' \in [Requests -> RequestState] /\ req'[r] = s
      /\ \A q \in Requests : q # r => req'[q] = req[q]
  BY DEF ClassInv, ClassesTyped, C!Goto
<1>2. ClassesTyped'
  BY <1>1 DEF ClassInv, ClassesTyped, C!Class, RequestState, MemberRow, C!Idle
<1>3. MembersKnown' /\ MembersFinite' /\ CountInv' /\ AnswersTrue'
  BY DEF ClassInv, MembersKnown, MembersFinite, CountInv, AnswersTrue,
     C!MembersOf, C!Rep, C!Class
<1>4. RepsApart'
  BY <1>1 DEF ClassInv, RepsApart, C!Class
<1>5. KeysFree'
  BY <1>1 DEF ClassInv, KeysFree, NotIn, Joining, C!InTransaction, C!Key, C!IsMember, C!Role
<1>6. QED
  BY <1>2, <1>3, <1>4, <1>5 DEF ClassInv

LEMMA IdleState == C!Idle \in RequestState /\ C!Idle.pc = "idle"
BY DEF RequestState, C!Idle

LEMMA FinishOnly ==
  ASSUME ClassInv, NEW r \in Requests, C!Finish(r), UNCHANGED <<classes, members, known>>,
         joined' \subseteq ClassIds \X Users, C!AnswersTrue'
  PROVE  ClassInv'
BY IdleState, GotoOnly DEF C!Finish

LEMMA JoinedStays ==
  ASSUME ClassInv, UNCHANGED <<members, joined>>
  PROVE  joined' \subseteq ClassIds \X Users /\ C!AnswersTrue'
BY DEF ClassInv, ClassesTyped, AnswersTrue, C!AnswersTrue, C!IsMember, C!Role

\* A caller who is in is told so.
LEMMA Told ==
  ASSUME ClassInv, NEW r \in Requests, req[r].pc \notin {"idle", "create"},
         C!IsMember(req[r].class, req[r].user),
         members' = members, joined' = joined \cup {C!Key(r)}
  PROVE  joined' \subseteq ClassIds \X Users /\ C!AnswersTrue'
<1>1. req[r].user \in Users /\ req[r].class \in ClassIds
  BY Shape DEF ClassInv
<1>2. QED
  BY <1>1 DEF ClassInv, ClassesTyped, AnswersTrue, C!AnswersTrue, C!IsMember, C!Role, C!Key

-----------------------------------------------------------------------------
(***************************************************************************)
(* create_class.                                                           *)
(***************************************************************************)
LEMMA PickCodeStep ==
  ASSUME ClassInv, NEW r \in Requests, C!PickCode(r)
  PROVE  ClassInv'
<1>1. PICK u \in Reps, code \in Codes : C!Goto(r, [pc |-> "create", user |-> u, code |-> code])
  BY DEF C!PickCode
<1> DEFINE s == [pc |-> "create", user |-> u, code |-> code]
<1>2. s \in RequestState /\ s.pc = "create"
  BY ClassFeedAssumption DEF RequestState
<1>3. UNCHANGED <<classes, members, known, joined>> /\ C!Goto(r, s)
  BY <1>1 DEF C!PickCode
<1> HIDE DEF s
<1>4. QED
  BY <1>2, <1>3, JoinedStays, GotoOnly

LEMMA InsertClassStep ==
  ASSUME ClassInv, NEW r \in Requests, C!InsertClass(r)
  PROVE  ClassInv'
<1>1. CASE C!CodeTaken(req[r].code)
  BY <1>1, JoinedStays, FinishOnly DEF C!InsertClass
<1>2. CASE ~C!CodeTaken(req[r].code)
  <2> DEFINE n == Len(classes)
  <2> DEFINE class == [code |-> req[r].code, count |-> 1]
  <2> DEFINE s == [pc |-> "rep", user |-> req[r].user, class |-> n + 1]
  <2>1. /\ classes' = Append(classes, class) /\ C!Goto(r, s)
        /\ UNCHANGED <<members, known, joined>>
    BY <1>2 DEF C!InsertClass
  <2>2. /\ req[r].user \in Users /\ req[r].code \in Codes
        /\ classes \in Seq([code: Codes, count: Nat])
    BY Shape DEF ClassInv, ClassesTyped, C!InsertClass
  <2>3. class \in [code: Codes, count: Nat] /\ class.count = 1
    BY <2>2
  <2>4. n \in Nat /\ C!Class = 1..n
    BY <2>2 DEF C!Class
  <2> HIDE DEF class
  <2>5. /\ classes' \in Seq([code: Codes, count: Nat])
        /\ C!Class' = 1..n + 1
        /\ classes'[n + 1] = class
        /\ \A c \in 1..n : classes'[c] = classes[c]
    BY <2>1, <2>2, <2>3 DEF C!Class
  <2>6. s \in RequestState
    BY <2>2, <2>4 DEF RequestState, ClassIds
  <2>7. /\ req' \in [Requests -> RequestState] /\ req'[r] = s
        /\ \A q \in Requests : q # r => req'[q] = req[q]
    BY <2>1, <2>6 DEF ClassInv, ClassesTyped, C!Goto
  <2>8. s.pc = "rep" /\ s.class = n + 1
    OBVIOUS
  <2> HIDE DEF n, s
  <2>9. /\ C!Class \subseteq C!Class' /\ n + 1 \in C!Class' /\ n + 1 \notin C!Class
        /\ \A c \in C!Class' : c \in C!Class \/ c = n + 1
    BY <2>4, <2>5
  <2>10. ClassesTyped'
    BY <2>1, <2>5, <2>7, <2>9 DEF ClassInv, ClassesTyped, RequestState, MemberRow, C!Idle
  <2>11. MembersKnown' /\ AnswersTrue'
    BY <2>1 DEF ClassInv, MembersKnown, AnswersTrue, C!AnswersTrue, C!IsMember, C!Role
  <2>12. RepsApart'
    <3>1. /\ \A q \in Requests : q # r /\ req'[q].pc = "rep" =>
                req'[q].class \in C!Class \ known
          /\ \A q, k \in Requests : q # r /\ k # r /\ q # k
                /\ req'[q].pc = "rep" /\ req'[k].pc = "rep" => req'[q].class # req'[k].class
      BY <2>7 DEF ClassInv, RepsApart
    <3>2. req'[r].pc = "rep" /\ req'[r].class = n + 1 /\ n + 1 \notin known
      BY <2>7, <2>8, <2>9 DEF ClassInv, ClassesTyped
    <3>3. QED
      BY <2>1, <2>9, <3>1, <3>2 DEF RepsApart
  <2>13. KeysFree'
    BY <2>1, <2>7, <2>8 DEF ClassInv, KeysFree, NotIn, Joining, C!InTransaction, C!Key, C!IsMember, C!Role
  <2>14. /\ \A c \in C!Class' : C!MembersOf(c)' = C!MembersOf(c) /\ C!Rep(c)' = C!Rep(c)
         /\ C!MembersOf(n + 1) = {} /\ C!Rep(n + 1) = {}
    BY <2>1, <2>9 DEF ClassInv, ClassesTyped, MembersKnown, C!MembersOf, C!Rep
  <2>15. MembersFinite' /\ CountInv'
    <3>1. IsFiniteSet({}) /\ Cardinality({}) = 0
      BY FS_EmptySet
    <3>2. \A c \in C!Class : classes'[c] = classes[c]
      BY <2>4, <2>5
    <3>3. MembersFinite'
      BY <2>9, <2>14, <3>1 DEF ClassInv, MembersFinite
    <3>4. CountInv'
      <4>1. ASSUME NEW c \in C!Class'
            PROVE  classes'[c].count
                     = Cardinality(C!MembersOf(c)') + (IF C!Rep(c)' = {} THEN 1 ELSE 0)
        <5>1. C!MembersOf(c)' = C!MembersOf(c) /\ C!Rep(c)' = C!Rep(c)
          BY <2>14
        <5>2. CASE c \in C!Class
          BY <3>2, <5>1, <5>2 DEF ClassInv, CountInv
        <5>3. CASE c = n + 1
          <6>1. C!MembersOf(c)' = {} /\ C!Rep(c)' = {}
            BY <2>14, <5>1, <5>3
          <6>2. classes'[c].count = 1
            BY <2>3, <2>5, <5>3
          <6>3. QED
            BY <3>1, <6>1, <6>2
        <5>4. QED
          BY <2>9, <5>2, <5>3
      <4>2. QED
        BY <4>1 DEF CountInv
    <3>5. QED
      BY <3>3, <3>4
  <2>16. QED
    BY <2>10, <2>11, <2>12, <2>13, <2>15 DEF ClassInv
<1>3. QED
  BY <1>1, <1>2

\* The creator comes in: the one that member_count has counted since the insert.
LEMMA AddRepStep ==
  ASSUME ClassInv, NEW r \in Requests, C!AddRep(r)
  PROVE  ClassInv'
<1> DEFINE m == [class |-> req[r].class, user |-> req[r].user, role |-> "rep"]
<1>1. PICK c \in C!Class, u \in Users :
        /\ req[r].pc = "rep" /\ c = req[r].class /\ u = req[r].user
        /\ c \notin known /\ c \in ClassIds
  BY Shape DEF ClassInv, RepsApart, C!AddRep
<1>2. /\ members' = members \cup {m} /\ known' = known \cup {c}
      /\ req' = [req EXCEPT ![r] = C!Idle]
      /\ UNCHANGED <<classes, joined>> /\ C!Class' = C!Class
  BY <1>1 DEF C!AddRep, C!Finish, C!Goto, C!Class
<1>3. /\ m \in MemberRow /\ m.class = c /\ m.user = u /\ m.role = "rep"
  BY <1>1 DEF MemberRow
<1> HIDE DEF m
<1>4. /\ req' \in [Requests -> RequestState] /\ req'[r] = C!Idle
      /\ \A q \in Requests : q # r => req'[q] = req[q]
  BY <1>2, IdleState DEF ClassInv, ClassesTyped
<1>5. ClassesTyped'
  BY <1>1, <1>2, <1>3, <1>4 DEF ClassInv, ClassesTyped, RequestState, MemberRow, C!Idle
<1>6. MembersKnown' /\ AnswersTrue'
  BY <1>2, <1>3 DEF ClassInv, MembersKnown, AnswersTrue, C!AnswersTrue, C!IsMember, C!Role
<1>7. RepsApart'
  BY <1>1, <1>2, <1>4, IdleState DEF ClassInv, RepsApart
<1>8. KeysFree'
  <2>1. \A q \in Requests : C!InTransaction(q)' \/ Joining(q)' =>
          q # r /\ req'[q] = req[q]
    BY <1>4, IdleState DEF C!InTransaction, Joining
  <2>2. \A q \in Requests : C!InTransaction(q) => Joining(q)
    BY DEF C!InTransaction, Joining
  <2>3. \A q \in Requests : q # r =>
          /\ C!InTransaction(q)' <=> C!InTransaction(q)
          /\ Joining(q)' <=> Joining(q)
          /\ C!Key(q)' = C!Key(q)
    BY <1>4 DEF C!InTransaction, Joining, C!Key
  <2>4. \A q \in Requests : NotIn(q)'
    <3>1. SUFFICES ASSUME NEW q \in Requests, C!InTransaction(q)' PROVE NotIn(q)'
      BY DEF NotIn
    <3>2. /\ req'[q] = req[q] /\ req[q].class \in known
          /\ ~C!IsMember(req[q].class, req[q].user)
      BY <2>1, <2>2, <2>3, <3>1 DEF ClassInv, KeysFree, NotIn
    <3>3. QED
      BY <1>1, <1>2, <1>3, <3>2 DEF NotIn, C!IsMember, C!Role
  <2>5. QED
    BY <1>2, <2>1, <2>3, <2>4 DEF ClassInv, KeysFree
<1>9. /\ C!MembersOf(c) = {} /\ C!Rep(c) = {}
       /\ C!MembersOf(c)' = {u} /\ C!Rep(c)' = {u}
       /\ \A x \in C!Class : x # c =>
            C!MembersOf(x)' = C!MembersOf(x) /\ C!Rep(x)' = C!Rep(x)
  BY <1>1, <1>2, <1>3 DEF ClassInv, MembersKnown, C!MembersOf, C!Rep
<1>10. /\ IsFiniteSet({u}) /\ Cardinality({u}) = 1
       /\ Cardinality({}) = 0 /\ {u} # {}
  BY FS_Singleton, FS_EmptySet
<1>11. MembersFinite'
  BY <1>2, <1>9, <1>10 DEF ClassInv, MembersFinite
<1>12. CountInv'
  <2>1. ASSUME NEW x \in C!Class
        PROVE  classes'[x].count
                 = Cardinality(C!MembersOf(x)') + (IF C!Rep(x)' = {} THEN 1 ELSE 0)
    <3>1. CASE x = c
      <4>1. classes'[c].count = 0 + 1
        BY <1>1, <1>2, <1>9, <1>10 DEF ClassInv, CountInv
      <4>2. QED
        BY <3>1, <4>1, <1>9, <1>10
    <3>2. CASE x # c
      BY <3>2, <1>2, <1>9 DEF ClassInv, CountInv
    <3>3. QED
      BY <3>1, <3>2
  <2>2. QED
    BY <1>2, <2>1 DEF CountInv
<1>13. QED
  BY <1>5, <1>6, <1>7, <1>8, <1>11, <1>12 DEF ClassInv

-----------------------------------------------------------------------------
(***************************************************************************)
(* join_class: the reads, the transaction, and what comes after.           *)
(***************************************************************************)
LEMMA JoinFindClassStep ==
  ASSUME ClassInv, NEW r \in Requests, C!JoinFindClass(r)
  PROVE  ClassInv'
<1>1. PICK u \in Users, c \in known : C!Goto(r, [pc |-> "look", user |-> u, class |-> c])
  BY DEF C!JoinFindClass
<1> DEFINE s == [pc |-> "look", user |-> u, class |-> c]
<1>2. known \subseteq ClassIds
  BY DEF ClassInv, ClassesTyped, C!Class, ClassIds
<1>3. s \in RequestState /\ s.pc = "look" /\ s.class \in known
  BY <1>2 DEF RequestState
<1>4. UNCHANGED <<classes, members, known, joined>> /\ C!Goto(r, s)
  BY <1>1 DEF C!JoinFindClass
<1> HIDE DEF s
<1>5. QED
  BY <1>3, <1>4, JoinedStays, GotoOnly

LEMMA JoinFindMemberStep ==
  ASSUME ClassInv, NEW r \in Requests, C!JoinFindMember(r)
  PROVE  ClassInv'
<1>1. req[r].pc = "look" /\ UNCHANGED <<classes, members, known>>
  BY DEF C!JoinFindMember
<1>2. CASE C!IsMember(req[r].class, req[r].user)
  BY <1>1, <1>2, Told, FinishOnly DEF C!JoinFindMember
<1>3. CASE ~C!IsMember(req[r].class, req[r].user)
  <2> DEFINE s == [req[r] EXCEPT !.pc = "add"]
  <2>1. req[r] \in [pc: {"rep", "look", "add", "commit", "again"}, user: Users, class: ClassIds]
    BY <1>1 DEF ClassInv, ClassesTyped, RequestState, C!Idle
  <2>2. s \in RequestState /\ s.pc = "add" /\ s.class = req[r].class
    BY <2>1 DEF RequestState
  <2>3. C!Goto(r, s) /\ joined' = joined /\ req[r].class \in known
    BY <1>1, <1>3 DEF C!JoinFindMember, ClassInv, KeysFree, Joining
  <2> HIDE DEF s
  <2>4. QED
    BY <1>1, <2>2, <2>3, JoinedStays, GotoOnly
<1>4. QED
  BY <1>2, <1>3

\* The transaction is given up; what comes next looks the membership up again.
LEMMA AbortsOnly ==
  ASSUME ClassInv, NEW r \in Requests, Joining(r), C!Aborts(r),
         UNCHANGED <<classes, members, known, joined>>
  PROVE  ClassInv'
<1> DEFINE s == [pc |-> "again", user |-> req[r].user, class |-> req[r].class]
<1>1. s \in RequestState /\ s.pc = "again" /\ s.class \in known
  BY Shape DEF RequestState, ClassInv, KeysFree, Joining
<1>2. C!Goto(r, s)
  BY DEF C!Aborts
<1> HIDE DEF s
<1>3. QED
  BY <1>1, <1>2, JoinedStays, GotoOnly

LEMMA JoinAddStep ==
  ASSUME ClassInv, NEW r \in Requests, C!JoinAdd(r)
  PROVE  ClassInv'
<1> DEFINE c == req[r].class
<1> DEFINE u == req[r].user
<1>1. /\ req[r].pc = "add" /\ UNCHANGED <<classes, members, known, joined>>
      /\ Joining(r) /\ u \in Users /\ c \in ClassIds /\ c \in known
  BY Shape DEF C!JoinAdd, ClassInv, KeysFree, Joining
<1>2. CASE \/ C!IsMember(c, u)
           \/ \E q \in Requests \ {r} : C!InTransaction(q) /\ C!Key(q) = C!Key(r)
  BY <1>1, <1>2, AbortsOnly DEF C!JoinAdd
<1>3. CASE /\ ~C!IsMember(c, u)
           /\ \A q \in Requests \ {r} : C!InTransaction(q) => C!Key(q) # C!Key(r)
  <2> DEFINE s == [pc |-> "count", user |-> u, class |-> c, seen |-> classes[c].count]
  <2>1. C!Goto(r, s)
    BY <1>1, <1>3 DEF C!JoinAdd
  <2>2. c \in C!Class /\ classes[c].count \in Nat
    BY <1>1, ClassRow DEF ClassInv, ClassesTyped
  <2>3. s \in RequestState
    BY <1>1, <2>2 DEF RequestState
  <2>4. /\ s.pc = "count" /\ s.class \in known
        /\ ~C!IsMember(s.class, s.user)
        /\ \A q \in Requests : C!InTransaction(q) /\ q # r => C!Key(q) # <<s.class, s.user>>
    BY <1>1, <1>3 DEF C!Key
  <2> HIDE DEF s
  <2>5. QED
    BY <1>1, <2>1, <2>3, <2>4, JoinedStays, GotoOnly
<1>4. QED
  BY <1>2, <1>3

LEMMA JoinCountStep ==
  ASSUME ClassInv, NEW r \in Requests, C!JoinCount(r)
  PROVE  ClassInv'
<1> DEFINE c == req[r].class
<1> DEFINE u == req[r].user
<1>1. /\ req[r].pc = "count" /\ UNCHANGED <<classes, members, known, joined>>
      /\ Joining(r) /\ C!InTransaction(r) /\ u \in Users /\ c \in ClassIds /\ c \in known
  BY Shape DEF C!JoinCount, ClassInv, KeysFree, Joining, C!InTransaction
<1> DEFINE s == [pc |-> "commit", user |-> u, class |-> c]
<1>2. C!Aborts(r) \/ C!Goto(r, s)
  BY DEF C!JoinCount
<1>3. /\ s \in RequestState /\ s.pc = "commit" /\ s.class \in known
      /\ ~C!IsMember(s.class, s.user)
      /\ \A q \in Requests : C!InTransaction(q) /\ q # r => C!Key(q) # <<s.class, s.user>>
  BY <1>1 DEF RequestState, ClassInv, KeysFree, NotIn, C!Key
<1> HIDE DEF s
<1>4. QED
  BY <1>1, <1>2, <1>3, AbortsOnly, JoinedStays, GotoOnly

LEMMA JoinAgainStep ==
  ASSUME ClassInv, NEW r \in Requests, C!JoinAgain(r)
  PROVE  ClassInv'
<1>1. req[r].pc = "again" /\ UNCHANGED <<classes, members, known>> /\ C!Finish(r)
  BY DEF C!JoinAgain
<1>2. CASE C!IsMember(req[r].class, req[r].user)
  BY <1>1, <1>2, Told, FinishOnly DEF C!JoinAgain
<1>3. CASE ~C!IsMember(req[r].class, req[r].user)
  BY <1>1, <1>3, JoinedStays, FinishOnly DEF C!JoinAgain
<1>4. QED
  BY <1>2, <1>3

(***************************************************************************)
(* The commit: one row that was not there, and one more in the count.      *)
(***************************************************************************)
LEMMA EnterStep ==
  ASSUME ClassInv, NEW r \in Requests, req[r].pc = "commit", C!Enter(r),
         NEW s \in RequestState, C!Goto(r, s), s.pc \in {"idle", "again"},
         s.pc = "again" => s.class = req[r].class,
         known' = known, joined' = joined \/ joined' = joined \cup {C!Key(r)}
  PROVE  ClassInv'
<1> DEFINE m == [class |-> req[r].class, user |-> req[r].user, role |-> "member"]
<1>1. /\ C!InTransaction(r) /\ Joining(r)
      /\ req[r].user \in Users /\ req[r].class \in known /\ req[r].class \in ClassIds
      /\ req[r].class \in C!Class /\ ~C!IsMember(req[r].class, req[r].user)
  BY Shape DEF ClassInv, ClassesTyped, KeysFree, NotIn, Joining, C!InTransaction
<1>2. PICK c \in C!Class, u \in Users :
        c = req[r].class /\ u = req[r].user /\ c \in known /\ c \in ClassIds
  BY <1>1
<1>3. members' = members \cup {m} /\ classes' = [classes EXCEPT ![c].count = @ + 1]
  BY <1>2 DEF C!Enter
<1>4. m \in MemberRow /\ m.class = c /\ m.user = u /\ m.role = "member"
  BY <1>2 DEF MemberRow
<1> HIDE DEF m
<1>5. /\ classes' \in Seq([code: Codes, count: Nat])
      /\ C!Class' = C!Class
      /\ classes'[c].count = classes[c].count + 1 /\ classes[c].count \in Nat
      /\ \A x \in C!Class : x # c => classes'[x] = classes[x]
  <2>1. classes \in Seq([code: Codes, count: Nat]) /\ c \in 1..Len(classes)
    BY <1>2, ClassRow DEF ClassInv
  <2>2. classes[c] \in [code: Codes, count: Nat] /\ classes[c].count \in Nat
    BY <1>2, ClassRow DEF ClassInv
  <2> DEFINE e == [classes[c] EXCEPT !.count = @ + 1]
  <2>3. e \in [code: Codes, count: Nat] /\ e.count = classes[c].count + 1
    BY <2>2
  <2>4. classes' = [classes EXCEPT ![c] = e]
    BY <1>3, <2>1
  <2> HIDE DEF e
  <2>5. /\ classes' \in Seq([code: Codes, count: Nat]) /\ Len(classes') = Len(classes)
        /\ \A j \in 1..Len(classes) : classes'[j] = IF j = c THEN e ELSE classes[j]
    BY <2>1, <2>3, <2>4, ExceptSeq
  <2>6. QED
    BY <2>1, <2>2, <2>3, <2>5 DEF C!Class
<1>6. /\ req' \in [Requests -> RequestState] /\ req'[r] = s
      /\ \A q \in Requests : q # r => req'[q] = req[q]
  BY DEF ClassInv, ClassesTyped, C!Goto
<1>7. ClassesTyped'
  <2>1. joined' \subseteq ClassIds \X Users
    BY <1>1 DEF ClassInv, ClassesTyped, C!Key
  <2>2. QED
    BY <1>3, <1>4, <1>5, <1>6, <2>1 DEF ClassInv, ClassesTyped, RequestState, MemberRow, C!Idle
<1>8. MembersKnown'
  BY <1>2, <1>3, <1>4 DEF ClassInv, MembersKnown
<1>9. AnswersTrue'
  BY <1>2, <1>3, <1>4 DEF ClassInv, AnswersTrue, C!AnswersTrue, C!IsMember, C!Role, C!Key
<1>10. RepsApart'
  BY <1>5, <1>6 DEF ClassInv, RepsApart
<1>11. KeysFree'
  <2>1. \A q \in Requests : C!InTransaction(q)' =>
          q # r /\ req'[q] = req[q] /\ C!InTransaction(q) /\ C!Key(q)' = C!Key(q)
    BY <1>6 DEF C!InTransaction, C!Key
  <2>2. \A q \in Requests : Joining(q)' => req'[q].class \in known
    BY <1>2, <1>6 DEF Joining, ClassInv, KeysFree
  <2>3. \A q \in Requests : NotIn(q)'
    <3>1. SUFFICES ASSUME NEW q \in Requests, C!InTransaction(q)' PROVE NotIn(q)'
      BY DEF NotIn
    <3>2. /\ req'[q] = req[q] /\ C!Key(q) # C!Key(r)
          /\ ~C!IsMember(req[q].class, req[q].user)
      BY <1>1, <2>1, <3>1 DEF ClassInv, KeysFree, NotIn
    <3>3. ~(req[q].class = c /\ req[q].user = u)
      BY <1>2, <3>2 DEF C!Key
    <3>4. QED
      BY <1>3, <1>4, <3>2, <3>3 DEF NotIn, C!IsMember, C!Role
  <2>4. QED
    BY <2>1, <2>2, <2>3 DEF ClassInv, KeysFree
<1>12. /\ u \notin C!MembersOf(c) /\ C!MembersOf(c)' = C!MembersOf(c) \cup {u}
       /\ \A x \in C!Class : C!Rep(x)' = C!Rep(x)
       /\ \A x \in C!Class : x # c => C!MembersOf(x)' = C!MembersOf(x)
  BY <1>1, <1>2, <1>3, <1>4 DEF C!MembersOf, C!Rep, C!IsMember, C!Role
<1>13. /\ IsFiniteSet(C!MembersOf(c)) /\ IsFiniteSet(C!MembersOf(c)')
       /\ Cardinality(C!MembersOf(c)') = Cardinality(C!MembersOf(c)) + 1
       /\ Cardinality(C!MembersOf(c)) \in Nat
  BY <1>2, <1>12, FS_AddElement, FS_CardinalityType DEF ClassInv, MembersFinite
<1>14. MembersFinite'
  BY <1>5, <1>12, <1>13 DEF ClassInv, MembersFinite
<1>15. CountInv'
  <2>1. ASSUME NEW x \in C!Class
        PROVE  classes'[x].count
                 = Cardinality(C!MembersOf(x)') + (IF C!Rep(x)' = {} THEN 1 ELSE 0)
    <3>1. CASE x = c
      <4>1. classes[c].count = Cardinality(C!MembersOf(c)) + (IF C!Rep(c) = {} THEN 1 ELSE 0)
        BY DEF ClassInv, CountInv
      <4>2. C!Rep(c)' = C!Rep(c) /\ classes'[c].count = classes[c].count + 1
        BY <1>5, <1>12
      <4>3. classes'[c].count
              = Cardinality(C!MembersOf(c)') + (IF C!Rep(c)' = {} THEN 1 ELSE 0)
        BY <1>13, <4>1, <4>2
      <4>4. QED
        BY <3>1, <4>3
    <3>2. CASE x # c
      BY <1>5, <1>12, <3>2 DEF ClassInv, CountInv
    <3>3. QED
      BY <3>1, <3>2
  <2>2. QED
    BY <1>5, <2>1 DEF CountInv
<1>16. QED
  BY <1>7, <1>8, <1>9, <1>10, <1>11, <1>14, <1>15 DEF ClassInv

LEMMA JoinCommitStep ==
  ASSUME ClassInv, NEW r \in Requests, C!JoinCommit(r)
  PROVE  ClassInv'
BY IdleState, EnterStep DEF C!JoinCommit, C!Finish

LEMMA CommitFailsStep ==
  ASSUME ClassInv, NEW r \in Requests, C!CommitFails(r)
  PROVE  ClassInv'
<1> DEFINE s == [pc |-> "again", user |-> req[r].user, class |-> req[r].class]
<1>1. /\ req[r].pc = "commit" /\ Joining(r) /\ C!Goto(r, s) /\ C!Aborts(r)
      /\ UNCHANGED <<known, joined>>
      /\ C!Enter(r) \/ UNCHANGED <<members, classes>>
  BY DEF C!CommitFails, C!Aborts, Joining
<1>2. s \in RequestState /\ s.pc = "again" /\ s.class = req[r].class
  BY <1>1, Shape DEF RequestState, ClassInv
<1> HIDE DEF s
<1>3. QED
  BY <1>1, <1>2, AbortsOnly, EnterStep

LEMMA ClassInductive == ClassInv /\ [C!Next]_classVars => ClassInv'
<1> SUFFICES ASSUME ClassInv, [C!Next]_classVars PROVE ClassInv'
  OBVIOUS
<1>1. ASSUME NEW r \in Requests, C!HandlerFails(r) PROVE ClassInv'
  BY <1>1, JoinedStays, FinishOnly DEF C!HandlerFails
<1>2. CASE C!Next
  BY <1>1, <1>2, PickCodeStep, InsertClassStep, AddRepStep, JoinFindClassStep,
     JoinFindMemberStep, JoinAddStep, JoinCountStep, JoinCommitStep, CommitFailsStep,
     JoinAgainStep DEF C!Next
<1>3. CASE UNCHANGED classVars
  BY <1>3 DEF classVars, ClassInv, ClassesTyped, MembersKnown, RepsApart, KeysFree, NotIn,
     Joining, MembersFinite, CountInv, AnswersTrue, C!AnswersTrue, C!IsMember, C!Role,
     C!MembersOf, C!Rep, C!Class, C!InTransaction, C!Key
<1>4. QED
  BY <1>2, <1>3

-----------------------------------------------------------------------------
(***************************************************************************)
(* The fan-out.  From the moment a request came, those who were owed a     *)
(* push are members and not the poster; the members are listed later, when *)
(* there can only be more of them, so that what is left to enqueue and     *)
(* what is enqueued never fall short of what is owed.                      *)
(***************************************************************************)
Enrolled == C!MembersOf(1)

PostRow == [by: Users, at: Times, pinned: BOOLEAN]

PosterState ==
  {A!Idle}
    \cup [pc: {"store"}, by: Users, id: PostIds, at: Times]
    \cup [pc: {"list"}, by: Users, id: PostIds]
    \cup [pc: {"push"}, id: PostIds, todo: SUBSET Users]

FeedTyped ==
  /\ poster \in PosterState
  /\ \A id \in A!Stored : posts[id] \in PostRow
  /\ DOMAIN pushed = A!Sent /\ A!Stored \subseteq A!Sent

PosterInv ==
  LET id == poster.id IN
  /\ poster.pc # "idle" => id \in A!Sent
  /\ poster.pc = "store" =>
       id \notin A!Stored /\ pushed[id] = {} /\ owed[id] \subseteq Enrolled \ {poster.by}
  /\ poster.pc = "list" =>
       /\ id \in A!Stored /\ posts[id].by = poster.by
       /\ pushed[id] = {} /\ owed[id] \subseteq Enrolled \ {poster.by}
  /\ poster.pc = "push" =>
       /\ id \in A!Stored /\ poster.todo \subseteq Enrolled \ {posts[id].by}
       /\ owed[id] \subseteq pushed[id] \cup poster.todo

FeedInv == FeedTyped /\ PosterInv /\ PushesRight

Inv == ClassInv /\ FeedInv

LEMMA PosterShape ==
  ASSUME FeedTyped
  PROVE  /\ poster.pc \in {"idle", "store", "list", "push"}
         /\ poster.pc = "idle" <=> poster = A!Idle
         /\ poster.pc \in {"store", "list"} => poster.by \in Users
         /\ poster.pc = "store" => poster.at \in Times
         /\ poster.pc # "idle" => poster.id \in PostIds
         /\ poster.pc = "push" => poster.todo \subseteq Users
BY DEF FeedTyped, PosterState, A!Idle

LEMMA EnrolledUsers == ClassInv => Enrolled \subseteq Users /\ C!Rep(1) \subseteq Users
BY DEF ClassInv, ClassesTyped, MemberRow, Enrolled, C!MembersOf, C!Rep

LEMMA EnrolledGrow == C!Next => Enrolled \subseteq Enrolled'
<1> SUFFICES ASSUME C!Next PROVE members \subseteq members'
  BY DEF Enrolled, C!MembersOf
<1>1. QED
  BY DEF C!Next, C!PickCode, C!InsertClass, C!AddRep, C!JoinFindClass, C!JoinFindMember,
     C!JoinAdd, C!JoinCount, C!JoinCommit, C!CommitFails, C!JoinAgain, C!HandlerFails, C!Enter

LEMMA InitFeedInv == A!Init => FeedInv
<1> SUFFICES ASSUME A!Init PROVE FeedInv
  OBVIOUS
<1>1. A!Stored = {} /\ A!Sent = {} /\ DOMAIN pushed = {} /\ poster = A!Idle
  BY DEF A!Init, A!Stored, A!Sent
<1>2. QED
  BY <1>1 DEF FeedInv, FeedTyped, PosterInv, PushesRight, A!PushesRight, PosterState, A!Idle

\* A step of the classes: there can only be more members.
LEMMA FeedKeeps ==
  ASSUME FeedInv, Enrolled \subseteq Enrolled', UNCHANGED feedVars
  PROVE  FeedInv'
<1>1. UNCHANGED <<posts, poster, pushed, owed>> /\ A!Stored' = A!Stored /\ A!Sent' = A!Sent
  BY DEF feedVars, A!Stored, A!Sent
<1>2. FeedTyped'
  BY <1>1 DEF FeedInv, FeedTyped, PosterState, PostRow, A!Idle
<1>3. PosterInv'
  BY <1>1 DEF FeedInv, PosterInv
<1>4. PushesRight'
  BY <1>1 DEF FeedInv, PushesRight, A!PushesRight, Enrolled, A!Idle
<1>5. QED
  BY <1>2, <1>3, <1>4 DEF FeedInv

LEMMA PostStep ==
  ASSUME Inv, A!Post, UNCHANGED members
  PROVE  FeedInv'
<1>1. PICK u \in C!Rep(1), id \in PostIds \ A!Sent, now \in Times :
        /\ poster' = [pc |-> "store", by |-> u, id |-> id, at |-> now]
        /\ owed' = A!With(owed, id, Enrolled \ {u})
        /\ pushed' = A!With(pushed, id, {})
  BY DEF A!Post, Enrolled
<1>2. /\ posts' = posts /\ A!Stored' = A!Stored /\ Enrolled' = Enrolled /\ u \in Users
      /\ poster = A!Idle
  BY EnrolledUsers DEF A!Post, A!Stored, Enrolled, C!MembersOf, Inv
<1>3. /\ A!Sent' = A!Sent \cup {id} /\ DOMAIN pushed' = DOMAIN pushed \cup {id}
      /\ owed'[id] = Enrolled \ {u} /\ pushed'[id] = {}
      /\ \A j \in A!Sent : j # id => owed'[j] = owed[j]
      /\ \A j \in DOMAIN pushed : j # id => pushed'[j] = pushed[j]
  <2>1. /\ A!Sent' = A!Sent \cup {id} /\ owed'[id] = Enrolled \ {u}
        /\ \A j \in A!Sent : j # id => owed'[j] = owed[j]
    BY <1>1 DEF A!Sent, A!With
  <2>2. /\ DOMAIN pushed' = DOMAIN pushed \cup {id} /\ pushed'[id] = {}
        /\ \A j \in DOMAIN pushed : j # id => pushed'[j] = pushed[j]
    BY <1>1 DEF A!With
  <2>3. QED
    BY <2>1, <2>2
<1>4. DOMAIN pushed = A!Sent /\ A!Stored \subseteq A!Sent /\ id \notin A!Stored
  BY DEF Inv, FeedInv, FeedTyped
<1>5. FeedTyped'
  <2>1. poster' \in PosterState
    BY <1>1, <1>2 DEF PosterState
  <2>2. QED
    BY <1>2, <1>3, <1>4, <2>1 DEF Inv, FeedInv, FeedTyped, PosterState, PostRow, A!Idle
<1>6. PosterInv'
  BY <1>1, <1>2, <1>3, <1>4 DEF PosterInv
<1>7. PushesRight'
  BY <1>1, <1>2, <1>3, <1>4 DEF Inv, FeedInv, PushesRight, A!PushesRight, Enrolled, A!Idle
<1>8. QED
  BY <1>5, <1>6, <1>7 DEF FeedInv

LEMMA StorePostStep ==
  ASSUME Inv, A!StorePost, UNCHANGED members
  PROVE  FeedInv'
<1>1. /\ poster.pc = "store" /\ UNCHANGED <<pushed, owed>>
      /\ Enrolled' = Enrolled /\ A!Sent' = A!Sent /\ FeedTyped
  BY DEF A!StorePost, Enrolled, C!MembersOf, A!Sent, Inv, FeedInv
<1>2. PICK id \in PostIds, u \in Users, now \in Times :
        id = poster.id /\ u = poster.by /\ now = poster.at
  BY <1>1, PosterShape
<1> DEFINE row == [by |-> u, at |-> now, pinned |-> FALSE]
<1>3. /\ posts' = A!With(posts, id, row)
      /\ poster' = [pc |-> "list", by |-> u, id |-> id]
  BY <1>2 DEF A!StorePost
<1>4. row \in PostRow /\ row.by = u
  BY DEF PostRow
<1> HIDE DEF row
<1>5. /\ A!Stored' = A!Stored \cup {id} /\ posts'[id] = row
      /\ \A j \in A!Stored : j # id => posts'[j] = posts[j]
  BY <1>3 DEF A!Stored, A!With
<1>6. /\ id \in A!Sent /\ id \notin A!Stored /\ pushed[id] = {}
      /\ owed[id] \subseteq Enrolled \ {u}
  BY <1>1, <1>2 DEF Inv, FeedInv, PosterInv
<1>7. FeedTyped'
  <2>1. poster' \in PosterState
    BY <1>3 DEF PosterState
  <2>2. QED
    BY <1>1, <1>4, <1>5, <1>6, <2>1 DEF FeedTyped, PosterState, PostRow, A!Idle
<1>8. PosterInv'
  BY <1>1, <1>3, <1>4, <1>5, <1>6 DEF PosterInv
<1>9. PushesRight'
  BY <1>1, <1>2, <1>3, <1>4, <1>5, <1>6
     DEF Inv, FeedInv, PushesRight, A!PushesRight, Enrolled, A!Idle
<1>10. QED
  BY <1>7, <1>8, <1>9 DEF FeedInv

\* What the poster has left to enqueue.
LEMMA EnqueueingShape ==
  ASSUME NEW todo \in SUBSET Users, NEW id \in PostIds, poster.id = id,
         poster' = A!Enqueueing(todo)
  PROVE  /\ poster' \in PosterState
         /\ todo = {} => poster' = A!Idle
         /\ todo # {} => poster' = [pc |-> "push", id |-> id, todo |-> todo]
BY DEF A!Enqueueing, PosterState

\* A step of the poster that leaves it with todo.
LEMMA PushStep ==
  ASSUME Inv, NEW id \in PostIds, NEW todo \in SUBSET Users,
         poster.pc \in {"list", "push"}, poster.id = id,
         poster' = A!Enqueueing(todo), UNCHANGED <<members, posts>>,
         DOMAIN owed' = DOMAIN owed, DOMAIN pushed' = DOMAIN pushed,
         \A j \in A!Sent : j # id => owed'[j] = owed[j] /\ pushed'[j] = pushed[j],
         todo \subseteq Enrolled \ {posts[id].by},
         pushed'[id] \subseteq Enrolled \ {posts[id].by},
         owed'[id] \subseteq pushed'[id] \cup todo
  PROVE  FeedInv'
<1>1. /\ FeedTyped /\ A!Stored' = A!Stored /\ A!Sent' = A!Sent /\ Enrolled' = Enrolled
      /\ id \in A!Stored /\ id \in A!Sent
  BY DEF Inv, FeedInv, PosterInv, A!Stored, A!Sent, Enrolled, C!MembersOf
<1>2. /\ poster' \in PosterState
      /\ \/ todo = {} /\ poster' = A!Idle
         \/ todo # {} /\ poster' = [pc |-> "push", id |-> id, todo |-> todo]
  BY EnqueueingShape
<1>3. FeedTyped'
  BY <1>1, <1>2 DEF FeedTyped, PosterState, PostRow, A!Idle
<1>4. PosterInv'
  BY <1>1, <1>2 DEF PosterInv, A!Idle
<1>5. PushesRight'
  <2>1. \A j \in A!Stored : pushed'[j] \subseteq Enrolled \ {posts[j].by}
    BY <1>1 DEF Inv, FeedInv, FeedTyped, PushesRight, A!PushesRight, Enrolled
  <2>2. \A j \in A!Sent : j # id => owed[j] \subseteq pushed[j]
    BY DEF Inv, FeedInv, PushesRight, A!PushesRight, A!Idle
  <2>3. \A j \in A!Sent : poster' = A!Idle \/ poster'.id # j => owed'[j] \subseteq pushed'[j]
    BY <1>2, <2>2 DEF A!Idle
  <2>4. QED
    BY <1>1, <2>1, <2>3 DEF PushesRight, A!PushesRight, Enrolled, A!Idle
<1>6. QED
  BY <1>3, <1>4, <1>5 DEF FeedInv

LEMMA ListMembersStep ==
  ASSUME Inv, A!ListMembers, UNCHANGED members
  PROVE  FeedInv'
<1>1. /\ poster.pc = "list" /\ UNCHANGED <<posts, pushed, owed>> /\ FeedTyped
      /\ poster' = A!Enqueueing(Enrolled \ {poster.by})
  BY DEF A!ListMembers, A!Recipients, Enrolled, Inv, FeedInv
<1>2. PICK id \in PostIds : id = poster.id
  BY <1>1, PosterShape
<1>3. /\ posts[id].by = poster.by /\ pushed[id] = {} /\ owed[id] \subseteq Enrolled \ {poster.by}
  BY <1>1, <1>2 DEF Inv, FeedInv, PosterInv
<1>4. Enrolled \ {poster.by} \in SUBSET Users
  BY EnrolledUsers DEF Inv
<1>5. QED
  BY <1>1, <1>2, <1>3, <1>4, PushStep

LEMMA EnqueuePushStep ==
  ASSUME Inv, A!EnqueuePush, UNCHANGED members
  PROVE  FeedInv'
<1>1. poster.pc = "push" /\ UNCHANGED <<posts, owed>> /\ FeedTyped
  BY DEF A!EnqueuePush, Inv, FeedInv
<1>2. PICK id \in PostIds, todo \in SUBSET Users : id = poster.id /\ todo = poster.todo
  BY <1>1, PosterShape
<1>3. PICK u \in todo :
        /\ pushed' = [pushed EXCEPT ![id] = @ \cup {u}]
        /\ poster' = A!Enqueueing(todo \ {u})
  BY <1>2 DEF A!EnqueuePush
<1>4. /\ id \in A!Stored /\ id \in A!Sent /\ id \in DOMAIN pushed
      /\ todo \subseteq Enrolled \ {posts[id].by}
      /\ owed[id] \subseteq pushed[id] \cup todo
      /\ pushed[id] \subseteq Enrolled \ {posts[id].by}
  BY <1>1, <1>2 DEF Inv, FeedInv, FeedTyped, PosterInv, PushesRight, A!PushesRight, Enrolled
<1>5. /\ DOMAIN pushed' = DOMAIN pushed /\ pushed'[id] = pushed[id] \cup {u}
      /\ \A j \in DOMAIN pushed : j # id => pushed'[j] = pushed[j]
  BY <1>3, <1>4
<1>6. \A j \in A!Sent : j # id => owed'[j] = owed[j] /\ pushed'[j] = pushed[j]
  BY <1>1, <1>5 DEF FeedTyped
<1>7. /\ todo \ {u} \in SUBSET Users /\ todo \ {u} \subseteq Enrolled \ {posts[id].by}
      /\ pushed'[id] \subseteq Enrolled \ {posts[id].by}
      /\ owed'[id] \subseteq pushed'[id] \cup (todo \ {u})
  BY <1>1, <1>4, <1>5
<1>8. QED
  BY <1>1, <1>2, <1>3, <1>5, <1>6, <1>7, PushStep

LEMMA EnqueueFailsStep ==
  ASSUME Inv, A!EnqueueFails, UNCHANGED members
  PROVE  FeedInv'
<1>1. poster.pc = "push" /\ UNCHANGED <<posts, pushed>> /\ FeedTyped
  BY DEF A!EnqueueFails, Inv, FeedInv
<1>2. PICK id \in PostIds, todo \in SUBSET Users : id = poster.id /\ todo = poster.todo
  BY <1>1, PosterShape
<1>3. PICK u \in todo :
        /\ owed' = [owed EXCEPT ![id] = @ \ {u}]
        /\ poster' = A!Enqueueing(todo \ {u})
  BY <1>2 DEF A!EnqueueFails
<1>4. /\ id \in A!Stored /\ id \in DOMAIN owed
      /\ todo \subseteq Enrolled \ {posts[id].by}
      /\ owed[id] \subseteq pushed[id] \cup todo
      /\ pushed[id] \subseteq Enrolled \ {posts[id].by}
  BY <1>1, <1>2
     DEF Inv, FeedInv, FeedTyped, PosterInv, PushesRight, A!PushesRight, Enrolled, A!Sent
<1>5. /\ DOMAIN owed' = DOMAIN owed /\ owed'[id] = owed[id] \ {u}
      /\ \A j \in DOMAIN owed : j # id => owed'[j] = owed[j]
  BY <1>3, <1>4
<1>6. \A j \in A!Sent : j # id => owed'[j] = owed[j] /\ pushed'[j] = pushed[j]
  BY <1>1, <1>5 DEF A!Sent
<1>7. /\ todo \ {u} \in SUBSET Users /\ todo \ {u} \subseteq Enrolled \ {posts[id].by}
      /\ pushed'[id] \subseteq Enrolled \ {posts[id].by}
      /\ owed'[id] \subseteq pushed'[id] \cup (todo \ {u})
  BY <1>1, <1>4, <1>5
<1>8. QED
  BY <1>1, <1>2, <1>3, <1>5, <1>6, <1>7, PushStep

LEMMA PostFailsStep ==
  ASSUME Inv, A!PostFails, UNCHANGED members
  PROVE  FeedInv'
<1>1. /\ poster.pc # "idle" /\ poster' = A!Idle
      /\ owed' = [owed EXCEPT ![poster.id] = {}]
      /\ UNCHANGED <<posts, pushed>> /\ FeedTyped
  BY PosterShape DEF A!PostFails, Inv, FeedInv
<1>2. PICK id \in PostIds : id = poster.id
  BY <1>1, PosterShape
<1>3. /\ DOMAIN owed' = DOMAIN owed
      /\ \A j \in DOMAIN owed : owed'[j] = IF j = id THEN {} ELSE owed[j]
  BY <1>1, <1>2
<1>4. /\ A!Stored' = A!Stored /\ A!Sent' = A!Sent /\ Enrolled' = Enrolled
  BY <1>1, <1>3 DEF A!Stored, A!Sent, Enrolled, C!MembersOf
<1>5. FeedTyped'
  BY <1>1, <1>4 DEF FeedTyped, PosterState, PostRow, A!Idle
<1>6. PosterInv'
  BY <1>1 DEF PosterInv, A!Idle
<1>7. PushesRight'
  <2>1. \A j \in A!Sent : j # id => owed[j] \subseteq pushed[j]
    BY <1>2 DEF Inv, FeedInv, PushesRight, A!PushesRight
  <2>2. \A j \in A!Sent : owed'[j] \subseteq pushed'[j]
    BY <1>1, <1>3, <2>1 DEF A!Sent
  <2>3. \A j \in A!Stored : pushed'[j] \subseteq Enrolled \ {posts'[j].by}
    BY <1>1 DEF Inv, FeedInv, PushesRight, A!PushesRight, Enrolled
  <2>4. QED
    BY <1>4, <2>2, <2>3 DEF PushesRight, A!PushesRight, Enrolled
<1>8. QED
  BY <1>5, <1>6, <1>7 DEF FeedInv

LEMMA UpdatePinStep ==
  ASSUME Inv, A!UpdatePin, UNCHANGED members
  PROVE  FeedInv'
<1>1. /\ UNCHANGED <<poster, pushed, owed>> /\ FeedTyped
      /\ Enrolled' = Enrolled /\ A!Sent' = A!Sent
  BY DEF A!UpdatePin, Inv, FeedInv, Enrolled, C!MembersOf, A!Sent
<1>2. PICK id \in A!Stored : posts' = [posts EXCEPT ![id].pinned = ~@]
  BY DEF A!UpdatePin
<1>3. posts[id] \in PostRow
  BY <1>1 DEF FeedTyped
<1> DEFINE row == [posts[id] EXCEPT !.pinned = ~@]
<1>4. row \in PostRow /\ row.by = posts[id].by
  BY <1>3, Zenon DEF PostRow
<1>5. posts' = [posts EXCEPT ![id] = row]
  BY <1>2
<1> HIDE DEF row
<1>6. /\ A!Stored' = A!Stored
      /\ \A j \in A!Stored : posts'[j] \in PostRow /\ posts'[j].by = posts[j].by
  BY <1>1, <1>4, <1>5 DEF FeedTyped, A!Stored
<1>7. FeedTyped'
  BY <1>1, <1>6 DEF FeedTyped, PosterState, PostRow, A!Idle
<1>8. PosterInv'
  BY <1>1, <1>6 DEF Inv, FeedInv, PosterInv
<1>9. PushesRight'
  BY <1>1, <1>6 DEF Inv, FeedInv, PushesRight, A!PushesRight, Enrolled, A!Idle
<1>10. QED
  BY <1>7, <1>8, <1>9 DEF FeedInv

LEMMA ReaderStep ==
  ASSUME Inv, A!ListPinned \/ A!ListPage, UNCHANGED members
  PROVE  FeedInv'
<1>1. /\ UNCHANGED <<posts, poster, pushed, owed>>
      /\ A!Stored' = A!Stored /\ A!Sent' = A!Sent /\ Enrolled' = Enrolled
  BY DEF A!ListPinned, A!ListPage, A!Stored, A!Sent, Enrolled, C!MembersOf
<1>2. QED
  BY <1>1 DEF Inv, FeedInv, FeedTyped, PosterInv, PosterState, PostRow,
     PushesRight, A!PushesRight, Enrolled, A!Idle

LEMMA InitInv == Init => Inv
BY InitClassInv, InitFeedInv DEF Init, Inv

LEMMA Inductive == Inv /\ [Next]_vars => Inv'
<1> SUFFICES ASSUME Inv, [Next]_vars PROVE Inv'
  OBVIOUS
<1>1. CASE C!Next /\ UNCHANGED feedVars
  BY <1>1, ClassInductive, EnrolledGrow, FeedKeeps DEF Inv
<1>2. CASE A!Step /\ UNCHANGED classVars
  <2>1. UNCHANGED members
    BY <1>2 DEF classVars
  <2>2. ClassInv'
    BY <1>2, ClassInductive DEF Inv
  <2>3. FeedInv'
    BY <1>2, <2>1, PostStep, StorePostStep, ListMembersStep, EnqueuePushStep, EnqueueFailsStep,
       PostFailsStep, UpdatePinStep, ReaderStep DEF A!Step
  <2>4. QED
    BY <2>2, <2>3 DEF Inv
<1>3. CASE UNCHANGED vars
  <2>1. UNCHANGED classVars /\ UNCHANGED feedVars /\ Enrolled \subseteq Enrolled'
    BY <1>3 DEF vars, classVars, Enrolled, C!MembersOf
  <2>2. QED
    BY <2>1, ClassInductive, FeedKeeps DEF Inv
<1>4. QED
  BY <1>1, <1>2, <1>3 DEF Next

LEMMA Invariance == Spec => []Inv
BY InitInv, Inductive, PTL DEF Spec

-----------------------------------------------------------------------------
(***************************************************************************)
(* join_class and create_class: member_count is the number of members, for *)
(* any number of joins that race, abort or lose the answer of a commit.    *)
(***************************************************************************)
THEOREM CountExactHolds == Spec => []CountExact
<1>1. Inv => CountExact
  BY SameCardinality DEF Inv, ClassInv, CountInv, CountExact, C!CountExact
<1>2. QED
  BY <1>1, Invariance, PTL

(***************************************************************************)
(* join_class: whoever was answered with the class is a member of it.      *)
(***************************************************************************)
THEOREM AnswersTrueHolds == Spec => []AnswersTrue
<1>1. Inv => AnswersTrue
  BY DEF Inv, ClassInv
<1>2. QED
  BY <1>1, Invariance, PTL

(***************************************************************************)
(* post and its fan-out: pushes go to members other than the poster, and   *)
(* to all who were members when the request came, while others join.       *)
(***************************************************************************)
THEOREM PushesRightHolds == Spec => []PushesRight
<1>1. Inv => PushesRight
  BY DEF Inv, FeedInv
<1>2. QED
  BY <1>1, Invariance, PTL

-----------------------------------------------------------------------------
(***************************************************************************)
(* The feed is a linear order, and a page is the beginning of it: whatever *)
(* else the query finds comes later, and a page that is not full is all.   *)
(***************************************************************************)
PostsOrdered ==
  /\ IsFiniteSet(A!Stored) /\ A!Stored \subseteq Nat
  /\ \A id \in A!Stored : posts[id].at \in Nat

LEMMA SameCardinalityFeed == ASSUME NEW S PROVE A!Cardinality(S) = Cardinality(S)
BY DEF A!Cardinality, Cardinality

LEMMA FeedOrder ==
  ASSUME PostsOrdered, NEW i \in A!Stored, NEW j \in A!Stored, NEW k \in A!Stored
  PROVE  /\ ~A!NewerThan(i, i)
         /\ A!NewerThan(i, j) => ~A!NewerThan(j, i)
         /\ i # j => A!NewerThan(i, j) \/ A!NewerThan(j, i)
         /\ A!NewerThan(i, j) /\ A!NewerThan(j, k) => A!NewerThan(i, k)
<1>1. /\ i \in Nat /\ j \in Nat /\ k \in Nat
      /\ posts[i].at \in Nat /\ posts[j].at \in Nat /\ posts[k].at \in Nat
  BY DEF PostsOrdered
<1>2. QED
  BY <1>1 DEF A!NewerThan

Ahead(S, i) == {j \in S : A!NewerThan(j, i)}

Place(S, i) == Cardinality(Ahead(S, i))

LEMMA PlaceType ==
  ASSUME PostsOrdered, NEW S \in SUBSET A!Stored, NEW i
  PROVE  /\ IsFiniteSet(S) /\ IsFiniteSet(Ahead(S, i)) /\ Place(S, i) \in Nat
<1>1. IsFiniteSet(S)
  BY FS_Subset DEF PostsOrdered
<1>2. Ahead(S, i) \in SUBSET S
  BY DEF Ahead
<1>3. QED
  BY <1>1, <1>2, FS_Subset, FS_CardinalityType DEF Place

LEMMA PlaceRises ==
  ASSUME PostsOrdered, NEW S \in SUBSET A!Stored, NEW i \in S, NEW j \in S, A!NewerThan(i, j)
  PROVE  Place(S, i) < Place(S, j)
<1>1. Ahead(S, i) \in SUBSET Ahead(S, j)
  BY FeedOrder DEF Ahead
<1>2. i \in Ahead(S, j) /\ i \notin Ahead(S, i)
  BY FeedOrder DEF Ahead
<1>3. /\ IsFiniteSet(Ahead(S, j))
      /\ Place(S, i) \in Nat /\ Place(S, j) \in Nat
  BY PlaceType
<1>4. Place(S, i) <= Place(S, j) /\ Place(S, i) # Place(S, j)
  BY <1>1, <1>2, <1>3, FS_Subset DEF Place
<1>5. QED
  BY <1>3, <1>4

\* Numbers are well founded.
LEMMA Least ==
  ASSUME NEW T \in SUBSET Nat, T # {}
  PROVE  \E x \in T : \A y \in T : x <= y
<1> DEFINE R == {ss \in Nat \X Nat : ss[1] < ss[2]}
<1>1. IsWellFoundedOn(R, Nat)
  BY NatLessThanWellFounded DEF OpToRel
<1> HIDE DEF R
<1>2. PICK x \in T : \A y \in T : ~(<<y, x>> \in R)
  BY <1>1, WFMin
<1>3. \A y \in T : ~(y < x)
  BY <1>2 DEF R
<1>4. QED
  BY <1>3

Front(S) == {i \in S : Place(S, i) < PageSize}

LEMMA FrontFirst ==
  ASSUME PostsOrdered, NEW S \in SUBSET A!Stored, NEW i \in Front(S), NEW j \in S \ Front(S)
  PROVE  A!NewerThan(i, j)
<1>1. /\ Place(S, i) \in Nat /\ Place(S, j) \in Nat /\ PageSize \in Nat
      /\ Place(S, i) < Place(S, j) /\ i \in S
  <2>1. Place(S, i) \in Nat /\ Place(S, j) \in Nat /\ PageSize \in Nat
    BY PlaceType, ClassFeedAssumption
  <2>2. i \in S /\ Place(S, i) < PageSize /\ ~(Place(S, j) < PageSize)
    BY DEF Front
  <2>3. QED
    BY <2>1, <2>2
<1>2. i # j
  BY <1>1
<1>3. ~A!NewerThan(j, i)
  BY <1>1, PlaceRises
<1>4. QED
  BY <1>1, <1>2, <1>3, FeedOrder

LEMMA FrontShort ==
  ASSUME PostsOrdered, NEW S \in SUBSET A!Stored, Cardinality(Front(S)) < PageSize
  PROVE  Front(S) = S
<1> SUFFICES ASSUME S \ Front(S) # {} PROVE FALSE
  BY DEF Front
<1> DEFINE T == {Place(S, i) : i \in S \ Front(S)}
<1>1. T \in SUBSET Nat /\ T # {}
  BY PlaceType
<1>2. PICK i \in S \ Front(S) : \A j \in S \ Front(S) : Place(S, i) <= Place(S, j)
  <2>1. PICK x \in T : \A y \in T : x <= y
    BY <1>1, Least
  <2>2. QED
    BY <2>1
<1> HIDE DEF T
<1>3. Ahead(S, i) \in SUBSET Front(S)
  <2>1. SUFFICES ASSUME NEW j \in S, A!NewerThan(j, i) PROVE j \in Front(S)
    BY DEF Ahead
  <2>2. Place(S, j) < Place(S, i) /\ Place(S, i) \in Nat /\ Place(S, j) \in Nat
    BY <2>1, PlaceRises, PlaceType
  <2>3. QED
    BY <1>2, <2>2
<1>4. IsFiniteSet(Front(S)) /\ Cardinality(Front(S)) \in Nat
  <2>1. Front(S) \in SUBSET S
    BY DEF Front
  <2>2. QED
    BY <2>1, PlaceType, FS_Subset, FS_CardinalityType
<1>5. Place(S, i) <= Cardinality(Front(S)) /\ Place(S, i) \in Nat /\ PageSize \in Nat
  BY <1>3, <1>4, FS_Subset, PlaceType, ClassFeedAssumption DEF Place
<1>6. Place(S, i) < PageSize
  BY <1>4, <1>5
<1>7. QED
  BY <1>2, <1>6 DEF Front

LEMMA FrontLast ==
  ASSUME PostsOrdered, NEW S \in SUBSET A!Stored, Front(S) # {}
  PROVE  /\ A!Last(Front(S)) \in Front(S)
         /\ \A j \in Front(S) \ {A!Last(Front(S))} : A!NewerThan(j, A!Last(Front(S)))
<1> DEFINE T == {PageSize - Place(S, i) : i \in Front(S)}
<1>1. \A i \in Front(S) : i \in S /\ Place(S, i) \in Nat /\ Place(S, i) < PageSize
  BY PlaceType DEF Front
<1>2. PageSize \in Nat
  BY ClassFeedAssumption
<1>3. T \in SUBSET Nat /\ T # {}
  BY <1>1, <1>2
<1>4. PICK i \in Front(S) : \A j \in Front(S) : Place(S, j) <= Place(S, i)
  <2>1. PICK x \in T : \A y \in T : x <= y
    BY <1>3, Least
  <2>2. PICK i \in Front(S) : x = PageSize - Place(S, i)
    OBVIOUS
  <2>3. ASSUME NEW j \in Front(S) PROVE Place(S, j) <= Place(S, i)
    <3>1. PageSize - Place(S, i) <= PageSize - Place(S, j)
      BY <2>1, <2>2
    <3>2. QED
      BY <1>1, <1>2, <3>1
  <2>4. QED
    BY <2>3
<1> HIDE DEF T
<1>5. ASSUME NEW j \in Front(S) \ {i} PROVE A!NewerThan(j, i)
  <2>1. i \in S /\ j \in S /\ Place(S, j) <= Place(S, i)
        /\ Place(S, i) \in Nat /\ Place(S, j) \in Nat
    BY <1>1, <1>4
  <2>2. ~A!NewerThan(i, j)
    BY <2>1, PlaceRises
  <2>3. QED
    BY <2>1, <2>2, FeedOrder
<1>6. QED
  BY <1>5 DEF A!Last

-----------------------------------------------------------------------------
(***************************************************************************)
(* The walk.  What was shown does not lie before the cursor, so no page    *)
(* shows it again; what is due was pinned when the walk began, or was      *)
(* shown, or still lies before the cursor, so the last page leaves none.   *)
(***************************************************************************)
CursorRow == [at: Nat, id: Nat]

Yet(id) == A!NoCursor = reader.cursor \/ A!Before(id, reader.cursor)

WalkInv ==
  /\ reader.pc \in {"page", "end"} /\ reader.again = {}
  /\ reader.shown \subseteq A!Stored /\ reader.due \subseteq A!Stored
  /\ reader.pc = "page" =>
       /\ \/ reader.cursor = A!NoCursor /\ reader.shown = {}
          \/ reader.cursor \in CursorRow /\ \A id \in reader.shown : ~A!Before(id, reader.cursor)
       /\ \A id \in reader.due :
            \/ id \in reader.top \cup reader.shown
            \/ id \in A!Unpinned /\ Yet(id)
  /\ reader.pc = "end" => reader.due \subseteq reader.top \cup reader.shown

ReaderShape ==
  \/ reader = A!Idle
  \/ reader = [pc |-> reader.pc, cursor |-> reader.cursor, top |-> reader.top,
               shown |-> reader.shown, again |-> reader.again, due |-> reader.due]

ReaderInv == PostsOrdered /\ ReaderShape /\ (reader # A!Idle => WalkInv)

LEMMA CursorsApart ==
  ASSUME NEW c \in CursorRow
  PROVE  c # A!NoCursor
<1>1. DOMAIN c = {"at", "id"}
  BY DEF CursorRow
<1>2. DOMAIN A!NoCursor = {"none"} /\ {"none"} # {"at", "id"}
  BY DEF A!NoCursor
<1>3. QED
  BY <1>1, <1>2

Found(cursor) == {id \in A!Unpinned : cursor = A!NoCursor \/ A!Before(id, cursor)}

LEMMA PageIsFront ==
  ASSUME NEW cursor
  PROVE  A!Page(cursor) = Front(Found(cursor)) /\ Found(cursor) \in SUBSET A!Stored
BY SameCardinalityFeed DEF A!Page, Front, Place, Ahead, Found, A!Unpinned

\* The cursor behind a page: nothing, or the last post of the page.
LEMMA CursorMeans ==
  ASSUME PostsOrdered, NEW S \in SUBSET A!Stored
  PROVE  \/ A!Cursor(Front(S)) = A!NoCursor /\ Front(S) = S
         \/ /\ A!Cursor(Front(S)) \in CursorRow
            /\ \E last \in Front(S) :
                 /\ \A j \in Front(S) : j = last \/ A!NewerThan(j, last)
                 /\ \A j \in A!Stored :
                      A!Before(j, A!Cursor(Front(S))) <=> A!NewerThan(last, j)
<1>1. /\ Front(S) \in SUBSET S /\ IsFiniteSet(Front(S)) /\ Cardinality(Front(S)) \in Nat
      /\ PageSize \in Nat \ {0}
  <2>1. Front(S) \in SUBSET S
    BY DEF Front
  <2>2. QED
    BY <2>1, PlaceType, FS_Subset, FS_CardinalityType, ClassFeedAssumption
<1>2. CASE Cardinality(Front(S)) < PageSize
  BY <1>2, FrontShort, SameCardinalityFeed DEF A!Cursor
<1>3. CASE ~(Cardinality(Front(S)) < PageSize)
  <2>1. Front(S) # {}
    BY <1>1, <1>3, FS_EmptySet
  <2>2. PICK last \in Front(S) :
          /\ last = A!Last(Front(S))
          /\ \A j \in Front(S) : j = last \/ A!NewerThan(j, last)
    BY <2>1, FrontLast
  <2>3. A!Cursor(Front(S)) = [at |-> posts[last].at, id |-> last]
    BY <1>3, <2>2, SameCardinalityFeed DEF A!Cursor
  <2>4. last \in A!Stored /\ last \in Nat /\ posts[last].at \in Nat
    BY <1>1, <2>2 DEF PostsOrdered
  <2>5. A!Cursor(Front(S)) \in CursorRow
    BY <2>3, <2>4 DEF CursorRow
  <2>6. ASSUME NEW j \in A!Stored
        PROVE  A!Before(j, A!Cursor(Front(S))) <=> A!NewerThan(last, j)
    <3>1. j \in Nat /\ posts[j].at \in Nat
      BY DEF PostsOrdered
    <3>2. QED
      BY <2>3, <2>4, <3>1 DEF A!Before, A!NewerThan
  <2>7. QED
    BY <2>2, <2>5, <2>6
<1>4. QED
  BY <1>2, <1>3

LEMMA BeforeGoesOn ==
  ASSUME PostsOrdered, NEW i \in A!Stored, NEW j \in A!Stored, NEW c \in CursorRow,
         A!NewerThan(i, j), A!Before(i, c)
  PROVE  A!Before(j, c)
<1>1. /\ i \in Nat /\ j \in Nat /\ posts[i].at \in Nat /\ posts[j].at \in Nat
      /\ c.at \in Nat /\ c.id \in Nat
  BY DEF PostsOrdered, CursorRow
<1>2. QED
  BY <1>1 DEF A!Before, A!NewerThan

LEMMA InitReaderInv == A!Init => ReaderInv
<1> SUFFICES ASSUME A!Init PROVE ReaderInv
  OBVIOUS
<1>1. A!Stored = {} /\ reader = A!Idle
  BY DEF A!Init, A!Stored
<1>2. QED
  BY <1>1, FS_EmptySet DEF ReaderInv, ReaderShape, PostsOrdered

\* A step that leaves the posts and the reader alone.
LEMMA ReaderKeeps ==
  ASSUME ReaderInv, posts' = posts, reader' = reader
  PROVE  ReaderInv'
BY DEF ReaderInv, ReaderShape, PostsOrdered, WalkInv, Yet, A!Unpinned, A!Pinned, A!Before,
   A!NoCursor, A!Idle, A!Stored

LEMMA WalkBegins ==
  ASSUME ReaderInv, A!ListPinned
  PROVE  ReaderInv'
<1>1. /\ posts' = posts /\ A!Stored' = A!Stored
      /\ reader' = [pc |-> "page", cursor |-> A!NoCursor, top |-> A!Pinned, shown |-> {},
                    again |-> {}, due |-> A!Stored]
  BY DEF A!ListPinned, A!Stored
<1>2. PostsOrdered'
  BY <1>1 DEF ReaderInv, PostsOrdered
<1>3. ReaderShape'
  BY <1>1 DEF ReaderShape
<1>4. WalkInv'
  BY <1>1 DEF WalkInv, Yet, A!Unpinned, A!Pinned, A!NoCursor
<1>5. QED
  BY <1>2, <1>3, <1>4 DEF ReaderInv

LEMMA WalkGoesOn ==
  ASSUME ReaderInv, A!ListPage
  PROVE  ReaderInv'
<1> DEFINE S == Found(reader.cursor)
<1> DEFINE page == Front(S)
<1>0. PICK next : next = A!Cursor(page)
  OBVIOUS
<1>1. /\ PostsOrdered /\ reader.pc = "page" /\ reader # A!Idle /\ WalkInv
      /\ posts' = posts /\ A!Stored' = A!Stored
  BY DEF ReaderInv, A!ListPage, A!Idle, A!Stored
<1>2. A!Page(reader.cursor) = page /\ S \in SUBSET A!Stored
  BY PageIsFront
<1>3. reader' = [pc |-> IF next = A!NoCursor THEN "end" ELSE "page", cursor |-> next,
                 top |-> reader.top, shown |-> reader.shown \cup page,
                 again |-> reader.again \cup (reader.shown \cap page), due |-> reader.due]
  <2>1. reader = [pc |-> reader.pc, cursor |-> reader.cursor, top |-> reader.top,
                  shown |-> reader.shown, again |-> reader.again, due |-> reader.due]
    BY <1>1 DEF ReaderInv, ReaderShape
  <2>2. reader' = [reader EXCEPT !.pc = IF next = A!NoCursor THEN "end" ELSE "page",
                                 !.cursor = next, !.shown = @ \cup page,
                                 !.again = @ \cup (reader.shown \cap page)]
    BY <1>0, <1>2, Zenon DEF A!ListPage
  <2> HIDE DEF page
  <2>3. QED
    BY <2>1, <2>2
<1>4. page \in SUBSET S /\ page \in SUBSET A!Stored
  BY <1>2 DEF Front
<1>5. \/ next = A!NoCursor /\ page = S
      \/ /\ next \in CursorRow
         /\ \E last \in page :
              /\ \A j \in page : j = last \/ A!NewerThan(j, last)
              /\ \A j \in A!Stored : A!Before(j, next) <=> A!NewerThan(last, j)
  BY <1>0, <1>1, <1>2, CursorMeans
<1>6. \/ reader.cursor = A!NoCursor /\ reader.shown = {}
      \/ /\ reader.cursor \in CursorRow /\ reader.cursor # A!NoCursor
         /\ \A id \in reader.shown : ~A!Before(id, reader.cursor)
         /\ \A id \in S : A!Before(id, reader.cursor)
  BY <1>1, CursorsApart DEF WalkInv, Found
<1>7. reader.shown \cap page = {}
  BY <1>4, <1>6
<1>8. \A id \in reader.due : id \in reader.top \cup reader.shown \/ id \in S
  BY <1>1 DEF WalkInv, Yet, Found
<1>9. A!Unpinned' = A!Unpinned /\ S \subseteq A!Unpinned
  BY <1>1 DEF A!Unpinned, A!Pinned, Found
<1>10. ASSUME NEW id \in A!Stored PROVE A!Before(id, next)' <=> A!Before(id, next)
  BY <1>1, <1>10 DEF A!Before
<1>11. CASE next = A!NoCursor /\ page = S
  <2>1. /\ reader'.pc = "end" /\ reader'.again = {} /\ reader'.due = reader.due
        /\ reader'.shown = reader.shown \cup S /\ reader'.top = reader.top
    BY <1>1, <1>3, <1>7, <1>11 DEF WalkInv
  <2> HIDE DEF S, page
  <2>2. WalkInv'
    BY <1>1, <1>2, <1>8, <2>1 DEF WalkInv
  <2>3. QED
    BY <1>1, <1>3, <2>2 DEF ReaderInv, ReaderShape, PostsOrdered
<1>12. CASE next \in CursorRow
  <2>1. /\ reader'.pc = "page" /\ reader'.again = {} /\ reader'.due = reader.due
        /\ reader'.shown = reader.shown \cup page /\ reader'.top = reader.top
        /\ reader'.cursor = next /\ next # A!NoCursor
    <3>1. next # A!NoCursor
      BY <1>12, CursorsApart
    <3>2. QED
      BY <1>1, <1>3, <1>7, <3>1 DEF WalkInv
  <2>2. PICK last \in page :
          /\ \A j \in page : j = last \/ A!NewerThan(j, last)
          /\ \A j \in A!Stored : A!Before(j, next) <=> A!NewerThan(last, j)
    BY <1>5, <2>1
  <2>3. ASSUME NEW id \in reader.shown PROVE ~A!Before(id, next)
    <3>1. id \in A!Stored /\ last \in A!Stored /\ last \in S
      BY <1>1, <1>4 DEF WalkInv
    <3>2. reader.cursor \in CursorRow /\ ~A!Before(id, reader.cursor)
          /\ A!Before(last, reader.cursor)
      BY <1>6, <2>3, <3>1
    <3>3. QED
      BY <1>1, <2>2, <3>1, <3>2, BeforeGoesOn
  <2>4. ASSUME NEW id \in page PROVE ~A!Before(id, next)
    BY <1>1, <1>4, <2>2, FeedOrder
  <2>5. ASSUME NEW id \in S, id \notin page PROVE A!Before(id, next)
    BY <1>1, <1>2, <2>2, <2>5, FrontFirst
  <2> HIDE DEF S, page
  <2>6. \A id \in reader'.shown : ~A!Before(id, next)'
    BY <1>1, <1>4, <1>10, <2>1, <2>3, <2>4 DEF WalkInv
  <2>7. \A id \in reader'.due :
          \/ id \in reader'.top \cup reader'.shown
          \/ id \in A!Unpinned' /\ A!Before(id, next)'
    BY <1>2, <1>8, <1>9, <1>10, <2>1, <2>5
  <2>8. WalkInv'
    <3>1. reader'.cursor \in CursorRow
      BY <1>12, <2>1
    <3>2. \A id \in reader'.shown : ~A!Before(id, reader.cursor)'
      BY <2>1, <2>6 DEF A!Before
    <3>3. \A id \in reader'.due :
            \/ id \in reader'.top \cup reader'.shown
            \/ id \in A!Unpinned' /\ Yet(id)'
      BY <2>1, <2>7 DEF A!Before, Yet
    <3>4. reader'.shown \subseteq A!Stored /\ reader'.due \subseteq A!Stored
      BY <1>1, <1>4, <2>1 DEF WalkInv
    <3>5. QED
      BY <1>1, <2>1, <3>1, <3>2, <3>3, <3>4 DEF WalkInv, CursorRow
  <2>9. QED
    BY <1>1, <1>3, <2>8 DEF ReaderInv, ReaderShape, PostsOrdered
<1>13. QED
  BY <1>5, <1>11, <1>12

\* A new post is due to nobody who is on the way.
LEMMA WalkMeetsPost ==
  ASSUME Inv, ReaderInv, A!StorePost
  PROVE  ReaderInv'
<1>1. poster.pc = "store" /\ reader' = reader /\ FeedTyped /\ PosterInv /\ PostsOrdered
  BY DEF A!StorePost, Inv, FeedInv, ReaderInv
<1>2. PICK id \in PostIds, u \in Users, now \in Times :
        id = poster.id /\ u = poster.by /\ now = poster.at
  BY <1>1, PosterShape
<1> DEFINE row == [by |-> u, at |-> now, pinned |-> FALSE]
<1>3. posts' = A!With(posts, id, row) /\ row.at = now
  BY <1>2 DEF A!StorePost
<1>4. id \notin A!Stored /\ id \in Nat /\ now \in Nat
  BY <1>1, <1>2, ClassFeedAssumption DEF PosterInv
<1> HIDE DEF row
<1>5. /\ A!Stored' = A!Stored \cup {id} /\ posts'[id] = row
      /\ \A j \in A!Stored : posts'[j] = posts[j]
  BY <1>3, <1>4 DEF A!Stored, A!With
<1>6. PostsOrdered'
  BY <1>1, <1>3, <1>4, <1>5, FS_AddElement DEF PostsOrdered
<1>7. \A j \in A!Stored : j \in A!Unpinned' <=> j \in A!Unpinned
  BY <1>5 DEF A!Unpinned, A!Pinned
<1>8. \A j \in A!Stored :
        /\ A!Before(j, reader.cursor)' <=> A!Before(j, reader.cursor)
        /\ Yet(j)' <=> Yet(j)
  BY <1>1, <1>5 DEF A!Before, Yet
<1>9. ASSUME reader # A!Idle PROVE WalkInv'
  <2>1. WalkInv
    BY <1>9 DEF ReaderInv
  <2>2. QED
    BY <1>1, <1>5, <1>7, <1>8, <2>1 DEF WalkInv
<1>10. QED
  BY <1>1, <1>6, <1>9 DEF ReaderInv, ReaderShape, A!Idle

\* A pin moves one post, which is no longer due.
LEMMA WalkMeetsPin ==
  ASSUME Inv, ReaderInv, A!UpdatePin
  PROVE  ReaderInv'
<1>1. FeedTyped /\ PostsOrdered
  BY DEF Inv, FeedInv, ReaderInv
<1>2. PICK id \in A!Stored :
        /\ posts' = [posts EXCEPT ![id].pinned = ~@]
        /\ reader' = IF reader = A!Idle THEN reader ELSE [reader EXCEPT !.due = @ \ {id}]
  BY DEF A!UpdatePin
<1>3. posts[id] \in PostRow
  BY <1>1 DEF FeedTyped
<1> DEFINE row == [posts[id] EXCEPT !.pinned = ~@]
<1>4. row.at = posts[id].at
  BY <1>3, Zenon DEF PostRow
<1>5. posts' = [posts EXCEPT ![id] = row]
  BY <1>2
<1> HIDE DEF row
<1>6. /\ A!Stored' = A!Stored
      /\ \A j \in A!Stored : posts'[j].at = posts[j].at
      /\ \A j \in A!Stored : j # id => posts'[j] = posts[j]
  BY <1>4, <1>5 DEF A!Stored
<1>7. PostsOrdered'
  BY <1>1, <1>6 DEF PostsOrdered
<1>8. CASE reader = A!Idle
  BY <1>2, <1>7, <1>8 DEF ReaderInv, ReaderShape, A!Idle
<1>9. CASE reader # A!Idle
  <2>1. reader = [pc |-> reader.pc, cursor |-> reader.cursor, top |-> reader.top,
                  shown |-> reader.shown, again |-> reader.again, due |-> reader.due]
        /\ WalkInv
    BY <1>9 DEF ReaderInv, ReaderShape
  <2>2. reader' = [pc |-> reader.pc, cursor |-> reader.cursor, top |-> reader.top,
                   shown |-> reader.shown, again |-> reader.again, due |-> reader.due \ {id}]
    <3>1. reader' = [reader EXCEPT !.due = @ \ {id}]
      BY <1>2, <1>9
    <3>2. QED
      BY <2>1, <3>1
  <2>3. \A j \in A!Stored : j # id => (j \in A!Unpinned' <=> j \in A!Unpinned)
    BY <1>6 DEF A!Unpinned, A!Pinned
  <2>4. \A j \in A!Stored :
          /\ A!Before(j, reader.cursor)' <=> A!Before(j, reader.cursor)
          /\ Yet(j)' <=> Yet(j)
    BY <1>6, <2>2 DEF A!Before, Yet, A!NoCursor
  <2>5. /\ reader'.pc = reader.pc /\ reader'.cursor = reader.cursor /\ reader'.top = reader.top
        /\ reader'.shown = reader.shown /\ reader'.again = reader.again
        /\ reader'.due = reader.due \ {id}
    BY <2>2
  <2>6. WalkInv'
    BY <1>6, <2>1, <2>3, <2>4, <2>5 DEF WalkInv, A!NoCursor
  <2>7. QED
    BY <1>7, <2>2, <2>6 DEF ReaderInv, ReaderShape
<1>10. QED
  BY <1>8, <1>9

LEMMA ReaderInductive == Inv /\ ReaderInv /\ [Next]_vars => ReaderInv'
<1> SUFFICES ASSUME Inv, ReaderInv, [Next]_vars PROVE ReaderInv'
  OBVIOUS
<1>1. CASE UNCHANGED feedVars
  BY <1>1, ReaderKeeps DEF feedVars
<1>2. CASE A!Step
  <2>1. CASE A!Post \/ A!ListMembers \/ A!EnqueuePush \/ A!EnqueueFails \/ A!PostFails
    BY <2>1, ReaderKeeps
       DEF A!Post, A!ListMembers, A!EnqueuePush, A!EnqueueFails, A!PostFails
  <2>2. QED
    BY <1>2, <2>1, WalkMeetsPost, WalkMeetsPin, WalkBegins, WalkGoesOn DEF A!Step
<1>3. QED
  BY <1>1, <1>2 DEF Next, vars, feedVars

(***************************************************************************)
(* list_feed: a walk from page to page repeats no unpinned post, and when  *)
(* it ends it has shown every post that was there when it began and whose  *)
(* pin nobody changed, for any page size, any posts that arrive meanwhile  *)
(* and any that share a time.                                              *)
(***************************************************************************)
THEOREM WalkCompleteHolds == Spec => []WalkComplete
<1>1. Init => ReaderInv
  BY InitReaderInv DEF Init
<1>2. ReaderInv => WalkComplete
  BY DEF ReaderInv, WalkInv, WalkComplete, A!WalkComplete
<1>3. QED
  BY <1>1, <1>2, ReaderInductive, Invariance, PTL DEF Spec
=============================================================================
