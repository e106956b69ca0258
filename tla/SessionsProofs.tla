--------------------------- MODULE SessionsProofs ---------------------------
(***************************************************************************)
(* Proofs about Sessions, for any users, any number of concurrent request  *)
(* handlers and any bound on the sessions.                                 *)
(***************************************************************************)
EXTENDS Sessions, TLAPS

(***************************************************************************)
(* The inductive invariant.  Besides the properties themselves it says     *)
(* that a family is named by a session of the same user and no younger     *)
(* than its members, that a handler about to issue a successor has revoked *)
(* the session it replaces, and that a handler never rotates a session it  *)
(* has already exchanged.                                                  *)
(***************************************************************************)
FamilyBound == \A s \in 1..Len(sessions) :
                  /\ Family(s) \in 1..s
                  /\ sessions[Family(s)].user = sessions[s].user

RevokedBeforeIssue == \A p \in Requests : req[p].pc = "issuing" => req[p].sess \in revoked

NotExchangedAgain ==
    \A p \in Requests, t \in 1..Len(sessions) :
      Rotating(p) /\ sessions[t].parent = req[p].sess => sessions[t].by # p

IInv == /\ TypeOK
        /\ FamilyBound
        /\ RotationOrder
        /\ RevokedBeforeIssue
        /\ NotExchangedAgain
        /\ OneExchangePerHandler
        /\ CondemnedStayDead

-----------------------------------------------------------------------------
\* What inserting a session does to the collection.
LEMMA CreateAppends ==
  ASSUME TypeOK, FamilyBound, NEW p \in Requests, NEW u \in Users,
         NEW f \in 1..(Len(sessions) + 1), NEW s \in 0..Len(sessions),
         f # Len(sessions) + 1 => sessions[f].user = u,
         Create(p, u, f, s)
  PROVE  /\ Len(sessions) \in Nat
         /\ Len(sessions') = Len(sessions) + 1
         /\ Len(sessions') <= MaxSessions
         /\ sessions' \in Seq(Row)
         /\ \A t \in 1..Len(sessions) : sessions'[t] = sessions[t]
         /\ sessions'[Len(sessions) + 1] = [user |-> u, family |-> f, parent |-> s, by |-> p]
         /\ FamilyBound'
<1> DEFINE row == [user |-> u, family |-> f, parent |-> s, by |-> p]
<1>1. Len(sessions) \in Nat /\ Len(sessions) + 1 <= MaxSessions
  BY MaxSessionsAssumption DEF TypeOK, Create
<1>2. row \in Row
  BY <1>1, MaxSessionsAssumption DEF Row, SessionId
<1>3. sessions' = Append(sessions, row)
  BY DEF Create
<1>4. /\ sessions' \in Seq(Row)
      /\ Len(sessions') = Len(sessions) + 1
      /\ \A t \in 1..Len(sessions) : sessions'[t] = sessions[t]
      /\ sessions'[Len(sessions) + 1] = row
  BY <1>1, <1>2, <1>3 DEF TypeOK
<1>5. FamilyBound'
  <2>1. SUFFICES ASSUME NEW t \in 1..(Len(sessions) + 1)
                 PROVE  /\ sessions'[t].family \in 1..t
                        /\ sessions'[sessions'[t].family].user = sessions'[t].user
    BY <1>1, <1>4 DEF FamilyBound, Family
  <2>2. CASE t \in 1..Len(sessions)
    <3>1. sessions'[t] = sessions[t] /\ sessions[t].family \in 1..Len(sessions)
      BY <2>2, <1>1, <1>4 DEF FamilyBound, Family
    <3>2. QED
      BY <2>2, <3>1, <1>4 DEF FamilyBound, Family
  <2>3. CASE t = Len(sessions) + 1
    BY <2>3, <1>1, <1>4
  <2>4. QED
    BY <2>1, <2>2, <2>3, <1>1
<1>6. QED
  BY <1>1, <1>4, <1>5

-----------------------------------------------------------------------------
LEMMA InitIInv == Init => IInv
<1> SUFFICES ASSUME Init PROVE IInv
  OBVIOUS
<1>1. sessions = <<>> /\ Len(sessions) = 0
  BY DEF Init
<1>2. \A p \in Requests : req[p] = NoRequest
  BY DEF Init
<1>3. TypeOK
  BY <1>1, <1>2, MaxSessionsAssumption DEF Init, TypeOK, NoRequest, Request, Holding
<1>4. FamilyBound /\ RotationOrder /\ OneExchangePerHandler /\ NotExchangedAgain
  BY <1>1 DEF FamilyBound, RotationOrder, OneExchangePerHandler, NotExchangedAgain
<1>5. RevokedBeforeIssue
  BY <1>2 DEF RevokedBeforeIssue, NoRequest
<1>6. CondemnedStayDead
  BY DEF Init, CondemnedStayDead
<1>7. QED
  BY <1>3, <1>4, <1>5, <1>6 DEF IInv

\* The session a busy handler holds was stored when it looked it up.
LEMMA HeldSession ==
  ASSUME TypeOK, FamilyBound, NEW p \in Requests, req[p].pc \in Holding
  PROVE  /\ req[p].sess \in 1..Len(sessions)
         /\ Len(sessions) \in Nat
         /\ sessions[req[p].sess] \in Row
         /\ Family(req[p].sess) \in 1..req[p].sess
         /\ Family(req[p].sess) \in 1..Len(sessions)
BY DEF TypeOK, FamilyBound

(***************************************************************************)
(* Steps that insert no session.  What is left to show of each is that the *)
(* handlers' records keep their meaning and that the condemned families    *)
(* stay unused.                                                            *)
(***************************************************************************)
LEMMA RowsUnchanged ==
  ASSUME IInv, UNCHANGED sessions, revoked \subseteq revoked'
  PROVE  FamilyBound' /\ RotationOrder' /\ OneExchangePerHandler'
<1>1. sessions' = sessions /\ Len(sessions') = Len(sessions)
  OBVIOUS
<1>2. FamilyBound'
  BY <1>1 DEF IInv, FamilyBound, Family
<1>3. RotationOrder'
  BY <1>1 DEF IInv, RotationOrder, Family
<1>4. OneExchangePerHandler'
  BY <1>1 DEF IInv, OneExchangePerHandler
<1>5. QED
  BY <1>2, <1>3, <1>4

(***************************************************************************)
(* A step that inserts nothing, revives nothing, and starts no rotation in *)
(* a family that was out of use, leaves every such family out of use.      *)
(***************************************************************************)
LEMMA OutOfUseStays ==
  ASSUME TypeOK, UNCHANGED sessions, revoked \subseteq revoked', expired' \in Nat,
         expired <= expired',
         \A p \in Requests : Rotating(p)' =>
            \/ Rotating(p) /\ req'[p].sess = req[p].sess
            \/ Live(req'[p].sess) /\ req'[p].sess \in 1..Len(sessions),
         NEW f, ~InUse(f)
  PROVE  ~InUse(f)'
<1>1. Len(sessions) \in Nat /\ expired \in Nat
  BY DEF TypeOK
<1>2. \A s : Family(s)' = Family(s)
  BY DEF Family
<1>3. Members(f)' = Members(f)
  BY <1>2 DEF Members
<1>4. \A s : Live(s)' => Live(s)
  BY <1>1 DEF Live
<1>5. ASSUME RotationInFlight(f)' PROVE FALSE
  <2>1. PICK p \in Requests : Rotating(p)' /\ sessions[req'[p].sess].family = f
    BY <1>5 DEF RotationInFlight, Family
  <2>2. CASE Rotating(p) /\ req'[p].sess = req[p].sess
    BY <2>1, <2>2 DEF InUse, RotationInFlight, Family
  <2>3. CASE Live(req'[p].sess) /\ req'[p].sess \in 1..Len(sessions)
    BY <2>1, <2>3 DEF InUse, Members, Family
  <2>4. QED
    BY <2>1, <2>2, <2>3
<1>6. QED
  BY <1>3, <1>4, <1>5 DEF InUse

\* The same for all the condemned families when none is added.
LEMMA CondemnedKept ==
  ASSUME IInv, UNCHANGED <<sessions, condemned>>, revoked \subseteq revoked',
         expired' \in Nat, expired <= expired',
         \A p \in Requests : Rotating(p)' =>
            \/ Rotating(p) /\ req'[p].sess = req[p].sess
            \/ Live(req'[p].sess) /\ req'[p].sess \in 1..Len(sessions)
  PROVE  CondemnedStayDead'
<1>1. TypeOK
  BY DEF IInv
<1>2. SUFFICES ASSUME NEW f \in condemned PROVE ~InUse(f)'
  BY DEF CondemnedStayDead
<1>3. ~InUse(f)
  BY DEF IInv, CondemnedStayDead
<1>4. QED
  BY <1>1, <1>3, OutOfUseStays

-----------------------------------------------------------------------------
LEMMA RefreshAcceptIInv ==
  ASSUME IInv, NEW p \in Requests, NEW s \in 1..Len(sessions), RefreshAccept(p, s)
  PROVE  IInv'
<1> USE DEF RefreshAccept, Start
<1>1. TypeOK /\ Len(sessions) \in Nat
  BY DEF IInv, TypeOK
<1>2. req' = [req EXCEPT ![p] = [pc |-> "rotating", sess |-> s]] /\ req \in [Requests -> Request]
  BY <1>1 DEF TypeOK
<1>3. [pc |-> "rotating", sess |-> s] \in Request
  BY <1>1, MaxSessionsAssumption DEF Request, Holding, SessionId, TypeOK
<1>4. TypeOK'
  BY <1>1, <1>2, <1>3 DEF TypeOK
<1>5. FamilyBound' /\ RotationOrder' /\ OneExchangePerHandler'
  BY RowsUnchanged
<1>6. RevokedBeforeIssue'
  BY <1>2 DEF IInv, RevokedBeforeIssue
<1>7. NotExchangedAgain'
  <2>1. SUFFICES ASSUME NEW q \in Requests, NEW t \in 1..Len(sessions), Rotating(q)',
                        sessions[t].parent = req'[q].sess, sessions[t].by = q
                 PROVE  FALSE
    BY DEF NotExchangedAgain
  <2>2. CASE q = p
    <3>1. sessions[t].parent = s
      BY <2>1, <2>2, <1>2
    <3>2. s \in revoked
      BY <3>1 DEF IInv, RotationOrder
    <3>3. QED
      BY <3>2
  <2>3. CASE q # p
    BY <2>1, <2>3, <1>2 DEF IInv, NotExchangedAgain, Rotating
  <2>4. QED
    BY <2>2, <2>3
<1>8. Live(s)
  BY <1>1 DEF Live, TypeOK
<1>9. CondemnedStayDead'
  BY <1>1, <1>2, <1>8, CondemnedKept DEF Rotating, TypeOK
<1>10. QED
  BY <1>4, <1>5, <1>6, <1>7, <1>9 DEF IInv

(***************************************************************************)
(* All the other steps that insert nothing also start no rotation.         *)
(***************************************************************************)
LEMMA NoNewRotation ==
  ASSUME IInv, UNCHANGED sessions,
         req' \in [Requests -> Request],
         \A q \in Requests : req'[q] # req[q] =>
            (req'[q].pc \in Holding => req'[q].sess \in 1..Len(sessions)),
         revoked \subseteq revoked', revoked' \subseteq 1..Len(sessions),
         expired' \in expired..Len(sessions),
         condemned \subseteq condemned', condemned' \subseteq 1..Len(sessions),
         \A f \in condemned' \ condemned : ~InUse(f)',
         \A q \in Requests : Rotating(q)' =>
            /\ Rotating(q) /\ req'[q].sess = req[q].sess
            /\ req'[q].pc = "issuing" => req[q].pc = "issuing" \/ req[q].sess \in revoked'
  PROVE  IInv'
<1>1. TypeOK /\ Len(sessions) \in Nat /\ expired \in Nat
  BY DEF IInv, TypeOK
<1>2. TypeOK'
  <2>1. \A q \in Requests : req'[q].pc \in Holding => req'[q].sess \in 1..Len(sessions)
    BY <1>1 DEF TypeOK
  <2>2. expired' \in 0..Len(sessions)
    BY <1>1
  <2>3. QED
    BY <1>1, <2>1, <2>2 DEF TypeOK
<1>3. FamilyBound' /\ RotationOrder' /\ OneExchangePerHandler'
  BY RowsUnchanged
<1>4. RevokedBeforeIssue'
  BY DEF IInv, RevokedBeforeIssue, Rotating
<1>5. NotExchangedAgain'
  BY DEF IInv, NotExchangedAgain
<1>6. CondemnedStayDead'
  <2>1. SUFFICES ASSUME NEW f \in condemned PROVE ~InUse(f)'
    BY DEF CondemnedStayDead
  <2>2. ~InUse(f)
    BY DEF IInv, CondemnedStayDead
  <2>3. expired' \in Nat /\ expired <= expired'
    BY <1>1
  <2>4. QED
    BY <1>1, <2>2, <2>3, OutOfUseStays
<1>7. QED
  BY <1>2, <1>3, <1>4, <1>5, <1>6 DEF IInv

LEMMA RefreshReuseIInv ==
  ASSUME IInv, NEW p \in Requests, NEW s \in 1..Len(sessions), RefreshReuse(p, s)
  PROVE  IInv'
<1>1. TypeOK /\ Len(sessions) \in Nat
  BY DEF IInv, TypeOK
<1>2. [pc |-> "reuse", sess |-> s] \in Request
  BY <1>1, MaxSessionsAssumption DEF Request, Holding, SessionId, TypeOK
<1>3. /\ req' = [req EXCEPT ![p] = [pc |-> "reuse", sess |-> s]]
      /\ UNCHANGED <<sessions, revoked, expired, condemned>>
  BY DEF RefreshReuse, Start
<1>4. QED
  BY <1>1, <1>2, <1>3, NoNewRotation DEF TypeOK, Rotating

LEMMA LogoutIInv ==
  ASSUME IInv, NEW p \in Requests, NEW s \in 1..Len(sessions), Logout(p, s)
  PROVE  IInv'
<1>1. TypeOK /\ Len(sessions) \in Nat
  BY DEF IInv, TypeOK
<1>2. [pc |-> "closing", sess |-> s] \in Request
  BY <1>1, MaxSessionsAssumption DEF Request, Holding, SessionId, TypeOK
<1>3. /\ req' = [req EXCEPT ![p] = [pc |-> "closing", sess |-> s]]
      /\ UNCHANGED <<sessions, revoked, expired, condemned>>
  BY DEF Logout, Start
<1>4. QED
  BY <1>1, <1>2, <1>3, NoNewRotation DEF TypeOK, Rotating

LEMMA RevokeRotatedIInv ==
  ASSUME IInv, NEW p \in Requests, RevokeRotated(p)
  PROVE  IInv'
<1>1. TypeOK /\ Len(sessions) \in Nat
  BY DEF IInv, TypeOK
<1>2. req[p].pc = "rotating" /\ req[p].sess \in 1..Len(sessions)
  BY <1>1 DEF RevokeRotated, TypeOK, Holding
<1>3. [req[p] EXCEPT !.pc = "issuing"] \in Request
  BY <1>1, <1>2 DEF TypeOK, Request, NoRequest, Holding
<1>4. /\ req' = [req EXCEPT ![p] = [req[p] EXCEPT !.pc = "issuing"]]
      /\ revoked' = revoked \cup {req[p].sess}
      /\ UNCHANGED <<sessions, expired, condemned>>
  BY DEF RevokeRotated, Revoke
<1>5. req'[p].sess = req[p].sess
  BY <1>1, <1>2, <1>4 DEF TypeOK, Request, NoRequest, Holding
<1>6. QED
  BY <1>1, <1>2, <1>3, <1>4, <1>5, NoNewRotation DEF TypeOK, Rotating

LEMMA RevokeOwnIInv ==
  ASSUME IInv, NEW p \in Requests, RevokeOwn(p)
  PROVE  IInv'
<1>1. TypeOK /\ Len(sessions) \in Nat
  BY DEF IInv, TypeOK
<1>2. req[p].sess \in 1..Len(sessions)
  BY <1>1 DEF RevokeOwn, TypeOK, Holding
<1>3. /\ req' = [req EXCEPT ![p] = NoRequest]
      /\ revoked' = revoked \cup {req[p].sess}
      /\ UNCHANGED <<sessions, expired, condemned>>
  BY DEF RevokeOwn, Revoke, Finish
<1>4. /\ revoked' \subseteq 1..Len(sessions)
      /\ \A q \in Requests : req'[q] = req[q] \/ req'[q] = NoRequest
      /\ req' \in [Requests -> Request]
  BY <1>1, <1>2, <1>3 DEF TypeOK, Request
<1>5. \A q \in Requests : req'[q] = NoRequest => req'[q].pc \notin Holding
  BY DEF NoRequest, Holding
<1>6. QED
  BY <1>1, <1>3, <1>4, <1>5, NoNewRotation DEF TypeOK, Rotating, Holding

LEMMA CrashIInv ==
  ASSUME IInv, NEW p \in Requests, Crash(p)
  PROVE  IInv'
<1>1. TypeOK /\ Len(sessions) \in Nat
  BY DEF IInv, TypeOK
<1>2. /\ req' = [req EXCEPT ![p] = NoRequest]
      /\ UNCHANGED <<sessions, revoked, expired, condemned>>
  BY DEF Crash, Finish
<1>3. QED
  BY <1>1, <1>2, NoNewRotation DEF TypeOK, Rotating, Request, NoRequest, Holding

LEMMA ExpireIInv ==
  ASSUME IInv, Expire
  PROVE  IInv'
<1>1. TypeOK /\ Len(sessions) \in Nat
  BY DEF IInv, TypeOK
<1>2. QED
  BY <1>1, NoNewRotation DEF TypeOK, Rotating, Expire

(***************************************************************************)
(* A family whose members are all revoked, and of which no rotation is in  *)
(* flight, is out of use.                                                  *)
(***************************************************************************)
LEMMA AllRevoked ==
  ASSUME UNCHANGED sessions, NEW f, Members(f) \subseteq revoked', ~RotationInFlight(f)'
  PROVE  ~InUse(f)'
<1>1. Members(f)' = Members(f)
  BY DEF Members, Family
<1>2. QED
  BY <1>1 DEF InUse, Live

LEMMA RevokeFamilyIInv ==
  ASSUME IInv, NEW p \in Requests, RevokeFamily(p)
  PROVE  IInv'
<1> DEFINE s == req[p].sess
<1>1. TypeOK /\ Len(sessions) \in Nat
  BY DEF IInv, TypeOK
<1>2. s \in 1..Len(sessions) /\ Family(s) \in 1..Len(sessions)
  BY <1>1, HeldSession DEF RevokeFamily, Holding, IInv
<1>3. /\ req' = [req EXCEPT ![p] = NoRequest]
      /\ revoked' = revoked \cup Members(Family(s))
      /\ condemned' = condemned \cup {f \in {Family(s)} : ~RotationInFlight(f)}
      /\ UNCHANGED <<sessions, expired>>
  BY DEF RevokeFamily, Finish, FamilyOfReused
<1>4. \A q \in Requests : Rotating(q)' => Rotating(q) /\ req'[q] = req[q]
  BY <1>1, <1>3 DEF TypeOK, Rotating, NoRequest
<1>5. ASSUME NEW f \in condemned' \ condemned PROVE ~InUse(f)'
  <2>1. Members(f) \subseteq revoked' /\ ~RotationInFlight(f)
    BY <1>3, <1>5
  <2>2. ~RotationInFlight(f)'
    BY <2>1, <1>3, <1>4 DEF RotationInFlight, Family
  <2>3. QED
    BY <2>1, <2>2, <1>3, AllRevoked
<1>6. revoked' \subseteq 1..Len(sessions)
  BY <1>1, <1>3 DEF TypeOK, Members
<1>7. condemned' \subseteq 1..Len(sessions)
  BY <1>1, <1>2, <1>3 DEF TypeOK
<1>8. req' \in [Requests -> Request] /\ NoRequest.pc \notin Holding
  BY <1>1, <1>3 DEF TypeOK, Request, NoRequest, Holding
<1>9. expired' \in expired..Len(sessions)
  BY <1>1, <1>3 DEF TypeOK
<1>10. QED
  BY <1>1, <1>3, <1>4, <1>5, <1>6, <1>7, <1>8, <1>9, NoNewRotation DEF TypeOK, Rotating

LEMMA RevokeAllForUserIInv ==
  ASSUME IInv, NEW p \in Requests, NEW u \in Users, RevokeAllForUser(p, u)
  PROVE  IInv'
<1>1. TypeOK /\ Len(sessions) \in Nat
  BY DEF IInv, TypeOK
<1>2. /\ revoked' = revoked \cup SessionsOf(u)
      /\ condemned' = condemned \cup
              {f \in {Family(s) : s \in SessionsOf(u)} : ~RotationInFlight(f)}
      /\ UNCHANGED <<sessions, expired, req>>
  BY DEF RevokeAllForUser
<1>3. revoked' \subseteq 1..Len(sessions)
  BY <1>1, <1>2 DEF TypeOK, SessionsOf
<1>4. condemned' \subseteq 1..Len(sessions)
  <2>1. \A s \in SessionsOf(u) : Family(s) \in 1..Len(sessions)
    BY <1>1 DEF IInv, FamilyBound, SessionsOf
  <2>2. QED
    BY <1>1, <1>2, <2>1 DEF TypeOK
<1>5. ASSUME NEW f \in condemned' \ condemned PROVE ~InUse(f)'
  <2>1. PICK s \in SessionsOf(u) : f = Family(s) /\ ~RotationInFlight(f)
    BY <1>2, <1>5
  <2>2. Members(f) \subseteq SessionsOf(u)
    BY <2>1 DEF IInv, FamilyBound, Members, SessionsOf
  <2>3. Members(f) \subseteq revoked' /\ ~RotationInFlight(f)'
    BY <1>2, <2>1, <2>2 DEF RotationInFlight, Rotating, Family
  <2>4. QED
    BY <1>2, <2>3, AllRevoked
<1>6. QED
  BY <1>1, <1>2, <1>3, <1>4, <1>5, NoNewRotation DEF TypeOK, Rotating

(***************************************************************************)
(* Steps that insert a session: the handlers in flight hold older rows, so *)
(* only the new row is to be looked at, and it must not belong to a family *)
(* that is out of use.                                                     *)
(***************************************************************************)
LEMMA InsertOutOfUse ==
  ASSUME IInv, NEW p \in Requests, NEW u \in Users,
         NEW f \in 1..(Len(sessions) + 1), NEW s \in 0..Len(sessions),
         f # Len(sessions) + 1 => sessions[f].user = u,
         Create(p, u, f, s),
         \A q \in Requests : Rotating(q)' => req'[q] = req[q],
         UNCHANGED <<revoked, expired>>,
         NEW g, ~InUse(g), g # f
  PROVE  ~InUse(g)'
<1>1. TypeOK /\ FamilyBound /\ Len(sessions) \in Nat /\ expired \in Nat
  BY DEF IInv, TypeOK
<1>2. /\ Len(sessions') = Len(sessions) + 1
      /\ \A t \in 1..Len(sessions) : sessions'[t] = sessions[t]
      /\ sessions'[Len(sessions) + 1] = [user |-> u, family |-> f, parent |-> s, by |-> p]
  BY <1>1, CreateAppends
<1>3. Members(g)' = Members(g)
  BY <1>1, <1>2 DEF Members, Family
<1>4. \A t \in Members(g) : Live(t)' <=> Live(t)
  BY <1>1, <1>2 DEF Live, Members
<1>5. ASSUME RotationInFlight(g)' PROVE FALSE
  <2>1. PICK q \in Requests : Rotating(q)' /\ sessions'[req'[q].sess].family = g
    BY <1>5 DEF RotationInFlight, Family
  <2>2. Rotating(q) /\ req'[q].sess = req[q].sess
    BY <2>1 DEF Rotating
  <2>3. req[q].sess \in 1..Len(sessions)
    BY <2>2, <1>1 DEF Rotating, TypeOK, Holding
  <2>4. QED
    BY <2>1, <2>2, <2>3, <1>2 DEF InUse, RotationInFlight, Family
<1>6. QED
  BY <1>3, <1>4, <1>5 DEF InUse

LEMMA InsertRotationOrder ==
  ASSUME IInv, NEW p \in Requests, NEW u \in Users,
         NEW f \in 1..(Len(sessions) + 1), NEW s \in 0..Len(sessions),
         f # Len(sessions) + 1 => sessions[f].user = u,
         Create(p, u, f, s), UNCHANGED revoked,
         s = 0 => f = Len(sessions) + 1,
         s # 0 => s \in revoked /\ f = Family(s) /\ u = sessions[s].user
  PROVE  RotationOrder'
<1> DEFINE new == Len(sessions) + 1
<1>1. TypeOK /\ FamilyBound /\ Len(sessions) \in Nat
  BY DEF IInv, TypeOK
<1>2. /\ Len(sessions') = new
      /\ \A t \in 1..Len(sessions) : sessions'[t] = sessions[t]
      /\ sessions'[new] = [user |-> u, family |-> f, parent |-> s, by |-> p]
  BY <1>1, CreateAppends
<1>3. SUFFICES ASSUME NEW t \in 1..new,
                      NEW r, r = sessions'[t].parent
               PROVE  IF r = 0 THEN sessions'[t].family = t
                      ELSE /\ r < t
                           /\ r \in revoked
                           /\ sessions'[t].family = sessions'[r].family
                           /\ sessions'[t].user = sessions'[r].user
  BY <1>2 DEF RotationOrder, Family
<1>4. CASE t = new
  <2>1. CASE s = 0
    BY <1>2, <1>3, <1>4, <2>1
  <2>2. CASE s # 0
    BY <1>1, <1>2, <1>3, <1>4, <2>2 DEF Family
  <2>3. QED
    BY <2>1, <2>2
<1>5. CASE t \in 1..Len(sessions)
  <2>1. sessions'[t] = sessions[t]
    BY <1>2, <1>5
  <2>2. CASE r = 0
    BY <1>3, <1>5, <2>1, <2>2 DEF IInv, RotationOrder, Family
  <2>3. CASE r # 0
    <3>1. r < t /\ r \in revoked /\ Family(t) = Family(r) /\ sessions[t].user = sessions[r].user
      BY <1>3, <1>5, <2>1, <2>3 DEF IInv, RotationOrder
    <3>2. sessions'[r] = sessions[r]
      BY <3>1, <1>1, <1>2 DEF TypeOK
    <3>3. QED
      BY <3>1, <3>2, <2>1, <2>3 DEF Family
  <2>4. QED
    BY <2>2, <2>3
<1>6. QED
  BY <1>1, <1>4, <1>5

LEMMA LoginIInv ==
  ASSUME IInv, NEW p \in Requests, NEW u \in Users, Login(p, u)
  PROVE  IInv'
<1> DEFINE new == Len(sessions) + 1
<1>1. TypeOK /\ FamilyBound /\ Len(sessions) \in Nat
  BY DEF IInv, TypeOK
<1>2. Create(p, u, new, 0) /\ UNCHANGED <<revoked, expired, req, condemned>>
  BY DEF Login
<1>3. /\ Len(sessions') = new /\ new <= MaxSessions
      /\ sessions' \in Seq(Row)
      /\ \A t \in 1..Len(sessions) : sessions'[t] = sessions[t]
      /\ sessions'[new] = [user |-> u, family |-> new, parent |-> 0, by |-> p]
      /\ FamilyBound'
  BY <1>1, <1>2, CreateAppends
<1>4. TypeOK'
  BY <1>1, <1>2, <1>3 DEF TypeOK
<1>5. RotationOrder'
  BY <1>1, <1>2, InsertRotationOrder
<1>6. RevokedBeforeIssue'
  BY <1>2 DEF IInv, RevokedBeforeIssue
<1>7. NotExchangedAgain'
  <2>1. \A q \in Requests : Rotating(q) => req[q].sess \in 1..Len(sessions)
    BY <1>1 DEF TypeOK, Rotating, Holding
  <2>2. QED
    BY <1>1, <1>2, <1>3, <2>1 DEF IInv, NotExchangedAgain, Rotating
<1>8. OneExchangePerHandler'
  BY <1>1, <1>3 DEF IInv, OneExchangePerHandler
<1>9. CondemnedStayDead'
  <2>1. SUFFICES ASSUME NEW f \in condemned PROVE ~InUse(f)'
    BY <1>2 DEF CondemnedStayDead
  <2>2. ~InUse(f) /\ f # new
    BY <1>1 DEF IInv, CondemnedStayDead, TypeOK
  <2>3. \A q \in Requests : Rotating(q)' => req'[q] = req[q]
    BY <1>2
  <2>4. QED
    BY <1>1, <1>2, <2>2, <2>3, InsertOutOfUse
<1>10. QED
  BY <1>3, <1>4, <1>5, <1>6, <1>7, <1>8, <1>9 DEF IInv

LEMMA IssueSuccessorIInv ==
  ASSUME IInv, NEW p \in Requests, IssueSuccessor(p)
  PROVE  IInv'
<1> DEFINE new == Len(sessions) + 1
           s   == req[p].sess
           u   == sessions[s].user
           f   == Family(s)
<1>1. TypeOK /\ FamilyBound /\ Len(sessions) \in Nat
  BY DEF IInv, TypeOK
<1>2. /\ Create(p, u, f, s)
      /\ req' = [req EXCEPT ![p] = NoRequest]
      /\ UNCHANGED <<revoked, expired, condemned>>
      /\ req[p].pc = "issuing"
  BY DEF IssueSuccessor, Finish
<1>3. s \in 1..Len(sessions) /\ sessions[s] \in Row /\ f \in 1..s
  BY <1>1, <1>2, HeldSession DEF Holding
<1>4. /\ u \in Users /\ f \in 1..new /\ s \in 0..Len(sessions) /\ s # 0
      /\ sessions[f].user = u
      /\ s \in revoked
  BY <1>1, <1>2, <1>3 DEF Row, FamilyBound, IInv, RevokedBeforeIssue
<1>5. /\ Len(sessions') = new /\ new <= MaxSessions
      /\ sessions' \in Seq(Row)
      /\ \A t \in 1..Len(sessions) : sessions'[t] = sessions[t]
      /\ sessions'[new] = [user |-> u, family |-> f, parent |-> s, by |-> p]
      /\ FamilyBound'
  BY <1>1, <1>2, <1>4, CreateAppends
<1>6. \A q \in Requests : req'[q] = IF q = p THEN NoRequest ELSE req[q]
  BY <1>1, <1>2 DEF TypeOK
<1>7. NoRequest \in Request /\ NoRequest.pc \notin Holding /\ ~(NoRequest.pc \in {"rotating", "issuing"})
  BY DEF Request, NoRequest, Holding
<1>8. TypeOK'
  BY <1>1, <1>2, <1>5, <1>6, <1>7 DEF TypeOK
<1>9. RotationOrder'
  BY <1>1, <1>2, <1>4, InsertRotationOrder
<1>10. RevokedBeforeIssue'
  BY <1>2, <1>6, <1>7 DEF IInv, RevokedBeforeIssue
<1>11. NotExchangedAgain'
  <2>1. SUFFICES ASSUME NEW q \in Requests, NEW t \in 1..new, Rotating(q)',
                        sessions'[t].parent = req'[q].sess, sessions'[t].by = q
                 PROVE  FALSE
    BY <1>5 DEF NotExchangedAgain
  <2>2. q # p /\ req'[q] = req[q] /\ Rotating(q)
    BY <2>1, <1>6, <1>7 DEF Rotating
  <2>3. CASE t = new
    BY <2>1, <2>2, <2>3, <1>5
  <2>4. CASE t \in 1..Len(sessions)
    BY <2>1, <2>2, <2>4, <1>5 DEF IInv, NotExchangedAgain
  <2>5. QED
    BY <2>3, <2>4, <1>1
<1>12. OneExchangePerHandler'
  <2>1. SUFFICES ASSUME NEW t1 \in 1..new, NEW t2 \in 1..new,
                        sessions'[t1].parent = sessions'[t2].parent,
                        sessions'[t1].parent # 0,
                        sessions'[t1].by = sessions'[t2].by
                 PROVE  t1 = t2
    BY <1>5 DEF OneExchangePerHandler
  <2>2. \A t \in 1..Len(sessions) : ~(sessions[t].parent = s /\ sessions[t].by = p)
    BY <1>2 DEF IInv, NotExchangedAgain, Rotating
  <2>3. CASE t1 = new \/ t2 = new
    BY <2>1, <2>2, <2>3, <1>1, <1>5
  <2>4. CASE t1 \in 1..Len(sessions) /\ t2 \in 1..Len(sessions)
    BY <2>1, <2>4, <1>5 DEF IInv, OneExchangePerHandler
  <2>5. QED
    BY <2>3, <2>4, <1>1
<1>13. CondemnedStayDead'
  <2>1. SUFFICES ASSUME NEW g \in condemned PROVE ~InUse(g)'
    BY <1>2 DEF CondemnedStayDead
  <2>2. ~InUse(g) /\ InUse(f)
    BY <1>2 DEF IInv, CondemnedStayDead, InUse, RotationInFlight, Rotating
  <2>3. \A q \in Requests : Rotating(q)' => req'[q] = req[q]
    BY <1>6, <1>7 DEF Rotating
  <2>4. g # f
    BY <2>2
  <2>5. QED
    BY <1>1, <1>2, <1>4, <2>2, <2>3, <2>4, InsertOutOfUse
<1>14. QED
  BY <1>5, <1>8, <1>9, <1>10, <1>11, <1>12, <1>13 DEF IInv

-----------------------------------------------------------------------------
LEMMA NextIInv == IInv /\ [Next]_vars => IInv'
<1> SUFFICES ASSUME IInv, [Next]_vars PROVE IInv'
  OBVIOUS
<1>1. ASSUME NEW p \in Requests, Handler(p) PROVE IInv'
  BY <1>1, LoginIInv, RevokeAllForUserIInv, RefreshAcceptIInv, RefreshReuseIInv,
     LogoutIInv, RevokeRotatedIInv, IssueSuccessorIInv, RevokeFamilyIInv,
     RevokeOwnIInv, CrashIInv DEF Handler
<1>2. CASE Expire
  BY <1>2, ExpireIInv
<1>3. CASE UNCHANGED vars
  BY <1>3, NoNewRotation, ExpireIInv DEF vars, IInv, TypeOK, FamilyBound, RotationOrder,
     RevokedBeforeIssue, NotExchangedAgain, OneExchangePerHandler, CondemnedStayDead,
     InUse, RotationInFlight, Rotating, Members, Live, Family
<1>4. QED
  BY <1>1, <1>2, <1>3 DEF Next

(***************************************************************************)
(* The inductive invariant holds in every reachable state.                 *)
(***************************************************************************)
THEOREM Invariance == Spec => []IInv
BY InitIInv, NextIInv, PTL DEF Spec

(***************************************************************************)
(* Every variable keeps its type: rows, held sessions and the clock refer  *)
(* to sessions that exist.                                                 *)
(***************************************************************************)
THEOREM TypeCorrect == Spec => []TypeOK
BY Invariance, PTL DEF IInv

(***************************************************************************)
(* A successor replaces a session of the same family and user that refresh *)
(* has already revoked, however the handlers interleave or die.            *)
(***************************************************************************)
THEOREM RotationOrderHolds == Spec => []RotationOrder
BY Invariance, PTL DEF IInv

(***************************************************************************)
(* No handler exchanges a refresh token that it has exchanged before.      *)
(***************************************************************************)
THEOREM OneExchangePerHandlerHolds == Spec => []OneExchangePerHandler
BY Invariance, PTL DEF IInv

(***************************************************************************)
(* A family revoked with no rotation in flight is never usable again.      *)
(***************************************************************************)
THEOREM CondemnedStayDeadHolds == Spec => []CondemnedStayDead
BY Invariance, PTL DEF IInv

(***************************************************************************)
(* Were requests handled one at a time, a refresh token would be exchanged *)
(* at most once: what docs/SECURITY.md asks of rotation fails only when    *)
(* handlers overlap.                                                       *)
(***************************************************************************)
THEOREM SerialRotation ==
  ASSUME \A p, q \in Requests : p = q
  PROVE  Spec => []ExchangedOnce
<1>1. IInv => ExchangedOnce
  <2>1. SUFFICES ASSUME IInv, NEW t1 \in 1..Len(sessions), NEW t2 \in 1..Len(sessions),
                        sessions[t1].parent = sessions[t2].parent,
                        sessions[t1].parent # 0
                 PROVE  t1 = t2
    BY DEF ExchangedOnce
  <2>2. sessions[t1] \in Row /\ sessions[t2] \in Row
    BY <2>1 DEF IInv, TypeOK
  <2>3. sessions[t1].by = sessions[t2].by
    BY <2>2 DEF Row
  <2>4. QED
    BY <2>1, <2>3 DEF IInv, OneExchangePerHandler
<1>2. QED
  BY <1>1, Invariance, PTL

-----------------------------------------------------------------------------
(***************************************************************************)
(* The refinement: a step of Sessions opens one family, or closes some, or *)
(* leaves every family as it was.                                          *)
(***************************************************************************)
LEMMA CloseStep ==
  ASSUME \A f \in SessionId : Members(f)' = {} <=> Members(f) = {},
         \A f \in SessionId : ~InUse(f) => ~InUse(f)'
  PROVE  [Families!Next]_familyPhase
<1> DEFINE F == {f \in SessionId : familyPhase[f] = "open" /\ familyPhase'[f] = "closed"}
<1>1. \A f \in F : familyPhase[f] = "open"
  OBVIOUS
<1>2. familyPhase' = [f \in SessionId |-> IF f \in F THEN "closed" ELSE familyPhase[f]]
  BY DEF familyPhase
<1>3. F \in SUBSET SessionId
  OBVIOUS
<1>4. Families!Close(F)
  BY <1>1, <1>2 DEF Families!Close
<1>5. QED
  BY <1>3, <1>4 DEF Families!Next

LEMMA QuietStep ==
  ASSUME IInv, UNCHANGED sessions, revoked \subseteq revoked', expired' \in Nat,
         expired <= expired',
         \A p \in Requests : Rotating(p)' =>
            \/ Rotating(p) /\ req'[p].sess = req[p].sess
            \/ Live(req'[p].sess) /\ req'[p].sess \in 1..Len(sessions)
  PROVE  [Families!Next]_familyPhase
<1>1. TypeOK
  BY DEF IInv
<1>2. \A f \in SessionId : Members(f)' = Members(f)
  BY DEF Members, Family
<1>3. \A f \in SessionId : ~InUse(f) => ~InUse(f)'
  BY <1>1, OutOfUseStays
<1>4. QED
  BY <1>2, <1>3, CloseStep

LEMMA IssueStep ==
  ASSUME IInv, NEW p \in Requests, IssueSuccessor(p)
  PROVE  [Families!Next]_familyPhase
<1> DEFINE new == Len(sessions) + 1
           s   == req[p].sess
           u   == sessions[s].user
           f   == Family(s)
<1>1. TypeOK /\ FamilyBound /\ Len(sessions) \in Nat
  BY DEF IInv, TypeOK
<1>2. /\ Create(p, u, f, s)
      /\ req' = [req EXCEPT ![p] = NoRequest]
      /\ UNCHANGED <<revoked, expired, condemned>>
      /\ req[p].pc = "issuing"
  BY DEF IssueSuccessor, Finish
<1>3. s \in 1..Len(sessions) /\ sessions[s] \in Row /\ f \in 1..s
  BY <1>1, <1>2, HeldSession DEF Holding
<1>4. u \in Users /\ f \in 1..new /\ s \in 0..Len(sessions) /\ sessions[f].user = u
  BY <1>1, <1>3 DEF Row, FamilyBound
<1>5. /\ Len(sessions') = new
      /\ \A t \in 1..Len(sessions) : sessions'[t] = sessions[t]
      /\ sessions'[new] = [user |-> u, family |-> f, parent |-> s, by |-> p]
  BY <1>1, <1>2, <1>4, CreateAppends
<1>6. sessions'[new].family = f
  BY <1>5
<1>7. \A g \in SessionId : Members(g)' = IF g = f THEN Members(g) \cup {new} ELSE Members(g)
  BY <1>1, <1>5, <1>6 DEF Members, Family
<1>8. s \in Members(f)
  BY <1>3 DEF Members
<1>9. InUse(f)
  BY <1>2 DEF InUse, RotationInFlight, Rotating
<1>10. \A q \in Requests : Rotating(q)' => req'[q] = req[q]
  BY <1>1, <1>2 DEF TypeOK, Rotating, NoRequest
<1>11. ASSUME NEW g \in SessionId, ~InUse(g) PROVE ~InUse(g)'
  <2>1. g # f
    BY <1>9, <1>11
  <2>2. QED
    BY <1>1, <1>2, <1>4, <1>10, <1>11, <2>1, InsertOutOfUse
<1>12. QED
  BY <1>7, <1>8, <1>11, CloseStep

LEMMA LoginStep ==
  ASSUME IInv, NEW p \in Requests, NEW u \in Users, Login(p, u)
  PROVE  [Families!Next]_familyPhase
<1>1. TypeOK /\ FamilyBound /\ Len(sessions) \in Nat
  BY DEF IInv, TypeOK
<1> PICK new \in Nat : new = Len(sessions) + 1
  BY <1>1
<1>2. Create(p, u, new, 0) /\ UNCHANGED <<revoked, expired, req, condemned>>
  BY DEF Login
<1>3. /\ Len(sessions') = new /\ new <= MaxSessions
      /\ \A t \in 1..Len(sessions) : sessions'[t] = sessions[t]
      /\ sessions'[new] = [user |-> u, family |-> new, parent |-> 0, by |-> p]
  BY <1>1, <1>2, CreateAppends
<1>4. new \in SessionId /\ sessions'[new].family = new
  BY <1>1, <1>3, MaxSessionsAssumption DEF SessionId
<1>5. \A g : Members(g)' = IF g = new THEN Members(g) \cup {new} ELSE Members(g)
  BY <1>1, <1>3, <1>4 DEF Members, Family
<1>6. Members(new) = {}
  BY <1>1 DEF FamilyBound, Members
<1>7. \A s \in 1..Len(sessions) : Live(s)' <=> Live(s)
  BY <1>1, <1>2, <1>3 DEF Live, TypeOK
<1>8. Live(new)'
  BY <1>1, <1>2, <1>3 DEF Live, TypeOK
<1>9. InUse(new)'
  BY <1>5, <1>8 DEF InUse
<1>10. ASSUME NEW g \in SessionId, g # new PROVE InUse(g)' <=> InUse(g)
  <2>1. \A q \in Requests : Rotating(q) => sessions'[req[q].sess] = sessions[req[q].sess]
    BY <1>1, <1>3 DEF TypeOK, Rotating, Holding
  <2>2. RotationInFlight(g)' <=> RotationInFlight(g)
    BY <1>2, <2>1 DEF RotationInFlight, Rotating, Family
  <2>3. Members(g)' = Members(g) /\ Members(g) \subseteq 1..Len(sessions)
    BY <1>5, <1>10 DEF Members
  <2>4. QED
    BY <1>7, <2>2, <2>3 DEF InUse
<1>11. familyPhase[new] = "unborn" /\ familyPhase'[new] = "open"
  BY <1>4, <1>5, <1>6, <1>9 DEF familyPhase
<1>12. \A g \in SessionId : g # new => familyPhase'[g] = familyPhase[g]
  BY <1>5, <1>10 DEF familyPhase
<1>13. familyPhase' = [familyPhase EXCEPT ![new] = "open"]
  BY <1>4, <1>11, <1>12 DEF familyPhase
<1>14. QED
  BY <1>4, <1>11, <1>13 DEF Families!Open, Families!Next

LEMMA RefinementStep == IInv /\ [Next]_vars => [Families!Next]_familyPhase
<1> SUFFICES ASSUME IInv, [Next]_vars PROVE [Families!Next]_familyPhase
  OBVIOUS
<1>1. TypeOK /\ expired \in Nat
  BY DEF IInv, TypeOK
<1>2. ASSUME NEW p \in Requests, Handler(p) PROVE [Families!Next]_familyPhase
  <2>1. CASE \E u \in Users : Login(p, u)
    BY <2>1, LoginStep
  <2>2. CASE IssueSuccessor(p)
    BY <2>2, IssueStep
  <2>3. ASSUME NEW s \in 1..Len(sessions), RefreshAccept(p, s)
        PROVE  [Families!Next]_familyPhase
    <3>1. Live(s)
      BY <2>3, <1>1 DEF RefreshAccept, Live
    <3>2. QED
      BY <2>3, <3>1, <1>1, QuietStep DEF RefreshAccept, Start, TypeOK, Rotating
  <2>4. ASSUME NEW s \in 1..Len(sessions), RefreshReuse(p, s) \/ Logout(p, s)
        PROVE  [Families!Next]_familyPhase
    BY <2>4, <1>1, QuietStep DEF RefreshReuse, Logout, Start, TypeOK, Rotating
  <2>5. CASE RevokeRotated(p)
    <3>1. req[p] \in [pc : Holding, sess : SessionId]
      BY <2>5, <1>1 DEF RevokeRotated, TypeOK, Request, NoRequest
    <3>2. req'[p].sess = req[p].sess
      BY <2>5, <3>1, <1>1 DEF RevokeRotated, TypeOK
    <3>3. QED
      BY <2>5, <3>2, <1>1, QuietStep DEF RevokeRotated, Revoke, TypeOK, Rotating
  <2>6. CASE \E u \in Users : RevokeAllForUser(p, u)
    BY <2>6, <1>1, QuietStep DEF RevokeAllForUser, Rotating
  <2>7. CASE RevokeFamily(p) \/ RevokeOwn(p) \/ Crash(p)
    <3>1. \A q \in Requests : Rotating(q)' => Rotating(q) /\ req'[q] = req[q]
      BY <2>7, <1>1 DEF RevokeFamily, RevokeOwn, Crash, Finish, TypeOK, Rotating, NoRequest
    <3>2. UNCHANGED <<sessions, expired>> /\ revoked \subseteq revoked'
      BY <2>7 DEF RevokeFamily, RevokeOwn, Crash, Revoke
    <3>3. QED
      BY <3>1, <3>2, <1>1, QuietStep
  <2>8. QED
    BY <1>2, <2>1, <2>2, <2>3, <2>4, <2>5, <2>6, <2>7 DEF Handler
<1>3. CASE Expire
  BY <1>3, <1>1, QuietStep DEF Expire, Rotating
<1>4. CASE UNCHANGED vars
  BY <1>4, <1>1, QuietStep DEF vars, Rotating
<1>5. QED
  BY <1>2, <1>3, <1>4 DEF Next

(***************************************************************************)
(* Sessions implements SessionFamilies: a family of refresh tokens has one *)
(* period of use, opened by a login, and is never reopened.                *)
(***************************************************************************)
THEOREM Refinement == Spec => FamilyLifecycle
<1>1. Init => Families!Init
  BY DEF Init, Families!Init, familyPhase, Members
<1>2. QED
  BY <1>1, Invariance, RefinementStep, PTL DEF Spec, FamilyLifecycle, Families!Spec
=============================================================================
