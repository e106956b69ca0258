-------------------------- MODULE AuthTokensProofs --------------------------
(***************************************************************************)
(* Proofs about AuthTokens, for any users, any number of concurrent        *)
(* request handlers and any bound on the tokens.                           *)
(***************************************************************************)
EXTENDS AuthTokens, TLAPS

(***************************************************************************)
(* The inductive invariant.  IssueSupersedes speaks of rows that are       *)
(* stored; the fact it comes from belongs to a handler between create's    *)
(* two writes, whose row is still to be inserted (InsertingSeen), and it   *)
(* survives the insertion only because a row never counts itself among     *)
(* those it supersedes (SeenEarlier).                                      *)
(***************************************************************************)
SeenEarlier == \A t \in 1..Len(tokens) : tokens[t].seen < t

InsertingSeen ==
    \A p \in Requests : req[p].pc = "inserting" =>
      /\ req[p].seen <= Len(tokens)
      /\ \A t \in 1..req[p].seen :
           /\ tokens[t].user = req[p].user
           /\ tokens[t].purpose = req[p].purpose
           => t \in used

\* A handler redeems only a token of its own endpoint's purpose.
RightEndpoint ==
    \A p \in Requests : req[p].pc \in {"marking", "applying"} =>
      tokens[req[p].token].purpose = req[p].endpoint

ApplyingBurnt ==
    \A p \in Requests : req[p].pc = "applying" => req[p].token \in redeemed \cap used

(***************************************************************************)
(* Requests that one handler serves one after the other carry out the      *)
(* effect of a token at most once in all, verification or reset: only      *)
(* handlers that overlap can use a token twice.                            *)
(***************************************************************************)
SeriallySingleUse ==
    \A t \in TokenId, p \in Requests : applied[t][p] <= 1

AppliedSpent ==
    \A t \in TokenId, p \in Requests :
      applied[t][p] > 0 => t \in used /\ ~Holds(p, t)

IInv == /\ TypeOK
        /\ SeenEarlier
        /\ InsertingSeen
        /\ IssueSupersedes
        /\ RightEndpoint
        /\ ApplyingBurnt
        /\ EffectsOwned
        /\ RedeemedTakesEffect
        /\ SeriallySingleUse
        /\ AppliedSpent

-----------------------------------------------------------------------------
\* The records a handler may hold.
HandlerState == {NoRequest} \cup Issuing \cup Redeeming

\* What the record of a handler holds at each point of its program.
LEMMA HandlerShape ==
  ASSUME TypeOK, NEW p \in Requests
  PROVE  /\ req[p] \in HandlerState
         /\ req[p].pc \in {"invalidating", "inserting"} =>
              req[p].user \in Users /\ req[p].purpose \in Purposes
         /\ req[p].pc = "inserting" => req[p].seen \in 0..MaxTokens
         /\ req[p].pc \in {"marking", "applying"} =>
              /\ req[p] \in Redeeming
              /\ req[p].token \in 1..Len(tokens)
              /\ req[p].token \in TokenId
              /\ req[p].endpoint \in Purposes
<1> USE AuthTokensAssumption
<1>1. req[p] \in HandlerState
  BY DEF TypeOK, HandlerState
<1>2. req[p].pc \in {"invalidating", "inserting"} =>
        req[p].user \in Users /\ req[p].purpose \in Purposes
  BY <1>1 DEF HandlerState, NoRequest, Issuing, Redeeming
<1>3. req[p].pc = "inserting" => req[p].seen \in 0..MaxTokens
  BY <1>1 DEF HandlerState, NoRequest, Issuing, Redeeming
<1>4. req[p].pc \in {"marking", "applying"} => req[p] \in Redeeming
  BY <1>1 DEF HandlerState, NoRequest, Issuing, Redeeming
<1>5. ASSUME req[p] \in Redeeming
      PROVE  /\ req[p].token \in TokenId
             /\ req[p].endpoint \in Purposes
             /\ req[p].token \in 1..Len(tokens)
  <2>1. req[p].token \in TokenId /\ req[p].endpoint \in Purposes
    BY <1>5 DEF Redeeming
  <2>2. req[p].token <= Len(tokens) /\ Len(tokens) \in Nat
    BY <1>5 DEF TypeOK
  <2>3. QED
    BY <2>1, <2>2 DEF TokenId
<1>6. QED
  BY <1>1, <1>2, <1>3, <1>4, <1>5

\* The collection's rows.
LEMMA RowShape ==
  ASSUME TypeOK
  PROVE  /\ Len(tokens) \in Nat /\ Len(tokens) <= MaxTokens /\ MaxTokens \in Nat
         /\ 1..Len(tokens) \subseteq TokenId
         /\ \A t \in 1..Len(tokens) :
              /\ tokens[t].user \in Users
              /\ tokens[t].purpose \in Purposes
              /\ tokens[t].seen \in Nat
<1>1. Len(tokens) \in Nat /\ Len(tokens) <= MaxTokens /\ MaxTokens \in Nat
  BY AuthTokensAssumption DEF TypeOK
<1>2. 1..Len(tokens) \subseteq TokenId
  BY <1>1 DEF TokenId
<1>3. \A t \in 1..Len(tokens) : tokens[t] \in Row
  BY <1>1 DEF TypeOK
<1>4. QED
  BY <1>1, <1>2, <1>3 DEF Row

\* A handler that moves on keeps the type of req.
LEMMA GotoType ==
  ASSUME TypeOK, NEW p \in Requests, NEW r \in HandlerState,
         r \in Redeeming => r.token <= Len(tokens),
         Goto(p, r), Len(tokens') \in Nat, Len(tokens) <= Len(tokens')
  PROVE  /\ req' \in [Requests -> {NoRequest} \cup Issuing \cup Redeeming]
         /\ \A q \in Requests : req'[q] \in Redeeming => req'[q].token <= Len(tokens')
         /\ req'[p] = r
         /\ \A q \in Requests : q # p => req'[q] = req[q]
<1>1. req' = [req EXCEPT ![p] = r] /\ req \in [Requests -> HandlerState]
  BY DEF Goto, TypeOK, HandlerState
<1>2. req'[p] = r /\ \A q \in Requests : q # p => req'[q] = req[q]
  BY <1>1
<1>3. req' \in [Requests -> HandlerState]
  BY <1>1
<1>4. \A q \in Requests : req'[q] \in Redeeming => req'[q].token <= Len(tokens)
  BY <1>2 DEF TypeOK
<1>5. ASSUME NEW q \in Requests, req'[q] \in Redeeming PROVE req'[q].token <= Len(tokens')
  <2>1. req'[q].token <= Len(tokens) /\ req'[q].token \in Nat /\ Len(tokens) \in Nat
    BY <1>4, <1>5, AuthTokensAssumption DEF Redeeming, TokenId, TypeOK
  <2>2. QED
    BY <2>1
<1>6. QED
  BY <1>2, <1>3, <1>5 DEF HandlerState

(***************************************************************************)
(* What every step does: rows are only added, tokens only become used and  *)
(* redeemed.  Under it, and given the facts about the record r the handler *)
(* moves to, what the invariant says of handlers carries over.             *)
(***************************************************************************)
Grows == /\ Len(tokens') \in Nat /\ Len(tokens) <= Len(tokens')
         /\ \A t \in 1..Len(tokens) : tokens'[t] = tokens[t]
         /\ used \subseteq used'
         /\ redeemed \subseteq redeemed'

LEMMA HandlersKeep ==
  ASSUME IInv, Grows, NEW p \in Requests,
         \A q \in Requests : q # p => req'[q] = req[q],
         req'[p].pc = "inserting" =>
            /\ req'[p].seen <= Len(tokens)
            /\ \A t \in 1..req'[p].seen :
                 tokens[t].user = req'[p].user /\ tokens[t].purpose = req'[p].purpose
                   => t \in used',
         req'[p].pc \in {"marking", "applying"} =>
            /\ req'[p].token \in 1..Len(tokens)
            /\ tokens[req'[p].token].purpose = req'[p].endpoint,
         req'[p].pc = "applying" => req'[p].token \in redeemed' \cap used',
         req'[p].pc = "inserting" => req'[p].seen \in Nat
  PROVE  InsertingSeen' /\ RightEndpoint' /\ ApplyingBurnt'
<1>0. TypeOK /\ Len(tokens) \in Nat
  BY RowShape DEF IInv
<1>1. InsertingSeen'
  <2>1. SUFFICES ASSUME NEW q \in Requests, req'[q].pc = "inserting"
                 PROVE  /\ req'[q].seen <= Len(tokens')
                        /\ \A t \in 1..req'[q].seen :
                             tokens'[t].user = req'[q].user /\ tokens'[t].purpose = req'[q].purpose
                               => t \in used'
    BY DEF InsertingSeen
  <2>2. /\ req'[q].seen \in Nat /\ req'[q].seen <= Len(tokens)
        /\ \A t \in 1..req'[q].seen :
             tokens[t].user = req'[q].user /\ tokens[t].purpose = req'[q].purpose => t \in used'
    <3>1. CASE q = p
      BY <2>1, <3>1
    <3>2. CASE q # p
      <4>1. req'[q] = req[q]
        BY <3>2
      <4>2. req[q].seen \in Nat
        BY <1>0, <2>1, <4>1, HandlerShape, AuthTokensAssumption
      <4>3. QED
        BY <2>1, <4>1, <4>2 DEF IInv, InsertingSeen, Grows
    <3>3. QED
      BY <3>1, <3>2
  <2>3. \A t \in 1..req'[q].seen : tokens'[t] = tokens[t]
    BY <1>0, <2>2 DEF Grows
  <2>4. req'[q].seen <= Len(tokens')
    BY <1>0, <2>2 DEF Grows
  <2>5. QED
    BY <2>2, <2>3, <2>4
<1>2. \A q \in Requests : req'[q].pc \in {"marking", "applying"} =>
        req'[q].token \in 1..Len(tokens) /\ tokens[req'[q].token].purpose = req'[q].endpoint
  <2>1. TAKE q \in Requests
  <2>2. CASE q = p
    BY <2>2
  <2>3. CASE q # p
    BY <1>0, <2>3, HandlerShape DEF IInv, RightEndpoint
  <2>4. QED
    BY <2>2, <2>3
<1>3. RightEndpoint'
  BY <1>2 DEF RightEndpoint, Grows
<1>4. ApplyingBurnt'
  BY DEF IInv, ApplyingBurnt, Grows
<1>5. QED
  BY <1>1, <1>3, <1>4

\* What a step that carries out no effect keeps of those there were.
LEMMA EffectsKeep ==
  ASSUME TypeOK, EffectsOwned, Grows, UNCHANGED <<verified, password>>
  PROVE  EffectsOwned'
<1>1. \A t, u, purpose : t \in 1..Len(tokens) /\ Burnt(t, u, purpose) => Burnt(t, u, purpose)'
  BY DEF Burnt, Grows
<1>2. 1..Len(tokens) \subseteq 1..Len(tokens')
  BY RowShape DEF Grows
<1>3. \A u \in Users : password[u] # 0 => password[u] \in 1..Len(tokens)
  BY RowShape DEF TypeOK
<1>4. QED
  BY <1>1, <1>2, <1>3 DEF EffectsOwned

(***************************************************************************)
(* A step that carries out no effect and takes no new token in hand but an *)
(* unused one keeps the record of what was applied.                        *)
(***************************************************************************)
LEMMA AppliedKeep ==
  ASSUME IInv, Grows, UNCHANGED applied, NEW p \in Requests,
         \A q \in Requests : q # p => req'[q] = req[q],
         \A t \in TokenId : Holds(p, t)' => Holds(p, t) \/ t \notin used
  PROVE  SeriallySingleUse' /\ AppliedSpent'
<1>1. \A q \in Requests, t \in TokenId : Holds(q, t)' => Holds(q, t) \/ t \notin used
  BY DEF Holds
<1>2. QED
  BY <1>1 DEF IInv, SeriallySingleUse, AppliedSpent, Grows

\* A step that redeems nothing and ends no handler that is about to apply.
LEMMA RedeemedKeep ==
  ASSUME RedeemedTakesEffect, UNCHANGED <<redeemed, applied>>, died \subseteq died',
         \A q \in Requests : req[q].pc = "applying" => req'[q] = req[q]
  PROVE  RedeemedTakesEffect'
BY DEF RedeemedTakesEffect, Holds

\* The rows' own facts depend on no handler.
LEMMA RowsKeep ==
  ASSUME IInv, UNCHANGED tokens, used \subseteq used'
  PROVE  SeenEarlier' /\ IssueSupersedes'
BY DEF IInv, SeenEarlier, IssueSupersedes, Superseding

LEMMA InitIInv == Init => IInv
<1> SUFFICES ASSUME Init PROVE IInv
  OBVIOUS
<1>1. tokens = <<>> /\ Len(tokens) = 0 /\ \A p \in Requests : req[p] = NoRequest
  BY DEF Init
<1>2. TypeOK
  <2>1. \A p \in Requests : req[p] \notin Redeeming
    BY <1>1 DEF NoRequest, Redeeming
  <2>2. QED
    BY <1>1, <2>1, AuthTokensAssumption DEF Init, TypeOK
<1>3. SeenEarlier /\ IssueSupersedes
  BY <1>1 DEF SeenEarlier, IssueSupersedes
<1>4. InsertingSeen /\ RightEndpoint /\ ApplyingBurnt
  BY <1>1 DEF InsertingSeen, RightEndpoint, ApplyingBurnt, NoRequest
<1>5. EffectsOwned /\ RedeemedTakesEffect
  BY DEF Init, EffectsOwned, RedeemedTakesEffect
<1>6. SeriallySingleUse /\ AppliedSpent
  BY DEF Init, SeriallySingleUse, AppliedSpent
<1>7. QED
  BY <1>2, <1>3, <1>4, <1>5, <1>6 DEF IInv

-----------------------------------------------------------------------------
(***************************************************************************)
(* A step in which one handler moves to the record r and no row, effect or *)
(* application is added.                                                   *)
(***************************************************************************)
LEMMA QuietStep ==
  ASSUME IInv, NEW p \in Requests, NEW r \in HandlerState, Goto(p, r),
         UNCHANGED <<tokens, expired, verified, password, applied>>,
         used \subseteq used', used' \subseteq 1..Len(tokens),
         redeemed \subseteq redeemed', redeemed' \subseteq 1..Len(tokens),
         died' \subseteq 1..Len(tokens),
         r.pc = "inserting" =>
            /\ r.seen \in Nat /\ r.seen <= Len(tokens)
            /\ \A t \in 1..r.seen :
                 tokens[t].user = r.user /\ tokens[t].purpose = r.purpose => t \in used',
         r.pc \in {"marking", "applying"} =>
            /\ r.token \in 1..Len(tokens)
            /\ tokens[r.token].purpose = r.endpoint
            /\ Holds(p, r.token) \/ r.token \notin used,
         r.pc = "applying" => r.token \in redeemed' \cap used',
         RedeemedTakesEffect'
  PROVE  IInv'
<1>0. TypeOK /\ Len(tokens) \in Nat /\ Len(tokens') = Len(tokens)
  BY RowShape DEF IInv
<1>1. r \in Redeeming => r.token <= Len(tokens)
  <2>1. r \in Redeeming => r.pc \in {"marking", "applying"}
    BY DEF Redeeming
  <2>2. QED
    BY <1>0, <2>1
<1>2. /\ req' \in [Requests -> {NoRequest} \cup Issuing \cup Redeeming]
      /\ \A q \in Requests : req'[q] \in Redeeming => req'[q].token <= Len(tokens')
      /\ req'[p] = r
      /\ \A q \in Requests : q # p => req'[q] = req[q]
  BY <1>0, <1>1, GotoType
<1>3. TypeOK'
  BY <1>0, <1>2 DEF TypeOK
<1>4. Grows
  BY <1>0 DEF Grows
<1>5. InsertingSeen' /\ RightEndpoint' /\ ApplyingBurnt'
  BY <1>2, <1>4, HandlersKeep
<1>6. EffectsOwned'
  BY <1>0, <1>4, EffectsKeep DEF IInv
<1>7. SeriallySingleUse' /\ AppliedSpent'
  <2>1. \A t \in TokenId : Holds(p, t)' => Holds(p, t) \/ t \notin used
    BY <1>2 DEF Holds
  <2>2. QED
    BY <1>2, <1>4, <2>1, AppliedKeep
<1>8. SeenEarlier' /\ IssueSupersedes'
  BY RowsKeep
<1>9. QED
  BY <1>3, <1>5, <1>6, <1>7, <1>8 DEF IInv

LEMMA RequestStep ==
  ASSUME IInv, NEW p \in Requests, NEW u \in Users, NEW purpose \in Purposes,
         Request(p, u, purpose)
  PROVE  IInv'
<1> DEFINE r == [pc |-> "invalidating", user |-> u, purpose |-> purpose]
<1>1. Goto(p, r) /\ r \in HandlerState /\ r.pc = "invalidating"
  BY DEF Request, Start, Goto, HandlerState, Issuing
<1>2. UNCHANGED <<tokens, used, expired, verified, password, redeemed, applied, died>>
  BY DEF Request
<1>3. RedeemedTakesEffect'
  <2>1. \A q \in Requests : req[q].pc = "applying" => req'[q] = req[q]
    BY DEF Request, Start, NoRequest, IInv, TypeOK
  <2>2. QED
    BY <1>2, <2>1, RedeemedKeep DEF IInv
<1>4. used \subseteq 1..Len(tokens) /\ redeemed \subseteq 1..Len(tokens) /\ died \subseteq 1..Len(tokens)
  BY DEF IInv, TypeOK
<1> HIDE DEF r
<1>5. QED
  BY <1>1, <1>2, <1>3, <1>4, QuietStep

LEMMA InvalidateStep ==
  ASSUME IInv, NEW p \in Requests, Invalidate(p)
  PROVE  IInv'
<1> DEFINE r == [pc |-> "inserting", user |-> req[p].user, purpose |-> req[p].purpose,
                 seen |-> Len(tokens)]
<1>0. TypeOK /\ Len(tokens) \in 0..MaxTokens
  BY RowShape DEF IInv
<1>1. Goto(p, r) /\ r \in HandlerState /\ r.pc = "inserting"
  <2>1. req[p].user \in Users /\ req[p].purpose \in Purposes
    BY <1>0, HandlerShape DEF Invalidate
  <2>2. QED
    BY <1>0, <2>1 DEF Invalidate, HandlerState, Issuing
<1>2. UNCHANGED <<tokens, expired, verified, password, redeemed, applied, died>>
  BY DEF Invalidate
<1>3. RedeemedTakesEffect'
  <2>1. \A q \in Requests : req[q].pc = "applying" => req'[q] = req[q]
    BY <1>0 DEF Invalidate, Goto, TypeOK
  <2>2. QED
    BY <1>2, <2>1, RedeemedKeep DEF IInv
<1>4. used' \subseteq 1..Len(tokens) /\ redeemed \subseteq 1..Len(tokens) /\ died \subseteq 1..Len(tokens)
  BY <1>0 DEF Invalidate, Superseded, TypeOK
<1>5. /\ used \subseteq used'
      /\ \A t \in 1..r.seen :
           tokens[t].user = r.user /\ tokens[t].purpose = r.purpose => t \in used'
  BY DEF Invalidate, Superseded
<1>6. r.seen \in Nat /\ r.seen <= Len(tokens)
  BY <1>0
<1> HIDE DEF r
<1>7. QED
  BY <1>1, <1>2, <1>3, <1>4, <1>5, <1>6, QuietStep

LEMMA PresentStep ==
  ASSUME IInv, NEW p \in Requests, NEW t \in 1..Len(tokens), NEW endpoint \in Purposes,
         Present(p, t, endpoint)
  PROVE  IInv'
<1> DEFINE r == [pc |-> "marking", token |-> t, endpoint |-> endpoint]
<1>0. TypeOK /\ t \in TokenId
  BY RowShape DEF IInv
<1>1. Goto(p, r) /\ r \in HandlerState /\ r.pc = "marking"
  BY <1>0 DEF Present, Start, Goto, HandlerState, Redeeming
<1>2. UNCHANGED <<tokens, used, expired, verified, password, redeemed, applied, died>>
  BY DEF Present
<1>3. RedeemedTakesEffect'
  <2>1. \A q \in Requests : req[q].pc = "applying" => req'[q] = req[q]
    BY <1>0 DEF Present, Start, NoRequest, TypeOK
  <2>2. QED
    BY <1>2, <2>1, RedeemedKeep DEF IInv
<1>4. used \subseteq 1..Len(tokens) /\ redeemed \subseteq 1..Len(tokens) /\ died \subseteq 1..Len(tokens)
  BY <1>0 DEF TypeOK
<1>5. r.token = t /\ tokens[t].purpose = r.endpoint /\ t \notin used
  BY DEF Present, ForPurpose, Usable
<1> HIDE DEF r
<1>6. QED
  BY <1>1, <1>2, <1>3, <1>4, <1>5, QuietStep

LEMMA MarkUsedStep ==
  ASSUME IInv, NEW p \in Requests, MarkUsed(p)
  PROVE  IInv'
<1> DEFINE r == [req[p] EXCEPT !.pc = "applying"]
<1>0. /\ TypeOK /\ req[p] \in Redeeming /\ req[p].pc = "marking"
      /\ req[p].token \in 1..Len(tokens)
  BY HandlerShape DEF IInv, MarkUsed
<1>1. /\ Goto(p, r) /\ r \in HandlerState /\ r.pc = "applying"
      /\ r.token = req[p].token /\ r.endpoint = req[p].endpoint
  BY <1>0 DEF MarkUsed, HandlerState, Redeeming
<1>2. /\ UNCHANGED <<tokens, expired, verified, password, applied, died>>
      /\ used' = used \cup {r.token} /\ redeemed' = redeemed \cup {r.token}
  BY <1>1 DEF MarkUsed
<1> HIDE DEF r
<1>3. RedeemedTakesEffect'
  <2>1. req'[p] = r /\ \A q \in Requests : q # p => req'[q] = req[q]
    BY <1>0, <1>1 DEF Goto, TypeOK
  <2>2. \A t \in redeemed : \A q \in Requests :
          Holds(q, t) /\ req[q].pc = "applying" => Holds(q, t)' /\ req'[q].pc = "applying"
    BY <1>0, <2>1 DEF Holds
  <2>3. req'[p].pc = "applying" /\ req'[p].token = r.token
    BY <1>1, <2>1
  <2>4. \A t \in redeemed' \ redeemed : Holds(p, t)' /\ req'[p].pc = "applying"
    BY <1>2, <2>3 DEF Holds
  <2>5. QED
    BY <1>2, <2>2, <2>4 DEF IInv, RedeemedTakesEffect
<1>4. /\ used' \subseteq 1..Len(tokens) /\ redeemed' \subseteq 1..Len(tokens)
      /\ died' \subseteq 1..Len(tokens)
  BY <1>0, <1>1, <1>2 DEF TypeOK
<1>5. tokens[r.token].purpose = r.endpoint /\ Holds(p, r.token) /\ r.token \in 1..Len(tokens)
  BY <1>0, <1>1 DEF IInv, RightEndpoint, Holds
<1>6. QED
  BY <1>1, <1>2, <1>3, <1>4, <1>5, QuietStep

LEMMA CrashStep ==
  ASSUME IInv, NEW p \in Requests, Crash(p)
  PROVE  IInv'
<1>0. TypeOK
  BY DEF IInv
<1>1. Goto(p, NoRequest) /\ NoRequest \in HandlerState /\ NoRequest.pc = "idle"
  BY DEF Crash, Finish, HandlerState, NoRequest
<1>2. UNCHANGED <<tokens, used, expired, verified, password, redeemed, applied>>
  BY DEF Crash
<1>3. RedeemedTakesEffect'
  <2>1. \A q \in Requests : q # p => req'[q] = req[q]
    BY <1>0, <1>1 DEF Goto, TypeOK
  <2>2. \A t \in redeemed : Holds(p, t) => t \in died'
    BY DEF Crash
  <2>3. died \subseteq died'
    BY DEF Crash
  <2>4. \A t \in redeemed : \A q \in Requests :
          Holds(q, t) /\ req[q].pc = "applying" =>
            t \in died' \/ (Holds(q, t)' /\ req'[q].pc = "applying")
    BY <2>1, <2>2 DEF Holds
  <2>5. QED
    BY <1>2, <2>3, <2>4 DEF IInv, RedeemedTakesEffect
<1>4. used \subseteq 1..Len(tokens) /\ redeemed \subseteq 1..Len(tokens) /\ died' \subseteq 1..Len(tokens)
  BY <1>0 DEF Crash, TypeOK
<1>5. QED
  BY <1>1, <1>2, <1>3, <1>4, QuietStep

-----------------------------------------------------------------------------
\* The row that create inserts supersedes only rows that were there before.
LEMMA InsertStep ==
  ASSUME IInv, NEW p \in Requests, Insert(p)
  PROVE  IInv'
<1> DEFINE row == [user |-> req[p].user, purpose |-> req[p].purpose, seen |-> req[p].seen]
<1>0. /\ TypeOK /\ Len(tokens) \in Nat /\ Len(tokens) + 1 <= MaxTokens /\ MaxTokens \in Nat
      /\ req[p].pc = "inserting" /\ tokens \in Seq(Row)
  BY RowShape DEF IInv, Insert, TypeOK
<1>1. row \in Row /\ req[p].seen \in Nat /\ req[p].seen <= Len(tokens)
  <2>1. req[p].user \in Users /\ req[p].purpose \in Purposes /\ req[p].seen \in 0..MaxTokens
    BY <1>0, HandlerShape
  <2>2. QED
    BY <1>0, <2>1 DEF Row, IInv, InsertingSeen
<1>2. /\ tokens' \in Seq(Row) /\ Len(tokens') = Len(tokens) + 1
      /\ \A t \in 1..Len(tokens) : tokens'[t] = tokens[t]
      /\ tokens'[Len(tokens) + 1] = row
  <2>1. tokens' = Append(tokens, row)
    BY DEF Insert
  <2> HIDE DEF row
  <2>2. QED
    BY <1>0, <1>1, <2>1
<1>3. /\ row.user = req[p].user /\ row.purpose = req[p].purpose /\ row.seen = req[p].seen
  OBVIOUS
<1> HIDE DEF row
<1>4. UNCHANGED <<used, expired, verified, password, redeemed, applied, died>>
  BY DEF Insert
<1>5. Grows
  BY <1>0, <1>2, <1>4 DEF Grows
<1>6. Goto(p, NoRequest) /\ NoRequest \in HandlerState /\ NoRequest.pc = "idle"
      /\ NoRequest \notin Redeeming
  BY DEF Insert, Finish, HandlerState, NoRequest, Redeeming
<1>7. /\ req' \in [Requests -> {NoRequest} \cup Issuing \cup Redeeming]
      /\ \A q \in Requests : req'[q] \in Redeeming => req'[q].token <= Len(tokens')
      /\ req'[p] = NoRequest
      /\ \A q \in Requests : q # p => req'[q] = req[q]
  BY <1>0, <1>5, <1>6, GotoType DEF Grows
<1>8. TypeOK'
  <2>1. 1..Len(tokens) \subseteq 1..Len(tokens') /\ 0..Len(tokens) \subseteq 0..Len(tokens')
    BY <1>0, <1>2
  <2>2. password \in [Users -> 0..Len(tokens')]
    BY <1>0, <2>1 DEF TypeOK
  <2>3. QED
    BY <1>0, <1>2, <1>4, <1>7, <2>1, <2>2 DEF TypeOK
<1>9. SeenEarlier'
  <2>1. ASSUME NEW t \in 1..Len(tokens') PROVE tokens'[t].seen < t
    <3>1. CASE t \in 1..Len(tokens)
      BY <1>2, <3>1 DEF IInv, SeenEarlier
    <3>2. CASE t = Len(tokens) + 1
      BY <1>0, <1>1, <1>2, <1>3, <3>2
    <3>3. QED
      BY <1>0, <1>2, <3>1, <3>2
  <2>2. QED
    BY <2>1 DEF SeenEarlier
<1>10. IssueSupersedes'
  <2>1. SUFFICES ASSUME NEW t1 \in 1..Len(tokens'), NEW t2 \in 1..Len(tokens'),
                        Superseding(t1, t2)'
                 PROVE  t1 \in used
    BY <1>4 DEF IssueSupersedes
  <2>2. tokens'[t1].user = tokens'[t2].user /\ tokens'[t1].purpose = tokens'[t2].purpose
        /\ t1 <= tokens'[t2].seen
    BY <2>1 DEF Superseding
  <2>3. CASE t2 \in 1..Len(tokens)
    <3>1. tokens'[t2] = tokens[t2] /\ tokens[t2].seen < t2 /\ tokens[t2].seen \in Nat
      BY <1>0, <1>2, <2>3, RowShape DEF IInv, SeenEarlier
    <3>2. t1 \in 1..Len(tokens)
      BY <1>0, <1>2, <2>2, <2>3, <3>1
    <3>3. QED
      BY <1>2, <2>2, <2>3, <3>1, <3>2 DEF IInv, IssueSupersedes, Superseding
  <2>4. CASE t2 = Len(tokens) + 1
    <3>1. t1 <= req[p].seen /\ t1 \in 1..Len(tokens) /\ t1 \in 1..req[p].seen
      BY <1>0, <1>1, <1>2, <1>3, <2>2, <2>4
    <3>2. tokens[t1].user = req[p].user /\ tokens[t1].purpose = req[p].purpose
      BY <1>2, <1>3, <2>2, <2>4, <3>1
    <3>3. QED
      BY <1>0, <3>1, <3>2 DEF IInv, InsertingSeen
  <2>5. QED
    BY <1>0, <1>2, <2>3, <2>4
<1>11. InsertingSeen' /\ RightEndpoint' /\ ApplyingBurnt'
  BY <1>5, <1>6, <1>7, HandlersKeep
<1>12. EffectsOwned'
  BY <1>0, <1>4, <1>5, EffectsKeep DEF IInv
<1>13. SeriallySingleUse' /\ AppliedSpent'
  <2>1. \A t \in TokenId : ~ Holds(p, t)'
    BY <1>6, <1>7 DEF Holds
  <2>2. QED
    BY <1>4, <1>5, <1>7, <2>1, AppliedKeep
<1>14. RedeemedTakesEffect'
  <2>1. \A q \in Requests : req[q].pc = "applying" => req'[q] = req[q]
    BY <1>0, <1>7
  <2>2. QED
    BY <1>4, <2>1, RedeemedKeep DEF IInv
<1>15. QED
  BY <1>8, <1>9, <1>10, <1>11, <1>12, <1>13, <1>14 DEF IInv

(***************************************************************************)
(* The two steps that carry out an effect: it is that of the token in      *)
(* hand, which is burnt, of the right purpose, and not applied before by   *)
(* this handler.                                                           *)
(***************************************************************************)
LEMMA ApplyStep ==
  ASSUME IInv, NEW p \in Requests, NEW endpoint \in Purposes, Applying(p, endpoint),
         Applied(p), Finish(p),
         UNCHANGED <<tokens, used, expired, redeemed, died>>,
         verified' \subseteq Users, password' \in [Users -> 0..Len(tokens)],
         EffectsOwned'
  PROVE  IInv'
<1> DEFINE t == req[p].token
<1>0. /\ TypeOK /\ Len(tokens) \in Nat /\ Len(tokens') = Len(tokens)
      /\ t \in 1..Len(tokens) /\ t \in TokenId /\ req[p].pc = "applying"
      /\ t \in used /\ Holds(p, t)
  BY RowShape, HandlerShape DEF IInv, Applying, ApplyingBurnt, Holds
<1>1. Grows
  BY <1>0 DEF Grows
<1>2. Goto(p, NoRequest) /\ NoRequest \in HandlerState /\ NoRequest.pc = "idle"
      /\ NoRequest \notin Redeeming
  BY DEF Finish, HandlerState, NoRequest, Redeeming
<1>3. /\ req' \in [Requests -> {NoRequest} \cup Issuing \cup Redeeming]
      /\ \A q \in Requests : req'[q] \in Redeeming => req'[q].token <= Len(tokens')
      /\ req'[p] = NoRequest
      /\ \A q \in Requests : q # p => req'[q] = req[q]
  BY <1>0, <1>2, GotoType
<1>4. /\ applied' \in [TokenId -> [Requests -> Nat]]
      /\ applied'[t][p] = applied[t][p] + 1
      /\ \A s \in TokenId, q \in Requests :
           s # t \/ q # p => applied'[s][q] = applied[s][q]
  <2>1. applied \in [TokenId -> [Requests -> Nat]]
    BY <1>0 DEF TypeOK
  <2>2. applied' = [applied EXCEPT ![t] = [applied[t] EXCEPT ![p] = applied[t][p] + 1]]
    BY DEF Applied
  <2> HIDE DEF t
  <2>3. [applied[t] EXCEPT ![p] = applied[t][p] + 1] \in [Requests -> Nat]
    BY <1>0, <2>1
  <2>4. QED
    BY <1>0, <2>1, <2>2, <2>3
<1>5. TypeOK'
  BY <1>0, <1>3, <1>4 DEF TypeOK
<1>6. InsertingSeen' /\ RightEndpoint' /\ ApplyingBurnt'
  BY <1>1, <1>2, <1>3, HandlersKeep
<1>7. applied[t][p] = 0
  BY <1>0 DEF IInv, AppliedSpent, TypeOK
<1>8. SeriallySingleUse'
  <2>1. ASSUME NEW s \in TokenId, NEW q \in Requests PROVE applied'[s][q] <= 1
    <3>1. CASE s = t /\ q = p
      BY <1>4, <1>7, <3>1
    <3>2. CASE s # t \/ q # p
      BY <1>4, <3>2 DEF IInv, SeriallySingleUse
    <3>3. QED
      BY <3>1, <3>2
  <2>2. QED
    BY <2>1 DEF SeriallySingleUse
<1>9. AppliedSpent'
  <2>1. \A s \in TokenId : ~ Holds(p, s)'
    BY <1>2, <1>3 DEF Holds
  <2>2. \A s \in TokenId, q \in Requests : q # p => (Holds(q, s)' <=> Holds(q, s))
    BY <1>3 DEF Holds
  <2>3. QED
    BY <1>0, <1>4, <2>1, <2>2 DEF IInv, AppliedSpent
<1>10. RedeemedTakesEffect'
  <2>1. applied'[t][p] > 0
    BY <1>0, <1>4, <1>7
  <2>2. \A s \in redeemed : s \in TokenId
    BY <1>0, RowShape DEF TypeOK
  <2>3. \A s \in redeemed, q \in Requests :
          applied[s][q] > 0 => applied'[s][q] > 0
    BY <1>0, <1>4, <2>1, <2>2
  <2>4. \A s \in redeemed : \A q \in Requests :
          Holds(q, s) /\ req[q].pc = "applying" =>
            applied'[s][p] > 0 \/ (Holds(q, s)' /\ req'[q].pc = "applying")
    BY <1>3, <2>1 DEF Holds
  <2>5. QED
    BY <2>3, <2>4 DEF IInv, RedeemedTakesEffect
<1>11. SeenEarlier' /\ IssueSupersedes'
  BY RowsKeep
<1>12. QED
  BY <1>5, <1>6, <1>8, <1>9, <1>10, <1>11 DEF IInv

LEMMA MarkVerifiedStep ==
  ASSUME IInv, NEW p \in Requests, MarkVerified(p)
  PROVE  IInv'
<1>0. TypeOK
  BY DEF IInv
<1>t. PICK t \in 1..Len(tokens) : t = req[p].token /\ tokens[t].user \in Users
  BY <1>0, RowShape, HandlerShape DEF MarkVerified, Applying
<1>u. PICK u \in Users : u = tokens[t].user
  BY <1>t
<1>b. Burnt(t, u, "email_verification")
  BY <1>t, <1>u DEF IInv, MarkVerified, Applying, RightEndpoint, ApplyingBurnt, Burnt
<1>1. UNCHANGED <<tokens, used, expired, password, redeemed, died>>
      /\ verified' = verified \cup {u}
  BY <1>t, <1>u DEF MarkVerified
<1>2. EffectsOwned'
  <2>1. \A v \in Users, purpose \in Purposes, s \in 1..Len(tokens) :
          Burnt(s, v, purpose)' <=> Burnt(s, v, purpose)
    BY <1>1 DEF Burnt
  <2>2. \A v \in Users : password[v] # 0 => Burnt(password[v], v, "password_reset")'
    BY <1>1 DEF IInv, EffectsOwned, Burnt
  <2>3. \A v \in verified \ GoogleUsers : v \in Users =>
          \E s \in 1..Len(tokens) : Burnt(s, v, "email_verification")'
    BY <2>1 DEF IInv, EffectsOwned, Purposes
  <2>4. Burnt(t, u, "email_verification")'
    BY <1>b, <1>1 DEF Burnt
  <2>5. QED
    BY <1>0, <1>1, <1>t, <2>2, <2>3, <2>4 DEF EffectsOwned
<1>3. verified' \subseteq Users /\ password' \in [Users -> 0..Len(tokens)]
  BY <1>0, <1>1 DEF TypeOK
<1>4. QED
  BY <1>1, <1>2, <1>3, ApplyStep DEF MarkVerified, Purposes

LEMMA UpdatePasswordStep ==
  ASSUME IInv, NEW p \in Requests, UpdatePassword(p)
  PROVE  IInv'
<1>0. TypeOK
  BY DEF IInv
<1>t. PICK t \in 1..Len(tokens) : t = req[p].token /\ tokens[t].user \in Users
  BY <1>0, RowShape, HandlerShape DEF UpdatePassword, Applying
<1>u. PICK u \in Users : u = tokens[t].user
  BY <1>t
<1>b. Burnt(t, u, "password_reset")
  BY <1>t, <1>u DEF IInv, UpdatePassword, Applying, RightEndpoint, ApplyingBurnt, Burnt
<1>1. UNCHANGED <<tokens, used, expired, verified, redeemed, died>>
      /\ password' = [password EXCEPT ![u] = t]
  BY <1>t, <1>u DEF UpdatePassword
<1>2. EffectsOwned'
  <2>1. \A v \in Users : password'[v] = IF v = u THEN t ELSE password[v]
    BY <1>0, <1>1 DEF TypeOK
  <2>2. \A v \in Users : password'[v] # 0 => Burnt(password'[v], v, "password_reset")
    BY <1>b, <2>1 DEF IInv, EffectsOwned
  <2>3. QED
    BY <1>1, <2>2 DEF IInv, EffectsOwned, Burnt
<1>3. verified' \subseteq Users /\ password' \in [Users -> 0..Len(tokens)]
  BY <1>0, <1>1, RowShape DEF TypeOK
<1>4. QED
  BY <1>1, <1>2, <1>3, ApplyStep DEF UpdatePassword, Purposes

LEMMA ExpireStep ==
  ASSUME IInv, NEW t \in 1..Len(tokens), Expire(t)
  PROVE  IInv'
<1>1. UNCHANGED <<tokens, used, verified, password, req, redeemed, applied, died>>
      /\ expired' = expired \cup {t}
  BY DEF Expire
<1>2. TypeOK'
  BY <1>1 DEF IInv, TypeOK
<1>3. QED
  BY <1>1, <1>2 DEF IInv, SeenEarlier, InsertingSeen, IssueSupersedes, Superseding, RightEndpoint,
     ApplyingBurnt, EffectsOwned, Burnt, RedeemedTakesEffect, Holds, SeriallySingleUse, AppliedSpent

LEMMA Inductive == IInv /\ [Next]_vars => IInv'
<1> SUFFICES ASSUME IInv, [Next]_vars PROVE IInv'
  OBVIOUS
<1>1. ASSUME NEW p \in Requests, Handler(p) PROVE IInv'
  BY <1>1, RequestStep, PresentStep, InvalidateStep, InsertStep, MarkUsedStep, MarkVerifiedStep,
     UpdatePasswordStep, CrashStep DEF Handler
<1>2. ASSUME NEW t \in 1..Len(tokens), Expire(t) PROVE IInv'
  BY <1>2, ExpireStep
<1>3. CASE UNCHANGED vars
  BY <1>3 DEF vars, IInv, TypeOK, SeenEarlier, InsertingSeen, IssueSupersedes, Superseding,
     RightEndpoint, ApplyingBurnt, EffectsOwned, Burnt, RedeemedTakesEffect, Holds,
     SeriallySingleUse, AppliedSpent
<1>4. QED
  BY <1>1, <1>2, <1>3 DEF Next

LEMMA Invariance == Spec => []IInv
BY InitIInv, Inductive, PTL DEF Spec

-----------------------------------------------------------------------------
\* The collection, the marks and the handlers' records keep their types.
THEOREM TypeCorrect == Spec => []TypeOK
BY Invariance, PTL DEF IInv

\* Issuing a token ends the earlier ones of its user and purpose (create).
THEOREM IssueSupersedesHolds == Spec => []IssueSupersedes
BY Invariance, PTL DEF IInv

\* Only a burnt token of the right purpose and user verifies or sets a password.
THEOREM EffectsOwnedHolds == Spec => []EffectsOwned
BY Invariance, PTL DEF IInv

\* A token that was burnt had its effect unless its handler died.
THEOREM RedeemedTakesEffectHolds == Spec => []RedeemedTakesEffect
BY Invariance, PTL DEF IInv

\* Requests served one after the other use a token at most once.
THEOREM SeriallySingleUseHolds == Spec => []SeriallySingleUse
BY Invariance, PTL DEF IInv

(***************************************************************************)
(* A token that is used or expired and in nobody's hands stays so: the     *)
(* check that Present makes is made against the stored row, and no step    *)
(* takes a token in hand without it.                                       *)
(***************************************************************************)
THEOREM DeadStaysDeadHolds == Spec => DeadStaysDead
<1>1. ASSUME IInv, [Next]_vars, NEW t \in 1..Len(tokens), Dead(t) PROVE Dead(t)'
  <2>0. /\ TypeOK /\ req \in [Requests -> HandlerState]
        /\ \A p \in Requests : ~ Holds(p, t)
        /\ t \in used \cup expired
    BY <1>1 DEF IInv, TypeOK, HandlerState, Dead
  <2>1. used \cup expired \subseteq used' \cup expired'
    BY <1>1 DEF Next, Handler, Request, Present, Invalidate, Insert, MarkUsed, MarkVerified,
       UpdatePassword, Crash, Expire, vars
  <2>2. ASSUME NEW p \in Requests, NEW q \in Requests, Handler(p) PROVE ~ Holds(q, t)'
    <3>1. CASE q # p
      <4>1. req'[q] = req[q]
        BY <2>0, <2>2, <3>1 DEF Handler, Request, Present, Start, Invalidate, Insert, MarkUsed,
           MarkVerified, UpdatePassword, Crash, Finish, Goto
      <4>2. QED
        BY <2>0, <4>1 DEF Holds
    <3>2. CASE q = p /\ \E s \in 1..Len(tokens), endpoint \in Purposes : Present(p, s, endpoint)
      <4>1. PICK s \in 1..Len(tokens), endpoint \in Purposes : Present(p, s, endpoint)
        BY <3>2
      <4>2. s # t
        BY <2>0, <4>1 DEF Present, Usable
      <4>3. QED
        BY <2>0, <3>2, <4>1, <4>2 DEF Present, Start, Holds
    <3>3. CASE q = p /\ MarkUsed(p)
      <4>1. req[p].token # t
        BY <2>0, <3>3 DEF MarkUsed, Holds
      <4>2. req[p] \in Redeeming
        BY <2>0, <3>3, HandlerShape DEF MarkUsed
      <4>3. req'[p] = [req[p] EXCEPT !.pc = "applying"]
        BY <2>0, <3>3 DEF MarkUsed, Goto
      <4>4. req'[p].token = req[p].token
        BY <4>2, <4>3 DEF Redeeming
      <4>5. QED
        BY <3>3, <4>1, <4>4 DEF Holds
    <3>4. CASE q = p /\ \E u \in Users, purpose \in Purposes : Request(p, u, purpose)
      <4>1. req'[p].pc = "invalidating"
        BY <2>0, <3>4 DEF Request, Start
      <4>2. QED
        BY <3>4, <4>1 DEF Holds
    <3>5. CASE q = p /\ Invalidate(p)
      <4>1. req'[p].pc = "inserting"
        BY <2>0, <3>5 DEF Invalidate, Goto
      <4>2. QED
        BY <3>5, <4>1 DEF Holds
    <3>6. CASE q = p /\ (Insert(p) \/ MarkVerified(p) \/ UpdatePassword(p) \/ Crash(p))
      <4>1. req'[p] = NoRequest
        BY <2>0, <3>6 DEF Insert, MarkVerified, UpdatePassword, Crash, Finish, Goto
      <4>2. QED
        BY <3>6, <4>1 DEF Holds, NoRequest
    <3>7. QED
      BY <2>2, <3>1, <3>2, <3>3, <3>4, <3>5, <3>6 DEF Handler
  <2>3. CASE \E p \in Requests : Handler(p)
    BY <2>0, <2>1, <2>2, <2>3 DEF Dead
  <2>4. CASE (\E s \in 1..Len(tokens) : Expire(s)) \/ UNCHANGED vars
    <3>1. req' = req
      BY <2>4 DEF Expire, vars
    <3>2. QED
      BY <2>0, <2>1, <3>1 DEF Dead, Holds
  <2>5. QED
    BY <1>1, <2>3, <2>4 DEF Next
<1>2. IInv /\ [Next]_vars => [\A t \in 1..Len(tokens) : Dead(t) => Dead(t)']_vars
  BY <1>1
<1>3. QED
  BY <1>2, Invariance, PTL DEF Spec, DeadStaysDead
=============================================================================
