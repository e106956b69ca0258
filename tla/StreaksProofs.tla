--------------------------- MODULE StreaksProofs ---------------------------
(***************************************************************************)
(* Proofs about Streaks, for any pairs, any number of concurrent handlers, *)
(* any lengths of the day, the window and the milestone.                   *)
(***************************************************************************)
EXTENDS Streaks, TLAPS, FiniteSetTheorems

(***************************************************************************)
(* The inductive invariant.  What a handler read before its write goes     *)
(* stale under it; the conditional updates are enough because the status   *)
(* and last_interaction_at only move forward: a row that still has the     *)
(* value a handler read has not changed since, and what the handler        *)
(* derived from it then is still right.                                    *)
(***************************************************************************)
RowInv(pair) ==
    /\ streak[pair].status # "active" => log[pair] = <<>>
    /\ streak[pair].status = "pending" => streak[pair].invited_by \in Partners(pair)
    /\ streak[pair].status = "active" =>
         /\ {streak[pair].invited_by, streak[pair].accepted_by} = Partners(pair)
         /\ streak[pair].last <= clock
         /\ Counted(log[pair], streak[pair].current)
         /\ streak[pair].last = log[pair][Len(log[pair])].at
    /\ DaysRise(log[pair])

AcceptInv(p) ==
    LET row == streak[req[p].pair] IN
    req[p].pc = "accepting" =>
      /\ req[p].since <= clock
      /\ req[p].user \in Partners(req[p].pair)
      /\ row.status = "pending" => row.invited_by # req[p].user
      /\ row.status \in {"pending", "active"}

CheckInv(p) ==
    LET row == streak[req[p].pair] IN
    req[p].pc = "checking" =>
      /\ req[p].since <= clock /\ req[p].new >= 1
      /\ row.status = "active"
      /\ req[p].last <= row.last
      /\ Day(req[p].last) < Day(req[p].since)
      /\ row.last = req[p].last =>
           req[p].new = IF Stale(req[p].last, req[p].since) THEN 1 ELSE row.current + 1

RankInv(p) ==
    req[p].pc = "ranking" => req[p].new <= score[req[p].pair[req[p].next]]

IInv == /\ TypeOK
        /\ \A pair \in Pairs : RowInv(pair)
        /\ \A p \in Requests : AcceptInv(p) /\ CheckInv(p) /\ RankInv(p)
        /\ RankNotAhead

-----------------------------------------------------------------------------
(***************************************************************************)
(* The operators the model is built from.                                  *)
(***************************************************************************)
LEMMA DayMonotone ==
  ASSUME NEW s \in Nat, NEW t \in Nat, s <= t
  PROVE  Day(s) \in Nat /\ Day(s) <= Day(t)
<1>0. DayLength \in Nat \ {0}
  BY StreaksAssumption
<1> DEFINE a == s \div DayLength
<1> DEFINE b == t \div DayLength
<1>1. /\ a \in Nat /\ b \in Nat
      /\ DayLength * a <= s
      /\ t < DayLength * (b + 1)
  BY <1>0
<1> HIDE DEF a, b
<1>2. ASSUME b < a PROVE FALSE
  <2>1. DayLength * (b + 1) <= DayLength * a
    BY <1>0, <1>1, <1>2
  <2>2. QED
    BY <1>0, <1>1, <2>1
<1>3. a <= b
  BY <1>1, <1>2
<1>4. QED
  BY <1>1, <1>3 DEF a, b, Day

LEMMA RankMonotone ==
  ASSUME NEW s \in Nat, NEW t \in Nat, s <= t
  PROVE  compute_rank(s) \in 0..Cardinality(Thresholds) /\ compute_rank(s) <= compute_rank(t)
<1> DEFINE below == {h \in Thresholds : s >= h}
<1> DEFINE above == {h \in Thresholds : t >= h}
<1>0. IsFiniteSet(Thresholds) /\ Thresholds \subseteq Nat
  BY StreaksAssumption
<1>1. below \subseteq above /\ above \subseteq Thresholds
  <2>1. \A h \in Nat : s >= h => t >= h
    OBVIOUS
  <2>2. QED
    BY <1>0, <2>1, Zenon
<1>2. IsFiniteSet(above) /\ Cardinality(above) <= Cardinality(Thresholds)
  BY <1>0, <1>1, FS_Subset
<1>3. IsFiniteSet(below) /\ Cardinality(below) <= Cardinality(above)
  BY <1>1, <1>2, FS_Subset
<1>4. /\ Cardinality(below) \in Nat /\ Cardinality(above) \in Nat
      /\ Cardinality(Thresholds) \in Nat
  BY <1>0, <1>2, <1>3, FS_CardinalityType
<1>5. compute_rank(s) = Cardinality(below) /\ compute_rank(t) = Cardinality(above)
  BY DEF compute_rank
<1> HIDE DEF below, above
<1>6. QED
  BY <1>2, <1>3, <1>4, <1>5

Entry == [since: Time, at: Time, current: Nat]

\* One more recorded day goes on with the count, or begins a new one.
LEMMA CountedAppend ==
  ASSUME NEW entries \in Seq(Entry), NEW e \in Entry, NEW current \in Nat,
         Counted(entries, current)
  PROVE  Counted(Append(entries, e),
                 IF Stale(entries[Len(entries)].at, e.since) THEN 1 ELSE current + 1)
<1> DEFINE n == Len(entries)
<1> DEFINE all == Append(entries, e)
<1>1. /\ n \in Nat /\ Len(all) = n + 1 /\ all[n + 1] = e
      /\ \A i \in 1..n : all[i] = entries[i]
  OBVIOUS
<1>2. PICK first \in 1..n : /\ Broken(entries, first)
                            /\ \A i \in (first + 1)..n : ~Broken(entries, i)
                            /\ current = n - first + 1
  BY DEF Counted
<1>3. Broken(all, n + 1) <=> Stale(entries[n].at, e.since)
  BY <1>1, <1>2 DEF Broken
<1>4. \A i \in 1..n : Broken(all, i) <=> Broken(entries, i)
  <2>1. TAKE i \in 1..n
  <2>2. CASE i = 1
    BY <2>2 DEF Broken
  <2>3. CASE i # 1
    <3>1. i - 1 \in 1..n
      BY <1>1, <2>3
    <3>2. QED
      BY <1>1, <3>1 DEF Broken
  <2>4. QED
    BY <2>2, <2>3
<1> HIDE DEF n, all
<1>5. CASE Stale(entries[n].at, e.since)
  <2>1. Counted(all, 1)
    <3>1. n + 1 \in 1..Len(all) /\ 1 = Len(all) - (n + 1) + 1
      BY <1>1
    <3>2. \A i \in (n + 1 + 1)..Len(all) : ~Broken(all, i)
      BY <1>1
    <3>3. QED
      BY <1>3, <1>5, <3>1, <3>2 DEF Counted
  <2>2. QED
    BY <1>5, <2>1 DEF n, all
<1>6. CASE ~Stale(entries[n].at, e.since)
  <2>1. Counted(all, current + 1)
    <3>1. first \in 1..Len(all) /\ Broken(all, first) /\ current + 1 = Len(all) - first + 1
      BY <1>1, <1>2, <1>4
    <3>2. ASSUME NEW i \in (first + 1)..Len(all) PROVE ~Broken(all, i)
      <4>1. i \in (first + 1)..n \/ i = n + 1
        BY <1>1, <1>2
      <4>2. QED
        BY <1>1, <1>2, <1>3, <1>4, <1>6, <4>1
    <3>3. QED
      BY <3>1, <3>2 DEF Counted
  <2>2. QED
    BY <1>6, <2>1 DEF n, all
<1>7. QED
  BY <1>5, <1>6

\* A day that comes after the last one leaves the days in order.
LEMMA DaysAppend ==
  ASSUME NEW entries \in Seq(Entry), NEW e \in Entry, DaysRise(entries),
         entries # <<>> => Day(entries[Len(entries)].at) < Day(e.at)
  PROVE  DaysRise(Append(entries, e))
<1> DEFINE n == Len(entries)
<1> DEFINE all == Append(entries, e)
<1>1. /\ n \in Nat /\ Len(all) = n + 1 /\ all[n + 1] = e
      /\ \A i \in 1..n : all[i] = entries[i] /\ entries[i] \in Entry
      /\ entries # <<>> <=> n >= 1
  OBVIOUS
<1>2. ASSUME NEW i \in 1..n + 1 PROVE all[i].at \in Nat
  <2>1. \A x \in Entry : x.at \in Nat
    BY StreaksAssumption DEF Entry, Time
  <2>2. all[i] \in Entry
    <3>1. i \in 1..n \/ i = n + 1
      BY <1>1
    <3>2. QED
      BY <1>1, <3>1
  <2>3. QED
    BY <2>1, <2>2
<1>3. \A i \in 1..n + 1 : Day(all[i].at) \in Nat
  BY <1>2, DayMonotone
<1>4. SUFFICES ASSUME NEW i \in 1..n + 1, NEW j \in 1..n + 1, i < j
               PROVE  Day(all[i].at) < Day(all[j].at)
  BY <1>1 DEF DaysRise
<1>5. CASE j \in 1..n
  BY <1>1, <1>4, <1>5 DEF DaysRise
<1>6. CASE j = n + 1
  <2>1. i \in 1..n /\ n >= 1 /\ n \in 1..n
    BY <1>1, <1>4, <1>6
  <2>2. Day(entries[n].at) < Day(e.at)
    BY <1>1, <2>1
  <2>3. i = n \/ Day(entries[i].at) < Day(entries[n].at)
    BY <1>1, <2>1 DEF DaysRise
  <2> HIDE DEF n, all
  <2>4. Day(all[i].at) \in Nat /\ Day(all[j].at) \in Nat /\ Day(all[n].at) \in Nat
        /\ all[i] = entries[i] /\ all[n] = entries[n] /\ all[j] = e
    BY <1>1, <1>3, <1>6, <2>1
  <2>5. QED
    BY <2>2, <2>3, <2>4
<1>7. QED
  BY <1>1, <1>5, <1>6

-----------------------------------------------------------------------------
(***************************************************************************)
(* Typing, a variable at a time, and what the shape of a row or of a       *)
(* request says of its fields.                                             *)
(***************************************************************************)
ActiveRow == [status: {"active"}, invited_by: Users, accepted_by: Users,
              current: Nat \ {0}, last: Time]

Row == {NoStreak} \cup {Pending(u) : u \in Users} \cup ActiveRow

RequestState ==
  {NoRequest}
    \cup [pc: {"accepting"}, pair: Pairs, user: Users, since: Time]
    \cup [pc: {"checking"}, pair: Pairs, last: Time, new: Nat, since: Time]
    \cup [pc: {"awarding"}, pair: Pairs, next: {1, 2}]
    \cup [pc: {"ranking"}, pair: Pairs, next: {1, 2}, new: Nat]

RowsTyped == streak \in [Pairs -> Row] /\ log \in [Pairs -> Seq(Entry)]

RequestsTyped == req \in [Requests -> RequestState]

ScoresTyped ==
  /\ score \in [Users -> Nat] /\ rank \in [Users -> 0..Cardinality(Thresholds)]
  /\ lost \in [Users -> Nat]

ClockTyped == clock \in Time /\ crashes \in 0..MaxCrashes

LEMMA Typed == TypeOK <=> RowsTyped /\ RequestsTyped /\ ScoresTyped /\ ClockTyped
BY DEF TypeOK, RowsTyped, RequestsTyped, ScoresTyped, ClockTyped, Row, ActiveRow, RequestState,
   Entry

LEMMA TypedNext == RowsTyped' /\ RequestsTyped' /\ ScoresTyped' /\ ClockTyped' => TypeOK'
BY DEF TypeOK, RowsTyped, RequestsTyped, ScoresTyped, ClockTyped, Row, ActiveRow, RequestState,
   Entry

LEMMA Partnership ==
  ASSUME NEW pair \in Pairs
  PROVE  /\ pair[1] \in Users /\ pair[2] \in Users
         /\ pair[1] # pair[2]
         /\ Partners(pair) = {pair[1], pair[2]} /\ Partners(pair) \subseteq Users
<1>1. pair[1] \in Nat /\ pair[2] \in Nat /\ pair[1] < pair[2]
  BY StreaksAssumption
<1>2. QED
  BY <1>1 DEF Users, Partners

LEMMA RowShape ==
  ASSUME TypeOK, NEW pair \in Pairs
  PROVE  /\ streak[pair].status \in {"none", "pending", "active"}
         /\ streak[pair].status = "none" <=> streak[pair] = NoStreak
         /\ streak[pair].status = "pending" =>
              streak[pair].invited_by \in Users
         /\ streak[pair].status = "active" => streak[pair] \in ActiveRow
<1>1. streak[pair] \in Row
  BY Typed DEF RowsTyped
<1>2. QED
  BY <1>1 DEF Row, NoStreak, Pending, ActiveRow

LEMMA RequestShape ==
  ASSUME TypeOK, NEW p \in Requests
  PROVE  /\ req[p].pc \in {"idle", "accepting", "checking", "awarding", "ranking"}
         /\ req[p].pc = "accepting" =>
              req[p].pair \in Pairs /\ req[p].user \in Users /\ req[p].since \in Time
         /\ req[p].pc = "checking" =>
              /\ req[p].pair \in Pairs /\ req[p].last \in Time
              /\ req[p].new \in Nat /\ req[p].since \in Time
         /\ req[p].pc \in {"awarding", "ranking"} =>
              req[p].pair \in Pairs /\ req[p].next \in {1, 2}
         /\ req[p].pc = "ranking" => req[p].new \in Nat
<1>1. req[p] \in RequestState
  BY Typed DEF RequestsTyped
<1>2. QED
  BY <1>1 DEF RequestState, NoRequest

LEMMA TimeParts == Time \subseteq Nat /\ \A s \in Time, t \in Time : s..t \subseteq Time
BY StreaksAssumption DEF Time

-----------------------------------------------------------------------------
(***************************************************************************)
(* What any step may do to a row, and what that leaves of the invariant    *)
(* of the handlers that are not taking it.                                 *)
(***************************************************************************)
MovesForward(pair) ==
  \/ streak'[pair] = streak[pair]
  \/ streak[pair].status = "none"
  \/ streak[pair].status = "pending" /\ streak'[pair].status = "active"
  \/ /\ streak[pair].status = "active" /\ streak'[pair].status = "active"
     /\ streak'[pair].last \in Nat /\ streak[pair].last < streak'[pair].last

RequestInv(p) == AcceptInv(p) /\ CheckInv(p) /\ RankInv(p)

ClockGoesOn == clock \in Nat /\ clock' \in Nat /\ clock <= clock'

LEMMA RowKeeps ==
  ASSUME TypeOK, NEW pair \in Pairs, RowInv(pair), ClockGoesOn,
         streak'[pair] = streak[pair], log'[pair] = log[pair]
  PROVE  RowInv(pair)'
<1>1. streak[pair].status = "active" => streak[pair].last \in Nat
  BY RowShape, TimeParts DEF ActiveRow
<1>2. QED
  BY <1>1 DEF RowInv, ClockGoesOn

LEMMA RequestKeeps ==
  ASSUME TypeOK, NEW p \in Requests, RequestInv(p), ClockGoesOn, req'[p] = req[p],
         \A pair \in Pairs : MovesForward(pair),
         \A u \in Users : score[u] \in Nat /\ score'[u] \in Nat /\ score[u] <= score'[u]
  PROVE  RequestInv(p)'
<1>1. AcceptInv(p)'
  <2>1. CASE req[p].pc = "accepting"
    <3>1. PICK pair \in Pairs : pair = req[p].pair
      BY <2>1, RequestShape
    <3>2. req[p].since \in Nat /\ req[p].since <= clock'
      <4>1. req[p].since \in Nat
        BY <2>1, RequestShape, TimeParts
      <4>2. req[p].since <= clock
        BY <2>1 DEF RequestInv, AcceptInv
      <4>3. QED
        BY <4>1, <4>2 DEF ClockGoesOn
    <3>3. MovesForward(pair) /\ streak[pair].status \in {"pending", "active"}
      BY <2>1, <3>1 DEF RequestInv, AcceptInv
    <3>4. QED
      BY <2>1, <3>1, <3>2, <3>3 DEF RequestInv, AcceptInv, MovesForward
  <2>2. QED
    BY <2>1 DEF AcceptInv
<1>2. CheckInv(p)'
  <2>1. CASE req[p].pc = "checking"
    <3>1. PICK pair \in Pairs : pair = req[p].pair
      BY <2>1, RequestShape
    <3>2. req[p].since \in Nat /\ req[p].since <= clock'
      <4>1. req[p].since \in Nat
        BY <2>1, RequestShape, TimeParts
      <4>2. req[p].since <= clock
        BY <2>1 DEF RequestInv, CheckInv
      <4>3. QED
        BY <4>1, <4>2 DEF ClockGoesOn
    <3>3. MovesForward(pair) /\ streak[pair].status = "active"
      BY <2>1, <3>1 DEF RequestInv, CheckInv
    <3>4. streak[pair].last \in Nat /\ req[p].last \in Nat
      BY <2>1, <3>3, RowShape, RequestShape, TimeParts DEF ActiveRow
    <3>5. \/ streak'[pair] = streak[pair]
          \/ /\ streak'[pair].status = "active" /\ streak'[pair].last \in Nat
             /\ req[p].last < streak'[pair].last
      BY <2>1, <3>1, <3>3, <3>4 DEF RequestInv, CheckInv, MovesForward
    <3>6. QED
      BY <2>1, <3>1, <3>2, <3>3, <3>4, <3>5 DEF RequestInv, CheckInv
  <2>2. QED
    BY <2>1 DEF CheckInv
<1>3. RankInv(p)'
  <2>1. CASE req[p].pc = "ranking"
    <3>1. req[p].new \in Nat /\ req[p].pair[req[p].next] \in Users
      BY <2>1, RequestShape, Partnership
    <3>2. QED
      BY <2>1, <3>1 DEF RequestInv, RankInv
  <2>2. QED
    BY <2>1 DEF RankInv
<1>4. QED
  BY <1>1, <1>2, <1>3 DEF RequestInv

\* Most steps leave the clock and the scores as they are.
LEMMA ClockStays ==
  ASSUME TypeOK, clock' = clock
  PROVE  clock \in Time /\ ClockGoesOn
<1>1. clock \in Time /\ Time \subseteq Nat
  BY Typed, TimeParts DEF ClockTyped
<1>2. clock \in Nat
  BY <1>1
<1>3. QED
  BY <1>1, <1>2 DEF ClockGoesOn

LEMMA ScoresStay ==
  ASSUME TypeOK, score' = score
  PROVE  \A u \in Users : score[u] \in Nat /\ score'[u] \in Nat /\ score[u] <= score'[u]
<1>1. \A u \in Users : score[u] \in Nat
  BY Typed DEF ScoresTyped
<1>2. QED
  BY <1>1

\* A step of one handler: what remains to be shown of it.
LEMMA HandlerStep ==
  ASSUME IInv, NEW p \in Requests, TypeOK', ClockGoesOn, RequestInv(p)',
         \A q \in Requests : q # p => req'[q] = req[q],
         \A pair \in Pairs : MovesForward(pair) /\ RowInv(pair)',
         \A u \in Users : score[u] <= score'[u],
         RankNotAhead'
  PROVE  IInv'
<1>1. \A u \in Users : score[u] \in Nat /\ score'[u] \in Nat
  BY Typed DEF IInv, TypeOK
<1>2. ASSUME NEW q \in Requests, q # p PROVE RequestInv(q)'
  BY <1>1, <1>2, RequestKeeps DEF IInv, RequestInv
<1>3. \A q \in Requests : RequestInv(q)'
  BY <1>2
<1>4. QED
  BY <1>3 DEF IInv, RequestInv

\* A handler that goes on to state r, the rows and the scores as they are.
LEMMA GotoOnly ==
  ASSUME IInv, NEW p \in Requests, NEW r \in RequestState, Goto(p, r),
         UNCHANGED <<clock, streak, score, log>>,
         lost' \in [Users -> Nat], crashes' \in 0..MaxCrashes,
         rank' \in [Users -> 0..Cardinality(Thresholds)], RankNotAhead',
         RequestInv(p)'
  PROVE  IInv'
<1>1. TypeOK /\ req \in [Requests -> RequestState] /\ req' = [req EXCEPT ![p] = r]
  BY Typed DEF IInv, RequestsTyped, Goto
<1>2. /\ req' \in [Requests -> RequestState]
      /\ \A q \in Requests : q # p => req'[q] = req[q]
  BY <1>1
<1>3. TypeOK'
  BY <1>1, <1>2, Typed, TypedNext DEF RowsTyped, RequestsTyped, ScoresTyped, ClockTyped
<1>4. ClockGoesOn /\ \A u \in Users : score[u] <= score'[u]
  BY <1>1, ClockStays, ScoresStay
<1>5. \A pair \in Pairs : MovesForward(pair) /\ RowInv(pair)'
  BY <1>1, <1>4, RowKeeps DEF IInv, MovesForward
<1>6. QED
  BY <1>2, <1>3, <1>4, <1>5, HandlerStep

LEMMA IdleState == NoRequest \in RequestState /\ NoRequest.pc = "idle"
BY DEF NoRequest, RequestState

\* What is at rest has no invariant to keep.
LEMMA AtRest ==
  ASSUME NEW p \in Requests, req[p].pc = "idle"
  PROVE  RequestInv(p)
BY DEF RequestInv, AcceptInv, CheckInv, RankInv

LEMMA AtRestNext ==
  ASSUME NEW p \in Requests, req'[p].pc \in {"idle", "awarding"}
  PROVE  RequestInv(p)'
BY DEF RequestInv, AcceptInv, CheckInv, RankInv

LEMMA InitIInv == Init => IInv
<1> SUFFICES ASSUME Init PROVE IInv
  OBVIOUS
<1>1. TypeOK
  <2>1. RowsTyped /\ RequestsTyped
    BY IdleState DEF Init, RowsTyped, RequestsTyped, Row
  <2>2. 0 \in 0..Cardinality(Thresholds) /\ 0 \in Time /\ 0 \in 0..MaxCrashes
    BY StreaksAssumption, RankMonotone, FS_CardinalityType DEF Time
  <2>3. ScoresTyped /\ ClockTyped
    BY <2>2 DEF Init, ScoresTyped, ClockTyped
  <2>4. QED
    BY <2>1, <2>3, Typed
<1>2. \A pair \in Pairs : RowInv(pair)
  BY DEF Init, RowInv, NoStreak, DaysRise
<1>3. \A p \in Requests : RequestInv(p)
  BY IdleState, AtRest DEF Init
<1>4. RankNotAhead
  <2>1. 0 <= compute_rank(0)
    BY StreaksAssumption, RankMonotone, FS_CardinalityType
  <2>2. QED
    BY <2>1 DEF Init, RankNotAhead
<1>5. QED
  BY <1>1, <1>2, <1>3, <1>4 DEF IInv, RequestInv

-----------------------------------------------------------------------------
(***************************************************************************)
(* The steps of a handler, one lemma for each.                             *)
(***************************************************************************)
LEMMA InviteStep ==
  ASSUME IInv, NEW p \in Requests, NEW pair \in Pairs, NEW u \in Partners(pair),
         Invite(p, pair, u)
  PROVE  IInv'
<1>1. /\ TypeOK /\ u \in Users /\ u \in Partners(pair)
      /\ streak[pair].status = "none" /\ log[pair] = <<>>
      /\ streak' = [streak EXCEPT ![pair] = Pending(u)]
      /\ UNCHANGED <<clock, score, rank, req, log, lost, crashes>>
  BY Partnership DEF IInv, Invite, NoStreak, RowInv
<1>2. /\ streak' \in [Pairs -> Row] /\ streak'[pair] = Pending(u)
      /\ \A other \in Pairs : other # pair => streak'[other] = streak[other]
  BY <1>1, Typed DEF RowsTyped, Row
<1>3. TypeOK'
  BY <1>1, <1>2, Typed, TypedNext DEF RowsTyped, RequestsTyped, ScoresTyped, ClockTyped
<1>4. ClockGoesOn /\ \A v \in Users : score[v] \in Nat /\ score[v] <= score'[v]
  BY <1>1, ClockStays, ScoresStay
<1>5. RowInv(pair)'
  BY <1>1, <1>2 DEF IInv, RowInv, Pending, DaysRise
<1>6. \A other \in Pairs : MovesForward(other) /\ RowInv(other)'
  BY <1>1, <1>2, <1>4, <1>5, RowKeeps DEF IInv, MovesForward
<1>7. RequestInv(p)'
  BY <1>1, <1>4, <1>6, RequestKeeps DEF IInv, RequestInv
<1>8. RankNotAhead'
  BY <1>1 DEF IInv, RankNotAhead
<1>9. QED
  BY <1>1, <1>3, <1>4, <1>6, <1>7, <1>8, HandlerStep

LEMMA AcceptFindStep ==
  ASSUME IInv, NEW p \in Requests, NEW pair \in Pairs, NEW u \in Partners(pair),
         AcceptFind(p, pair, u)
  PROVE  IInv'
<1> DEFINE r == [pc |-> "accepting", pair |-> pair, user |-> u, since |-> clock]
<1>1. /\ TypeOK /\ u \in Users /\ clock \in Time /\ clock \in Nat
      /\ Goto(p, r)
      /\ UNCHANGED <<clock, streak, score, rank, log, lost, crashes>>
      /\ streak[pair].status = "pending" /\ streak[pair].invited_by # u
  BY Partnership, Typed, TimeParts DEF IInv, ClockTyped, AcceptFind, MayAccept, Start, Goto
<1>2. r \in RequestState
  BY <1>1 DEF RequestState
<1>3. req'[p] = r
  BY <1>1, Typed DEF Goto, RequestsTyped
<1>4. RequestInv(p)'
  BY <1>1, <1>3 DEF RequestInv, AcceptInv, CheckInv, RankInv
<1>5. RankNotAhead'
  BY <1>1 DEF IInv, RankNotAhead
<1> HIDE DEF r
<1>6. QED
  BY <1>1, <1>2, <1>4, <1>5, Typed, GotoOnly DEF ScoresTyped, ClockTyped

LEMMA CheckInFindStep ==
  ASSUME IInv, NEW p \in Requests, NEW pair \in Pairs, CheckInFind(p, pair)
  PROVE  IInv'
<1> DEFINE doc == streak[pair]
<1> DEFINE r == [pc |-> "checking", pair |-> pair, last |-> doc.last, since |-> clock,
                 new |-> IF Stale(doc.last, clock) THEN 1 ELSE doc.current + 1]
<1>1. /\ TypeOK /\ clock \in Time /\ clock \in Nat
      /\ Goto(p, r)
      /\ UNCHANGED <<clock, streak, score, rank, log, lost, crashes>>
      /\ doc.status = "active" /\ Day(doc.last) # Day(clock)
  BY Typed, TimeParts DEF IInv, ClockTyped, CheckInFind, Start, Goto
<1>2. doc.last \in Time /\ doc.last \in Nat /\ doc.current \in Nat /\ doc.last <= clock
  BY <1>1, RowShape, TimeParts DEF ActiveRow, IInv, RowInv
<1>3. Day(doc.last) < Day(clock)
  BY <1>1, <1>2, DayMonotone
<1>4. r.new \in Nat /\ r.new >= 1
  BY <1>2
<1>5. r \in RequestState
  BY <1>1, <1>2, <1>4 DEF RequestState
<1>6. req'[p] = r
  BY <1>1, Typed DEF Goto, RequestsTyped
<1>7. RequestInv(p)'
  BY <1>1, <1>2, <1>3, <1>4, <1>6 DEF RequestInv, AcceptInv, CheckInv, RankInv
<1>8. RankNotAhead'
  BY <1>1 DEF IInv, RankNotAhead
<1> HIDE DEF r, doc
<1>9. QED
  BY <1>1, <1>5, <1>7, <1>8, Typed, GotoOnly DEF ScoresTyped, ClockTyped

\* A step that ends a handler, or leaves it at its awards, and does no more.
LEMMA LeaveOnly ==
  ASSUME IInv, NEW p \in Requests, Goto(p, NoRequest),
         UNCHANGED <<clock, streak, score, rank, log, lost, crashes>>
  PROVE  IInv'
<1>1. /\ TypeOK /\ req'[p] = NoRequest
      /\ lost' \in [Users -> Nat] /\ crashes' \in 0..MaxCrashes
      /\ rank' \in [Users -> 0..Cardinality(Thresholds)]
  BY Typed DEF IInv, Goto, RequestsTyped, ScoresTyped, ClockTyped
<1>2. RequestInv(p)' /\ RankNotAhead'
  BY <1>1, IdleState, AtRestNext DEF IInv, RankNotAhead
<1>3. QED
  BY <1>1, <1>2, IdleState, GotoOnly

LEMMA AppendLast ==
  ASSUME NEW s \in Seq(Entry), NEW e \in Entry
  PROVE  Append(s, e)[Len(Append(s, e))] = e
<1>1. Len(s) \in Nat /\ Len(Append(s, e)) = Len(s) + 1 /\ Append(s, e)[Len(s) + 1] = e
  OBVIOUS
<1>2. QED
  BY <1>1

\* A day recorded in the row of a pair.
LEMMA RowWrite ==
  ASSUME IInv, NEW p \in Requests, NEW pair \in Pairs, NEW r \in RequestState,
         NEW row \in ActiveRow, NEW e \in Entry,
         Goto(p, r), r.pc \in {"idle", "awarding"},
         streak' = [streak EXCEPT ![pair] = row],
         log' = [log EXCEPT ![pair] = Append(@, e)],
         UNCHANGED <<clock, score, rank, lost, crashes>>,
         \/ streak[pair].status = "pending"
         \/ streak[pair].status = "active" /\ streak[pair].last < row.last,
         {row.invited_by, row.accepted_by} = Partners(pair),
         row.last <= clock, row.last = e.at,
         Counted(Append(log[pair], e), row.current),
         DaysRise(Append(log[pair], e))
  PROVE  IInv'
<1>1. /\ TypeOK /\ req \in [Requests -> RequestState] /\ req' = [req EXCEPT ![p] = r]
      /\ streak \in [Pairs -> Row] /\ log \in [Pairs -> Seq(Entry)] /\ row \in Row
      /\ row.status = "active" /\ row.last \in Nat
  BY Typed, TimeParts DEF IInv, RequestsTyped, RowsTyped, Goto, Row, ActiveRow
<1>2. /\ req' \in [Requests -> RequestState] /\ req'[p] = r
      /\ \A q \in Requests : q # p => req'[q] = req[q]
  BY <1>1
<1>3. /\ streak' \in [Pairs -> Row] /\ streak'[pair] = row
      /\ \A other \in Pairs : other # pair => streak'[other] = streak[other]
  BY <1>1
<1>4. /\ log' \in [Pairs -> Seq(Entry)] /\ log'[pair] = Append(log[pair], e)
      /\ \A other \in Pairs : other # pair => log'[other] = log[other]
  BY <1>1
<1>5. TypeOK'
  BY <1>1, <1>2, <1>3, <1>4, Typed, TypedNext
     DEF RowsTyped, RequestsTyped, ScoresTyped, ClockTyped
<1>6. ClockGoesOn /\ \A u \in Users : score[u] <= score'[u]
  BY <1>1, ClockStays, ScoresStay
<1>7. log'[pair][Len(log'[pair])] = e
  BY <1>1, <1>4, AppendLast
<1>8. RowInv(pair)'
  BY <1>1, <1>3, <1>4, <1>7 DEF RowInv
<1>9. MovesForward(pair)
  BY <1>1, <1>3 DEF MovesForward
<1>10. \A other \in Pairs : MovesForward(other) /\ RowInv(other)'
  BY <1>1, <1>3, <1>4, <1>6, <1>8, <1>9, RowKeeps DEF IInv, MovesForward
<1>11. RequestInv(p)'
  BY <1>2, AtRestNext
<1>12. RankNotAhead'
  BY DEF IInv, RankNotAhead
<1>13. QED
  BY <1>2, <1>5, <1>6, <1>10, <1>11, <1>12, HandlerStep

LEMMA AcceptWriteStep ==
  ASSUME IInv, NEW p \in Requests, AcceptWrite(p)
  PROVE  IInv'
<1>1. /\ TypeOK /\ req[p].pc = "accepting" /\ Goto(p, NoRequest)
      /\ req[p].pair \in Pairs /\ req[p].user \in Users /\ req[p].since \in Time
      /\ UNCHANGED <<clock, score, rank, lost, crashes>>
  BY RequestShape DEF IInv, AcceptWrite
<1>2. PICK pair \in Pairs : pair = req[p].pair
  BY <1>1
<1>3. CASE streak[pair].status = "pending"
  <2> DEFINE row(now) == Active(streak[pair].invited_by, req[p].user, 1, now)
  <2> DEFINE entry(now) == [since |-> req[p].since, at |-> now, current |-> 1]
  <2>1. PICK now \in req[p].since..clock :
          /\ streak' = [streak EXCEPT ![pair] = row(now)]
          /\ log' = [log EXCEPT ![pair] = Append(@, entry(now))]
    BY <1>1, <1>2, <1>3 DEF AcceptWrite, Record
  <2>2. clock \in Time /\ req[p].since \in Time
    BY <1>1, ClockStays
  <2>3. now \in Time /\ now <= clock
    <3>1. req[p].since \in Nat /\ clock \in Nat /\ now \in req[p].since..clock
      BY <2>1, <2>2, TimeParts
    <3>2. now <= clock
      BY <3>1
    <3>3. now \in Time
      BY <2>1, <2>2, TimeParts
    <3>4. QED
      BY <3>2, <3>3
  <2>4. /\ streak[pair].invited_by \in Partners(pair) /\ req[p].user \in Partners(pair)
        /\ streak[pair].invited_by # req[p].user
        /\ log[pair] = <<>>
    BY <1>1, <1>2, <1>3 DEF IInv, RowInv, AcceptInv
  <2>5. {streak[pair].invited_by, req[p].user} = Partners(pair)
        /\ streak[pair].invited_by \in Users
    BY <2>4, Partnership
  <2>6. row(now) \in ActiveRow /\ entry(now) \in Entry
    BY <1>1, <2>2, <2>3, <2>5 DEF ActiveRow, Active, Entry
  <2>7. Append(log[pair], entry(now)) = <<entry(now)>>
    BY <2>4
  <2>8. Counted(<<entry(now)>>, 1) /\ DaysRise(<<entry(now)>>)
    BY DEF Counted, Broken, DaysRise
  <2>9. /\ row(now).last = now /\ row(now).current = 1 /\ entry(now).at = now
        /\ row(now).invited_by = streak[pair].invited_by /\ row(now).accepted_by = req[p].user
    BY DEF Active
  <2> HIDE DEF row, entry
  <2>10. QED
    BY <1>1, <1>3, <2>1, <2>3, <2>5, <2>6, <2>7, <2>8, <2>9, IdleState, RowWrite
<1>4. CASE streak[pair].status # "pending"
  <2>1. UNCHANGED <<clock, streak, score, rank, log, lost, crashes>>
    BY <1>1, <1>2, <1>4 DEF AcceptWrite
  <2>2. QED
    BY <1>1, <2>1, LeaveOnly
<1>5. QED
  BY <1>3, <1>4

LEMMA CheckInWriteStep ==
  ASSUME IInv, NEW p \in Requests, CheckInWrite(p)
  PROVE  IInv'
<1>1. /\ TypeOK /\ req[p].pc = "checking"
      /\ req[p].pair \in Pairs /\ req[p].last \in Time
      /\ req[p].new \in Nat /\ req[p].since \in Time
      /\ UNCHANGED <<clock, score, rank, lost, crashes>>
  BY RequestShape DEF IInv, CheckInWrite
<1>2. PICK pair \in Pairs, new \in Nat, since \in Time, last \in Time :
        pair = req[p].pair /\ new = req[p].new /\ since = req[p].since /\ last = req[p].last
  BY <1>1
<1>3. /\ streak[pair].status = "active" /\ streak[pair] \in ActiveRow
      /\ since <= clock /\ new \in Nat \ {0}
      /\ Day(last) < Day(since)
      /\ streak[pair].last = last =>
           new = IF Stale(last, since) THEN 1 ELSE streak[pair].current + 1
  <2>1. /\ streak[pair].status = "active" /\ since <= clock /\ new >= 1
        /\ Day(last) < Day(since)
        /\ streak[pair].last = last =>
             new = IF Stale(last, since) THEN 1 ELSE streak[pair].current + 1
    BY <1>1, <1>2 DEF IInv, CheckInv
  <2>2. streak[pair] \in ActiveRow
    BY <1>1, <2>1, RowShape
  <2>3. QED
    BY <2>1, <2>2
<1>4. CASE Unchanged(pair, last)
  <2> DEFINE row(now) == [streak[pair] EXCEPT !.current = new, !.last = now]
  <2> DEFINE entry(now) == [since |-> since, at |-> now, current |-> new]
  <2>1. PICK now \in since..clock :
          /\ streak' = [streak EXCEPT ![pair].current = new, ![pair].last = now]
          /\ log' = [log EXCEPT ![pair] = Append(@, entry(now))]
          /\ \/ Goto(p, [pc |-> "awarding", pair |-> pair, next |-> 1])
             \/ Goto(p, NoRequest)
    BY <1>1, <1>2, <1>4 DEF CheckInWrite, Record
  <2>2. streak' = [streak EXCEPT ![pair] = row(now)]
    BY <2>1, <1>1, Typed DEF RowsTyped
  <2>3. PICK r \in RequestState : Goto(p, r) /\ r.pc \in {"idle", "awarding"}
    <3>1. [pc |-> "awarding", pair |-> pair, next |-> 1] \in RequestState
      BY DEF RequestState
    <3>2. QED
      BY <2>1, <3>1, IdleState
  <2>4. clock \in Time /\ now \in Time /\ now <= clock /\ since <= now
    BY <1>1, <1>3, <2>1, ClockStays, TimeParts
  <2>5. row(now) \in ActiveRow /\ entry(now) \in Entry
    BY <1>3, <2>4 DEF ActiveRow, Entry
  <2>6. /\ row(now).last = now /\ row(now).current = new
        /\ row(now).invited_by = streak[pair].invited_by
        /\ row(now).accepted_by = streak[pair].accepted_by
        /\ entry(now).at = now /\ entry(now).since = since
    BY <1>3 DEF ActiveRow
  <2>7. streak[pair].last = last
    BY <1>4 DEF Unchanged
  <2>8. Day(last) < Day(now)
    BY <1>3, <2>4, DayMonotone, TimeParts
  <2>9. last < now
    <3>1. last \in Nat /\ now \in Nat
      BY <2>4, TimeParts
    <3>2. ASSUME now <= last PROVE FALSE
      BY <2>8, <3>1, <3>2, DayMonotone
    <3>3. QED
      BY <3>1, <3>2
  <2>10. /\ log[pair] \in Seq(Entry) /\ DaysRise(log[pair])
         /\ Counted(log[pair], streak[pair].current)
         /\ last = log[pair][Len(log[pair])].at
         /\ streak[pair].current \in Nat
         /\ {streak[pair].invited_by, streak[pair].accepted_by} = Partners(pair)
    BY <1>1, <1>3, <2>7, Typed DEF IInv, RowInv, RowsTyped, ActiveRow
  <2> HIDE DEF row, entry
  <2>11. Counted(Append(log[pair], entry(now)), new)
    BY <1>3, <2>5, <2>6, <2>7, <2>10, CountedAppend
  <2>12. DaysRise(Append(log[pair], entry(now)))
    BY <2>5, <2>6, <2>8, <2>10, DaysAppend
  <2>13. /\ {row(now).invited_by, row(now).accepted_by} = Partners(pair)
         /\ row(now).last <= clock /\ row(now).last = entry(now).at
         /\ streak[pair].last < row(now).last
         /\ Counted(Append(log[pair], entry(now)), row(now).current)
    BY <2>4, <2>6, <2>7, <2>9, <2>10, <2>11
  <2>14. QED
    BY <1>1, <1>3, <2>1, <2>2, <2>3, <2>5, <2>12, <2>13, RowWrite
<1>5. CASE ~Unchanged(pair, last)
  <2>1. UNCHANGED <<streak, log>> /\ Goto(p, NoRequest)
    BY <1>1, <1>2, <1>5 DEF CheckInWrite
  <2>2. QED
    BY <1>1, <2>1, LeaveOnly
<1>6. QED
  BY <1>4, <1>5

LEMMA IncrementScoreStep ==
  ASSUME IInv, NEW p \in Requests, IncrementScore(p)
  PROVE  IInv'
<1>1. /\ TypeOK /\ req[p].pc = "awarding" /\ req[p].pair \in Pairs /\ req[p].next \in {1, 2}
      /\ UNCHANGED <<clock, streak, rank, log, lost, crashes>>
      /\ score \in [Users -> Nat] /\ Award \in Nat
  BY RequestShape, Typed, StreaksAssumption DEF IInv, IncrementScore, ScoresTyped
<1>2. PICK u \in Users, new \in Nat :
        u = req[p].pair[req[p].next] /\ new = score[u] + Award
  BY <1>1, Partnership
<1> DEFINE r == [pc |-> "ranking", pair |-> req[p].pair, next |-> req[p].next, new |-> new]
<1>3. score' = [score EXCEPT ![u] = new] /\ Goto(p, r)
  BY <1>1, <1>2 DEF IncrementScore
<1>4. r \in RequestState
  BY <1>1, <1>2 DEF RequestState
<1>5. /\ req' \in [Requests -> RequestState] /\ req'[p] = r
      /\ \A q \in Requests : q # p => req'[q] = req[q]
  BY <1>1, <1>3, <1>4, Typed DEF RequestsTyped, Goto
<1>6. /\ score' \in [Users -> Nat] /\ score'[u] = new
      /\ \A v \in Users : score[v] <= score'[v]
  BY <1>1, <1>2, <1>3
<1>7. TypeOK'
  BY <1>1, <1>5, <1>6, Typed, TypedNext DEF RowsTyped, RequestsTyped, ScoresTyped, ClockTyped
<1>8. ClockGoesOn
  BY <1>1, ClockStays
<1>9. \A pair \in Pairs : MovesForward(pair) /\ RowInv(pair)'
  BY <1>1, <1>8, RowKeeps DEF IInv, MovesForward
<1>10. RequestInv(p)'
  BY <1>1, <1>2, <1>5, <1>6 DEF RequestInv, AcceptInv, CheckInv, RankInv
<1>11. RankNotAhead'
  <2>1. SUFFICES ASSUME NEW v \in Users PROVE rank'[v] <= compute_rank(score'[v])
    BY DEF RankNotAhead, compute_rank
  <2>2. /\ rank'[v] = rank[v] /\ rank[v] <= compute_rank(score[v])
        /\ rank[v] \in 0..Cardinality(Thresholds)
    BY <1>1, Typed DEF IInv, RankNotAhead, ScoresTyped
  <2>3. /\ compute_rank(score[v]) <= compute_rank(score'[v])
        /\ compute_rank(score[v]) \in Nat /\ compute_rank(score'[v]) \in Nat
        /\ Cardinality(Thresholds) \in Nat
    BY <1>1, <1>6, RankMonotone, StreaksAssumption, FS_CardinalityType
  <2>4. QED
    BY <2>2, <2>3
<1>12. QED
  BY <1>5, <1>6, <1>7, <1>8, <1>9, <1>10, <1>11, HandlerStep

LEMMA RefreshRankStep ==
  ASSUME IInv, NEW p \in Requests, RefreshRank(p)
  PROVE  IInv'
<1>1. /\ TypeOK /\ req[p].pc = "ranking" /\ req[p].pair \in Pairs /\ req[p].next \in {1, 2}
      /\ req[p].new \in Nat
      /\ UNCHANGED <<clock, streak, score, log, lost, crashes>>
      /\ score \in [Users -> Nat]
  BY RequestShape, Typed DEF IInv, RefreshRank, ScoresTyped
<1>2. PICK u \in Users, new \in Nat :
        u = req[p].pair[req[p].next] /\ new = req[p].new
  BY <1>1, Partnership
<1>3. PICK r \in RequestState : Goto(p, r) /\ r.pc \in {"idle", "awarding"}
  <2>1. [pc |-> "awarding", pair |-> req[p].pair, next |-> 2] \in RequestState
    BY <1>1 DEF RequestState
  <2>2. QED
    BY <2>1, IdleState DEF RefreshRank
<1>4. rank' = [rank EXCEPT ![u] = compute_rank(new)] /\ new <= score[u]
  BY <1>1, <1>2 DEF RefreshRank, IInv, RankInv
<1>5. /\ compute_rank(new) \in 0..Cardinality(Thresholds)
      /\ compute_rank(new) <= compute_rank(score[u])
  BY <1>1, <1>2, <1>4, RankMonotone
<1>6. rank' \in [Users -> 0..Cardinality(Thresholds)]
  BY <1>1, <1>4, <1>5, Typed DEF ScoresTyped
<1>7. RankNotAhead'
  <2>1. rank \in [Users -> 0..Cardinality(Thresholds)]
        /\ \A v \in Users : rank[v] <= compute_rank(score[v])
    BY <1>1, Typed DEF IInv, RankNotAhead, ScoresTyped
  <2>2. \A v \in Users : rank'[v] <= compute_rank(score[v])
    BY <1>4, <1>5, <2>1
  <2>3. QED
    BY <1>1, <2>2 DEF RankNotAhead, compute_rank
<1>8. req'[p] = r
  BY <1>1, <1>3, Typed DEF RequestsTyped, Goto
<1>9. RequestInv(p)' /\ lost' \in [Users -> Nat] /\ crashes' \in 0..MaxCrashes
  BY <1>1, <1>3, <1>8, AtRestNext, Typed DEF ScoresTyped, ClockTyped
<1>10. QED
  BY <1>1, <1>3, <1>6, <1>7, <1>9, GotoOnly

LEMMA CrashStep ==
  ASSUME IInv, NEW p \in Requests, Crash(p)
  PROVE  IInv'
<1>1. /\ TypeOK /\ Goto(p, NoRequest)
      /\ UNCHANGED <<clock, streak, score, rank, log>>
      /\ lost' = [u \in Users |-> IF Owes(p, u) THEN lost[u] + Award ELSE lost[u]]
      /\ crashes \in 0..MaxCrashes /\ MaxCrashes \in Nat
      /\ crashes < MaxCrashes /\ crashes' = crashes + 1
  BY Typed, StreaksAssumption DEF IInv, Crash, ClockTyped
<1>2. \A u \in Users : lost[u] \in Nat /\ lost[u] + Award \in Nat
  BY <1>1, StreaksAssumption, Typed DEF ScoresTyped
<1>3. lost' \in [Users -> Nat] /\ rank' \in [Users -> 0..Cardinality(Thresholds)]
  BY <1>1, <1>2, Typed DEF ScoresTyped
<1>4. crashes' \in 0..MaxCrashes
  BY <1>1
<1>5. req'[p] = NoRequest
  BY <1>1, Typed DEF RequestsTyped, Goto
<1>6. RequestInv(p)' /\ RankNotAhead'
  BY <1>1, <1>5, IdleState, AtRestNext DEF IInv, RankNotAhead
<1>7. QED
  BY <1>1, <1>3, <1>4, <1>6, IdleState, GotoOnly

LEMMA TickStep ==
  ASSUME IInv, Tick
  PROVE  IInv'
<1>1. /\ TypeOK /\ clock \in Time /\ clock' = clock + 1 /\ clock < MaxTime
      /\ UNCHANGED <<streak, score, rank, req, log, lost, crashes>>
  BY Typed DEF IInv, Tick, ClockTyped
<1>2. ClockGoesOn /\ clock' \in Time
  BY <1>1, StreaksAssumption DEF ClockGoesOn, Time
<1>3. TypeOK'
  BY <1>1, <1>2, Typed, TypedNext DEF RowsTyped, RequestsTyped, ScoresTyped, ClockTyped
<1>4. \A pair \in Pairs : MovesForward(pair) /\ RowInv(pair)'
  BY <1>1, <1>2, RowKeeps DEF IInv, MovesForward
<1>5. \A u \in Users : score[u] \in Nat /\ score'[u] \in Nat /\ score[u] <= score'[u]
  BY <1>1, ScoresStay
<1>6. \A p \in Requests : RequestInv(p)'
  BY <1>1, <1>2, <1>4, <1>5, RequestKeeps DEF IInv, RequestInv
<1>7. QED
  BY <1>1, <1>3, <1>4, <1>6 DEF IInv, RequestInv, RankNotAhead

LEMMA Inductive == IInv /\ [Next]_vars => IInv'
<1> SUFFICES ASSUME IInv, [Next]_vars PROVE IInv'
  OBVIOUS
<1>1. ASSUME NEW p \in Requests, Handler(p) PROVE IInv'
  BY <1>1, InviteStep, AcceptFindStep, AcceptWriteStep, CheckInFindStep, CheckInWriteStep,
     IncrementScoreStep, RefreshRankStep, CrashStep DEF Handler
<1>2. CASE UNCHANGED vars
  <2>1. TypeOK' /\ TypeOK /\ ClockGoesOn
    BY <1>2, ClockStays DEF vars, IInv, TypeOK
  <2>2. \A pair \in Pairs : MovesForward(pair) /\ RowInv(pair)'
    BY <1>2, <2>1, RowKeeps DEF vars, IInv, MovesForward
  <2>3. \A p \in Requests : RequestInv(p)'
    BY <1>2, <2>1, <2>2, ScoresStay, RequestKeeps DEF vars, IInv, RequestInv
  <2>4. QED
    BY <1>2, <2>1, <2>2, <2>3 DEF vars, IInv, RequestInv, RankNotAhead
<1>3. QED
  BY <1>1, <1>2, TickStep DEF Next

LEMMA Invariance == Spec => []IInv
BY InitIInv, Inductive, PTL DEF Spec

-----------------------------------------------------------------------------
(***************************************************************************)
(* The collections keep their shape: a row is absent, pending or active,   *)
(* and a count is never zero.                                              *)
(***************************************************************************)
THEOREM TypeCorrect == Spec => []TypeOK
<1>1. IInv => TypeOK
  BY DEF IInv
<1>2. QED
  BY <1>1, Invariance, PTL

(***************************************************************************)
(* accept: one partner asked and the other agreed, for any number of       *)
(* invitations and acceptances in flight.                                  *)
(***************************************************************************)
THEOREM MutualOptInHolds == Spec => []MutualOptIn
<1>1. IInv => MutualOptIn
  BY DEF IInv, MutualOptIn, RowInv
<1>2. QED
  BY <1>1, Invariance, PTL

(***************************************************************************)
(* check_in: a streak moves at most once per UTC day, for any length of    *)
(* the day and any overlap of check-ins with midnight.                     *)
(***************************************************************************)
THEOREM OncePerDayHolds == Spec => []OncePerDay
<1>1. IInv => OncePerDay
  BY DEF IInv, OncePerDay, RowInv
<1>2. QED
  BY <1>1, Invariance, PTL

(***************************************************************************)
(* check_in: current_streak is the number of recorded days since the last  *)
(* silence that broke it; no recorded day is lost or counted twice.        *)
(***************************************************************************)
THEOREM StreakCountsLogHolds == Spec => []StreakCountsLog
<1>1. IInv => StreakCountsLog
  BY DEF IInv, StreakCountsLog, RowInv
<1>2. QED
  BY <1>1, Invariance, PTL

(***************************************************************************)
(* refresh_rank: the stored rank is never one the score has not reached,   *)
(* in whatever order concurrent awards store it.                           *)
(***************************************************************************)
THEOREM RankNotAheadHolds == Spec => []RankNotAhead
<1>1. IInv => RankNotAhead
  BY DEF IInv
<1>2. QED
  BY <1>1, Invariance, PTL

-----------------------------------------------------------------------------
(***************************************************************************)
(* The points.  Whoever records a milestone owes both partners an award,   *)
(* and pays it, or its death does, to one of them at a time; so a step     *)
(* moves the balance of a user by one award on both sides, or moves one    *)
(* award between the terms of one side, or does nothing.                   *)
(***************************************************************************)
Balanced(u) ==
  /\ IsFiniteSet(Debtors(u)) /\ IsFiniteSet(Milestones(u))
  /\ score[u] + Award * Cardinality(Debtors(u)) + lost[u] = Award * Cardinality(Milestones(u))

AwardInv == \A u \in Users : Balanced(u)

\* Two sets that differ at most in one element.
LEMMA SameButOne ==
  ASSUME NEW S, IsFiniteSet(S), NEW T, NEW e,
         \A x : x # e => (x \in S <=> x \in T)
  PROVE  /\ IsFiniteSet(T) /\ Cardinality(S) \in Nat /\ Cardinality(T) \in Nat
         /\ (e \in S <=> e \in T) => Cardinality(T) = Cardinality(S)
         /\ e \in S /\ e \notin T => Cardinality(T) = Cardinality(S) - 1
         /\ e \notin S /\ e \in T => Cardinality(T) = Cardinality(S) + 1
<1>1. CASE e \in S <=> e \in T
  <2>1. S = T
    BY <1>1
  <2>2. QED
    BY <1>1, <2>1, FS_CardinalityType
<1>2. CASE e \in S /\ e \notin T
  <2>1. T = S \ {e}
    BY <1>2
  <2>2. QED
    BY <1>2, <2>1, FS_RemoveElement, FS_CardinalityType
<1>3. CASE e \notin S /\ e \in T
  <2>1. T = S \cup {e}
    BY <1>3
  <2>2. QED
    BY <1>3, <2>1, FS_AddElement, FS_CardinalityType
<1>4. QED
  BY <1>1, <1>2, <1>3

LEMMA Distributes ==
  ASSUME NEW n \in Nat
  PROVE  /\ Award \in Nat /\ Award * n \in Nat
         /\ Award * (n + 1) = Award * n + Award
         /\ Award * (n - 1) = Award * n - Award
<1>1. Award \in Nat
  BY StreaksAssumption
<1>2. QED
  BY <1>1

LEMMA InMilestones ==
  ASSUME NEW u, NEW x
  PROVE  x \in Milestones(u) <=>
           \E pair \in Pairs : \E i \in 1..Len(log[pair]) :
             x = <<pair, i>> /\ u \in Partners(pair) /\ log[pair][i].current % Milestone = 0
BY DEF Milestones, Rewards

LEMMA InMilestonesNext ==
  ASSUME NEW u, NEW x
  PROVE  x \in Milestones(u)' <=>
           \E pair \in Pairs : \E i \in 1..Len(log'[pair]) :
             x = <<pair, i>> /\ u \in Partners(pair) /\ log'[pair][i].current % Milestone = 0
BY DEF Milestones, Rewards, Partners

\* What a step of p may do to the balance of u.
LEMMA BalanceKeeps ==
  ASSUME IInv, IInv', NEW u \in Users, Balanced(u), NEW p, NEW m,
         \A q : q # p => (q \in Debtors(u) <=> q \in Debtors(u)'),
         \A x : x # m => (x \in Milestones(u) <=> x \in Milestones(u)'),
         \/ /\ p \in Debtors(u) <=> p \in Debtors(u)'
            /\ m \in Milestones(u) <=> m \in Milestones(u)'
            /\ score'[u] = score[u] /\ lost'[u] = lost[u]
         \/ /\ p \in Debtors(u) /\ p \notin Debtors(u)'
            /\ m \in Milestones(u) <=> m \in Milestones(u)'
            /\ score'[u] + lost'[u] = score[u] + lost[u] + Award
         \/ /\ p \notin Debtors(u) /\ p \in Debtors(u)'
            /\ m \notin Milestones(u) /\ m \in Milestones(u)'
            /\ score'[u] = score[u] /\ lost'[u] = lost[u]
  PROVE  Balanced(u)'
<1> DEFINE d == Cardinality(Debtors(u))
<1> DEFINE e == Cardinality(Debtors(u)')
<1> DEFINE k == Cardinality(Milestones(u))
<1> DEFINE l == Cardinality(Milestones(u)')
<1>1. /\ IsFiniteSet(Debtors(u)') /\ d \in Nat /\ e \in Nat
      /\ (p \in Debtors(u) <=> p \in Debtors(u)') => e = d
      /\ p \in Debtors(u) /\ p \notin Debtors(u)' => e = d - 1
      /\ p \notin Debtors(u) /\ p \in Debtors(u)' => e = d + 1
  BY SameButOne DEF Balanced
<1>2. /\ IsFiniteSet(Milestones(u)') /\ k \in Nat /\ l \in Nat
      /\ (m \in Milestones(u) <=> m \in Milestones(u)') => l = k
      /\ m \notin Milestones(u) /\ m \in Milestones(u)' => l = k + 1
  BY SameButOne DEF Balanced
<1>3. /\ score[u] \in Nat /\ score'[u] \in Nat /\ lost[u] \in Nat /\ lost'[u] \in Nat
  BY Typed DEF IInv, TypeOK
<1>4. score[u] + Award * d + lost[u] = Award * k
  BY DEF Balanced
<1>5. /\ Award \in Nat /\ Award * d \in Nat /\ Award * k \in Nat
      /\ Award * (d + 1) = Award * d + Award /\ Award * (d - 1) = Award * d - Award
      /\ Award * (k + 1) = Award * k + Award
  BY <1>1, <1>2, Distributes
<1>6. score'[u] + Award * e + lost'[u] = Award * l
  <2>1. CASE e = d /\ l = k /\ score'[u] = score[u] /\ lost'[u] = lost[u]
    BY <1>4, <2>1
  <2>2. CASE e = d - 1 /\ l = k /\ score'[u] + lost'[u] = score[u] + lost[u] + Award
    <3>1. Award * e = Award * d - Award /\ Award * l = Award * k
      BY <1>5, <2>2
    <3> HIDE DEF d, e, k, l
    <3>2. QED
      BY <1>3, <1>4, <1>5, <2>2, <3>1
  <2>3. CASE e = d + 1 /\ l = k + 1 /\ score'[u] = score[u] /\ lost'[u] = lost[u]
    <3>1. Award * e = Award * d + Award /\ Award * l = Award * k + Award
      BY <1>5, <2>3
    <3> HIDE DEF d, e, k, l
    <3>2. QED
      BY <1>3, <1>4, <1>5, <2>3, <3>1
  <2>4. QED
    BY <1>1, <1>2, <2>1, <2>2, <2>3
<1>7. QED
  BY <1>1, <1>2, <1>6 DEF Balanced

\* What a handler owes is a matter of its own state.
LEMMA OwesKeeps ==
  ASSUME NEW p \in Requests, NEW u \in Users, \A q \in Requests : q # p => req'[q] = req[q]
  PROVE  \A q : q # p => (q \in Debtors(u) <=> q \in Debtors(u)')
BY DEF Debtors, Owes

LEMMA OwesOnly ==
  ASSUME NEW p \in Requests, NEW u
  PROVE  /\ p \in Debtors(u) <=> Owes(p, u)
         /\ p \in Debtors(u)' <=> Owes(p, u)'
BY DEF Debtors

LEMMA OwesShape ==
  ASSUME TypeOK, NEW p \in Requests, NEW u
  PROVE  Owes(p, u) <=>
           \/ req[p].pc = "awarding" /\ req[p].next = 1 /\ u \in Partners(req[p].pair)
           \/ req[p].pc = "awarding" /\ req[p].next = 2 /\ u = req[p].pair[2]
           \/ req[p].pc = "ranking" /\ req[p].next = 1 /\ u = req[p].pair[2]
<1>1. CASE req[p].pc = "awarding"
  <2>1. req[p].next \in {1, 2} /\ 1..2 = {1, 2} /\ 2..2 = {2}
    BY <1>1, RequestShape
  <2>2. QED
    BY <1>1, <2>1 DEF Owes, Partners
<1>2. QED
  BY <1>1 DEF Owes

LEMMA OwesShapeNext ==
  ASSUME TypeOK', NEW p \in Requests, NEW u
  PROVE  Owes(p, u)' <=>
           \/ req'[p].pc = "awarding" /\ req'[p].next = 1 /\ u \in Partners(req'[p].pair)
           \/ req'[p].pc = "awarding" /\ req'[p].next = 2 /\ u = req'[p].pair[2]
           \/ req'[p].pc = "ranking" /\ req'[p].next = 1 /\ u = req'[p].pair[2]
<1>1. CASE req'[p].pc = "awarding"
  <2>1. req'[p].next \in {1, 2} /\ 1..2 = {1, 2} /\ 2..2 = {2}
    <3>1. req'[p] \in RequestState
      BY DEF TypeOK, RequestState
    <3>2. QED
      BY <1>1, <3>1 DEF RequestState, NoRequest
  <2>2. QED
    BY <1>1, <2>1 DEF Owes, Partners
<1>2. QED
  BY <1>1 DEF Owes

LEMMA LogStays ==
  ASSUME NEW u, log' = log
  PROVE  Milestones(u)' = Milestones(u)
BY DEF Milestones, Rewards, Partners

\* One more recorded day is one more milestone of both partners, or none.
LEMMA LogGrows ==
  ASSUME TypeOK, NEW pair \in Pairs, NEW e \in Entry, NEW u,
         log' = [log EXCEPT ![pair] = Append(@, e)]
  PROVE  LET m == <<pair, Len(log[pair]) + 1>> IN
         /\ m \notin Milestones(u)
         /\ m \in Milestones(u)' <=> u \in Partners(pair) /\ e.current % Milestone = 0
         /\ \A x : x # m => (x \in Milestones(u) <=> x \in Milestones(u)')
<1> DEFINE n == Len(log[pair])
<1>1. /\ log \in [Pairs -> Seq(Entry)] /\ log[pair] \in Seq(Entry) /\ n \in Nat
      /\ log'[pair] = Append(log[pair], e)
      /\ \A other \in Pairs : other # pair => log'[other] = log[other]
  BY Typed DEF RowsTyped
<1>2. /\ Len(log'[pair]) = n + 1 /\ log'[pair][n + 1] = e
      /\ \A i \in 1..n : log'[pair][i] = log[pair][i]
  BY <1>1
<1>3. 1..(n + 1) = (1..n) \cup {n + 1} /\ n + 1 \notin 1..n
  BY <1>1
<1> HIDE DEF n
<1>4. <<pair, n + 1>> \notin Milestones(u)
  BY <1>3, InMilestones DEF n
<1>5. <<pair, n + 1>> \in Milestones(u)' <=> u \in Partners(pair) /\ e.current % Milestone = 0
  <2>1. ASSUME <<pair, n + 1>> \in Milestones(u)'
        PROVE  u \in Partners(pair) /\ e.current % Milestone = 0
    <3>1. PICK other \in Pairs : \E i \in 1..Len(log'[other]) :
            /\ <<pair, n + 1>> = <<other, i>> /\ u \in Partners(other)
            /\ log'[other][i].current % Milestone = 0
      BY <2>1, InMilestonesNext
    <3>2. QED
      BY <1>2, <3>1
  <2>2. ASSUME u \in Partners(pair), e.current % Milestone = 0
        PROVE  <<pair, n + 1>> \in Milestones(u)'
    BY <1>2, <1>3, <2>2, InMilestonesNext
  <2>3. QED
    BY <2>1, <2>2
<1>6. ASSUME NEW x, x # <<pair, n + 1>>
      PROVE  x \in Milestones(u) <=> x \in Milestones(u)'
  <2>1. ASSUME NEW other \in Pairs, NEW i, x = <<other, i>>
        PROVE  /\ i \in 1..Len(log[other]) <=> i \in 1..Len(log'[other])
               /\ i \in 1..Len(log[other]) => log'[other][i] = log[other][i]
    BY <1>1, <1>2, <1>3, <1>6, <2>1 DEF n
  <2>2. QED
    BY <2>1, InMilestones, InMilestonesNext
<1>7. QED
  BY <1>4, <1>5, <1>6 DEF n

\* A step that owes, pays and records nothing.
LEMMA NothingPaid ==
  ASSUME IInv, IInv', AwardInv, NEW p \in Requests,
         \A q \in Requests : q # p => req'[q] = req[q],
         \A u \in Users : Owes(p, u) <=> Owes(p, u)',
         log' = log, score' = score, lost' = lost
  PROVE  AwardInv'
<1> SUFFICES ASSUME NEW u \in Users PROVE Balanced(u)'
  BY DEF AwardInv, Users
<1>1. /\ Balanced(u) /\ Milestones(u)' = Milestones(u)
      /\ p \in Debtors(u) <=> p \in Debtors(u)'
      /\ \A q : q # p => (q \in Debtors(u) <=> q \in Debtors(u)')
  BY LogStays, OwesOnly, OwesKeeps DEF AwardInv
<1>2. QED
  BY <1>1, BalanceKeeps

\* A handler that owes nothing before or after.
LEMMA NeverOwes ==
  ASSUME NEW p, NEW u
  PROVE  /\ req[p].pc \notin {"awarding", "ranking"} => ~Owes(p, u)
         /\ req'[p].pc \notin {"awarding", "ranking"} => ~Owes(p, u)'
BY DEF Owes

\* What a step of p leaves of the other handlers, and what it makes of p.
LEMMA Gone ==
  ASSUME TypeOK, NEW p \in Requests, NEW r, Goto(p, r)
  PROVE  req'[p] = r /\ \A q \in Requests : q # p => req'[q] = req[q]
BY Typed DEF RequestsTyped, Goto

LEMMA AcceptWritePays ==
  ASSUME IInv, IInv', AwardInv, NEW p \in Requests, AcceptWrite(p)
  PROVE  AwardInv'
<1>1. /\ TypeOK /\ req[p].pc = "accepting" /\ Goto(p, NoRequest) /\ req[p].pair \in Pairs
      /\ score' = score /\ lost' = lost
  BY RequestShape DEF IInv, AcceptWrite
<1>2. /\ req'[p].pc = "idle" /\ \A q \in Requests : q # p => req'[q] = req[q]
      /\ \A u \in Users : ~Owes(p, u) /\ ~Owes(p, u)'
  BY <1>1, Gone, NeverOwes DEF NoRequest
<1>3. PICK pair \in Pairs : pair = req[p].pair
  BY <1>1
<1>4. CASE streak[pair].status = "pending"
  <2>1. PICK now \in req[p].since..clock :
          log' = [log EXCEPT ![pair] =
                    Append(@, [since |-> req[p].since, at |-> now, current |-> 1])]
    BY <1>1, <1>3, <1>4 DEF AcceptWrite, Record
  <2>2. PICK e \in Entry : e = [since |-> req[p].since, at |-> now, current |-> 1]
    <3>1. req[p].since \in Time /\ clock \in Time
      BY <1>1, RequestShape, Typed DEF ClockTyped
    <3>2. now \in Time
      BY <2>1, <3>1, TimeParts
    <3>3. QED
      BY <3>1, <3>2 DEF Entry
  <2>3. e.current % Milestone # 0
    BY <2>2, StreaksAssumption
  <2>4. SUFFICES ASSUME NEW u \in Users PROVE Balanced(u)'
    BY DEF AwardInv, Users
  <2> DEFINE m == <<pair, Len(log[pair]) + 1>>
  <2>5. /\ m \in Milestones(u) <=> m \in Milestones(u)'
        /\ \A x : x # m => (x \in Milestones(u) <=> x \in Milestones(u)')
    BY <1>1, <2>1, <2>2, <2>3, LogGrows
  <2>6. /\ Balanced(u) /\ p \notin Debtors(u) /\ p \notin Debtors(u)'
        /\ \A q : q # p => (q \in Debtors(u) <=> q \in Debtors(u)')
    BY <1>2, OwesOnly, OwesKeeps DEF AwardInv
  <2> HIDE DEF m
  <2>7. QED
    BY <1>1, <2>5, <2>6, BalanceKeeps
<1>5. CASE streak[pair].status # "pending"
  <2>1. log' = log
    BY <1>1, <1>3, <1>5 DEF AcceptWrite
  <2>2. QED
    BY <1>1, <1>2, <2>1, NothingPaid
<1>6. QED
  BY <1>4, <1>5

\* The one step that owes: both partners gain a milestone and a debtor.
LEMMA CheckInWritePays ==
  ASSUME IInv, IInv', AwardInv, NEW p \in Requests, CheckInWrite(p)
  PROVE  AwardInv'
<1>1. /\ TypeOK /\ TypeOK' /\ req[p].pc = "checking" /\ req[p].pair \in Pairs
      /\ req[p].new \in Nat /\ req[p].since \in Time
      /\ score' = score /\ lost' = lost
  BY RequestShape DEF IInv, CheckInWrite
<1>2. PICK pair \in Pairs, new \in Nat, since \in Time :
        pair = req[p].pair /\ new = req[p].new /\ since = req[p].since
  BY <1>1
<1>3. \A u \in Users : ~Owes(p, u)
  BY <1>1, NeverOwes
<1>4. CASE Unchanged(pair, req[p].last)
  <2>1. PICK now \in since..clock :
          /\ log' = [log EXCEPT ![pair] =
                       Append(@, [since |-> since, at |-> now, current |-> new])]
          /\ IF Rewarded(new)
             THEN Goto(p, [pc |-> "awarding", pair |-> pair, next |-> 1])
             ELSE Goto(p, NoRequest)
    BY <1>1, <1>2, <1>4 DEF CheckInWrite, Record
  <2>2. PICK e \in Entry : e = [since |-> since, at |-> now, current |-> new]
    <3>1. clock \in Time
      BY <1>1, Typed DEF ClockTyped
    <3>2. now \in Time
      BY <2>1, <3>1, TimeParts
    <3>3. QED
      BY <3>2 DEF Entry
  <2>3. \A q \in Requests : q # p => req'[q] = req[q]
    BY <1>1, <2>1, Gone
  <2>4. SUFFICES ASSUME NEW u \in Users PROVE Balanced(u)'
    BY DEF AwardInv, Users
  <2>5. Owes(p, u)' <=> u \in Partners(pair) /\ Rewarded(new)
    <3>1. CASE Rewarded(new)
      <4>1. req'[p] = [pc |-> "awarding", pair |-> pair, next |-> 1]
        BY <1>1, <2>1, <3>1, Gone
      <4>2. QED
        BY <1>1, <3>1, <4>1, OwesShapeNext
    <3>2. CASE ~Rewarded(new)
      <4>1. req'[p].pc = "idle"
        BY <1>1, <2>1, <3>2, Gone DEF NoRequest
      <4>2. QED
        BY <3>2, <4>1, NeverOwes
    <3>3. QED
      BY <3>1, <3>2
  <2> DEFINE m == <<pair, Len(log[pair]) + 1>>
  <2>6. /\ m \notin Milestones(u)
        /\ m \in Milestones(u)' <=> u \in Partners(pair) /\ Rewarded(new)
        /\ \A x : x # m => (x \in Milestones(u) <=> x \in Milestones(u)')
    BY <1>1, <2>1, <2>2, LogGrows DEF Rewarded
  <2>7. /\ Balanced(u) /\ p \notin Debtors(u)
        /\ p \in Debtors(u)' <=> u \in Partners(pair) /\ Rewarded(new)
        /\ \A q : q # p => (q \in Debtors(u) <=> q \in Debtors(u)')
    BY <1>3, <2>3, <2>5, OwesOnly, OwesKeeps DEF AwardInv
  <2> HIDE DEF m
  <2>8. QED
    BY <1>1, <2>6, <2>7, BalanceKeeps
<1>5. CASE ~Unchanged(pair, req[p].last)
  <2>1. log' = log /\ Goto(p, NoRequest)
    BY <1>1, <1>2, <1>5 DEF CheckInWrite
  <2>2. /\ \A q \in Requests : q # p => req'[q] = req[q]
        /\ \A u \in Users : ~Owes(p, u)'
    BY <1>1, <2>1, Gone, NeverOwes DEF NoRequest
  <2>3. QED
    BY <1>1, <1>3, <2>1, <2>2, NothingPaid
<1>6. QED
  BY <1>4, <1>5

\* The award is paid: one partner has the points instead of the debt.
LEMMA IncrementScorePays ==
  ASSUME IInv, IInv', AwardInv, NEW p \in Requests, IncrementScore(p)
  PROVE  AwardInv'
<1>1. /\ TypeOK /\ TypeOK' /\ req[p].pc = "awarding" /\ req[p].pair \in Pairs
      /\ req[p].next \in {1, 2} /\ score \in [Users -> Nat]
      /\ log' = log /\ lost' = lost
  BY RequestShape, Typed DEF IInv, IncrementScore, ScoresTyped
<1>2. PICK pair \in Pairs, next \in {1, 2} : pair = req[p].pair /\ next = req[p].next
  BY <1>1
<1>3. /\ score' = [score EXCEPT ![pair[next]] = @ + Award]
      /\ Goto(p, [pc |-> "ranking", pair |-> pair, next |-> next,
                  new |-> score[pair[next]] + Award])
  BY <1>2 DEF IncrementScore
<1>4. /\ req'[p].pc = "ranking" /\ req'[p].pair = pair /\ req'[p].next = next
      /\ \A q \in Requests : q # p => req'[q] = req[q]
  BY <1>1, <1>3, Gone
<1>5. /\ Partners(pair) = {pair[1], pair[2]} /\ pair[1] # pair[2]
      /\ pair[1] \in Users /\ pair[2] \in Users
  BY Partnership
<1>6. SUFFICES ASSUME NEW u \in Users PROVE Balanced(u)'
  BY DEF AwardInv, Users
<1>7. /\ Balanced(u) /\ Milestones(u)' = Milestones(u)
      /\ p \in Debtors(u) <=> Owes(p, u)
      /\ p \in Debtors(u)' <=> Owes(p, u)'
      /\ \A q : q # p => (q \in Debtors(u) <=> q \in Debtors(u)')
  BY <1>1, <1>4, LogStays, OwesOnly, OwesKeeps DEF AwardInv
<1>8. /\ Owes(p, u) <=> (next = 1 /\ u \in Partners(pair)) \/ (next = 2 /\ u = pair[2])
      /\ Owes(p, u)' <=> next = 1 /\ u = pair[2]
  BY <1>1, <1>2, <1>4, OwesShape, OwesShapeNext
<1>9. CASE u = pair[next]
  <2>1. p \in Debtors(u) /\ p \notin Debtors(u)'
    BY <1>2, <1>5, <1>7, <1>8, <1>9
  <2>2. score'[u] + lost'[u] = score[u] + lost[u] + Award
    <3>1. score'[u] = score[u] + Award /\ lost'[u] = lost[u]
      BY <1>1, <1>3, <1>9
    <3>2. score[u] \in Nat /\ lost[u] \in Nat /\ Award \in Nat
      BY <1>1, Typed, StreaksAssumption DEF ScoresTyped
    <3>3. QED
      BY <3>1, <3>2
  <2>3. QED
    BY <1>7, <2>1, <2>2, BalanceKeeps
<1>10. CASE u # pair[next]
  <2>1. p \in Debtors(u) <=> p \in Debtors(u)'
    BY <1>2, <1>5, <1>7, <1>8, <1>10
  <2>2. score'[u] = score[u]
    BY <1>1, <1>3, <1>10
  <2>3. QED
    BY <1>1, <1>7, <2>1, <2>2, BalanceKeeps
<1>11. QED
  BY <1>9, <1>10

LEMMA RefreshRankPays ==
  ASSUME IInv, IInv', AwardInv, NEW p \in Requests, RefreshRank(p)
  PROVE  AwardInv'
<1>1. /\ TypeOK /\ TypeOK' /\ req[p].pc = "ranking" /\ req[p].next \in {1, 2}
      /\ log' = log /\ score' = score /\ lost' = lost
  BY RequestShape DEF IInv, RefreshRank
<1>2. CASE req[p].next = 1
  <2>1. Goto(p, [pc |-> "awarding", pair |-> req[p].pair, next |-> 2])
    BY <1>2 DEF RefreshRank
  <2>2. /\ req'[p] = [pc |-> "awarding", pair |-> req[p].pair, next |-> 2]
        /\ \A q \in Requests : q # p => req'[q] = req[q]
    BY <1>1, <2>1, Gone
  <2>3. \A u \in Users : Owes(p, u) <=> Owes(p, u)'
    BY <1>1, <1>2, <2>2, OwesShape, OwesShapeNext
  <2>4. QED
    BY <1>1, <2>2, <2>3, NothingPaid
<1>3. CASE req[p].next = 2
  <2>1. Goto(p, NoRequest)
    BY <1>3 DEF RefreshRank
  <2>2. req'[p].pc = "idle" /\ \A q \in Requests : q # p => req'[q] = req[q]
    BY <1>1, <2>1, Gone DEF NoRequest
  <2>3. \A u \in Users : ~Owes(p, u) /\ ~Owes(p, u)'
    BY <1>1, <1>3, <2>2, OwesShape, NeverOwes
  <2>4. QED
    BY <1>1, <2>2, <2>3, NothingPaid
<1>4. QED
  BY <1>1, <1>2, <1>3

\* What died with the handler is what it owed.
LEMMA CrashPays ==
  ASSUME IInv, IInv', AwardInv, NEW p \in Requests, Crash(p)
  PROVE  AwardInv'
<1>1. /\ TypeOK /\ Goto(p, NoRequest) /\ log' = log /\ score' = score
      /\ lost' = [u \in Users |-> IF Owes(p, u) THEN lost[u] + Award ELSE lost[u]]
  BY DEF IInv, Crash
<1>2. /\ req'[p].pc = "idle" /\ \A q \in Requests : q # p => req'[q] = req[q]
      /\ \A u \in Users : ~Owes(p, u)'
  BY <1>1, Gone, NeverOwes DEF NoRequest
<1>3. SUFFICES ASSUME NEW u \in Users PROVE Balanced(u)'
  BY DEF AwardInv, Users
<1>4. /\ Balanced(u) /\ Milestones(u)' = Milestones(u)
      /\ p \in Debtors(u) <=> Owes(p, u)
      /\ p \notin Debtors(u)'
      /\ \A q : q # p => (q \in Debtors(u) <=> q \in Debtors(u)')
  BY <1>1, <1>2, LogStays, OwesOnly, OwesKeeps DEF AwardInv
<1>5. CASE Owes(p, u)
  <2>1. score'[u] + lost'[u] = score[u] + lost[u] + Award
    <3>1. score[u] \in Nat /\ lost[u] \in Nat /\ Award \in Nat
      BY <1>1, Typed, StreaksAssumption DEF ScoresTyped
    <3>2. QED
      BY <1>1, <1>5, <3>1
  <2>2. QED
    BY <1>4, <1>5, <2>1, BalanceKeeps
<1>6. CASE ~Owes(p, u)
  <2>1. lost'[u] = lost[u]
    BY <1>1, <1>6
  <2>2. QED
    BY <1>1, <1>4, <1>6, <2>1, BalanceKeeps
<1>7. QED
  BY <1>5, <1>6

LEMMA NothingOwed ==
  ASSUME IInv, IInv', AwardInv, NEW p \in Requests, NEW r, req[p] = NoRequest,
         Goto(p, r), r.pc \in {"accepting", "checking"},
         log' = log, score' = score, lost' = lost
  PROVE  AwardInv'
<1>1. TypeOK /\ req[p].pc = "idle"
  BY DEF IInv, NoRequest
<1>2. req'[p] = r /\ \A q \in Requests : q # p => req'[q] = req[q]
  BY <1>1, Gone
<1>3. \A u \in Users : ~Owes(p, u) /\ ~Owes(p, u)'
  BY <1>1, <1>2, NeverOwes
<1>4. QED
  BY <1>2, <1>3, NothingPaid

\* A step of no handler, or of one that touches none of this.
LEMMA NobodyPaid ==
  ASSUME AwardInv, req' = req, log' = log, score' = score, lost' = lost
  PROVE  AwardInv'
<1> SUFFICES ASSUME NEW u \in Users PROVE Balanced(u)'
  BY DEF AwardInv, Users
<1>1. Debtors(u)' = Debtors(u)
  BY DEF Debtors, Owes
<1>2. Milestones(u)' = Milestones(u)
  BY LogStays
<1>3. QED
  BY <1>1, <1>2 DEF AwardInv, Balanced

LEMMA AwardsKept == IInv /\ IInv' /\ AwardInv /\ [Next]_vars => AwardInv'
<1> SUFFICES ASSUME IInv, IInv', AwardInv, [Next]_vars PROVE AwardInv'
  OBVIOUS
<1>1. ASSUME NEW p \in Requests, NEW pair \in Pairs, NEW u \in Partners(pair),
             Invite(p, pair, u) \/ AcceptFind(p, pair, u)
      PROVE  AwardInv'
  <2>1. CASE Invite(p, pair, u)
    BY <2>1, NobodyPaid DEF Invite
  <2>2. CASE AcceptFind(p, pair, u)
    BY <2>2, NothingOwed DEF AcceptFind, Start, Goto
  <2>3. QED
    BY <1>1, <2>1, <2>2
<1>2. ASSUME NEW p \in Requests, NEW pair \in Pairs, CheckInFind(p, pair)
      PROVE  AwardInv'
  <2> DEFINE r == [pc |-> "checking", pair |-> pair, last |-> streak[pair].last, since |-> clock,
                   new |-> IF Stale(streak[pair].last, clock)
                           THEN 1 ELSE streak[pair].current + 1]
  <2>1. /\ req[p] = NoRequest /\ Goto(p, r) /\ r.pc = "checking"
        /\ log' = log /\ score' = score /\ lost' = lost
    BY <1>2 DEF CheckInFind, Start, Goto
  <2> HIDE DEF r
  <2>2. QED
    BY <2>1, NothingOwed
<1>3. CASE Tick
  BY <1>3, NobodyPaid DEF Tick
<1>4. CASE UNCHANGED vars
  BY <1>4, NobodyPaid DEF vars
<1>5. QED
  BY <1>1, <1>2, <1>3, <1>4, AcceptWritePays, CheckInWritePays, IncrementScorePays,
     RefreshRankPays, CrashPays DEF Next, Handler

(***************************************************************************)
(* add_score: the points of a user, what handlers still owe and what died  *)
(* with one are the milestones reached, to the point, for any number of    *)
(* streaks and of awards in flight.                                        *)
(***************************************************************************)
THEOREM AwardsAddUpHolds == Spec => []AwardsAddUp
<1>1. Init => AwardInv
  <2> SUFFICES ASSUME Init, NEW u \in Users PROVE Balanced(u)
    BY DEF AwardInv
  <2>1. Debtors(u) = {} /\ Milestones(u) = {}
    BY DEF Init, Debtors, Owes, NoRequest, Milestones, Rewards
  <2>2. IsFiniteSet({}) /\ Cardinality({}) = 0 /\ Award * 0 = 0
    BY FS_EmptySet, StreaksAssumption
  <2>3. QED
    BY <2>1, <2>2 DEF Balanced, Init
<1>2. AwardInv => AwardsAddUp
  BY DEF AwardInv, Balanced, AwardsAddUp
<1>3. QED
  BY <1>1, <1>2, AwardsKept, Invariance, PTL DEF Spec
=============================================================================
