--------------------------- MODULE UsageCapProofs ---------------------------
(***************************************************************************)
(* Proofs about UsageCap, for any limit, any number of concurrent          *)
(* handlers, any length of a month and of a second.                        *)
(***************************************************************************)
EXTENDS UsageCap, TLAPS, FiniteSetTheorems

(***************************************************************************)
(* The inductive invariant.  A reservation that is granted or, having      *)
(* created the key, about to be is one that the live counter has counted   *)
(* when it belongs to the key's current life; and the first life of the    *)
(* key of a month cannot end before the last second of the month, so that  *)
(* all that was granted before that second was counted by one counter.     *)
(***************************************************************************)
Pending == {req[p].grant : p \in {q \in Requests : req[q].pc = "expiring"}}

Reservations == granted \cup Pending

LastSecond(m) == (m + 1) * MonthLength - TicksPerSecond

Current(m) == {g \in Reservations : g.month = m /\ g.life = life[m]}

Early(m) == {g \in Reservations : g.month = m /\ g.at < LastSecond(m)}

Waiting == {p \in Requests : req[p].pc = "counting"}

AttemptsCover ==
  /\ IsFiniteSet(Waiting)
  /\ \A m \in Months :
       /\ count[m] + Cardinality(Waiting) <= attempts
       /\ life[m] + Cardinality(Waiting) <= attempts

CounterInv(m) ==
  count[m] > 0 =>
    /\ life[m] > 0
    /\ IsFiniteSet(Current(m))
    /\ Cardinality(Current(m)) <= count[m] /\ Cardinality(Current(m)) <= Limit

LifeInv(m) ==
  /\ expiry[m] # Never => expiry[m] > LastSecond(m)
  /\ clock < LastSecond(m) => life[m] = IF count[m] > 0 THEN 1 ELSE 0
  /\ IsFiniteSet(Early(m)) /\ Cardinality(Early(m)) <= Limit

ReservationInv(g) ==
  /\ g.at <= clock /\ g.month <= Month(g.at) /\ g.life <= life[g.month]
  /\ g.at < LastSecond(g.month) => g.life = 1

IInv ==
  /\ TypeOK
  /\ AttemptsCover
  /\ \A m \in Months : CounterInv(m) /\ LifeInv(m)
  /\ \A g \in Reservations : ReservationInv(g)
  /\ \A p \in Requests : req[p].pc = "counting" => req[p].month <= Month(clock)
  /\ ExpiryFollows

-----------------------------------------------------------------------------
(***************************************************************************)
(* Months and the whole seconds to the end of one.                         *)
(***************************************************************************)
LEMMA Lengths ==
  /\ Limit \in Nat /\ Limit >= 1
  /\ TicksPerSecond \in Nat /\ TicksPerSecond >= 1
  /\ MonthLength \in Nat /\ MonthLength >= 1
  /\ MaxTime \in Nat /\ MaxAttempts \in Nat /\ MaxFaults \in Nat
  /\ Time \subseteq Nat
BY UsageCapAssumption DEF Time

LEMMA MonthBounds ==
  ASSUME NEW t \in Nat
  PROVE  /\ Month(t) \in Nat
         /\ MonthLength * Month(t) <= t /\ t < MonthLength * (Month(t) + 1)
<1>1. MonthLength \in Nat /\ MonthLength >= 1
  BY Lengths
<1>2. QED
  BY <1>1 DEF Month

LEMMA MonthMonotone ==
  ASSUME NEW s \in Nat, NEW t \in Nat, s <= t
  PROVE  Month(s) <= Month(t)
<1> DEFINE a == Month(s)
<1> DEFINE b == Month(t)
<1>0. MonthLength \in Nat /\ MonthLength >= 1
  BY Lengths
<1>1. a \in Nat /\ b \in Nat /\ MonthLength * a <= s /\ t < MonthLength * (b + 1)
  BY MonthBounds
<1> HIDE DEF a, b
<1>2. ASSUME b < a PROVE FALSE
  <2>1. MonthLength * (b + 1) <= MonthLength * a
    BY <1>0, <1>1, <1>2
  <2>2. QED
    BY <1>0, <1>1, <2>1
<1>3. a <= b
  BY <1>1, <1>2
<1>4. QED
  BY <1>3 DEF a, b

LEMMA MonthTyped == /\ Months \subseteq Nat
                    /\ \A t \in Time : Month(t) \in Months
<1>1. MaxTime \in Nat /\ Month(MaxTime) \in Nat
  BY Lengths, MonthBounds
<1>2. ASSUME NEW t \in Time PROVE Month(t) \in Months
  <2>1. t \in Nat /\ t <= MaxTime
    BY <1>1 DEF Time
  <2>2. Month(t) \in Nat /\ Month(t) <= Month(MaxTime)
    BY <1>1, <2>1, MonthBounds, MonthMonotone
  <2>3. QED
    BY <1>1, <2>2 DEF Months
<1>3. QED
  BY <1>1, <1>2 DEF Months

LEMMA LastSecondTyped == \A m \in Months : LastSecond(m) \in Int
BY MonthTyped, Lengths DEF LastSecond

\* A key that is given its time to live outlasts all but the last second of the month
\* it was reserved in, however late the two clock readings are.
LEMMA ExpiryLate ==
  ASSUME NEW m \in Months, NEW at \in Nat, NEW read \in Nat, NEW now \in Nat, NEW c \in Nat,
         at <= read, read <= now, now <= c, m <= Month(at),
         NEW e, e = c + TicksPerSecond * SecondsUntilReset((Month(read) + 1) * MonthLength, now)
  PROVE  e \in Nat /\ e > c /\ e > LastSecond(m)
<1> DEFINE end == (Month(read) + 1) * MonthLength
<1> DEFINE s == SecondsUntilReset(end, now)
<1>1. /\ TicksPerSecond \in Nat /\ TicksPerSecond >= 1
      /\ MonthLength \in Nat /\ MonthLength >= 1 /\ m \in Nat
  BY Lengths, MonthTyped
<1>2. Month(at) \in Nat /\ Month(read) \in Nat /\ m <= Month(read)
  BY <1>1, MonthBounds, MonthMonotone
<1>3. end \in Nat /\ (m + 1) * MonthLength \in Nat /\ (m + 1) * MonthLength <= end
  BY <1>1, <1>2
<1>4. s \in Nat /\ s >= 1 /\ TicksPerSecond * s > end - now - TicksPerSecond
  <2> HIDE DEF end
  <2>1. CASE end - now >= TicksPerSecond
    <3> DEFINE d == end - now
    <3> DEFINE q == d \div TicksPerSecond
    <3>1. d \in Nat /\ d >= TicksPerSecond
      BY <1>1, <1>3, <2>1
    <3> HIDE DEF d
    <3>2. q \in Nat /\ d < TicksPerSecond * (q + 1)
      BY <1>1, <3>1
    <3>3. s = q
      BY <2>1 DEF SecondsUntilReset, d
    <3> HIDE DEF q, s
    <3>4. TicksPerSecond * (q + 1) = TicksPerSecond * q + TicksPerSecond
          /\ TicksPerSecond * q \in Nat
      BY <1>1, <3>2
    <3>5. q >= 1
      <4>1. ASSUME q = 0 PROVE FALSE
        BY <1>1, <3>1, <3>2, <3>4, <4>1
      <4>2. QED
        BY <3>2, <4>1
    <3>6. QED
      BY <1>1, <1>3, <3>1, <3>2, <3>3, <3>4, <3>5 DEF d
  <2>2. CASE ~(end - now >= TicksPerSecond)
    BY <1>1, <1>3, <2>2 DEF SecondsUntilReset
  <2>3. QED
    BY <2>1, <2>2
<1> DEFINE ticks == TicksPerSecond * s
<1>5. ticks \in Nat /\ ticks >= 1
  <2> HIDE DEF s
  <2>1. QED
    BY <1>1, <1>4
<1>6. e = c + ticks /\ ticks > end - now - TicksPerSecond
  BY <1>4
<1> HIDE DEF end, s, ticks
<1>7. LastSecond(m) = (m + 1) * MonthLength - TicksPerSecond
  BY DEF LastSecond
<1>8. QED
  BY <1>1, <1>3, <1>5, <1>6, <1>7

-----------------------------------------------------------------------------
(***************************************************************************)
(* Typing, by parts.                                                       *)
(***************************************************************************)
RequestState ==
  {NoRequest}
    \cup [pc: {"counting"}, id: Attempt, month: Months]
    \cup [pc: {"expiring", "logging"}, grant: Grant]
    \cup [pc: {"generating"}, id: Attempt]

LogRow == [id: Attempt, created: Months, status: {"attempted", "succeeded", "failed"}]

CountersTyped ==
  count \in [Months -> 0..MaxAttempts] /\ life \in [Months -> 0..MaxAttempts]

ExpiryTyped ==
  /\ expiry \in [Months -> Nat \cup {Never}]
  /\ \A m \in Months : expiry[m] = Never \/ (expiry[m] > clock /\ count[m] > 0)

RequestsTyped == req \in [Requests -> RequestState]

HistoryTyped ==
  /\ attempts \in 0..MaxAttempts /\ faults \in 0..MaxFaults
  /\ granted \in SUBSET Grant /\ unset \in SUBSET Months

LEMMA Typed ==
  TypeOK <=> /\ clock \in Time /\ CountersTyped /\ ExpiryTyped /\ RequestsTyped
             /\ log \in SUBSET LogRow /\ HistoryTyped
BY DEF TypeOK, CountersTyped, ExpiryTyped, RequestsTyped, HistoryTyped, RequestState, LogRow

LEMMA TypedNext ==
  clock' \in Time /\ CountersTyped' /\ ExpiryTyped' /\ RequestsTyped'
    /\ log' \in SUBSET LogRow /\ HistoryTyped' => TypeOK'
BY DEF TypeOK, CountersTyped, ExpiryTyped, RequestsTyped, HistoryTyped, RequestState, LogRow

LEMMA RequestShape ==
  ASSUME TypeOK, NEW p \in Requests
  PROVE  /\ req[p].pc \in {"idle", "counting", "expiring", "logging", "generating"}
         /\ req[p].pc = "idle" => req[p] = NoRequest
         /\ req[p].pc = "counting" => req[p].id \in Attempt /\ req[p].month \in Months
         /\ req[p].pc \in {"expiring", "logging"} => req[p].grant \in Grant
         /\ req[p].pc = "generating" => req[p].id \in Attempt
<1>1. req[p] \in RequestState
  BY Typed DEF RequestsTyped
<1>2. QED
  BY <1>1 DEF RequestState, NoRequest

LEMMA GrantShape ==
  ASSUME NEW g \in Grant
  PROVE  /\ g.id \in Attempt /\ g.month \in Months /\ g.at \in Time /\ g.at \in Nat
         /\ g.life \in Attempt /\ g.life \in Nat /\ g.life >= 1
<1>1. g.id \in Attempt /\ g.month \in Months /\ g.at \in Time /\ g.life \in Attempt
  BY DEF Grant
<1>2. g.at \in Nat
  BY <1>1, Lengths
<1>3. g.life \in Nat /\ g.life >= 1
  BY <1>1, Lengths DEF Attempt
<1>4. QED
  BY <1>1, <1>2, <1>3

LEMMA ReservationsTyped == TypeOK => Reservations \subseteq Grant
<1> SUFFICES ASSUME TypeOK PROVE Reservations \subseteq Grant
  OBVIOUS
<1>1. Pending \subseteq Grant
  BY RequestShape DEF Pending
<1>2. QED
  BY <1>1, Typed DEF Reservations, HistoryTyped

LEMMA CounterTypes ==
  ASSUME TypeOK, NEW m \in Months
  PROVE  count[m] \in Nat /\ life[m] \in Nat /\ (expiry[m] \in Nat \/ expiry[m] = Never)
BY Typed, Lengths DEF CountersTyped, ExpiryTyped

(***************************************************************************)
(* What a step leaves of the invariant when it moves no counter and makes  *)
(* no reservation.                                                         *)
(***************************************************************************)
LEMMA CountersKeep ==
  ASSUME IInv, UNCHANGED <<clock, count, life>>, Reservations' \subseteq Reservations,
         \A m \in Months : expiry'[m] = expiry[m] \/ expiry'[m] > LastSecond(m)
  PROVE  /\ \A m \in Months : CounterInv(m)' /\ LifeInv(m)'
         /\ \A g \in Reservations' : ReservationInv(g)'
<1>1. ASSUME NEW m \in Months PROVE CounterInv(m)' /\ LifeInv(m)'
  <2>1. Current(m)' \subseteq Current(m) /\ Early(m)' \subseteq Early(m)
    BY DEF Current, Early, LastSecond
  <2>2. CounterInv(m) /\ LifeInv(m) /\ count[m] \in Nat /\ Limit \in Nat
    BY CounterTypes, Lengths DEF IInv
  <2>3. /\ IsFiniteSet(Early(m)') /\ Cardinality(Early(m)') <= Cardinality(Early(m))
        /\ Cardinality(Early(m)') \in Nat /\ Cardinality(Early(m)) \in Nat
    BY <2>1, <2>2, FS_Subset, FS_CardinalityType DEF LifeInv
  <2>4. count[m] > 0 =>
          /\ IsFiniteSet(Current(m)') /\ Cardinality(Current(m)') <= Cardinality(Current(m))
          /\ Cardinality(Current(m)') \in Nat /\ Cardinality(Current(m)) \in Nat
    BY <2>1, <2>2, FS_Subset, FS_CardinalityType DEF CounterInv
  <2>5. CounterInv(m)'
    <3>1. CASE count[m] > 0
      <4>1. /\ Cardinality(Current(m)) <= count[m] /\ Cardinality(Current(m)) <= Limit
            /\ life[m] > 0
        BY <2>2, <3>1 DEF CounterInv
      <4>2. Cardinality(Current(m)') <= count[m] /\ Cardinality(Current(m)') <= Limit
        BY <2>2, <2>4, <3>1, <4>1
      <4>3. QED
        BY <2>4, <3>1, <4>1, <4>2 DEF CounterInv
    <3>2. CASE ~(count[m] > 0)
      BY <3>2 DEF CounterInv
    <3>3. QED
      BY <3>1, <3>2
  <2>6. Cardinality(Early(m)') <= Limit
    BY <2>2, <2>3 DEF LifeInv
  <2>7. LifeInv(m)'
    BY <2>2, <2>3, <2>6 DEF LifeInv, LastSecond
  <2>8. QED
    BY <2>5, <2>7
<1>2. ASSUME NEW g \in Reservations' PROVE ReservationInv(g)'
  BY <1>2 DEF IInv, ReservationInv, LastSecond
<1>3. QED
  BY <1>1, <1>2

LEMMA AttemptsKeep ==
  ASSUME IInv, Waiting' \subseteq Waiting, UNCHANGED <<count, life, attempts>>
  PROVE  AttemptsCover'
<1>1. /\ IsFiniteSet(Waiting') /\ Cardinality(Waiting') <= Cardinality(Waiting)
      /\ Cardinality(Waiting') \in Nat /\ Cardinality(Waiting) \in Nat
  BY FS_Subset, FS_CardinalityType DEF IInv, AttemptsCover
<1>2. \A m \in Months : count[m] \in Nat /\ life[m] \in Nat
  BY CounterTypes DEF IInv
<1>3. attempts \in Nat
  BY Typed, Lengths DEF IInv, HistoryTyped
<1>4. ASSUME NEW m \in Months
      PROVE  /\ count[m] + Cardinality(Waiting') <= attempts
             /\ life[m] + Cardinality(Waiting') <= attempts
  <2>1. /\ count[m] + Cardinality(Waiting) <= attempts
        /\ life[m] + Cardinality(Waiting) <= attempts
    BY DEF IInv, AttemptsCover
  <2>2. QED
    BY <1>1, <1>2, <1>3, <2>1
<1>5. QED
  BY <1>1, <1>4 DEF AttemptsCover

\* A handler that goes on with its work, or ends.
LEMMA GoesOn ==
  ASSUME TypeOK, NEW p \in Requests, NEW r \in RequestState, Goto(p, r)
  PROVE  /\ RequestsTyped' /\ req'[p] = r
         /\ \A q \in Requests : q # p => req'[q] = req[q]
         /\ r.pc # "counting" => Waiting' \subseteq Waiting
         /\ r.pc # "expiring" => Pending' \subseteq Pending
<1>1. /\ req' \in [Requests -> RequestState] /\ req'[p] = r
      /\ \A q \in Requests : q # p => req'[q] = req[q]
  BY Typed DEF RequestsTyped, Goto
<1>2. RequestsTyped'
  BY <1>1 DEF RequestsTyped, RequestState, NoRequest
<1>3. r.pc # "counting" => Waiting' \subseteq Waiting
  BY <1>1 DEF Waiting
<1>4. r.pc # "expiring" => Pending' \subseteq Pending
  BY <1>1 DEF Pending
<1>5. QED
  BY <1>1, <1>2, <1>3, <1>4

LEMMA IdleState == NoRequest \in RequestState /\ NoRequest.pc = "idle"
BY DEF NoRequest, RequestState

(***************************************************************************)
(* The steps after the counting, put together.                             *)
(***************************************************************************)
LEMMA LaterStep ==
  ASSUME IInv, NEW p \in Requests, NEW r \in RequestState, Goto(p, r),
         r.pc \notin {"counting", "expiring"},
         UNCHANGED <<clock, count, life, attempts>>,
         log' \in SUBSET LogRow, HistoryTyped', ExpiryTyped',
         \A m \in Months : expiry'[m] = expiry[m] \/ expiry'[m] > LastSecond(m),
         granted' \subseteq Reservations, ExpiryFollows'
  PROVE  IInv'
<1>1. TypeOK
  BY DEF IInv
<1>2. /\ RequestsTyped' /\ req'[p] = r
      /\ \A q \in Requests : q # p => req'[q] = req[q]
      /\ Waiting' \subseteq Waiting /\ Pending' \subseteq Pending
  BY <1>1, GoesOn
<1>3. TypeOK'
  BY <1>1, <1>2, Typed, TypedNext DEF CountersTyped
<1>4. AttemptsCover'
  BY <1>2, AttemptsKeep
<1>5. Reservations' \subseteq Reservations
  BY <1>2 DEF Reservations
<1>6. /\ \A m \in Months : CounterInv(m)' /\ LifeInv(m)'
      /\ \A g \in Reservations' : ReservationInv(g)'
  BY <1>5, CountersKeep
<1>7. \A q \in Requests : req'[q].pc = "counting" => req'[q].month <= Month(clock')
  BY <1>2 DEF IInv
<1>8. QED
  BY <1>3, <1>4, <1>6, <1>7 DEF IInv

LEMMA InitIInv == Init => IInv
<1> SUFFICES ASSUME Init PROVE IInv
  OBVIOUS
<1>1. 0 \in Time /\ 0 \in 0..MaxAttempts /\ 0 \in 0..MaxFaults
  BY UsageCapAssumption DEF Time
<1>2. TypeOK
  BY <1>1, IdleState, Typed DEF Init, CountersTyped, ExpiryTyped, RequestsTyped, HistoryTyped
<1>3. Waiting = {} /\ Pending = {} /\ Reservations = {}
  BY IdleState DEF Init, Waiting, Pending, Reservations
<1>4. IsFiniteSet({}) /\ Cardinality({}) = 0
  BY FS_EmptySet
<1>5. AttemptsCover
  BY <1>3, <1>4 DEF AttemptsCover, Init
<1>6. ASSUME NEW m \in Months PROVE CounterInv(m) /\ LifeInv(m)
  <2>1. Early(m) = {} /\ count[m] = 0 /\ life[m] = 0 /\ expiry[m] = Never
    BY <1>3 DEF Early, Init
  <2>2. QED
    BY <1>4, <2>1, Lengths DEF CounterInv, LifeInv
<1>7. \A p \in Requests : req[p].pc = "idle"
  BY IdleState DEF Init
<1>8. ExpiryFollows
  BY DEF ExpiryFollows, Init
<1>9. QED
  BY <1>2, <1>3, <1>5, <1>6, <1>7, <1>8 DEF IInv

-----------------------------------------------------------------------------
(***************************************************************************)
(* The steps of a handler.                                                 *)
(***************************************************************************)
LEMMA BeginStep ==
  ASSUME IInv, NEW p \in Requests, Begin(p)
  PROVE  IInv'
<1> DEFINE r == [pc |-> "counting", id |-> attempts + 1, month |-> Month(clock)]
<1>1. /\ TypeOK /\ req[p] = NoRequest /\ Goto(p, r)
      /\ attempts < MaxAttempts /\ attempts' = attempts + 1
      /\ UNCHANGED <<clock, count, expiry, log, life, granted, unset, faults>>
      /\ clock \in Time /\ attempts \in 0..MaxAttempts /\ attempts \in Nat
  BY Typed, Lengths DEF IInv, Begin, HistoryTyped
<1>2. attempts' \in 0..MaxAttempts /\ attempts + 1 \in Attempt
  BY <1>1, Lengths DEF Attempt
<1>3. r \in RequestState /\ r.pc = "counting" /\ r.month = Month(clock)
  BY <1>1, <1>2, MonthTyped DEF RequestState
<1> HIDE DEF r
<1>4. /\ RequestsTyped' /\ req'[p] = r
      /\ \A q \in Requests : q # p => req'[q] = req[q]
      /\ Pending' \subseteq Pending
  BY <1>1, <1>3, GoesOn
<1>5. TypeOK'
  BY <1>1, <1>2, <1>4, Typed, TypedNext DEF CountersTyped, ExpiryTyped, HistoryTyped
<1>6. AttemptsCover'
  <2>1. Waiting' = Waiting \cup {p} /\ p \notin Waiting
    BY <1>1, <1>3, <1>4, IdleState DEF Waiting
  <2>2. /\ IsFiniteSet(Waiting) /\ IsFiniteSet(Waiting')
        /\ Cardinality(Waiting') = Cardinality(Waiting) + 1
        /\ Cardinality(Waiting) \in Nat
    BY <2>1, FS_AddElement, FS_CardinalityType DEF IInv, AttemptsCover
  <2>3. ASSUME NEW m \in Months
        PROVE  /\ count[m] + Cardinality(Waiting') <= attempts'
               /\ life[m] + Cardinality(Waiting') <= attempts'
    <3>1. /\ count[m] + Cardinality(Waiting) <= attempts
          /\ life[m] + Cardinality(Waiting) <= attempts
      BY DEF IInv, AttemptsCover
    <3>2. count[m] \in Nat /\ life[m] \in Nat
      BY <1>1, CounterTypes
    <3>3. QED
      BY <1>1, <2>2, <3>1, <3>2
  <2>4. QED
    BY <1>1, <2>2, <2>3 DEF AttemptsCover
<1>7. Reservations' \subseteq Reservations
  BY <1>1, <1>4 DEF Reservations
<1>8. /\ \A m \in Months : CounterInv(m)' /\ LifeInv(m)'
      /\ \A g \in Reservations' : ReservationInv(g)'
  BY <1>1, <1>7, CountersKeep
<1>9. ASSUME NEW q \in Requests, req'[q].pc = "counting"
      PROVE  req'[q].month <= Month(clock)
  <2>1. Month(clock) \in Nat
    BY <1>1, MonthTyped
  <2>2. QED
    BY <1>3, <1>4, <1>9, <2>1 DEF IInv
<1>10. ExpiryFollows'
  BY <1>1, <1>4, IdleState DEF IInv, ExpiryFollows
<1>11. QED
  BY <1>1, <1>5, <1>6, <1>8, <1>9, <1>10 DEF IInv

LEMMA LogAttemptStep ==
  ASSUME IInv, NEW p \in Requests, LogAttempt(p)
  PROVE  IInv'
<1>1. /\ TypeOK /\ req[p].pc = "logging" /\ req[p].grant \in Grant
      /\ clock \in Time /\ Month(clock) \in Months
      /\ UNCHANGED <<clock, count, expiry, attempts, life, granted, unset, faults>>
  BY RequestShape, Typed, MonthTyped DEF IInv, LogAttempt
<1>2. PICK g \in Grant : g = req[p].grant
  BY <1>1
<1> DEFINE r == [pc |-> "generating", id |-> g.id]
<1> DEFINE row == [id |-> g.id, created |-> Month(clock), status |-> "attempted"]
<1>3. Goto(p, r) /\ log' = log \cup {row}
  BY <1>2 DEF LogAttempt
<1>4. r \in RequestState /\ r.pc = "generating" /\ row \in LogRow
  BY <1>1, GrantShape DEF RequestState, LogRow
<1> HIDE DEF r, row
<1>5. log' \in SUBSET LogRow /\ HistoryTyped' /\ ExpiryTyped'
  BY <1>1, <1>3, <1>4, Typed DEF HistoryTyped, ExpiryTyped
<1>6. \A q \in Requests : q # p => req'[q] = req[q]
  BY <1>1, <1>3, <1>4, GoesOn
<1>7. ExpiryFollows'
  BY <1>1, <1>6 DEF IInv, ExpiryFollows
<1>8. QED
  BY <1>1, <1>3, <1>4, <1>5, <1>7, LaterStep DEF Reservations

LEMMA MarkOutcomeStep ==
  ASSUME IInv, NEW p \in Requests, NEW status \in {"succeeded", "failed"},
         MarkOutcome(p, status)
  PROVE  IInv'
<1>1. /\ TypeOK /\ req[p].pc = "generating" /\ Goto(p, NoRequest)
      /\ log' = {IF row.id = req[p].id THEN [row EXCEPT !.status = status] ELSE row : row \in log}
      /\ UNCHANGED <<clock, count, expiry, attempts, life, granted, unset, faults>>
  BY DEF IInv, MarkOutcome, Outcome, Finish
<1>2. \A row \in LogRow : [row EXCEPT !.status = status] \in LogRow
  BY DEF LogRow
<1>3. log' \in SUBSET LogRow /\ HistoryTyped' /\ ExpiryTyped'
  BY <1>1, <1>2, Typed DEF HistoryTyped, ExpiryTyped
<1>4. \A q \in Requests : q # p => req'[q] = req[q]
  BY <1>1, IdleState, GoesOn
<1>5. ExpiryFollows'
  BY <1>1, <1>4 DEF IInv, ExpiryFollows
<1>6. QED
  BY <1>1, <1>3, <1>5, IdleState, LaterStep DEF Reservations

(***************************************************************************)
(* EXPIRE, for the reservation that created the key.                       *)
(***************************************************************************)
LEMMA ExpireFacts ==
  ASSUME IInv, NEW g \in Pending, Expire(g), UNCHANGED <<clock, count>>
  PROVE  /\ ExpiryTyped'
         /\ \A m \in Months : expiry'[m] = expiry[m] \/ expiry'[m] > LastSecond(m)
         /\ \A m \in Months : m # g.month => expiry'[m] = expiry[m]
         /\ count[g.month] > 0 => expiry'[g.month] # Never
<1>1. /\ TypeOK /\ g \in Grant /\ ReservationInv(g)
      /\ g.month \in Months /\ g.at \in Nat /\ clock \in Nat /\ g.at <= clock
      /\ g.month <= Month(g.at) /\ count[g.month] \in Nat
  <2>1. TypeOK /\ g \in Reservations /\ g \in Grant
    BY ReservationsTyped DEF IInv, Reservations
  <2>2. clock \in Nat /\ g.month \in Months /\ g.at \in Nat
    BY <2>1, Typed, Lengths, GrantShape
  <2>3. ReservationInv(g) /\ count[g.month] \in Nat
    BY <2>1, <2>2, CounterTypes DEF IInv
  <2>4. QED
    BY <2>1, <2>2, <2>3 DEF ReservationInv
<1>2. expiry \in [Months -> Nat \cup {Never}]
      /\ \A m \in Months : expiry[m] = Never \/ (expiry[m] > clock /\ count[m] > 0)
  BY <1>1, Typed DEF ExpiryTyped
<1>3. CASE count[g.month] = 0
  <2>1. expiry' = expiry
    BY <1>3 DEF Expire
  <2>2. QED
    BY <1>2, <1>3, <2>1 DEF ExpiryTyped
<1>4. CASE count[g.month] # 0
  <2>1. PICK read \in g.at..clock : \E now \in read..clock :
          expiry' = [expiry EXCEPT ![g.month] = clock
            + TicksPerSecond * SecondsUntilReset((Month(read) + 1) * MonthLength, now)]
    BY <1>4 DEF Expire
  <2>2. PICK now \in read..clock :
          expiry' = [expiry EXCEPT ![g.month] = clock
            + TicksPerSecond * SecondsUntilReset((Month(read) + 1) * MonthLength, now)]
    BY <2>1
  <2> DEFINE e == clock
            + TicksPerSecond * SecondsUntilReset((Month(read) + 1) * MonthLength, now)
  <2>3. /\ read \in Nat /\ now \in Nat
        /\ g.at <= read /\ read <= now /\ now <= clock
    BY <1>1
  <2>4. e \in Nat /\ e > clock /\ e > LastSecond(g.month)
    BY <1>1, <2>3, ExpiryLate
  <2>5. expiry' = [expiry EXCEPT ![g.month] = e]
    BY <2>2
  <2> HIDE DEF e
  <2>6. /\ expiry' \in [Months -> Nat \cup {Never}] /\ expiry'[g.month] = e
        /\ \A m \in Months : m # g.month => expiry'[m] = expiry[m]
    BY <1>1, <1>2, <2>4, <2>5
  <2>7. e # Never
    BY <2>4 DEF Never
  <2>8. ASSUME NEW m \in Months
        PROVE  /\ expiry'[m] = Never \/ (expiry'[m] > clock /\ count[m] > 0)
               /\ expiry'[m] = expiry[m] \/ expiry'[m] > LastSecond(m)
    <3>1. CASE m = g.month
      BY <1>1, <1>4, <2>4, <2>6, <3>1
    <3>2. CASE m # g.month
      BY <1>2, <2>6, <3>2
    <3>3. QED
      BY <3>1, <3>2
  <2>9. QED
    BY <2>6, <2>7, <2>8 DEF ExpiryTyped
<1>5. QED
  BY <1>3, <1>4

\* Who blames the handler p for a month without expiry: no one, once EXPIRE is done.
LEMMA ExpiryFollowsKeeps ==
  ASSUME IInv, NEW p \in Requests, NEW k \in Months,
         req[p].pc = "expiring" => req[p].grant.month = k,
         \A q \in Requests : q # p => req'[q] = req[q],
         count' = count, unset \subseteq unset',
         \A m \in Months : m # k => expiry'[m] = expiry[m],
         count[k] > 0 => expiry'[k] # Never \/ k \in unset'
  PROVE  ExpiryFollows'
<1> SUFFICES ASSUME NEW m \in Months, count'[m] > 0, expiry'[m] = Never
             PROVE  \/ m \in unset'
                    \/ \E q \in Requests : req'[q].pc = "expiring" /\ req'[q].grant.month = m
  BY DEF ExpiryFollows
<1>1. CASE m = k
  BY <1>1
<1>2. CASE m # k
  <2>1. \/ m \in unset
        \/ \E q \in Requests : req[q].pc = "expiring" /\ req[q].grant.month = m
    BY <1>2 DEF IInv, ExpiryFollows
  <2>2. QED
    BY <1>2, <2>1
<1>3. QED
  BY <1>1, <1>2

LEMMA SetExpiryStep ==
  ASSUME IInv, NEW p \in Requests, SetExpiry(p)
  PROVE  IInv'
<1>1. /\ TypeOK /\ req[p].pc = "expiring" /\ req[p].grant \in Grant
      /\ UNCHANGED <<clock, count, log, attempts, life, unset, faults>>
  BY RequestShape DEF IInv, SetExpiry
<1>2. PICK g \in Grant : g = req[p].grant
  BY <1>1
<1> DEFINE r == [pc |-> "logging", grant |-> g]
<1>3. Goto(p, r) /\ Expire(g) /\ granted' = granted \cup {g} /\ g.month \in Months
  BY <1>2, GrantShape DEF SetExpiry
<1>4. r \in RequestState /\ r.pc = "logging" /\ g \in Pending /\ g \in Reservations
  BY <1>1, <1>2 DEF RequestState, Pending, Reservations
<1> HIDE DEF r
<1>5. /\ ExpiryTyped'
      /\ \A m \in Months : expiry'[m] = expiry[m] \/ expiry'[m] > LastSecond(m)
      /\ \A m \in Months : m # g.month => expiry'[m] = expiry[m]
      /\ count[g.month] > 0 => expiry'[g.month] # Never
  BY <1>1, <1>3, <1>4, ExpireFacts
<1>6. log' \in SUBSET LogRow /\ HistoryTyped' /\ granted' \subseteq Reservations
  BY <1>1, <1>2, <1>3, <1>4, Typed DEF HistoryTyped, Reservations
<1>7. \A q \in Requests : q # p => req'[q] = req[q]
  BY <1>1, <1>3, <1>4, GoesOn
<1>8. ExpiryFollows'
  BY <1>1, <1>2, <1>3, <1>5, <1>7, ExpiryFollowsKeeps
<1>9. QED
  BY <1>1, <1>3, <1>4, <1>5, <1>6, <1>8, LaterStep

LEMMA FaultTyped == ASSUME TypeOK, Fault PROVE faults' \in 0..MaxFaults
BY Typed, Lengths DEF Fault, HistoryTyped

LEMMA ExpireAnswerLostStep ==
  ASSUME IInv, NEW p \in Requests, ExpireAnswerLost(p)
  PROVE  IInv'
<1>1. /\ TypeOK /\ req[p].pc = "expiring" /\ req[p].grant \in Grant /\ Goto(p, NoRequest)
      /\ UNCHANGED <<clock, count, log, attempts, life, granted, unset>>
      /\ faults' \in 0..MaxFaults
  BY RequestShape, FaultTyped DEF IInv, ExpireAnswerLost, Finish
<1>2. PICK g \in Grant : g = req[p].grant
  BY <1>1
<1>3. Expire(g) /\ g.month \in Months /\ g \in Pending
  BY <1>1, <1>2, GrantShape DEF ExpireAnswerLost, Pending
<1>4. /\ ExpiryTyped'
      /\ \A m \in Months : expiry'[m] = expiry[m] \/ expiry'[m] > LastSecond(m)
      /\ \A m \in Months : m # g.month => expiry'[m] = expiry[m]
      /\ count[g.month] > 0 => expiry'[g.month] # Never
  BY <1>1, <1>3, ExpireFacts
<1>5. log' \in SUBSET LogRow /\ HistoryTyped' /\ granted' \subseteq Reservations
  BY <1>1, Typed DEF HistoryTyped, Reservations
<1>6. \A q \in Requests : q # p => req'[q] = req[q]
  BY <1>1, IdleState, GoesOn
<1>7. ExpiryFollows'
  BY <1>1, <1>2, <1>3, <1>4, <1>6, ExpiryFollowsKeeps
<1>8. QED
  BY <1>1, <1>4, <1>5, <1>7, IdleState, LaterStep

LEMMA CrashStep ==
  ASSUME IInv, NEW p \in Requests, Crash(p)
  PROVE  IInv'
<1>1. /\ TypeOK /\ Goto(p, NoRequest)
      /\ unset' = unset \cup {m \in Months : req[p].pc = "expiring" /\ req[p].grant.month = m}
      /\ UNCHANGED <<clock, count, expiry, log, attempts, life, granted>>
      /\ faults' \in 0..MaxFaults
  BY FaultTyped DEF IInv, Crash, Finish
<1>2. /\ log' \in SUBSET LogRow /\ HistoryTyped' /\ granted' \subseteq Reservations
      /\ ExpiryTyped'
  BY <1>1, Typed DEF HistoryTyped, Reservations, ExpiryTyped
<1>3. \A q \in Requests : q # p => req'[q] = req[q]
  BY <1>1, IdleState, GoesOn
<1>4. ExpiryFollows'
  <2>1. CASE req[p].pc = "expiring"
    <3>1. PICK k \in Months : k = req[p].grant.month
      BY <1>1, <2>1, RequestShape, GrantShape
    <3>2. k \in unset' /\ unset \subseteq unset'
      BY <1>1, <2>1, <3>1
    <3>3. QED
      BY <1>1, <1>3, <3>1, <3>2, ExpiryFollowsKeeps
  <2>2. CASE req[p].pc # "expiring"
    BY <1>1, <1>3, <2>2 DEF IInv, ExpiryFollows
  <2>3. QED
    BY <2>1, <2>2
<1>5. QED
  BY <1>1, <1>2, <1>4, IdleState, LaterStep

-----------------------------------------------------------------------------
(***************************************************************************)
(* INCR.  The handler gives up the one unit that its attempt stood for.    *)
(***************************************************************************)
LEMMA CountFacts ==
  ASSUME IInv, NEW p \in Requests, NEW m \in Months, NEW r \in RequestState,
         req[p].pc = "counting", req[p].month = m, Count(m), Goto(p, r), r.pc # "counting",
         UNCHANGED <<clock, expiry, attempts>>
  PROVE  /\ count'[m] = count[m] + 1 /\ life'[m] = (IF count[m] = 0 THEN life[m] + 1 ELSE life[m])
         /\ \A k \in Months : k # m => count'[k] = count[k] /\ life'[k] = life[k]
         /\ AttemptsCover' /\ CountersTyped' /\ ExpiryTyped'
         /\ life'[m] \in Attempt
<1>1. /\ TypeOK /\ CountersTyped /\ count[m] \in Nat /\ life[m] \in Nat
      /\ attempts \in Nat /\ attempts <= MaxAttempts /\ MaxAttempts \in Nat
  <2>1. TypeOK /\ CountersTyped /\ attempts \in 0..MaxAttempts /\ MaxAttempts \in Nat
    BY Typed, Lengths DEF IInv, HistoryTyped
  <2>2. QED
    BY <2>1, CounterTypes
<1>2. /\ count'[m] = count[m] + 1
      /\ life'[m] = IF count[m] = 0 THEN life[m] + 1 ELSE life[m]
      /\ \A k \in Months : k # m => count'[k] = count[k] /\ life'[k] = life[k]
      /\ DOMAIN count' = Months /\ DOMAIN life' = Months
      /\ count' = [k \in Months |-> count'[k]] /\ life' = [k \in Months |-> life'[k]]
  BY <1>1 DEF Count, CountersTyped
<1>3. Waiting' = Waiting \ {p} /\ p \in Waiting
  BY <1>1, GoesOn DEF Waiting
<1>4. /\ IsFiniteSet(Waiting') /\ Cardinality(Waiting') = Cardinality(Waiting) - 1
      /\ Cardinality(Waiting) \in Nat /\ Cardinality(Waiting') \in Nat
  BY <1>3, FS_RemoveElement, FS_CardinalityType DEF IInv, AttemptsCover
<1>5. ASSUME NEW k \in Months
      PROVE  /\ count'[k] \in Nat /\ count'[k] + Cardinality(Waiting') <= attempts
             /\ life'[k] \in Nat /\ life'[k] + Cardinality(Waiting') <= attempts
  <2>1. /\ count[k] + Cardinality(Waiting) <= attempts
        /\ life[k] + Cardinality(Waiting) <= attempts
        /\ count[k] \in Nat /\ life[k] \in Nat
    BY <1>1, CounterTypes DEF IInv, AttemptsCover
  <2>2. /\ count'[k] \in Nat /\ count'[k] <= count[k] + 1
        /\ life'[k] \in Nat /\ life'[k] <= life[k] + 1
    <3>1. CASE k = m
      BY <1>1, <1>2, <3>1
    <3>2. CASE k # m
      BY <1>2, <2>1, <3>2
    <3>3. QED
      BY <3>1, <3>2
  <2>3. QED
    BY <1>1, <1>4, <2>1, <2>2
<1>6. AttemptsCover'
  BY <1>4, <1>5 DEF AttemptsCover
<1>7. \A k \in Months : count'[k] \in 0..MaxAttempts /\ life'[k] \in 0..MaxAttempts
  BY <1>1, <1>4, <1>5
<1>8. CountersTyped'
  BY <1>2, <1>7 DEF CountersTyped
<1>9. ExpiryTyped'
  <2>1. ExpiryTyped
    BY <1>1, Typed
  <2>2. \A k \in Months : count[k] > 0 => count'[k] > 0
    <3>1. \A k \in Months : k = m => count'[k] > 0
      BY <1>1, <1>2
    <3>2. QED
      BY <1>2, <3>1
  <2>3. QED
    BY <2>1, <2>2 DEF ExpiryTyped
<1>10. life'[m] \in Attempt
  <2>1. life'[m] >= 1
    BY <1>1, <1>2 DEF IInv, CounterInv
  <2>2. QED
    BY <1>1, <1>7, <2>1 DEF Attempt
<1>11. QED
  BY <1>2, <1>6, <1>8, <1>9, <1>10

\* A reservation more, if any, and how the counter that counted it bounds the others.
LEMMA ReserveStep ==
  ASSUME IInv, NEW p \in Requests, NEW m \in Months, NEW g \in Grant,
         req[p].pc = "counting", req[p].month = m,
         UNCHANGED <<clock, expiry>>,
         count'[m] = count[m] + 1, life'[m] = (IF count[m] = 0 THEN life[m] + 1 ELSE life[m]),
         \A k \in Months : k # m => count'[k] = count[k] /\ life'[k] = life[k],
         g.month = m, g.at = clock, g.life = life'[m],
         Reservations' \subseteq Reservations \cup {g},
         count[m] + 1 <= Limit \/ Reservations' \subseteq Reservations
  PROVE  /\ \A k \in Months : CounterInv(k)' /\ LifeInv(k)'
         /\ \A x \in Reservations' : ReservationInv(x)'
<1>1. /\ TypeOK /\ Limit \in Nat /\ Limit >= 1 /\ clock \in Nat
      /\ \A k \in Months : count[k] \in Nat /\ life[k] \in Nat /\ LastSecond(k) \in Int
  <2>1. TypeOK /\ Limit \in Nat /\ Limit >= 1 /\ clock \in Time
    BY Typed, Lengths DEF IInv
  <2>2. QED
    BY <2>1, CounterTypes, Lengths, LastSecondTyped
<1>2. \A x \in Reservations :
        /\ x \in Grant /\ x.month \in Months /\ x.at \in Nat /\ x.life \in Nat
        /\ ReservationInv(x)
  BY <1>1, ReservationsTyped, GrantShape DEF IInv
<1>3. ASSUME NEW k \in Months, k # m PROVE CounterInv(k)' /\ LifeInv(k)'
  <2>1. /\ Current(k)' \subseteq Current(k) /\ Early(k)' \subseteq Early(k)
        /\ count'[k] = count[k] /\ life'[k] = life[k]
    BY <1>3 DEF Current, Early, LastSecond
  <2>2. CounterInv(k) /\ LifeInv(k)
    BY DEF IInv
  <2>3. /\ IsFiniteSet(Early(k)') /\ Cardinality(Early(k)') <= Cardinality(Early(k))
        /\ Cardinality(Early(k)') \in Nat /\ Cardinality(Early(k)) \in Nat
    BY <2>1, <2>2, FS_Subset, FS_CardinalityType DEF LifeInv
  <2>4. Cardinality(Early(k)') <= Limit
    BY <1>1, <2>2, <2>3 DEF LifeInv
  <2>5. LifeInv(k)'
    BY <2>1, <2>2, <2>3, <2>4 DEF LifeInv, LastSecond
  <2>6. CASE count[k] > 0
    <3>1. /\ IsFiniteSet(Current(k)') /\ Cardinality(Current(k)') <= Cardinality(Current(k))
          /\ Cardinality(Current(k)') \in Nat /\ Cardinality(Current(k)) \in Nat
      BY <2>1, <2>2, <2>6, FS_Subset, FS_CardinalityType DEF CounterInv
    <3>2. /\ Cardinality(Current(k)) <= count[k] /\ Cardinality(Current(k)) <= Limit
          /\ life[k] > 0
      BY <2>2, <2>6 DEF CounterInv
    <3>3. Cardinality(Current(k)') <= count[k] /\ Cardinality(Current(k)') <= Limit
      BY <1>1, <3>1, <3>2
    <3>4. QED
      BY <2>1, <2>5, <3>1, <3>2, <3>3 DEF CounterInv
  <2>7. CASE ~(count[k] > 0)
    BY <2>1, <2>5, <2>7 DEF CounterInv
  <2>8. QED
    BY <2>6, <2>7
<1>4. CounterInv(m)'
  <2>1. SUFFICES /\ life'[m] > 0 /\ IsFiniteSet(Current(m)')
                 /\ Cardinality(Current(m)') <= count[m] + 1
                 /\ Cardinality(Current(m)') <= Limit
    BY DEF CounterInv
  <2>2. CASE count[m] = 0
    <3>1. \A x \in Reservations : x.month = m => x.life # life'[m]
      BY <1>1, <1>2, <2>2 DEF ReservationInv
    <3>2. Current(m)' \subseteq {g}
      BY <3>1 DEF Current
    <3>3. IsFiniteSet({g}) /\ Cardinality({g}) = 1
      BY FS_Singleton
    <3>4. /\ IsFiniteSet(Current(m)') /\ Cardinality(Current(m)') <= 1
          /\ Cardinality(Current(m)') \in Nat
      BY <3>2, <3>3, FS_Subset, FS_CardinalityType
    <3>5. QED
      BY <1>1, <2>2, <3>4
  <2>3. CASE count[m] # 0
    <3>1. /\ life'[m] = life[m] /\ life[m] > 0 /\ IsFiniteSet(Current(m))
          /\ Cardinality(Current(m)) <= count[m] /\ Cardinality(Current(m)) <= Limit
      BY <1>1, <2>3 DEF IInv, CounterInv
    <3>2. Cardinality(Current(m)) \in Nat
      BY <3>1, FS_CardinalityType
    <3>3. CASE Reservations' \subseteq Reservations
      <4>1. Current(m)' \subseteq Current(m)
        BY <3>1, <3>3 DEF Current
      <4>2. /\ IsFiniteSet(Current(m)') /\ Cardinality(Current(m)') <= Cardinality(Current(m))
            /\ Cardinality(Current(m)') \in Nat
        BY <3>1, <4>1, FS_Subset, FS_CardinalityType
      <4>3. QED
        BY <1>1, <3>1, <3>2, <4>2
    <3>4. CASE count[m] + 1 <= Limit
      <4>1. Current(m)' \subseteq Current(m) \cup {g}
        BY <3>1 DEF Current
      <4>2. /\ IsFiniteSet(Current(m) \cup {g})
            /\ Cardinality(Current(m) \cup {g}) <= Cardinality(Current(m)) + 1
            /\ Cardinality(Current(m) \cup {g}) \in Nat
        <5>1. /\ IsFiniteSet(Current(m) \cup {g})
              /\ \/ Cardinality(Current(m) \cup {g}) = Cardinality(Current(m))
                 \/ Cardinality(Current(m) \cup {g}) = Cardinality(Current(m)) + 1
          BY <3>1, FS_AddElement
        <5>2. QED
          BY <3>2, <5>1
      <4>3. /\ IsFiniteSet(Current(m)') /\ Cardinality(Current(m)') \in Nat
            /\ Cardinality(Current(m)') <= Cardinality(Current(m) \cup {g})
        BY <4>1, <4>2, FS_Subset, FS_CardinalityType
      <4>4. QED
        BY <1>1, <3>1, <3>2, <3>4, <4>2, <4>3
    <3>5. QED
      BY <3>3, <3>4
  <2>4. QED
    BY <2>2, <2>3
<1>5. clock < LastSecond(m) => life'[m] = 1
  BY <1>1 DEF IInv, LifeInv
<1>6. LifeInv(m)'
  <2>1. LifeInv(m)
    BY DEF IInv
  <2>2. IsFiniteSet(Early(m)') /\ Cardinality(Early(m)') <= Limit
    <3>1. CASE clock < LastSecond(m)
      <4>1. Early(m)' \subseteq Current(m)'
        BY <1>2, <1>5, <3>1 DEF Early, Current, ReservationInv, LastSecond
      <4>2. IsFiniteSet(Current(m)') /\ Cardinality(Current(m)') <= Limit
        BY <1>1, <1>4 DEF CounterInv
      <4>3. /\ IsFiniteSet(Early(m)') /\ Cardinality(Early(m)') <= Cardinality(Current(m)')
            /\ Cardinality(Early(m)') \in Nat /\ Cardinality(Current(m)') \in Nat
        BY <4>1, <4>2, FS_Subset, FS_CardinalityType
      <4>4. QED
        BY <1>1, <4>2, <4>3
    <3>2. CASE ~(clock < LastSecond(m))
      <4>1. Early(m)' \subseteq Early(m)
        BY <3>2 DEF Early, LastSecond
      <4>2. IsFiniteSet(Early(m)) /\ Cardinality(Early(m)) <= Limit
        BY <2>1 DEF LifeInv
      <4>3. /\ IsFiniteSet(Early(m)') /\ Cardinality(Early(m)') <= Cardinality(Early(m))
            /\ Cardinality(Early(m)') \in Nat /\ Cardinality(Early(m)) \in Nat
        BY <4>1, <4>2, FS_Subset, FS_CardinalityType
      <4>4. QED
        BY <1>1, <4>2, <4>3
    <3>3. QED
      BY <3>1, <3>2
  <2>3. count'[m] > 0
    BY <1>1
  <2>4. QED
    BY <1>5, <2>1, <2>2, <2>3 DEF LifeInv, LastSecond
<1>7. ASSUME NEW x \in Reservations' PROVE ReservationInv(x)'
  <2>1. CASE x \in Reservations
    <3>1. life[x.month] <= life'[x.month]
      <4>1. CASE x.month = m
        BY <1>1, <4>1
      <4>2. CASE x.month # m
        BY <1>1, <1>2, <2>1, <4>2
      <4>3. QED
        BY <4>1, <4>2
    <3>2. life'[x.month] \in Nat /\ life[x.month] \in Nat
      BY <1>1, <1>2, <2>1
    <3>3. x.life <= life'[x.month]
      BY <1>2, <2>1, <3>1, <3>2 DEF ReservationInv
    <3>4. QED
      BY <1>2, <2>1, <3>3 DEF ReservationInv, LastSecond
  <2>2. CASE x = g
    <3>1. m <= Month(clock)
      BY DEF IInv
    <3>2. life'[m] \in Nat
      BY <1>1
    <3>3. QED
      BY <1>1, <1>5, <2>2, <3>1, <3>2 DEF ReservationInv, LastSecond
  <2>3. QED
    BY <1>7, <2>1, <2>2
<1>8. QED
  BY <1>3, <1>4, <1>6, <1>7

\* INCR, whatever its handler does next: a key that it creates gets its expiry, or the
\* error that prevents it is on record.
LEMMA IncrStep ==
  ASSUME IInv, NEW p \in Requests, NEW m \in Months, NEW g \in Grant, NEW r \in RequestState,
         req[p].pc = "counting", req[p].month = m, Count(m), Goto(p, r),
         g.month = m, g.at = clock, g.life = life'[m],
         r.pc \in {"idle", "expiring", "logging"}, r.pc = "expiring" => r.grant = g,
         UNCHANGED <<clock, expiry, log, attempts>>,
         granted' = granted \/ granted' = granted \cup {g},
         \/ count[m] + 1 <= Limit
         \/ granted' = granted /\ r.pc # "expiring",
         unset \subseteq unset', unset' \in SUBSET Months, faults' \in 0..MaxFaults,
         count[m] > 0 \/ m \in unset' \/ r.pc = "expiring"
  PROVE  IInv'
<1>1. /\ TypeOK /\ clock \in Time /\ log \in SUBSET LogRow
      /\ attempts \in 0..MaxAttempts /\ granted \in SUBSET Grant
  BY Typed DEF IInv, HistoryTyped
<1>2. /\ count'[m] = count[m] + 1 /\ life'[m] = (IF count[m] = 0 THEN life[m] + 1 ELSE life[m])
      /\ \A k \in Months : k # m => count'[k] = count[k] /\ life'[k] = life[k]
      /\ AttemptsCover' /\ CountersTyped' /\ ExpiryTyped'
  BY CountFacts
<1>4. /\ RequestsTyped' /\ req'[p] = r
      /\ \A q \in Requests : q # p => req'[q] = req[q]
  BY <1>1, GoesOn
<1>5. /\ Pending' \subseteq Pending \cup {g}
      /\ r.pc # "expiring" => Pending' \subseteq Pending
  BY <1>4 DEF Pending
<1>6. /\ Reservations' \subseteq Reservations \cup {g}
      /\ count[m] + 1 <= Limit \/ Reservations' \subseteq Reservations
  BY <1>5 DEF Reservations
<1>7. TypeOK'
  <2>1. HistoryTyped'
    BY <1>1 DEF HistoryTyped
  <2>2. QED
    BY <1>1, <1>2, <1>4, <2>1, TypedNext
<1>8. /\ \A k \in Months : CounterInv(k)' /\ LifeInv(k)'
      /\ \A x \in Reservations' : ReservationInv(x)'
  BY <1>2, <1>6, ReserveStep
<1>9. \A q \in Requests : req'[q].pc = "counting" => req'[q].month <= Month(clock)
  BY <1>4 DEF IInv
<1>10. ExpiryFollows'
  <2> SUFFICES ASSUME NEW k \in Months, count'[k] > 0, expiry'[k] = Never
               PROVE  \/ k \in unset'
                      \/ \E q \in Requests : req'[q].pc = "expiring" /\ req'[q].grant.month = k
    BY DEF ExpiryFollows
  <2>1. CASE count[k] > 0
    <3>1. \/ k \in unset
          \/ \E q \in Requests : req[q].pc = "expiring" /\ req[q].grant.month = k
      BY <2>1 DEF IInv, ExpiryFollows
    <3>2. QED
      BY <1>4, <3>1
  <2>2. CASE ~(count[k] > 0)
    <3>1. k = m
      BY <1>2, <2>2
    <3>2. QED
      BY <1>4, <2>2, <3>1
  <2>3. QED
    BY <2>1, <2>2
<1>11. QED
  BY <1>2, <1>7, <1>8, <1>9, <1>10 DEF IInv

LEMMA LifeTyped ==
  ASSUME IInv, NEW p \in Requests, NEW m \in Months, req[p].pc = "counting", Count(m)
  PROVE  life'[m] \in Attempt
<1>1. /\ TypeOK /\ count[m] \in Nat /\ life[m] \in Nat
      /\ attempts \in Nat /\ attempts <= MaxAttempts /\ MaxAttempts \in Nat
  <2>1. TypeOK /\ attempts \in 0..MaxAttempts /\ MaxAttempts \in Nat
    BY Typed, Lengths DEF IInv, HistoryTyped
  <2>2. QED
    BY <2>1, CounterTypes
<1>2. life'[m] = IF count[m] = 0 THEN life[m] + 1 ELSE life[m]
  BY <1>1, Typed DEF Count, CountersTyped
<1>3. Cardinality(Waiting) \in Nat /\ Cardinality(Waiting) >= 1
  <2>1. IsFiniteSet(Waiting) /\ p \in Waiting
    BY DEF IInv, AttemptsCover, Waiting
  <2>2. Cardinality(Waiting) \in Nat /\ Cardinality(Waiting) # 0
    BY <2>1, FS_CardinalityType, FS_EmptySet
  <2>3. QED
    BY <2>2
<1>4. life[m] + Cardinality(Waiting) <= attempts
  BY DEF IInv, AttemptsCover
<1>5. life'[m] \in Nat /\ life'[m] >= 1 /\ life'[m] <= MaxAttempts
  <2>1. CASE count[m] = 0
    BY <1>1, <1>2, <1>3, <1>4, <2>1
  <2>2. CASE count[m] # 0
    <3>1. life[m] > 0
      BY <1>1, <2>2 DEF IInv, CounterInv
    <3>2. QED
      BY <1>1, <1>2, <1>3, <1>4, <2>2, <3>1
  <2>3. QED
    BY <2>1, <2>2
<1>6. QED
  BY <1>1, <1>5 DEF Attempt

LEMMA IncrAnyStep ==
  ASSUME IInv, NEW p \in Requests, Incr(p)
  PROVE  IInv'
<1>1. /\ TypeOK /\ req[p].pc = "counting" /\ req[p].month \in Months
      /\ UNCHANGED <<clock, expiry, log, attempts, unset, faults>>
      /\ req[p].id \in Attempt /\ clock \in Time
      /\ unset \in SUBSET Months /\ faults \in 0..MaxFaults
  BY RequestShape, Typed DEF IInv, Incr, HistoryTyped
<1>2. PICK m \in Months : m = req[p].month
  BY <1>1
<1> DEFINE g == [id |-> req[p].id, month |-> m, at |-> clock, life |-> life'[m]]
<1> DEFINE expiring == [pc |-> "expiring", grant |-> g]
<1> DEFINE logging == [pc |-> "logging", grant |-> g]
<1>3. /\ Count(m)
      /\ \/ First(count[m] + 1) /\ Goto(p, expiring) /\ granted' = granted
         \/ /\ ~First(count[m] + 1) /\ OverLimit(count[m] + 1)
            /\ Goto(p, NoRequest) /\ granted' = granted
         \/ /\ ~First(count[m] + 1) /\ ~OverLimit(count[m] + 1)
            /\ granted' = granted \cup {g} /\ Goto(p, logging)
  BY <1>2 DEF Incr, Finish
<1>4. count[m] \in Nat /\ Limit \in Nat /\ Limit >= 1
  BY <1>1, CounterTypes, Lengths
<1>5. g \in Grant /\ g.month = m /\ g.at = clock /\ g.life = life'[m]
  BY <1>1, <1>2, <1>3, LifeTyped DEF Grant
<1>6. /\ expiring \in RequestState /\ expiring.pc = "expiring" /\ expiring.grant = g
      /\ logging \in RequestState /\ logging.pc = "logging"
  BY <1>5 DEF RequestState
<1> HIDE DEF g, expiring, logging
<1>7. CASE First(count[m] + 1) /\ Goto(p, expiring) /\ granted' = granted
  <2>1. count[m] + 1 <= Limit
    BY <1>4, <1>7 DEF First
  <2>2. QED
    BY <1>1, <1>2, <1>3, <1>5, <1>6, <1>7, <2>1, IncrStep
<1>8. CASE /\ ~First(count[m] + 1) /\ OverLimit(count[m] + 1)
           /\ Goto(p, NoRequest) /\ granted' = granted
  <2>1. count[m] > 0
    BY <1>4, <1>8 DEF First
  <2>2. QED
    BY <1>1, <1>2, <1>3, <1>5, <1>8, <2>1, IdleState, IncrStep
<1>9. CASE /\ ~First(count[m] + 1) /\ ~OverLimit(count[m] + 1)
           /\ granted' = granted \cup {g} /\ Goto(p, logging)
  <2>1. count[m] > 0 /\ count[m] + 1 <= Limit
    BY <1>4, <1>9 DEF First, OverLimit
  <2>2. QED
    BY <1>1, <1>2, <1>3, <1>5, <1>6, <1>9, <2>1, IncrStep
<1>10. QED
  BY <1>3, <1>7, <1>8, <1>9

LEMMA IncrAnswerLostStep ==
  ASSUME IInv, NEW p \in Requests, IncrAnswerLost(p)
  PROVE  IInv'
<1>1. /\ TypeOK /\ req[p].pc = "counting" /\ req[p].month \in Months
      /\ UNCHANGED <<clock, expiry, log, attempts, granted>>
      /\ req[p].id \in Attempt /\ clock \in Time
      /\ unset \in SUBSET Months /\ faults' \in 0..MaxFaults
  BY RequestShape, FaultTyped, Typed DEF IInv, IncrAnswerLost, HistoryTyped
<1>2. PICK m \in Months : m = req[p].month
  BY <1>1
<1> DEFINE g == [id |-> req[p].id, month |-> m, at |-> clock, life |-> life'[m]]
<1>3. Count(m) /\ Goto(p, NoRequest) /\ unset' = unset \cup {x \in {m} : count[m] = 0}
  BY <1>2 DEF IncrAnswerLost, Finish
<1>4. count[m] \in Nat
  BY <1>1, CounterTypes
<1>5. g \in Grant /\ g.month = m /\ g.at = clock /\ g.life = life'[m]
  BY <1>1, <1>2, <1>3, LifeTyped DEF Grant
<1> HIDE DEF g
<1>6. unset \subseteq unset' /\ unset' \in SUBSET Months /\ (count[m] > 0 \/ m \in unset')
  BY <1>1, <1>3, <1>4
<1>7. QED
  BY <1>1, <1>2, <1>3, <1>5, <1>6, IdleState, IncrStep

-----------------------------------------------------------------------------
(***************************************************************************)
(* The clock.  The key that it drops outlived all but the last second of   *)
(* its month.                                                              *)
(***************************************************************************)
LEMMA TickStep ==
  ASSUME IInv, Tick
  PROVE  IInv'
<1>1. /\ TypeOK /\ clock \in Nat /\ clock' = clock + 1 /\ clock' \in Time
      /\ UNCHANGED <<log, req, attempts, life, granted, unset, faults>>
  BY Typed, Lengths DEF IInv, Tick, Time
<1>2. ASSUME NEW m \in Months
      PROVE  /\ Due(m) => count'[m] = 0 /\ expiry'[m] = Never
             /\ ~Due(m) => count'[m] = count[m] /\ expiry'[m] = expiry[m]
             /\ count[m] \in 0..MaxAttempts /\ count[m] \in Nat /\ life[m] \in Nat
             /\ expiry[m] \in Nat \/ expiry[m] = Never
             /\ LastSecond(m) \in Int
  BY <1>1, Typed, CounterTypes, LastSecondTyped DEF Tick, CountersTyped
<1>3. CountersTyped'
  <2>1. count' = [m \in Months |-> IF Due(m) THEN 0 ELSE count[m]]
    BY DEF Tick
  <2>2. \A m \in Months : (IF Due(m) THEN 0 ELSE count[m]) \in 0..MaxAttempts
    BY <1>2, Lengths
  <2>3. QED
    BY <1>1, <2>1, <2>2, Typed DEF CountersTyped
<1>4. ExpiryTyped'
  <2>1. expiry' = [m \in Months |-> IF Due(m) THEN Never ELSE expiry[m]]
    BY DEF Tick
  <2>2. expiry' \in [Months -> Nat \cup {Never}]
    BY <1>2, <2>1
  <2>3. ASSUME NEW m \in Months
        PROVE  expiry'[m] = Never \/ (expiry'[m] > clock' /\ count'[m] > 0)
    <3>1. expiry[m] = Never \/ (expiry[m] > clock /\ count[m] > 0)
      BY <1>1, Typed DEF ExpiryTyped
    <3>2. QED
      BY <1>1, <1>2, <3>1 DEF Due
  <2>4. QED
    BY <2>2, <2>3 DEF ExpiryTyped
<1>5. RequestsTyped' /\ HistoryTyped' /\ log' \in SUBSET LogRow
  BY <1>1, Typed DEF RequestsTyped, HistoryTyped, RequestState, NoRequest
<1>6. TypeOK'
  BY <1>1, <1>3, <1>4, <1>5, TypedNext
<1>7. AttemptsCover'
  <2>1. Waiting' = Waiting
    BY <1>1 DEF Waiting
  <2>2. IsFiniteSet(Waiting) /\ Cardinality(Waiting) \in Nat /\ attempts \in Nat
    BY <1>1, FS_CardinalityType, Typed, Lengths DEF IInv, AttemptsCover, HistoryTyped
  <2>3. ASSUME NEW m \in Months
        PROVE  /\ count'[m] + Cardinality(Waiting) <= attempts
               /\ life[m] + Cardinality(Waiting) <= attempts
    <3>1. /\ count[m] + Cardinality(Waiting) <= attempts
          /\ life[m] + Cardinality(Waiting) <= attempts
      BY DEF IInv, AttemptsCover
    <3>2. count'[m] \in Nat /\ count'[m] <= count[m]
      BY <1>2
    <3>3. QED
      BY <1>2, <2>2, <3>1, <3>2
  <2>4. QED
    BY <1>1, <2>1, <2>2, <2>3 DEF AttemptsCover
<1>8. Reservations' = Reservations
  BY <1>1 DEF Reservations, Pending
<1>9. ASSUME NEW m \in Months PROVE CounterInv(m)'
  <2>1. Current(m)' = Current(m)
    BY <1>1, <1>8 DEF Current
  <2>2. CounterInv(m)
    BY DEF IInv
  <2>3. QED
    BY <1>1, <1>2, <2>1, <2>2 DEF CounterInv
<1>10. ASSUME NEW m \in Months PROVE LifeInv(m)'
  <2>1. Early(m)' = Early(m)
    BY <1>8 DEF Early, LastSecond
  <2>2. LifeInv(m)
    BY DEF IInv
  <2>3. expiry'[m] # Never => expiry'[m] > LastSecond(m)
    BY <1>2, <2>2 DEF LifeInv
  <2>4. clock' < LastSecond(m) => life[m] = IF count'[m] > 0 THEN 1 ELSE 0
    <3> SUFFICES ASSUME clock' < LastSecond(m)
                 PROVE  life[m] = IF count'[m] > 0 THEN 1 ELSE 0
      OBVIOUS
    <3>1. ~Due(m)
      <4>1. ASSUME Due(m) PROVE FALSE
        <5>1. expiry[m] = clock + 1 /\ expiry[m] # Never
          BY <1>1, <4>1 DEF Due, Never
        <5>2. expiry[m] > LastSecond(m)
          BY <2>2, <5>1 DEF LifeInv
        <5>3. QED
          BY <1>1, <1>2, <5>1, <5>2
      <4>2. QED
        BY <4>1
    <3>2. clock < LastSecond(m)
      BY <1>1, <1>2
    <3>3. QED
      BY <1>2, <2>2, <3>1, <3>2 DEF LifeInv
  <2>5. QED
    BY <1>1, <2>1, <2>2, <2>3, <2>4 DEF LifeInv, LastSecond
<1>11. ASSUME NEW g \in Reservations PROVE ReservationInv(g)'
  <2>1. g \in Grant /\ ReservationInv(g)
    BY <1>1, ReservationsTyped DEF IInv
  <2>2. g.at \in Nat
    BY <2>1, GrantShape
  <2>3. g.at <= clock'
    BY <1>1, <2>1, <2>2 DEF ReservationInv
  <2>4. QED
    BY <1>1, <2>1, <2>3 DEF ReservationInv, LastSecond
<1>12. ASSUME NEW q \in Requests, req[q].pc = "counting"
       PROVE  req[q].month <= Month(clock')
  <2>1. req[q].month \in Nat /\ req[q].month <= Month(clock)
    BY <1>1, <1>12, RequestShape, MonthTyped DEF IInv
  <2>2. /\ clock' \in Nat /\ Month(clock) \in Nat /\ Month(clock') \in Nat
        /\ Month(clock) <= Month(clock')
    BY <1>1, MonthBounds, MonthMonotone
  <2>3. QED
    BY <2>1, <2>2
<1>13. ExpiryFollows'
  <2> SUFFICES ASSUME NEW m \in Months, count'[m] > 0, expiry'[m] = Never
               PROVE  \/ m \in unset
                      \/ \E q \in Requests : req[q].pc = "expiring" /\ req[q].grant.month = m
    BY <1>1 DEF ExpiryFollows
  <2>1. count[m] > 0 /\ expiry[m] = Never
    BY <1>2
  <2>2. QED
    BY <2>1 DEF IInv, ExpiryFollows
<1>14. QED
  BY <1>1, <1>6, <1>7, <1>8, <1>9, <1>10, <1>11, <1>12, <1>13 DEF IInv

-----------------------------------------------------------------------------
LEMMA Inductive == IInv /\ [Next]_vars => IInv'
<1> SUFFICES ASSUME IInv, [Next]_vars PROVE IInv'
  OBVIOUS
<1>1. CASE \E p \in Requests : Handler(p)
  <2>1. PICK p \in Requests : Handler(p)
    BY <1>1
  <2>2. CASE Begin(p)
    BY <2>2, BeginStep
  <2>3. CASE Incr(p)
    BY <2>3, IncrAnyStep
  <2>4. CASE SetExpiry(p)
    BY <2>4, SetExpiryStep
  <2>5. CASE LogAttempt(p)
    BY <2>5, LogAttemptStep
  <2>6. CASE \E status \in {"succeeded", "failed"} : MarkOutcome(p, status)
    BY <2>6, MarkOutcomeStep
  <2>7. CASE IncrAnswerLost(p)
    BY <2>7, IncrAnswerLostStep
  <2>8. CASE ExpireAnswerLost(p)
    BY <2>8, ExpireAnswerLostStep
  <2>9. CASE Crash(p)
    BY <2>9, CrashStep
  <2>10. QED
    BY <2>1, <2>2, <2>3, <2>4, <2>5, <2>6, <2>7, <2>8, <2>9 DEF Handler
<1>2. CASE Tick
  BY <1>2, TickStep
<1>3. CASE UNCHANGED vars
  <2>1. UNCHANGED <<clock, count, expiry, log, req, attempts, life, granted, unset, faults>>
    BY <1>3 DEF vars
  <2>2. /\ Reservations' = Reservations /\ Waiting' = Waiting
        /\ \A m \in Months : Current(m)' = Current(m) /\ Early(m)' = Early(m)
    BY <2>1 DEF Reservations, Pending, Waiting, Current, Early, LastSecond
  <2>3. TypeOK' /\ ExpiryFollows' /\ AttemptsCover'
    BY <2>1, <2>2 DEF IInv, TypeOK, ExpiryFollows, AttemptsCover
  <2>4. \A m \in Months : CounterInv(m)' /\ LifeInv(m)'
    BY <2>1, <2>2 DEF IInv, CounterInv, LifeInv, LastSecond
  <2>5. \A g \in Reservations' : ReservationInv(g)'
    BY <2>1, <2>2 DEF IInv, ReservationInv, LastSecond
  <2>6. QED
    BY <2>1, <2>3, <2>4, <2>5 DEF IInv
<1>4. QED
  BY <1>1, <1>2, <1>3 DEF Next

LEMMA Invariance == Spec => []IInv
<1>1. QED
  BY InitIInv, Inductive, PTL DEF Spec

(***************************************************************************)
(* Every variable keeps its type; a key has a time to live only while it   *)
(* exists.                                                                 *)
(***************************************************************************)
THEOREM TypeCorrect == Spec => []TypeOK
<1>1. IInv => TypeOK
  BY DEF IInv
<1>2. QED
  BY <1>1, Invariance, PTL

(***************************************************************************)
(* The cap of check_and_reserve holds up to the last second of the month:  *)
(* what is granted before was counted by the first life of the key.        *)
(***************************************************************************)
THEOREM CapUntilLastSecondHolds == Spec => []CapUntilLastSecond
<1>1. IInv => CapUntilLastSecond
  <2> SUFFICES ASSUME IInv, NEW m \in Months
               PROVE  Cardinality({g \in GrantedIn(m) :
                                     g.at < (m + 1) * MonthLength - TicksPerSecond}) <= Limit
    BY DEF CapUntilLastSecond
  <2> DEFINE S == {g \in GrantedIn(m) : g.at < (m + 1) * MonthLength - TicksPerSecond}
  <2>1. S \subseteq Early(m)
    BY DEF GrantedIn, Early, Reservations, LastSecond
  <2>2. IsFiniteSet(Early(m)) /\ Cardinality(Early(m)) <= Limit
    BY DEF IInv, LifeInv
  <2> HIDE DEF S
  <2>3. IsFiniteSet(S) /\ Cardinality(S) <= Cardinality(Early(m))
    BY <2>1, <2>2, FS_Subset
  <2>4. Cardinality(S) <= Limit
    BY <2>2, <2>3, Lengths, FS_CardinalityType
  <2>5. QED
    BY <2>4 DEF S
<1>2. QED
  BY <1>1, Invariance, PTL

(***************************************************************************)
(* No step, the failure of a generation included, makes the live counter   *)
(* smaller than the number of reservations it has let through.             *)
(***************************************************************************)
THEOREM CounterCoversGrantsHolds == Spec => []CounterCoversGrants
<1>1. IInv => CounterCoversGrants
  <2> SUFFICES ASSUME IInv, NEW m \in Months, count[m] > 0
               PROVE  Cardinality({g \in GrantedIn(m) : g.life = life[m]}) <= count[m]
    BY DEF CounterCoversGrants
  <2> DEFINE S == {g \in GrantedIn(m) : g.life = life[m]}
  <2>1. S \subseteq Current(m)
    BY DEF GrantedIn, Current, Reservations
  <2>2. IsFiniteSet(Current(m)) /\ Cardinality(Current(m)) <= count[m]
    BY DEF IInv, CounterInv
  <2>3. count[m] \in Nat
    BY CounterTypes DEF IInv
  <2> HIDE DEF S
  <2>4. IsFiniteSet(S) /\ Cardinality(S) <= Cardinality(Current(m))
    BY <2>1, <2>2, FS_Subset
  <2>5. Cardinality(S) <= count[m]
    BY <2>2, <2>3, <2>4, FS_CardinalityType
  <2>6. QED
    BY <2>5 DEF S
<1>2. QED
  BY <1>1, Invariance, PTL

(***************************************************************************)
(* A key that lives without an expiry is one whose creator still has       *)
(* EXPIRE to call, or was stopped by an error on record.                   *)
(***************************************************************************)
THEOREM ExpiryFollowsHolds == Spec => []ExpiryFollows
<1>1. IInv => ExpiryFollows
  BY DEF IInv
<1>2. QED
  BY <1>1, Invariance, PTL
=============================================================================
