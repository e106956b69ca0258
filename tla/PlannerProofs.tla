---------------------------- MODULE PlannerProofs ----------------------------
(***************************************************************************)
(* Proofs about Planner and about the solvers it calls, for any number of  *)
(* calls and any timetable.  Of Planner: the conflict push and the         *)
(* wholeness of the stores for any answer of the solvers, and, from what   *)
(* the study solver computes, that the blocks of the plan do not overlap.  *)
(* Of Solvers: that the plan, the replacement, the life schedule and the   *)
(* reminders are what they are to be, for every input.                     *)
(***************************************************************************)
EXTENDS Planner, Solvers, TLAPS, FiniteSetTheorems, WellFoundedInduction

-----------------------------------------------------------------------------
(***************************************************************************)
(* Induction over a range of numbers, and the functions that the loops of  *)
(* the solver are written as: a recursive function over 0..n exists and    *)
(* takes the values that its body says.                                    *)
(***************************************************************************)
LEMMA LeastNat ==
  ASSUME NEW T \in SUBSET Nat, T # {}
  PROVE  \E x \in T : \A y \in T : x <= y
<1> DEFINE R == {ss \in Nat \X Nat : ss[1] < ss[2]}
<1>1. IsWellFoundedOn(R, Nat)
  BY NatLessThanWellFounded DEF OpToRel
<1> HIDE DEF R
<1>2. PICK x \in T : \A y \in T : ~(<<y, x>> \in R)
  BY <1>1, WFMin
<1>3. \A y \in T : ~(y < x)
  BY <1>2 DEF R
<1>4. QED
  BY <1>3

LEMMA UpTo ==
  ASSUME NEW n \in Nat, NEW K, 0 \in K, \A k \in 1..n : k - 1 \in K => k \in K
  PROVE  \A k \in 0..n : k \in K
<1> DEFINE T == {k \in 0..n : k \notin K}
<1> SUFFICES ASSUME T # {} PROVE FALSE
  OBVIOUS
<1>1. T \in SUBSET Nat
  OBVIOUS
<1> HIDE DEF T
<1>2. PICK x \in T : \A y \in T : x <= y
  BY <1>1, LeastNat
<1>3. x \in 0..n /\ x \notin K /\ x # 0
  BY DEF T
<1>4. x - 1 \in 0..n /\ x - 1 \notin T
  BY <1>2, <1>3
<1>5. QED
  BY <1>3, <1>4 DEF T

\* step takes a place k of the loop and a value of S to a value of S.
Closed(n, S, step) == \A k \in 1..n : \A v \in S : step[<<k, v>>] \in S

\* f begins at base and goes on as step says.
Follows(n, S, base, step, f) ==
  /\ f \in [0..n -> S]
  /\ f[0] = base
  /\ \A k \in 1..n : f[k] = step[<<k, f[k - 1]>>]

LEMMA Recursion ==
  ASSUME NEW n \in Nat, NEW S, NEW base \in S, NEW step, Closed(n, S, step)
  PROVE  \E f : Follows(n, S, base, step, f)
<1> DEFINE Upto(f, m) == f[0] = base /\ \A k \in 1..m : f[k] = step[<<k, f[k - 1]>>]
<1> DEFINE K == {m \in 0..n : \E f \in [0..m -> S] : Upto(f, m)}
<1>1. 0 \in K
  <2>1. PICK f : f = [k \in 0..0 |-> base]
    OBVIOUS
  <2>2. f \in [0..0 -> S] /\ Upto(f, 0)
    BY <2>1
  <2>3. QED
    BY <2>2
<1>2. ASSUME NEW m \in 1..n, m - 1 \in K PROVE m \in K
  <2>1. PICK g \in [0..(m - 1) -> S] : Upto(g, m - 1)
    BY <1>2
  <2>2. PICK next : next = step[<<m, g[m - 1]>>]
    OBVIOUS
  <2>3. g[m - 1] \in S /\ next \in S
    BY <2>2 DEF Closed
  <2>4. PICK f : f = [k \in 0..m |-> IF k = m THEN next ELSE g[k]]
    OBVIOUS
  <2>5. f \in [0..m -> S]
    BY <2>3, <2>4
  <2>6. f[m] = next /\ \A k \in 0..(m - 1) : f[k] = g[k]
    BY <2>4
  <2>7. f[0] = base
    BY <2>1, <2>6
  <2>8. ASSUME NEW k \in 1..m PROVE f[k] = step[<<k, f[k - 1]>>]
    <3>1. CASE k = m
      BY <2>2, <2>6, <3>1
    <3>2. CASE k # m
      <4>1. k \in 1..(m - 1) /\ k \in 0..(m - 1) /\ k - 1 \in 0..(m - 1)
        BY <3>2
      <4>2. g[k] = step[<<k, g[k - 1]>>]
        BY <2>1, <4>1
      <4>3. QED
        BY <2>6, <4>1, <4>2
    <3>3. QED
      BY <3>1, <3>2
  <2>9. Upto(f, m)
    BY <2>7, <2>8
  <2>10. m \in 0..n
    OBVIOUS
  <2> HIDE DEF Upto
  <2>11. QED
    BY <2>5, <2>9, <2>10
<1> HIDE DEF K
<1>3. \A m \in 0..n : m \in K
  BY <1>1, <1>2, UpTo
<1>4. n \in K
  BY <1>3
<1>5. QED
  BY <1>4 DEF K, Follows

-----------------------------------------------------------------------------
(***************************************************************************)
(* free_intervals_for_day. The invariant of the sweep: every gap that was  *)
(* kept lies in the window, is long enough, ends where the cursor is or    *)
(* before it, and shares no time with any busy interval of the day, those  *)
(* that the sweep has still to pass included.                              *)
(***************************************************************************)
Gap == [start : Int, end : Int]
SweepState == [cursor : Int, free : Seq(Gap)]

LEMMA SweepSteps ==
  ASSUME NEW n \in Nat, NEW busy \in [1..n -> [day : Int, start : Int, end : Int]]
  PROVE  /\ Sweep(busy)[0] = [cursor |-> StudyStart, free |-> <<>>]
         /\ \A k \in 1..n : Sweep(busy)[k] = PassBusy(Sweep(busy)[k - 1], busy[k])
<1> DEFINE base == [cursor |-> StudyStart, free |-> <<>>]
<1> DEFINE step == [p \in (1..n) \X SweepState |-> PassBusy(p[2], busy[p[1]])]
<1>1. Len(busy) = n
  OBVIOUS
<1>2. base \in SweepState
  BY StudyAssumption DEF SweepState
<1>3. ASSUME NEW s \in SweepState, NEW b \in [day : Int, start : Int, end : Int]
      PROVE  PassBusy(s, b) \in SweepState
  <2>1. s.cursor \in Int /\ s.free \in Seq(Gap) /\ b.start \in Int /\ b.end \in Int
    BY DEF SweepState
  <2>2. PICK gap : gap = [start |-> s.cursor, end |-> Least(b.start, StudyEnd)]
    OBVIOUS
  <2>3. gap \in Gap
    BY <2>1, <2>2, StudyAssumption DEF Gap, Least
  <2>4. Keep(s.free, gap) \in Seq(Gap)
    BY <2>1, <2>3 DEF Keep
  <2>5. Greatest(s.cursor, b.end) \in Int
    BY <2>1 DEF Greatest
  <2>6. QED
    BY <2>1, <2>2, <2>4, <2>5 DEF PassBusy, SweepState
<1>4. Closed(n, SweepState, step)
  BY <1>3 DEF Closed
<1>5. PICK f : Follows(n, SweepState, base, step, f)
  <2> HIDE DEF base, step
  <2>1. QED
    BY <1>2, <1>4, Recursion
<1>6. ASSUME NEW k \in 1..n PROVE f[k] = PassBusy(f[k - 1], busy[k])
  <2>1. f[k - 1] \in SweepState /\ f[k] = step[<<k, f[k - 1]>>]
    <3> HIDE DEF base, step
    <3>1. k - 1 \in 0..n
      OBVIOUS
    <3>2. QED
      BY <1>5, <3>1 DEF Follows
  <2>2. QED
    BY <2>1
<1> HIDE DEF base, step
<1>7. \A k \in 0..n : f[k] = IF k = 0 THEN base ELSE PassBusy(f[k - 1], busy[k])
  BY <1>5, <1>6 DEF Follows
<1>8. f = [k \in 0..n |-> IF k = 0 THEN base ELSE PassBusy(f[k - 1], busy[k])]
  BY <1>5, <1>7 DEF Follows
<1>9. Sweep(busy) = [k \in 0..n |-> IF k = 0 THEN base ELSE PassBusy(Sweep(busy)[k - 1], busy[k])]
  BY <1>1, <1>8 DEF Sweep, base
<1>10. ASSUME NEW k \in 1..n PROVE Sweep(busy)[k] = PassBusy(Sweep(busy)[k - 1], busy[k])
  BY <1>9
<1>11. QED
  BY <1>9, <1>10 DEF base

Avoids(f, b) == f.end <= b.start \/ b.end <= f.start

InStudyWindow(f) == StudyStart <= f.start /\ f.end <= StudyEnd /\ f.end - f.start >= MinBlock

FreeSound(free, B, cursor) ==
  /\ free \in Seq(Gap)
  /\ \A i \in DOMAIN free :
       InStudyWindow(free[i]) /\ free[i].end <= cursor /\ \A b \in B : Avoids(free[i], b)
  /\ \A i, j \in DOMAIN free : i < j => free[i].end <= free[j].start

LEMMA SoundUpTo ==
  ASSUME NEW B, NEW c \in Int, NEW d \in Int, c <= d, NEW free, FreeSound(free, B, c)
  PROVE  FreeSound(free, B, d)
<1>1. \A i \in DOMAIN free : free[i] \in Gap /\ free[i].end <= c
  BY DEF FreeSound
<1>2. \A i \in DOMAIN free : free[i].end <= d
  BY <1>1 DEF Gap
<1>3. QED
  BY <1>2 DEF FreeSound

LEMMA NoneSound == ASSUME NEW B, NEW c PROVE FreeSound(<<>>, B, c)
<1>1. DOMAIN <<>> = {} /\ <<>> \in Seq(Gap)
  OBVIOUS
<1>2. QED
  BY <1>1 DEF FreeSound

LEMMA KeepSound ==
  ASSUME NEW B, NEW c \in Int, NEW d \in Int, c <= d, StudyStart <= c,
         NEW free, FreeSound(free, B, c),
         NEW gap \in Gap, gap.start = c, gap.end <= StudyEnd, gap.end <= d,
         \A b \in B : Avoids(gap, b)
  PROVE  FreeSound(Keep(free, gap), B, d)
<1>1. free \in Seq(Gap) /\ \A i \in DOMAIN free : free[i] \in Gap
  BY DEF FreeSound
<1>2. \A i \in DOMAIN free : free[i].end <= d
  BY <1>1 DEF FreeSound, Gap
<1>3. CASE ~(gap.end - gap.start >= MinBlock)
  BY <1>1, <1>2, <1>3 DEF Keep, FreeSound
<1>4. CASE gap.end - gap.start >= MinBlock
  <2> DEFINE new == Append(free, gap)
  <2>1. /\ new \in Seq(Gap) /\ DOMAIN free = 1..Len(free) /\ Len(free) \in Nat
        /\ DOMAIN new = 1..(Len(free) + 1)
        /\ \A i \in 1..Len(free) : new[i] = free[i]
        /\ new[Len(free) + 1] = gap
    BY <1>1
  <2> HIDE DEF new
  <2>2. \A i \in DOMAIN new : i \in DOMAIN free \/ i = Len(free) + 1
    BY <2>1
  <2>3. InStudyWindow(gap)
    BY <1>4 DEF InStudyWindow
  <2>4. ASSUME NEW i \in DOMAIN new
        PROVE  InStudyWindow(new[i]) /\ new[i].end <= d /\ \A b \in B : Avoids(new[i], b)
    BY <1>2, <2>1, <2>2, <2>3 DEF FreeSound
  <2>5. ASSUME NEW i \in DOMAIN new, NEW j \in DOMAIN new, i < j
        PROVE  new[i].end <= new[j].start
    BY <2>1, <2>2, <2>5 DEF FreeSound
  <2>6. FreeSound(new, B, d)
    BY <2>1, <2>4, <2>5 DEF FreeSound
  <2>7. QED
    BY <1>4, <2>6 DEF Keep, new
<1>5. QED
  BY <1>3, <1>4

LEMMA SweepSound ==
  ASSUME NEW n \in Nat, NEW B, Forward(B), NEW busy \in [1..n -> B],
         \A b \in B : \E j \in 1..n : b = busy[j],
         \A i, j \in 1..n : i < j => busy[i].start <= busy[j].start
  PROVE  \A k \in 0..n :
           LET s == Sweep(busy)[k] IN
           /\ s.cursor \in Int /\ StudyStart <= s.cursor
           /\ FreeSound(s.free, B, s.cursor)
           /\ \A j \in 1..k : busy[j].end <= s.cursor
<1> DEFINE s(k) == Sweep(busy)[k]
<1> DEFINE I(k) == /\ s(k).cursor \in Int /\ StudyStart <= s(k).cursor
                   /\ FreeSound(s(k).free, B, s(k).cursor)
                   /\ \A j \in 1..k : busy[j].end <= s(k).cursor
<1> DEFINE K == {k \in 0..n : I(k)}
<1>1. busy \in [1..n -> Intervals] /\ \A j \in 1..n : busy[j] \in Intervals
  BY DEF Forward
<1>2. s(0) = [cursor |-> StudyStart, free |-> <<>>]
      /\ \A k \in 1..n : s(k) = PassBusy(s(k - 1), busy[k])
  BY <1>1, SweepSteps DEF Intervals
<1>3. StudyStart \in Int /\ StudyEnd \in Int
  BY StudyAssumption
<1> HIDE DEF s
<1>4. I(0)
  <2>1. s(0).cursor = StudyStart /\ s(0).free = <<>>
    BY <1>2
  <2>2. FreeSound(s(0).free, B, s(0).cursor)
    BY <2>1, NoneSound
  <2>3. QED
    BY <1>3, <2>1, <2>2
<1>5. ASSUME NEW k \in 1..n, I(k - 1) PROVE I(k)
  <2>1. PICK p, b : p = s(k - 1) /\ b = busy[k]
    OBVIOUS
  <2>2. /\ p.cursor \in Int /\ StudyStart <= p.cursor /\ FreeSound(p.free, B, p.cursor)
        /\ \A j \in 1..(k - 1) : busy[j].end <= p.cursor
    BY <1>5, <2>1
  <2>3. b.start \in Int /\ b.end \in Int /\ b.start < b.end /\ b \in B
    BY <1>1, <2>1 DEF Forward, Intervals
  <2>4. PICK c : c = Greatest(p.cursor, b.end)
    OBVIOUS
  <2>5. c \in Int /\ p.cursor <= c /\ b.end <= c
    BY <2>2, <2>3, <2>4 DEF Greatest
  <2>6. PICK gap : gap = [start |-> p.cursor, end |-> Least(b.start, StudyEnd)]
    OBVIOUS
  <2>7. gap \in Gap /\ gap.start = p.cursor /\ gap.end <= b.start /\ gap.end <= StudyEnd
        /\ gap.end <= c
    BY <1>3, <2>2, <2>3, <2>5, <2>6 DEF Gap, Least
  <2>8. ASSUME NEW a \in B PROVE Avoids(gap, a)
    <3>1. PICK j \in 1..n : a = busy[j]
      OBVIOUS
    <3>2. CASE j < k
      <4>1. a.end <= gap.start
        BY <2>2, <2>7, <3>1, <3>2
      <4>2. QED
        BY <4>1 DEF Avoids
    <3>3. CASE j >= k
      <4>1. a.start \in Int /\ gap.end \in Int
        BY <1>1, <2>7, <3>1 DEF Intervals, Gap
      <4>2. b.start <= a.start
        BY <2>1, <2>3, <3>1, <3>3
      <4>3. gap.end <= a.start
        BY <2>3, <2>7, <4>1, <4>2
      <4>4. QED
        BY <4>3 DEF Avoids
    <3>4. QED
      BY <3>2, <3>3
  <2>9. s(k) = [cursor |-> c,
                free |-> IF b.start > p.cursor THEN Keep(p.free, gap) ELSE p.free]
    BY <1>2, <2>1, <2>4, <2>6 DEF PassBusy
  <2>10. FreeSound(Keep(p.free, gap), B, c)
    BY <2>2, <2>5, <2>7, <2>8, KeepSound
  <2>11. FreeSound(p.free, B, c)
    BY <2>2, <2>5, SoundUpTo
  <2>12. FreeSound(s(k).free, B, c) /\ s(k).cursor = c
    BY <2>9, <2>10, <2>11
  <2>13. \A j \in 1..k : busy[j].end <= c
    <3>1. SUFFICES ASSUME NEW j \in 1..k, j # k PROVE busy[j].end <= c
      BY <2>1, <2>5
    <3>2. busy[j].end <= p.cursor /\ busy[j].end \in Int
      BY <1>1, <2>2, <3>1 DEF Intervals
    <3>3. QED
      BY <2>2, <2>5, <3>2
  <2>14. QED
    BY <2>2, <2>5, <2>12, <2>13, <1>3
<1> HIDE DEF I
<1>6. \A k \in 0..n : k \in K
  <2>1. 0 \in K
    BY <1>4
  <2>2. \A k \in 1..n : k - 1 \in K => k \in K
    BY <1>5
  <2> HIDE DEF K
  <2>3. QED
    BY <2>1, <2>2, UpTo
<1>7. QED
  BY <1>6 DEF I, s

Rising(s) == \A i, j \in DOMAIN s : i < j => s[i].start <= s[j].start

\* R puts any two elements of S in an order, and that order is transitive.
Arranges(R, S) ==
  /\ \A x, y \in S : x = y \/ <<x, y>> \in R \/ <<y, x>> \in R
  /\ \A x, y, z \in S : <<x, y>> \in R /\ <<y, z>> \in R => <<x, z>> \in R

Arranged(s, R) == \A i, j \in DOMAIN s : i < j => <<s[i], s[j]>> \in R

LEMMA LastExists ==
  ASSUME NEW S, IsFiniteSet(S), NEW R, Arranges(R, S), S # {}
  PROVE  \E x \in S : \A y \in S : y = x \/ <<y, x>> \in R
<1> DEFINE Has(T) == \E x \in T : \A y \in T : y = x \/ <<y, x>> \in R
<1> DEFINE K == {k \in 0..Cardinality(S) :
                   \A T \in SUBSET S : Cardinality(T) = k /\ T # {} => Has(T)}
<1>1. Cardinality(S) \in Nat
  BY FS_CardinalityType
<1>2. \A T \in SUBSET S : IsFiniteSet(T) /\ Cardinality(T) \in Nat
  BY FS_Subset, FS_CardinalityType
<1>3. 0 \in K
  <2>1. \A T \in SUBSET S : Cardinality(T) = 0 => T = {}
    BY <1>2, FS_EmptySet
  <2>2. QED
    BY <1>1, <2>1
<1>4. ASSUME NEW k \in 1..Cardinality(S), k - 1 \in K PROVE k \in K
  <2>1. SUFFICES ASSUME NEW T \in SUBSET S, Cardinality(T) = k, T # {} PROVE Has(T)
    BY <1>1
  <2>2. PICK z \in T : TRUE
    BY <2>1
  <2>3. PICK U : U = T \ {z}
    OBVIOUS
  <2>4. U \in SUBSET S /\ Cardinality(U) = k - 1
    BY <1>2, <2>1, <2>3, FS_RemoveElement
  <2>5. CASE U = {}
    BY <2>3, <2>5
  <2>6. CASE U # {}
    <3>1. PICK x \in U : \A y \in U : y = x \/ <<y, x>> \in R
      BY <1>4, <2>4, <2>6
    <3>2. x \in T /\ x \in S /\ z \in S /\ x # z
      BY <2>3
    <3>3. \A y \in T : y = z \/ y \in U
      BY <2>3
    <3>4. CASE <<z, x>> \in R
      BY <3>1, <3>2, <3>3, <3>4
    <3>5. CASE <<x, z>> \in R
      <4>1. \A y \in U : <<y, z>> \in R
        BY <2>4, <3>1, <3>2, <3>5 DEF Arranges
      <4>2. QED
        BY <3>3, <4>1
    <3>6. QED
      BY <3>2, <3>4, <3>5 DEF Arranges
  <2>7. QED
    BY <2>5, <2>6
<1> HIDE DEF K
<1>5. \A k \in 0..Cardinality(S) : k \in K
  BY <1>1, <1>3, <1>4, UpTo
<1>6. Cardinality(S) \in K
  BY <1>1, <1>5
<1>7. Has(S)
  BY <1>6 DEF K
<1>8. QED
  BY <1>7

LEMMA OrderExists ==
  ASSUME NEW S, IsFiniteSet(S), NEW R, Arranges(R, S)
  PROVE  \E s \in SetToSeqs(S) : Arranged(s, R)
<1> DEFINE Has(T) == \E s \in SetToSeqs(T) : Arranged(s, R)
<1> DEFINE K == {k \in 0..Cardinality(S) : \A T \in SUBSET S : Cardinality(T) = k => Has(T)}
<1>1. Cardinality(S) \in Nat
  BY FS_CardinalityType
<1>2. \A T \in SUBSET S : IsFiniteSet(T) /\ Cardinality(T) \in Nat
  BY FS_Subset, FS_CardinalityType
<1>3. 0 \in K
  <2>1. SUFFICES ASSUME NEW T \in SUBSET S, Cardinality(T) = 0 PROVE Has(T)
    BY <1>1
  <2>2. PICK s : s = [i \in 1..0 |-> i]
    OBVIOUS
  <2>3. s \in SetToSeqs(T)
    BY <2>1, <2>2 DEF SetToSeqs
  <2>4. Arranged(s, R)
    BY <2>2 DEF Arranged
  <2>5. QED
    BY <2>3, <2>4
<1>4. ASSUME NEW k \in 1..Cardinality(S), k - 1 \in K PROVE k \in K
  <2>1. SUFFICES ASSUME NEW T \in SUBSET S, Cardinality(T) = k PROVE Has(T)
    BY <1>1
  <2>2. T # {} /\ IsFiniteSet(T) /\ Arranges(R, T)
    <3>1. T # {} /\ IsFiniteSet(T)
      BY <1>2, <2>1, FS_EmptySet
    <3>2. Arranges(R, T)
      BY DEF Arranges
    <3>3. QED
      BY <3>1, <3>2
  <2>3. PICK x \in T : \A y \in T : y = x \/ <<y, x>> \in R
    BY <2>2, LastExists
  <2>4. PICK U : U = T \ {x}
    OBVIOUS
  <2>5. U \in SUBSET S /\ Cardinality(U) = k - 1
    BY <1>2, <2>1, <2>4, FS_RemoveElement
  <2>6. PICK r \in SetToSeqs(U) : Arranged(r, R)
    BY <1>4, <2>5
  <2>7. r \in [1..(k - 1) -> U] /\ \A i, j \in 1..(k - 1) : i # j => r[i] # r[j]
    BY <2>5, <2>6 DEF SetToSeqs
  <2>8. PICK s : s = [i \in 1..k |-> IF i = k THEN x ELSE r[i]]
    OBVIOUS
  <2>9. s[k] = x /\ \A i \in 1..k : i # k => i \in 1..(k - 1) /\ s[i] = r[i] /\ s[i] \in U
    BY <2>7, <2>8
  <2>10. s \in [1..k -> T]
    BY <2>4, <2>8, <2>9
  <2>11. \A i, j \in 1..k : i # j => s[i] # s[j]
    BY <2>4, <2>7, <2>9
  <2>12. s \in SetToSeqs(T)
    BY <2>1, <2>10, <2>11 DEF SetToSeqs
  <2>13. ASSUME NEW i \in 1..k, NEW j \in 1..k, i < j PROVE <<s[i], s[j]>> \in R
    <3>1. i # k /\ s[i] \in T /\ s[i] # x
      BY <2>4, <2>9, <2>13
    <3>2. CASE j = k
      BY <2>3, <2>9, <3>1, <3>2
    <3>3. CASE j # k
      BY <2>6, <2>7, <2>9, <2>13, <3>1, <3>3 DEF Arranged
    <3>4. QED
      BY <3>2, <3>3
  <2>14. Arranged(s, R)
    BY <2>10, <2>13 DEF Arranged
  <2>15. QED
    BY <2>12, <2>14
<1> HIDE DEF K
<1>5. \A k \in 0..Cardinality(S) : k \in K
  BY <1>1, <1>3, <1>4, UpTo
<1>6. Cardinality(S) \in K
  BY <1>1, <1>5
<1>7. Has(S)
  BY <1>6 DEF K
<1>8. QED
  BY <1>7

LEMMA SortExists ==
  ASSUME NEW S, IsFiniteSet(S), S \subseteq Intervals
  PROVE  \E s \in SetToSeqs(S) : Rising(s)
<1>1. PICK R : R = {p \in S \X S : p[1].start <= p[2].start}
  OBVIOUS
<1>2. \A x \in S : x.start \in Int
  BY DEF Intervals
<1>3. \A x, y \in S : <<x, y>> \in R <=> x.start <= y.start
  BY <1>1
<1>4. Arranges(R, S)
  BY <1>2, <1>3 DEF Arranges
<1>5. PICK s \in SetToSeqs(S) : Arranged(s, R)
  BY <1>4, OrderExists
<1>6. Rising(s)
  BY <1>1, <1>5 DEF Arranged, Rising
<1>7. QED
  BY <1>6

LEMMA ByStartSound ==
  ASSUME NEW S, IsFiniteSet(S), S \subseteq Intervals
  PROVE  /\ Cardinality(S) \in Nat
         /\ ByStart(S) \in [1..Cardinality(S) -> S]
         /\ \A x \in S : \E i \in 1..Cardinality(S) : x = ByStart(S)[i]
         /\ Rising(ByStart(S))
<1>1. ByStart(S) \in SetToSeqs(S) /\ Rising(ByStart(S))
  BY SortExists DEF ByStart, Rising
<1>2. PICK s, n : s = ByStart(S) /\ n = Cardinality(S)
  OBVIOUS
<1>3. n \in Nat /\ s \in [1..n -> S] /\ \A i, j \in 1..n : i # j => s[i] # s[j]
  BY <1>1, <1>2, FS_CardinalityType DEF SetToSeqs
<1>4. s \in Injection(1..n, S)
  BY <1>3 DEF Injection, IsInjective
<1>5. Cardinality(1..n) = n
  BY <1>3, FS_Interval
<1>6. s \in Surjection(1..n, S)
  BY <1>2, <1>4, <1>5, FS_Injection
<1>7. \A x \in S : \E i \in 1..n : x = s[i]
  BY <1>6 DEF Surjection
<1>8. QED
  BY <1>1, <1>2, <1>3, <1>7

LEMMA FreeIntervalsSound ==
  ASSUME NEW busy, IsFiniteSet(busy), Forward(busy), NEW day
  PROVE  \E c \in Int : FreeSound(FreeIntervals(day, busy), {b \in busy : b.day = day}, c)
<1>1. PICK B : B = {b \in busy : b.day = day}
  OBVIOUS
<1>2. IsFiniteSet(B) /\ Forward(B) /\ B \subseteq Intervals
  BY <1>1, FS_Subset DEF Forward
<1>3. PICK s, n : s = ByStart(B) /\ n = Cardinality(B)
  OBVIOUS
<1>4. /\ n \in Nat /\ s \in [1..n -> B] /\ Len(s) = n
      /\ \A x \in B : \E i \in 1..n : x = s[i]
      /\ \A i, j \in 1..n : i < j => s[i].start <= s[j].start
  BY <1>2, <1>3, ByStartSound DEF Rising
<1>5. PICK last : last = Sweep(s)[n]
  OBVIOUS
<1>6. /\ last.cursor \in Int /\ StudyStart <= last.cursor
      /\ FreeSound(last.free, B, last.cursor)
      /\ \A j \in 1..n : s[j].end <= last.cursor
  BY <1>2, <1>4, <1>5, SweepSound
<1>7. PICK gap : gap = [start |-> last.cursor, end |-> StudyEnd]
  OBVIOUS
<1>8. FreeIntervals(day, busy) =
        IF last.cursor < StudyEnd THEN Keep(last.free, gap) ELSE last.free
  BY <1>1, <1>3, <1>4, <1>5, <1>7 DEF FreeIntervals
<1>9. CASE last.cursor < StudyEnd
  <2>1. gap \in Gap /\ gap.start = last.cursor /\ gap.end = StudyEnd /\ StudyEnd \in Int
    BY <1>6, <1>7, StudyAssumption DEF Gap
  <2>2. \A b \in B : Avoids(gap, b)
    BY <1>4, <1>6, <2>1 DEF Avoids
  <2>3. FreeSound(Keep(last.free, gap), B, StudyEnd)
    BY <1>6, <1>9, <2>1, <2>2, KeepSound
  <2>4. QED
    BY <1>1, <1>8, <1>9, <2>1, <2>3
<1>10. CASE ~(last.cursor < StudyEnd)
  BY <1>1, <1>6, <1>8, <1>10
<1>11. QED
  BY <1>9, <1>10

-----------------------------------------------------------------------------
(***************************************************************************)
(* _split_into_blocks: what a gap is cut into lies within it, in order,    *)
(* and each piece has a length in range. The chunks of a day are those of  *)
(* its gaps, one gap after the other.                                      *)
(***************************************************************************)
LEMMA Times ==
  ASSUME NEW a \in Nat, NEW b \in Nat
  PROVE  /\ a * MaxBlock \in Nat
         /\ (a + 1) * MaxBlock = a * MaxBlock + MaxBlock
         /\ a <= b => a * MaxBlock <= b * MaxBlock
<1>1. MaxBlock \in Nat
  BY StudyAssumption
<1>2. PICK m \in Nat : m = MaxBlock
  BY <1>1
<1>3. a * m \in Nat /\ (a + 1) * m = a * m + m
  OBVIOUS
<1>4. ASSUME a <= b PROVE a * m <= b * m
  <2>1. PICK c \in Nat : b = a + c
    <3>1. b - a \in Nat /\ b = a + (b - a)
      BY <1>4
    <3>2. QED
      BY <3>1
  <2>2. b * m = a * m + c * m /\ c * m \in Nat /\ a * m \in Nat
    BY <2>1
  <2>3. QED
    BY <2>2
<1>5. QED
  BY <1>2, <1>3, <1>4

LEMMA SplitBlocks ==
  ASSUME NEW f \in Gap, InStudyWindow(f)
  PROVE  LET q == SplitIntoBlocks(f) IN
         /\ q \in Seq(Gap)
         /\ \A i \in DOMAIN q : /\ f.start <= q[i].start /\ q[i].end <= f.end
                                /\ q[i].end - q[i].start \in MinBlock..MaxBlock
         /\ \A i, j \in DOMAIN q : i < j => q[i].end <= q[j].start
<1> DEFINE room(i) == f.end - (f.start + i * MaxBlock)
<1> DEFINE T == {i \in 0..(f.end - f.start) : room(i) >= MinBlock}
<1>1. PICK q, m : q = SplitIntoBlocks(f) /\ m = Cardinality(T)
  OBVIOUS
<1>2. /\ f.start \in Int /\ f.end \in Int /\ f.end - f.start >= MinBlock
      /\ MinBlock \in Nat \ {0} /\ MaxBlock \in Nat /\ MinBlock <= MaxBlock
  BY StudyAssumption DEF Gap, InStudyWindow
<1>3. IsFiniteSet(T) /\ m \in Nat
  <2>1. PICK l \in Int : l = f.end - f.start
    BY <1>2
  <2>2. T \in SUBSET (0..l)
    BY <2>1
  <2> HIDE DEF T
  <2>3. IsFiniteSet(0..l)
    BY <2>1, FS_Interval
  <2>4. QED
    BY <1>1, <2>2, <2>3, FS_Subset, FS_CardinalityType
<1>4. q = [i \in 1..m |-> [start |-> f.start + (i - 1) * MaxBlock,
                           end |-> Least(f.start + i * MaxBlock, f.end)]]
  BY <1>1 DEF SplitIntoBlocks
<1>5. ASSUME NEW i \in 1..m PROVE room(i - 1) >= MinBlock
  <2>1. SUFFICES ASSUME room(i - 1) < MinBlock PROVE FALSE
    <3>1. i - 1 \in Nat /\ (i - 1) * MaxBlock \in Nat
      BY <1>3, Times
    <3>2. room(i - 1) \in Int
      BY <1>2, <3>1
    <3>3. QED
      BY <1>2, <2>1, <3>2
  <2>2. ASSUME NEW t \in T PROVE t <= i - 2
    <3>1. SUFFICES ASSUME i - 1 <= t PROVE FALSE
      BY <1>2, <1>3
    <3>2. i - 1 \in Nat /\ t \in Nat
      BY <1>2, <1>3
    <3>3. /\ (i - 1) * MaxBlock \in Nat /\ t * MaxBlock \in Nat
          /\ (i - 1) * MaxBlock <= t * MaxBlock
      BY <3>1, <3>2, Times
    <3>4. room(t) >= MinBlock
      OBVIOUS
    <3>5. QED
      BY <1>2, <2>1, <3>3, <3>4
  <2>3. T \in SUBSET (0..(i - 2))
    BY <2>2
  <2>4. IsFiniteSet(0..(i - 2)) /\ Cardinality(0..(i - 2)) = i - 1
    BY <1>3, FS_Interval
  <2> HIDE DEF T
  <2>5. Cardinality(T) <= i - 1
    BY <2>3, <2>4, FS_Subset
  <2>6. QED
    BY <1>1, <1>3, <2>5
<1>6. ASSUME NEW i \in 1..m
      PROVE  /\ q[i] = [start |-> f.start + (i - 1) * MaxBlock,
                        end |-> Least(f.start + i * MaxBlock, f.end)]
             /\ q[i] \in Gap
             /\ f.start <= q[i].start /\ q[i].end <= f.end
             /\ q[i].end - q[i].start \in MinBlock..MaxBlock
  <2>1. q[i] = [start |-> f.start + (i - 1) * MaxBlock,
                end |-> Least(f.start + i * MaxBlock, f.end)]
    BY <1>4
  <2>2. i - 1 \in Nat /\ (i - 1) + 1 = i
    BY <1>3
  <2>3. PICK x, y : x = (i - 1) * MaxBlock /\ y = i * MaxBlock
    OBVIOUS
  <2>4. x \in Nat /\ y = x + MaxBlock
    BY <2>2, <2>3, Times
  <2>5. f.end - (f.start + x) >= MinBlock
    BY <1>5, <2>3
  <2>6. q[i].start = f.start + x /\ q[i].end = Least(f.start + y, f.end)
    BY <2>1, <2>3
  <2>7. q[i].end \in Int /\ q[i].end <= f.end /\ q[i].end - (f.start + x) \in MinBlock..MaxBlock
    BY <1>2, <2>4, <2>5, <2>6 DEF Least
  <2>8. q[i] \in Gap
    BY <1>2, <2>1, <2>3, <2>4, <2>6, <2>7 DEF Gap
  <2>9. QED
    BY <1>2, <2>1, <2>4, <2>6, <2>7, <2>8
<1>7. q \in Seq(Gap) /\ DOMAIN q = 1..m
  BY <1>3, <1>4, <1>6
<1>8. ASSUME NEW i \in 1..m, NEW j \in 1..m, i < j PROVE q[i].end <= q[j].start
  <2>1. i \in Nat /\ j - 1 \in Nat /\ i <= j - 1
    BY <1>3, <1>8
  <2>2. PICK y, z : y = i * MaxBlock /\ z = (j - 1) * MaxBlock
    OBVIOUS
  <2>3. y \in Nat /\ z \in Nat /\ y <= z
    BY <2>1, <2>2, Times
  <2>4. q[i] = [start |-> f.start + (i - 1) * MaxBlock, end |-> Least(f.start + y, f.end)]
    BY <1>6, <2>2
  <2>5. q[j] = [start |-> f.start + z, end |-> Least(f.start + j * MaxBlock, f.end)]
    BY <1>6, <2>2
  <2>6. q[i].end = Least(f.start + y, f.end) /\ q[j].start = f.start + z
    BY <2>4, <2>5
  <2>7. QED
    BY <1>2, <2>3, <2>6 DEF Least
<1>9. QED
  BY <1>1, <1>6, <1>7, <1>8

ChunksSound(chunks, B) ==
  /\ chunks \in Seq(Gap)
  /\ \A i \in DOMAIN chunks :
       /\ InStudyWindow(chunks[i]) /\ chunks[i].end - chunks[i].start <= MaxBlock
       /\ \A b \in B : Avoids(chunks[i], b)
  /\ \A i, j \in DOMAIN chunks : i < j => chunks[i].end <= chunks[j].start

LEMMA GapOf ==
  ASSUME NEW q \in Seq(Gap), NEW i \in DOMAIN q
  PROVE  q[i] \in Gap /\ q[i].start \in Int /\ q[i].end \in Int
<1>1. q[i] \in Gap
  OBVIOUS
<1>2. QED
  BY <1>1 DEF Gap

LEMMA SplitSteps ==
  ASSUME NEW free \in Seq(Gap), \A i \in DOMAIN free : InStudyWindow(free[i])
  PROVE  /\ Split(free)[0] = <<>>
         /\ \A k \in 1..Len(free) :
              Split(free)[k] = Split(free)[k - 1] \o SplitIntoBlocks(free[k])
<1> DEFINE step == [p \in (1..Len(free)) \X Seq(Gap) |-> p[2] \o SplitIntoBlocks(free[p[1]])]
<1>1. PICK n \in Nat : n = Len(free)
  OBVIOUS
<1>2. <<>> \in Seq(Gap)
  OBVIOUS
<1>3. ASSUME NEW k \in 1..n PROVE SplitIntoBlocks(free[k]) \in Seq(Gap)
  <2>1. free[k] \in Gap /\ InStudyWindow(free[k])
    BY <1>1
  <2>2. QED
    BY <2>1, SplitBlocks
<1>4. Closed(n, Seq(Gap), step)
  <2>1. ASSUME NEW k \in 1..n, NEW v \in Seq(Gap) PROVE step[<<k, v>>] \in Seq(Gap)
    <3>1. step[<<k, v>>] = v \o SplitIntoBlocks(free[k])
      BY <1>1
    <3>2. PICK q \in Seq(Gap) : q = SplitIntoBlocks(free[k])
      BY <1>3
    <3> HIDE DEF step
    <3>3. QED
      BY <3>1, <3>2
  <2>2. QED
    BY <2>1 DEF Closed
<1>5. PICK f : Follows(n, Seq(Gap), <<>>, step, f)
  <2> HIDE DEF step
  <2>1. QED
    BY <1>2, <1>4, Recursion
<1>6. ASSUME NEW k \in 1..n PROVE f[k] = f[k - 1] \o SplitIntoBlocks(free[k])
  <2>1. f[k - 1] \in Seq(Gap) /\ f[k] = step[<<k, f[k - 1]>>]
    <3> HIDE DEF step
    <3>1. k - 1 \in 0..n
      OBVIOUS
    <3>2. QED
      BY <1>5, <3>1 DEF Follows
  <2>2. QED
    BY <1>1, <2>1
<1> HIDE DEF step
<1>7. ASSUME NEW k \in 0..n
      PROVE  f[k] = IF k = 0 THEN <<>> ELSE f[k - 1] \o SplitIntoBlocks(free[k])
  <2>1. CASE k = 0
    BY <1>5, <2>1 DEF Follows
  <2>2. CASE k # 0
    <3>1. k \in 1..n
      BY <2>2
    <3>2. QED
      BY <1>6, <2>2, <3>1
  <2>3. QED
    BY <2>1, <2>2
<1>8. f = [k \in 0..n |-> IF k = 0 THEN <<>> ELSE f[k - 1] \o SplitIntoBlocks(free[k])]
  BY <1>5, <1>7 DEF Follows
<1>9. Split(free) =
        [k \in 0..n |-> IF k = 0 THEN <<>> ELSE Split(free)[k - 1] \o SplitIntoBlocks(free[k])]
  BY <1>1, <1>8 DEF Split
<1>10. ASSUME NEW k \in 1..n PROVE Split(free)[k] = Split(free)[k - 1] \o SplitIntoBlocks(free[k])
  BY <1>9
<1>11. QED
  BY <1>1, <1>9, <1>10

LEMMA JoinSound ==
  ASSUME NEW B, NEW chunks, ChunksSound(chunks, B), NEW more, ChunksSound(more, B),
         \A i \in DOMAIN chunks, j \in DOMAIN more : chunks[i].end <= more[j].start
  PROVE  ChunksSound(chunks \o more, B)
<1>1. PICK m, n : m = Len(chunks) /\ n = Len(more)
  OBVIOUS
<1>2. PICK q : q = chunks \o more
  OBVIOUS
<1>3. /\ chunks \in Seq(Gap) /\ more \in Seq(Gap) /\ m \in Nat /\ n \in Nat
      /\ DOMAIN chunks = 1..m /\ DOMAIN more = 1..n
  BY <1>1 DEF ChunksSound
<1>4. /\ q \in Seq(Gap) /\ DOMAIN q = 1..(m + n)
      /\ \A i \in 1..m : q[i] = chunks[i]
      /\ \A i \in (m + 1)..(m + n) : q[i] = more[i - m]
  BY <1>1, <1>2, <1>3
<1>5. \A i \in 1..(m + n) : i \in 1..m \/ (i \in (m + 1)..(m + n) /\ i - m \in 1..n)
  BY <1>3
<1>6. ASSUME NEW i \in 1..(m + n)
      PROVE  /\ InStudyWindow(q[i]) /\ q[i].end - q[i].start <= MaxBlock
             /\ \A b \in B : Avoids(q[i], b)
  BY <1>3, <1>4, <1>5 DEF ChunksSound
<1>7. ASSUME NEW i \in 1..(m + n), NEW j \in 1..(m + n), i < j PROVE q[i].end <= q[j].start
  <2>1. CASE j \in 1..m
    <3>1. i \in 1..m
      BY <1>3, <1>7, <2>1
    <3>2. QED
      BY <1>3, <1>4, <1>7, <2>1, <3>1 DEF ChunksSound
  <2>2. CASE i \in 1..m /\ j \in (m + 1)..(m + n)
    <3>1. i \in DOMAIN chunks /\ j - m \in DOMAIN more
      BY <1>3, <2>2
    <3>2. chunks[i].end <= more[j - m].start
      BY <3>1
    <3>3. q[i] = chunks[i] /\ q[j] = more[j - m]
      BY <1>4, <2>2
    <3>4. QED
      BY <3>2, <3>3
  <2>3. CASE i \in (m + 1)..(m + n) /\ j \in (m + 1)..(m + n)
    <3>1. i - m \in 1..n /\ j - m \in 1..n /\ i - m < j - m
      BY <1>3, <1>7, <2>3
    <3>2. QED
      BY <1>3, <1>4, <2>3, <3>1 DEF ChunksSound
  <2>4. QED
    BY <1>3, <1>5, <1>7, <2>1, <2>2, <2>3
<1>8. QED
  BY <1>2, <1>4, <1>6, <1>7 DEF ChunksSound

LEMMA BlocksOfGap ==
  ASSUME NEW B, NEW f \in Gap, InStudyWindow(f), \A b \in B : Avoids(f, b), B \subseteq Intervals
  PROVE  ChunksSound(SplitIntoBlocks(f), B)
<1>1. PICK q : q = SplitIntoBlocks(f)
  OBVIOUS
<1>2. /\ q \in Seq(Gap)
      /\ \A i \in DOMAIN q : /\ f.start <= q[i].start /\ q[i].end <= f.end
                             /\ q[i].end - q[i].start \in MinBlock..MaxBlock
      /\ \A i, j \in DOMAIN q : i < j => q[i].end <= q[j].start
  BY <1>1, SplitBlocks
<1>3. ASSUME NEW i \in DOMAIN q
      PROVE  /\ InStudyWindow(q[i]) /\ q[i].end - q[i].start <= MaxBlock
             /\ \A b \in B : Avoids(q[i], b)
  <2>1. q[i].start \in Int /\ q[i].end \in Int /\ f.start \in Int /\ f.end \in Int
    BY <1>2, GapOf DEF Gap
  <2>2. /\ StudyStart \in Int /\ StudyEnd \in Int /\ MinBlock \in Int /\ MaxBlock \in Int
    BY StudyAssumption
  <2>3. /\ f.start <= q[i].start /\ q[i].end <= f.end
        /\ q[i].end - q[i].start \in MinBlock..MaxBlock
    BY <1>2
  <2>4. InStudyWindow(q[i]) /\ q[i].end - q[i].start <= MaxBlock
    BY <2>1, <2>2, <2>3 DEF InStudyWindow
  <2>5. ASSUME NEW b \in B PROVE Avoids(q[i], b)
    <3>1. b.start \in Int /\ b.end \in Int /\ Avoids(f, b)
      BY DEF Intervals
    <3>2. QED
      BY <2>1, <2>3, <3>1 DEF Avoids
  <2>6. QED
    BY <2>4, <2>5
<1>4. QED
  BY <1>1, <1>2, <1>3 DEF ChunksSound

LEMMA SplitSound ==
  ASSUME NEW B, B \subseteq Intervals, NEW c, NEW free, FreeSound(free, B, c)
  PROVE  ChunksSound(Split(free)[Len(free)], B)
<1> DEFINE s(k) == Split(free)[k]
<1> DEFINE I(k) == /\ ChunksSound(s(k), B)
                   /\ \A i \in DOMAIN s(k) : \A j \in DOMAIN free : j > k => s(k)[i].end <= free[j].start
<1> DEFINE K == {k \in 0..Len(free) : I(k)}
<1>1. /\ free \in Seq(Gap) /\ Len(free) \in Nat /\ DOMAIN free = 1..Len(free)
      /\ \A k \in 1..Len(free) : /\ free[k] \in Gap /\ InStudyWindow(free[k])
                                 /\ \A b \in B : Avoids(free[k], b)
  BY DEF FreeSound
<1>2. /\ s(0) = <<>>
      /\ \A k \in 1..Len(free) : s(k) = s(k - 1) \o SplitIntoBlocks(free[k])
  BY <1>1, SplitSteps
<1> HIDE DEF s
<1>3. I(0)
  <2>1. DOMAIN <<>> = {} /\ <<>> \in Seq(Gap)
    OBVIOUS
  <2>2. QED
    BY <1>2, <2>1 DEF ChunksSound
<1>4. ASSUME NEW k \in 1..Len(free), I(k - 1) PROVE I(k)
  <2>1. PICK p, q, f : p = s(k - 1) /\ f = free[k] /\ q = SplitIntoBlocks(f)
    OBVIOUS
  <2>2. /\ f \in Gap /\ InStudyWindow(f) /\ (\A b \in B : Avoids(f, b))
        /\ s(k) = p \o q
    BY <1>1, <1>2, <2>1
  <2>3. ChunksSound(q, B)
    BY <2>1, <2>2, BlocksOfGap
  <2>4. \A i \in DOMAIN q : f.start <= q[i].start /\ q[i].end <= f.end
    BY <2>1, <2>2, SplitBlocks
  <2>5. /\ ChunksSound(p, B) /\ \A i \in DOMAIN p : p[i].end <= f.start
        /\ \A i \in DOMAIN p : \A j \in DOMAIN free : j > k => p[i].end <= free[j].start
    <3>1. k \in DOMAIN free /\ k > k - 1 /\ \A j \in DOMAIN free : j > k => j > k - 1
      BY <1>1
    <3>2. QED
      BY <1>4, <2>1, <3>1
  <2>6. /\ f.start \in Int /\ f.end \in Int
        /\ \A i \in DOMAIN p : p[i].end \in Int
        /\ \A i \in DOMAIN q : q[i].start \in Int /\ q[i].end \in Int
    <3>1. f.start \in Int /\ f.end \in Int
      BY <2>2 DEF Gap
    <3>2. p \in Seq(Gap) /\ q \in Seq(Gap)
      BY <2>3, <2>5 DEF ChunksSound
    <3>3. QED
      BY <3>1, <3>2, GapOf
  <2>7. \A i \in DOMAIN p, j \in DOMAIN q : p[i].end <= q[j].start
    BY <2>4, <2>5, <2>6
  <2>8. ChunksSound(s(k), B)
    BY <2>2, <2>3, <2>5, <2>7, JoinSound
  <2>9. ASSUME NEW i \in DOMAIN s(k), NEW j \in DOMAIN free, j > k
        PROVE  s(k)[i].end <= free[j].start
    <3>1. f.end <= free[j].start /\ free[j].start \in Int
      <4>1. f.end <= free[j].start
        BY <1>1, <2>1, <2>9 DEF FreeSound
      <4>2. free[j] \in Gap
        BY <1>1
      <4>3. QED
        BY <4>1, <4>2 DEF Gap
    <3>2. /\ p \in Seq(Gap) /\ q \in Seq(Gap)
      BY <2>3, <2>5 DEF ChunksSound
    <3>3. \/ i \in DOMAIN p /\ s(k)[i] = p[i]
          \/ i - Len(p) \in DOMAIN q /\ s(k)[i] = q[i - Len(p)]
      BY <2>2, <3>2
    <3>4. CASE i \in DOMAIN p /\ s(k)[i] = p[i]
      BY <2>5, <2>9, <3>4
    <3>5. CASE i - Len(p) \in DOMAIN q /\ s(k)[i] = q[i - Len(p)]
      BY <2>4, <2>6, <3>1, <3>5
    <3>6. QED
      BY <3>3, <3>4, <3>5
  <2>10. QED
    BY <2>8, <2>9
<1> HIDE DEF I
<1>5. \A k \in 0..Len(free) : k \in K
  <2>1. 0 \in K
    BY <1>1, <1>3
  <2>2. \A k \in 1..Len(free) : k - 1 \in K => k \in K
    BY <1>4
  <2> HIDE DEF K
  <2>3. QED
    BY <1>1, <2>1, <2>2, UpTo
<1>6. I(Len(free))
  BY <1>1, <1>5
<1>7. QED
  BY <1>6 DEF I, s

LEMMA DayChunksSound ==
  ASSUME NEW busy, IsFiniteSet(busy), Forward(busy), NEW day
  PROVE  ChunksSound(Chunks(day, busy), {b \in busy : b.day = day})
<1>1. PICK B, free : B = {b \in busy : b.day = day} /\ free = FreeIntervals(day, busy)
  OBVIOUS
<1>2. PICK c \in Int : FreeSound(free, B, c)
  BY <1>1, FreeIntervalsSound
<1>3. B \subseteq Intervals
  BY <1>1 DEF Forward
<1>4. QED
  BY <1>1, <1>2, <1>3, SplitSound DEF Chunks

-----------------------------------------------------------------------------
(***************************************************************************)
(* generate_study_blocks. The plan that is dealt out so far is in order on *)
(* each day, in the window and clear of what keeps the user busy; a day's  *)
(* blocks begin after those that were dealt before.                        *)
(***************************************************************************)
StudyBlocks(N) == [subject : N, day : Int, start : Int, end : Int]

PlanState(N) == [used : Int, blocks : Seq(StudyBlocks(N))]

PlanSound(blocks, N, busy) ==
  /\ blocks \in Seq(StudyBlocks(N))
  /\ \A i \in DOMAIN blocks :
       /\ InStudyWindow(blocks[i]) /\ blocks[i].end - blocks[i].start <= MaxBlock
       /\ \A b \in busy : b.day = blocks[i].day => Avoids(blocks[i], b)
  /\ \A i, j \in DOMAIN blocks :
       i < j /\ blocks[i].day = blocks[j].day => blocks[i].end <= blocks[j].start

\* The subjects that the blocks are dealt to in turn.
Dealing(names) == {names[(m % Len(names)) + 1] : m \in Nat}

LEMMA PlaceType ==
  ASSUME NEW names, NEW p \in PlanState(Dealing(names)), NEW c \in Gap, NEW day \in Int
  PROVE  Place(p, c, day, names) \in PlanState(Dealing(names))
<1> DEFINE N == Dealing(names)
<1>1. p.used \in Int /\ p.blocks \in Seq(StudyBlocks(N)) /\ Len(p.blocks) \in Nat
  BY DEF PlanState
<1>2. c.start \in Int /\ c.end \in Int /\ DayBudget \in Int
  BY StudyAssumption DEF Gap
<1>3. PICK e : e = Least(c.end, c.start + DayBudget - p.used)
  OBVIOUS
<1>4. e \in Int
  BY <1>1, <1>2, <1>3 DEF Least
<1>5. PICK s : s = names[(Len(p.blocks) % Len(names)) + 1]
  OBVIOUS
<1>6. s \in N
  BY <1>1, <1>5 DEF Dealing
<1> HIDE DEF N
<1>7. PICK b : b = [subject |-> s, day |-> day, start |-> c.start, end |-> e]
  OBVIOUS
<1>8. b \in StudyBlocks(N)
  BY <1>2, <1>4, <1>6, <1>7 DEF StudyBlocks
<1>9. Append(p.blocks, b) \in Seq(StudyBlocks(N))
  BY <1>1, <1>8
<1>10. p.used + e - c.start \in Int
  BY <1>1, <1>2, <1>4
<1>11. \/ Place(p, c, day, names) = p
       \/ Place(p, c, day, names) =
            [used |-> p.used + e - c.start, blocks |-> Append(p.blocks, b)]
  BY <1>3, <1>5, <1>7 DEF Place
<1>12. QED
  BY <1>9, <1>10, <1>11 DEF PlanState, N

LEMMA StudyDaySteps ==
  ASSUME NEW day \in Int, NEW chunks \in Seq(Gap), NEW names,
         NEW plan \in Seq(StudyBlocks(Dealing(names)))
  PROVE  LET s == StudyDay(day, chunks, names, plan) IN
         /\ s[0] = [used |-> 0, blocks |-> plan]
         /\ \A k \in 0..Len(chunks) : s[k] \in PlanState(Dealing(names))
         /\ \A k \in 1..Len(chunks) : s[k] = Place(s[k - 1], chunks[k], day, names)
<1> DEFINE S == PlanState(Dealing(names))
<1> DEFINE base == [used |-> 0, blocks |-> plan]
<1> DEFINE step == [p \in (1..Len(chunks)) \X S |-> Place(p[2], chunks[p[1]], day, names)]
<1>1. PICK n \in Nat : n = Len(chunks)
  OBVIOUS
<1>2. base \in S
  BY DEF PlanState
<1>3. ASSUME NEW k \in 1..n, NEW v \in S PROVE Place(v, chunks[k], day, names) \in S
  <2>1. chunks[k] \in Gap
    BY <1>1
  <2>2. QED
    BY <2>1, PlaceType
<1> HIDE DEF S
<1>4. Closed(n, S, step)
  <2>1. ASSUME NEW k \in 1..n, NEW v \in S PROVE step[<<k, v>>] \in S
    <3>1. step[<<k, v>>] = Place(v, chunks[k], day, names)
      BY <1>1
    <3> HIDE DEF step
    <3>2. QED
      BY <1>3, <3>1
  <2>2. QED
    BY <2>1 DEF Closed
<1>5. PICK f : Follows(n, S, base, step, f)
  <2> HIDE DEF step, base
  <2>1. QED
    BY <1>2, <1>4, Recursion
<1>6. ASSUME NEW k \in 1..n PROVE f[k] = Place(f[k - 1], chunks[k], day, names)
  <2>1. f[k - 1] \in S /\ f[k] = step[<<k, f[k - 1]>>]
    <3> HIDE DEF step, base
    <3>1. k - 1 \in 0..n
      OBVIOUS
    <3>2. QED
      BY <1>5, <3>1 DEF Follows
  <2>2. QED
    BY <1>1, <2>1
<1> HIDE DEF step, base
<1>7. ASSUME NEW k \in 0..n
      PROVE  f[k] = IF k = 0 THEN base ELSE Place(f[k - 1], chunks[k], day, names)
  <2>1. CASE k = 0
    BY <1>5, <2>1 DEF Follows
  <2>2. CASE k # 0
    <3>1. k \in 1..n
      BY <2>2
    <3>2. QED
      BY <1>6, <2>2, <3>1
  <2>3. QED
    BY <2>1, <2>2
<1>8. f = [k \in 0..n |-> IF k = 0 THEN base ELSE Place(f[k - 1], chunks[k], day, names)]
  BY <1>5, <1>7 DEF Follows
<1>9. PICK s : s = StudyDay(day, chunks, names, plan)
  OBVIOUS
<1>10. s = [k \in 0..n |-> IF k = 0 THEN base ELSE Place(s[k - 1], chunks[k], day, names)]
  BY <1>1, <1>8, <1>9 DEF StudyDay, base
<1>11. s[0] = base /\ \A k \in 1..n : s[k] = Place(s[k - 1], chunks[k], day, names)
  BY <1>10
<1>12. \A k \in 0..n : s[k] \in S
  <2> DEFINE K == {k \in 0..n : s[k] \in S}
  <2>1. 0 \in K
    BY <1>2, <1>11
  <2>2. ASSUME NEW k \in 1..n, k - 1 \in K PROVE k \in K
    BY <1>3, <1>11, <2>2
  <2> HIDE DEF K
  <2>3. \A k \in 0..n : k \in K
    BY <2>1, <2>2, UpTo
  <2>4. QED
    BY <2>3 DEF K
<1>13. QED
  BY <1>1, <1>9, <1>11, <1>12 DEF S, base

\* The block that chunk c becomes, cut to what is left of the day's budget.
Placed(p, c, day, names, b) ==
  /\ b.subject = names[(Len(p.blocks) % Len(names)) + 1]
  /\ b.day = day /\ b.start = c.start
  /\ b.end <= c.end /\ b.end - b.start >= MinBlock
  /\ p.used + (b.end - b.start) <= DayBudget
  /\ b.end = c.end \/ p.used + (b.end - b.start) = DayBudget

With(p, b) == [used |-> p.used + (b.end - b.start), blocks |-> Append(p.blocks, b)]

\* A chunk is skipped only when it, or the rest of the budget, is too short.
LEMMA PlaceCases ==
  ASSUME NEW names, NEW p \in PlanState(Dealing(names)), NEW c \in Gap, NEW day \in Int
  PROVE  \/ /\ Place(p, c, day, names) = p
            /\ c.end - c.start < MinBlock \/ p.used + MinBlock > DayBudget
         \/ \E b \in StudyBlocks(Dealing(names)) :
              Placed(p, c, day, names, b) /\ Place(p, c, day, names) = With(p, b)
<1> DEFINE N == Dealing(names)
<1>1. p.used \in Int /\ p.blocks \in Seq(StudyBlocks(N)) /\ Len(p.blocks) \in Nat
  BY DEF PlanState
<1>2. c.start \in Int /\ c.end \in Int /\ DayBudget \in Int /\ MinBlock \in Int
  BY StudyAssumption DEF Gap
<1>3. PICK e : e = Least(c.end, c.start + DayBudget - p.used)
  OBVIOUS
<1>4. /\ e \in Int /\ e <= c.end /\ e <= c.start + DayBudget - p.used
      /\ e = c.end \/ e = c.start + DayBudget - p.used
  BY <1>1, <1>2, <1>3 DEF Least
<1>5. PICK s : s = names[(Len(p.blocks) % Len(names)) + 1]
  OBVIOUS
<1>6. s \in N
  BY <1>1, <1>5 DEF Dealing
<1> HIDE DEF N
<1>7. PICK b : b = [subject |-> s, day |-> day, start |-> c.start, end |-> e]
  OBVIOUS
<1>8. b \in StudyBlocks(N) /\ b.subject = s /\ b.day = day /\ b.start = c.start /\ b.end = e
  BY <1>2, <1>4, <1>6, <1>7 DEF StudyBlocks
<1>9. p.used + e - c.start = p.used + (b.end - b.start)
  BY <1>1, <1>2, <1>4, <1>8
<1>10. Place(p, c, day, names) = IF e - c.start < MinBlock THEN p ELSE With(p, b)
  BY <1>3, <1>5, <1>7, <1>9 DEF Place, With
<1>11. CASE e - c.start < MinBlock
  <2>1. Place(p, c, day, names) = p
    BY <1>10, <1>11
  <2>2. c.end - c.start < MinBlock \/ p.used + MinBlock > DayBudget
    BY <1>1, <1>2, <1>4, <1>11
  <2>3. QED
    BY <2>1, <2>2
<1>12. CASE ~(e - c.start < MinBlock)
  <2>1. Place(p, c, day, names) = With(p, b)
    BY <1>10, <1>12
  <2>2. /\ b.end <= c.end /\ b.end - b.start >= MinBlock
        /\ p.used + (b.end - b.start) <= DayBudget
        /\ b.end = c.end \/ p.used + (b.end - b.start) = DayBudget
    BY <1>1, <1>2, <1>4, <1>8, <1>12
  <2>3. Placed(p, c, day, names, b)
    BY <1>5, <1>8, <2>2 DEF Placed
  <2>4. QED
    BY <1>8, <2>1, <2>3 DEF N
<1>13. QED
  BY <1>11, <1>12

LEMMA AppendSound ==
  ASSUME NEW N, NEW busy, busy \subseteq Intervals, NEW blocks, PlanSound(blocks, N, busy),
         NEW b \in StudyBlocks(N), InStudyWindow(b), b.end - b.start <= MaxBlock,
         \A a \in busy : a.day = b.day => Avoids(b, a),
         \A i \in DOMAIN blocks : blocks[i].day = b.day => blocks[i].end <= b.start
  PROVE  PlanSound(Append(blocks, b), N, busy)
<1>1. PICK q, n : q = Append(blocks, b) /\ n = Len(blocks)
  OBVIOUS
<1>2. /\ n \in Nat /\ DOMAIN blocks = 1..n /\ q \in Seq(StudyBlocks(N)) /\ DOMAIN q = 1..(n + 1)
      /\ \A i \in 1..n : q[i] = blocks[i]
      /\ q[n + 1] = b
  BY <1>1 DEF PlanSound
<1>3. \A i \in 1..(n + 1) : i \in 1..n \/ i = n + 1
  BY <1>2
<1>4. ASSUME NEW i \in 1..(n + 1)
      PROVE  /\ InStudyWindow(q[i]) /\ q[i].end - q[i].start <= MaxBlock
             /\ \A a \in busy : a.day = q[i].day => Avoids(q[i], a)
  BY <1>2, <1>3 DEF PlanSound
<1>5. ASSUME NEW i \in 1..(n + 1), NEW j \in 1..(n + 1), i < j, q[i].day = q[j].day
      PROVE  q[i].end <= q[j].start
  <2>1. i \in 1..n
    BY <1>2, <1>5
  <2>2. CASE j = n + 1
    <3>1. q[j] = b /\ q[i] = blocks[i] /\ i \in DOMAIN blocks
      BY <1>2, <2>1, <2>2
    <3>2. QED
      BY <1>5, <3>1
  <2>3. CASE j \in 1..n
    BY <1>2, <1>5, <2>1, <2>3 DEF PlanSound
  <2>4. QED
    BY <1>3, <2>2, <2>3
<1>6. QED
  BY <1>1, <1>2, <1>4, <1>5 DEF PlanSound

\* Facts about a block, a plan and two plans that the step of the loop needs.
Clear(f, day, busy) == \A a \in busy : a.day = day => Avoids(f, a)

Past(blocks, day, t) == \A i \in DOMAIN blocks : blocks[i].day = day => blocks[i].end <= t

Grown(r, blocks, day, t) ==
  \A i \in DOMAIN r : \/ i \in DOMAIN blocks /\ r[i] = blocks[i]
                      \/ r[i].day = day /\ r[i].end <= t

LEMMA PlaceSound ==
  ASSUME NEW names, NEW busy, busy \subseteq Intervals,
         NEW p \in PlanState(Dealing(names)), PlanSound(p.blocks, Dealing(names), busy),
         NEW day \in Int, NEW c \in Gap, InStudyWindow(c), c.end - c.start <= MaxBlock,
         Clear(c, day, busy), Past(p.blocks, day, c.start)
  PROVE  /\ PlanSound(Place(p, c, day, names).blocks, Dealing(names), busy)
         /\ Grown(Place(p, c, day, names).blocks, p.blocks, day, c.end)
<1> DEFINE N == Dealing(names)
<1>1. p.blocks \in Seq(StudyBlocks(N))
  BY DEF PlanState
<1>2. CASE Place(p, c, day, names) = p
  BY <1>2 DEF Grown
<1>3. CASE \E b \in StudyBlocks(Dealing(names)) :
              Placed(p, c, day, names, b) /\ Place(p, c, day, names) = With(p, b)
  <2>1. PICK b \in StudyBlocks(N) : /\ Place(p, c, day, names) = With(p, b)
                                    /\ b.day = day /\ b.start = c.start
                                    /\ b.end <= c.end /\ b.end - b.start >= MinBlock
    BY <1>3 DEF Placed
  <2> HIDE DEF N
  <2>2. /\ b.start \in Int /\ b.end \in Int /\ c.start \in Int /\ c.end \in Int
        /\ StudyStart \in Int /\ StudyEnd \in Int /\ MaxBlock \in Int
    BY StudyAssumption DEF StudyBlocks, Gap
  <2>3. InStudyWindow(b) /\ b.end - b.start <= MaxBlock
    BY <2>1, <2>2 DEF InStudyWindow
  <2>4. ASSUME NEW a \in busy, a.day = b.day PROVE Avoids(b, a)
    <3>1. Avoids(c, a) /\ a.start \in Int /\ a.end \in Int
      BY <2>1, <2>4 DEF Intervals, Clear
    <3>2. QED
      BY <2>1, <2>2, <3>1 DEF Avoids
  <2>5. \A i \in DOMAIN p.blocks : p.blocks[i].day = b.day => p.blocks[i].end <= b.start
    BY <2>1 DEF Past
  <2>6. PlanSound(Append(p.blocks, b), N, busy)
    BY <2>3, <2>4, <2>5, AppendSound DEF N
  <2>7. \A i \in DOMAIN Append(p.blocks, b) :
          \/ i \in DOMAIN p.blocks /\ Append(p.blocks, b)[i] = p.blocks[i]
          \/ Append(p.blocks, b)[i] = b
    BY <1>1
  <2>8. Place(p, c, day, names).blocks = Append(p.blocks, b)
    BY <2>1 DEF With
  <2>9. QED
    BY <2>1, <2>6, <2>7, <2>8 DEF N, Grown
<1>4. QED
  BY <1>2, <1>3, PlaceCases

\* A day's blocks go after those of the days before it, and before the chunks
\* of the day from the k-th on.
Awaits(blocks, day, chunks, k) ==
  \A i \in DOMAIN blocks :
    \/ blocks[i].day < day
    \/ blocks[i].day = day /\ \A j \in DOMAIN chunks : j > k => blocks[i].end <= chunks[j].start

LEMMA StudyDayBefore ==
  ASSUME NEW names, NEW busy, busy \subseteq Intervals, NEW day \in Int,
         NEW chunks, ChunksSound(chunks, {b \in busy : b.day = day}),
         NEW plan, PlanSound(plan, Dealing(names), busy),
         \A i \in DOMAIN plan : plan[i].day < day
  PROVE  \A k \in 0..Len(chunks) :
           /\ PlanSound(StudyDay(day, chunks, names, plan)[k].blocks, Dealing(names), busy)
           /\ Awaits(StudyDay(day, chunks, names, plan)[k].blocks, day, chunks, k)
<1> DEFINE N == Dealing(names)
<1> DEFINE s(k) == StudyDay(day, chunks, names, plan)[k]
<1> DEFINE I(k) == PlanSound(s(k).blocks, N, busy) /\ Awaits(s(k).blocks, day, chunks, k)
<1> DEFINE K == {k \in 0..Len(chunks) : I(k)}
<1>1. /\ chunks \in Seq(Gap) /\ Len(chunks) \in Nat /\ DOMAIN chunks = 1..Len(chunks)
      /\ plan \in Seq(StudyBlocks(N))
  BY DEF ChunksSound, PlanSound
<1>2. /\ s(0) = [used |-> 0, blocks |-> plan]
      /\ \A k \in 0..Len(chunks) : s(k) \in PlanState(N)
      /\ \A k \in 1..Len(chunks) : s(k) = Place(s(k - 1), chunks[k], day, names)
  <2>1. PICK w : w = StudyDay(day, chunks, names, plan)
    OBVIOUS
  <2>2. /\ w[0] = [used |-> 0, blocks |-> plan]
        /\ \A k \in 0..Len(chunks) : w[k] \in PlanState(Dealing(names))
        /\ \A k \in 1..Len(chunks) : w[k] = Place(w[k - 1], chunks[k], day, names)
    <3>1. chunks \in Seq(Gap) /\ plan \in Seq(StudyBlocks(Dealing(names)))
      BY <1>1
    <3>2. QED
      BY ONLY <2>1, <3>1, day \in Int, StudyDaySteps
  <2>3. QED
    BY <2>1, <2>2
<1> HIDE DEF s, N
<1>3. I(0)
  <2>1. PlanSound(plan, N, busy)
    BY DEF N
  <2>2. Awaits(plan, day, chunks, 0)
    BY <1>1 DEF Awaits
  <2>3. s(0).blocks = plan
    BY <1>2
  <2>4. QED
    BY <2>1, <2>2, <2>3
<1>4. ASSUME NEW k \in 1..Len(chunks), I(k - 1) PROVE I(k)
  <2>1. PICK p, c, r : p = s(k - 1) /\ c = chunks[k] /\ r = s(k).blocks
    OBVIOUS
  <2>2. /\ c \in Gap /\ InStudyWindow(c) /\ c.end - c.start <= MaxBlock
        /\ Clear(c, day, busy)
    BY <1>1, <2>1 DEF ChunksSound, Clear
  <2>3. p \in PlanState(N) /\ s(k) = Place(p, c, day, names)
    BY <1>1, <1>2, <2>1
  <2>4. PlanSound(p.blocks, N, busy)
    BY <1>4, <2>1
  <2>5. \A i \in DOMAIN p.blocks :
          \/ p.blocks[i].day < day
          \/ /\ p.blocks[i].day = day /\ p.blocks[i].end <= c.start
             /\ \A j \in DOMAIN chunks : j > k => p.blocks[i].end <= chunks[j].start
    <3>1. k \in DOMAIN chunks /\ k > k - 1 /\ \A j \in DOMAIN chunks : j > k => j > k - 1
      BY <1>1
    <3>2. QED
      BY <1>4, <2>1, <3>1 DEF Awaits
  <2>6. p.blocks \in Seq(StudyBlocks(N)) /\ \A i \in DOMAIN p.blocks : p.blocks[i].day \in Int
    <3>1. p.blocks \in Seq(StudyBlocks(N))
      BY <2>4 DEF PlanSound
    <3>2. \A i \in DOMAIN p.blocks : p.blocks[i] \in StudyBlocks(N)
      BY <3>1
    <3>3. QED
      BY <3>1, <3>2 DEF StudyBlocks
  <2>7. Past(p.blocks, day, c.start)
    BY <2>5, <2>6 DEF Past
  <2>8. /\ PlanSound(r, N, busy)
        /\ \A i \in DOMAIN r : \/ i \in DOMAIN p.blocks /\ r[i] = p.blocks[i]
                               \/ r[i].day = day /\ r[i].end <= c.end
    <3>1. p \in PlanState(Dealing(names)) /\ PlanSound(p.blocks, Dealing(names), busy)
      BY <2>3, <2>4 DEF N
    <3>2. PICK q : q = Place(p, c, day, names).blocks
      OBVIOUS
    <3>3. /\ PlanSound(q, Dealing(names), busy)
          /\ Grown(q, p.blocks, day, c.end)
      BY <2>2, <2>7, <3>1, <3>2, PlaceSound
    <3>4. q = r
      BY <2>1, <2>3, <3>2
    <3>5. QED
      BY <3>3, <3>4 DEF N, Grown
  <2>9. \A j \in DOMAIN chunks : j > k => c.end <= chunks[j].start /\ chunks[j].start \in Int
    <3>1. \A j \in DOMAIN chunks : j > k => c.end <= chunks[j].start
      BY <1>1, <2>1 DEF ChunksSound
    <3>2. QED
      BY <1>1, <3>1, GapOf
  <2>10. ASSUME NEW i \in DOMAIN r
         PROVE  \/ r[i].day < day
                \/ r[i].day = day /\ \A j \in DOMAIN chunks : j > k => r[i].end <= chunks[j].start
    <3>1. CASE i \in DOMAIN p.blocks /\ r[i] = p.blocks[i]
      BY <2>5, <3>1
    <3>2. CASE r[i].day = day /\ r[i].end <= c.end
      <4>1. c.end \in Int
        BY <2>2 DEF Gap
      <4>2. r[i].end \in Int
        <5>1. r[i] \in StudyBlocks(N)
          BY <2>8 DEF PlanSound
        <5>2. QED
          BY <5>1 DEF StudyBlocks
      <4>3. QED
        BY <2>9, <3>2, <4>1, <4>2
    <3>3. QED
      BY <2>8, <3>1, <3>2
  <2>11. QED
    BY <2>1, <2>8, <2>10 DEF Awaits
<1> HIDE DEF I
<1>5. \A k \in 0..Len(chunks) : k \in K
  <2>1. 0 \in K
    BY <1>1, <1>3
  <2>2. \A k \in 1..Len(chunks) : k - 1 \in K => k \in K
    BY <1>4
  <2> HIDE DEF K
  <2>3. QED
    BY <1>1, <2>1, <2>2, UpTo
<1>6. QED
  BY <1>5 DEF I, s, N

LEMMA StudyDaySound ==
  ASSUME NEW names, NEW busy, busy \subseteq Intervals, NEW day \in Int,
         NEW chunks, ChunksSound(chunks, {b \in busy : b.day = day}),
         NEW plan, PlanSound(plan, Dealing(names), busy),
         \A i \in DOMAIN plan : plan[i].day < day
  PROVE  LET r == StudyDay(day, chunks, names, plan)[Len(chunks)].blocks IN
         /\ PlanSound(r, Dealing(names), busy)
         /\ \A i \in DOMAIN r : r[i].day < day + 1
<1>1. PICK w : w = StudyDay(day, chunks, names, plan)
  OBVIOUS
<1>2. Len(chunks) \in 0..Len(chunks)
  BY DEF ChunksSound
<1>3. \A k \in 0..Len(chunks) :
        PlanSound(w[k].blocks, Dealing(names), busy) /\ Awaits(w[k].blocks, day, chunks, k)
  BY <1>1, StudyDayBefore
<1>4. PICK r : r = w[Len(chunks)].blocks
  OBVIOUS
<1>5. PlanSound(r, Dealing(names), busy) /\ Awaits(r, day, chunks, Len(chunks))
  BY <1>2, <1>3, <1>4
<1>6. \A i \in DOMAIN r : r[i].day < day + 1
  <2>1. \A i \in DOMAIN r : r[i] \in StudyBlocks(Dealing(names))
    BY <1>5 DEF PlanSound
  <2>2. \A i \in DOMAIN r : r[i].day \in Int
    BY <2>1 DEF StudyBlocks
  <2>3. \A i \in DOMAIN r : r[i].day < day \/ r[i].day = day
    BY <1>5 DEF Awaits
  <2>4. QED
    BY <2>2, <2>3
<1>7. QED
  BY <1>1, <1>4, <1>5, <1>6

\* What the turn of one day makes of the plan.
NextDay(day, busy, names, plan) ==
  StudyDay(day, Chunks(day, busy), names, plan)[Len(Chunks(day, busy))].blocks

LEMMA StudyDaysSteps ==
  ASSUME NEW busy, IsFiniteSet(busy), Forward(busy), NEW names
  PROVE  /\ StudyDays(busy, names)[0] = <<>>
         /\ \A n \in 1..(LastDay + 1) :
              StudyDays(busy, names)[n] = NextDay(n - 1, busy, names, StudyDays(busy, names)[n - 1])
<1> DEFINE S == Seq(StudyBlocks(Dealing(names)))
<1>1. PICK last \in Nat : last = LastDay + 1
  BY StudyAssumption
<1> DEFINE step == [p \in (1..last) \X S |-> NextDay(p[1] - 1, busy, names, p[2])]
<1>2. <<>> \in S
  OBVIOUS
<1>3. ASSUME NEW n \in 1..last, NEW v \in S PROVE NextDay(n - 1, busy, names, v) \in S
  <2>1. PICK chunks : chunks = Chunks(n - 1, busy)
    OBVIOUS
  <2>2. n - 1 \in Int
    OBVIOUS
  <2>3. chunks \in Seq(Gap) /\ Len(chunks) \in Nat
    BY <2>1, <2>2, DayChunksSound DEF ChunksSound
  <2>4. Len(chunks) \in 0..Len(chunks)
    BY <2>3
  <2>5. StudyDay(n - 1, chunks, names, v)[Len(chunks)] \in PlanState(Dealing(names))
    BY <2>2, <2>3, <2>4, StudyDaySteps
  <2>6. StudyDay(n - 1, chunks, names, v)[Len(chunks)].blocks \in S
    BY <2>5 DEF PlanState
  <2>7. QED
    BY <2>1, <2>6 DEF NextDay
<1> HIDE DEF S
<1>4. Closed(last, S, step)
  <2>1. ASSUME NEW n \in 1..last, NEW v \in S PROVE step[<<n, v>>] \in S
    <3>1. step[<<n, v>>] = NextDay(n - 1, busy, names, v)
      OBVIOUS
    <3> HIDE DEF step
    <3>2. QED
      BY <1>3, <3>1
  <2>2. QED
    BY <2>1 DEF Closed
<1>5. PICK f : Follows(last, S, <<>>, step, f)
  <2> HIDE DEF step
  <2>1. QED
    BY <1>2, <1>4, Recursion
<1>6. ASSUME NEW n \in 1..last PROVE f[n] = NextDay(n - 1, busy, names, f[n - 1])
  <2>1. f[n - 1] \in S /\ f[n] = step[<<n, f[n - 1]>>]
    <3> HIDE DEF step
    <3>1. n - 1 \in 0..last
      OBVIOUS
    <3>2. QED
      BY <1>5, <3>1 DEF Follows
  <2>2. QED
    BY <2>1
<1> HIDE DEF step
<1>7. ASSUME NEW n \in 0..last
      PROVE  f[n] = IF n = 0 THEN <<>> ELSE NextDay(n - 1, busy, names, f[n - 1])
  <2>1. CASE n = 0
    BY <1>5, <2>1 DEF Follows
  <2>2. CASE n # 0
    <3>1. n \in 1..last
      BY <2>2
    <3>2. QED
      BY <1>6, <2>2, <3>1
  <2>3. QED
    BY <2>1, <2>2
<1>8. f = [n \in 0..last |-> IF n = 0 THEN <<>> ELSE NextDay(n - 1, busy, names, f[n - 1])]
  BY <1>5, <1>7 DEF Follows
<1>9. PICK s : s = StudyDays(busy, names)
  OBVIOUS
<1>10. s = [n \in 0..last |-> IF n = 0 THEN <<>> ELSE NextDay(n - 1, busy, names, s[n - 1])]
  BY <1>1, <1>8, <1>9 DEF StudyDays, NextDay
<1>11. s[0] = <<>> /\ \A n \in 1..last : s[n] = NextDay(n - 1, busy, names, s[n - 1])
  BY <1>10
<1>12. QED
  BY <1>1, <1>9, <1>11

LEMMA StudyDaysSound ==
  ASSUME NEW busy, IsFiniteSet(busy), Forward(busy), NEW names
  PROVE  PlanSound(StudyDays(busy, names)[LastDay + 1], Dealing(names), busy)
<1> DEFINE N == Dealing(names)
<1>1. PICK last \in Nat : last = LastDay + 1
  BY StudyAssumption
<1>2. PICK s : s = StudyDays(busy, names)
  OBVIOUS
<1>3. s[0] = <<>> /\ \A n \in 1..last : s[n] = NextDay(n - 1, busy, names, s[n - 1])
  BY <1>1, <1>2, StudyDaysSteps
<1> DEFINE Before(r, n) == \A i \in DOMAIN r : r[i].day < n
<1> DEFINE K == {n \in 0..last : PlanSound(s[n], N, busy) /\ Before(s[n], n)}
<1>4. 0 \in K
  <2>1. PICK e : e = <<>>
    OBVIOUS
  <2>2. DOMAIN e = {} /\ e \in Seq(StudyBlocks(N))
    BY <2>1
  <2>3. PlanSound(e, N, busy) /\ Before(e, 0)
    BY <2>2 DEF PlanSound
  <2>4. s[0] = e
    BY <1>3, <2>1
  <2>5. QED
    BY <2>3, <2>4
<1>5. ASSUME NEW n \in 1..last, n - 1 \in K PROVE n \in K
  <2>1. PICK plan, chunks, day : /\ plan = s[n - 1] /\ day = n - 1
                                 /\ chunks = Chunks(day, busy)
    OBVIOUS
  <2>2. PlanSound(plan, Dealing(names), busy) /\ \A i \in DOMAIN plan : plan[i].day < day
    BY <1>5, <2>1
  <2>3. ChunksSound(chunks, {b \in busy : b.day = day}) /\ busy \subseteq Intervals
    BY <2>1, DayChunksSound DEF Forward
  <2>4. PICK r : r = StudyDay(day, chunks, names, plan)[Len(chunks)].blocks
    OBVIOUS
  <2>5. day \in Int
    BY <2>1
  <2>6. PlanSound(r, Dealing(names), busy) /\ \A i \in DOMAIN r : r[i].day < day + 1
    BY <2>2, <2>3, <2>4, <2>5, StudyDaySound
  <2>7. s[n] = r /\ day + 1 = n
    BY <1>3, <2>1, <2>4 DEF NextDay
  <2>8. QED
    BY <2>6, <2>7
<1> HIDE DEF K
<1>6. \A n \in 0..last : n \in K
  BY <1>4, <1>5, UpTo
<1>7. last \in K
  BY <1>6
<1>8. QED
  BY <1>1, <1>2, <1>7 DEF K

(***************************************************************************)
(* generate_study_blocks, for every set of busy intervals that end after   *)
(* they start and all subjects: each block lies in the study window, is    *)
(* between MIN_BLOCK_MINUTES and MAX_BLOCK_MINUTES long and shares no time *)
(* with a busy interval of its day, and the blocks of a day follow each    *)
(* other without an overlap.                                               *)
(***************************************************************************)
THEOREM GeneratedPlanSound ==
  ASSUME NEW busy, IsFiniteSet(busy), Forward(busy), NEW subjects
  PROVE  \E N : PlanSound(GenerateStudyBlocks(busy, subjects), N, busy)
<1>1. CASE subjects = <<>>
  <2>1. GenerateStudyBlocks(busy, subjects) = <<>>
    BY <1>1 DEF GenerateStudyBlocks
  <2>2. DOMAIN <<>> = {} /\ <<>> \in Seq(StudyBlocks({}))
    OBVIOUS
  <2>3. PlanSound(<<>>, {}, busy)
    BY <2>2 DEF PlanSound
  <2>4. QED
    BY <2>1, <2>3
<1>2. CASE subjects # <<>>
  <2>1. GenerateStudyBlocks(busy, subjects) = StudyDays(busy, Ranked(subjects))[LastDay + 1]
    BY <1>2 DEF GenerateStudyBlocks
  <2>2. QED
    BY <2>1, StudyDaysSound
<1>3. QED
  BY <1>1, <1>2

(***************************************************************************)
(* find_replacement_slot, for every set of busy intervals and of other     *)
(* blocks: a slot that it answers lies in the study window, has a length   *)
(* in range and shares no time with a class or another block of the day.   *)
(***************************************************************************)
THEOREM ReplacementSlotSound ==
  ASSUME NEW busy, NEW others, IsFiniteSet(busy \cup others), Forward(busy \cup others),
         NEW day, NEW exclude,
         NEW slot, slot = FindReplacementSlot(busy, others, day, exclude), slot # NoSlot
  PROVE  /\ slot \in Gap /\ InStudyWindow(slot) /\ slot.end - slot.start <= MaxBlock
         /\ Clear(slot, day, busy \cup others)
<1>1. PICK chunks : chunks = Chunks(day, busy \cup others)
  OBVIOUS
<1>2. ChunksSound(chunks, {b \in busy \cup others : b.day = day})
  BY <1>1, DayChunksSound
<1>3. PICK elsewhere : elsewhere = {i \in DOMAIN chunks : chunks[i].start # exclude}
  OBVIOUS
<1>4. chunks \in Seq(Gap) /\ DOMAIN chunks = 1..Len(chunks) /\ Len(chunks) \in Nat
  BY <1>2 DEF ChunksSound
<1>5. slot = IF elsewhere # {} THEN chunks[Min(elsewhere)]
             ELSE IF chunks # <<>> THEN Head(chunks) ELSE NoSlot
  BY <1>1, <1>3 DEF FindReplacementSlot
<1>6. \E i \in DOMAIN chunks : slot = chunks[i]
  <2>1. CASE elsewhere # {}
    <3>1. elsewhere \in SUBSET Nat
      BY <1>3, <1>4
    <3>2. \E x \in elsewhere : \A y \in elsewhere : x <= y
      BY <2>1, <3>1, LeastNat
    <3>3. Min(elsewhere) \in elsewhere
      BY <3>2 DEF Min
    <3>4. QED
      BY <1>3, <1>5, <2>1, <3>3
  <2>2. CASE elsewhere = {} /\ chunks # <<>>
    <3>1. slot = chunks[1] /\ 1 \in DOMAIN chunks
      BY <1>4, <1>5, <2>2
    <3>2. QED
      BY <3>1
  <2>3. QED
    BY <1>5, <2>1, <2>2
<1>7. PICK i \in DOMAIN chunks : slot = chunks[i]
  BY <1>6
<1>8. QED
  BY <1>2, <1>4, <1>7 DEF ChunksSound, Clear

-----------------------------------------------------------------------------
(***************************************************************************)
(* The inductive invariant for the conflict push.  Every push that is      *)
(* enqueued or about to be was let through by the setting of the key, or   *)
(* by a fault of Redis while the key could not be set.                     *)
(***************************************************************************)
Telling == {h \in Handlers : call[h].pc = "tell"}

\* What a call is doing, as far as the calls that overtake it can change it.
CallShape(c) ==
  \/ c = Idle
  \/ c.pc = "delete" /\ c = [pc |-> "delete", store |-> c.store, blocks |-> c.blocks]
  \/ /\ c.pc = "insert" /\ c.overtaken \in BOOLEAN
     /\ c = [pc |-> "insert", store |-> c.store, blocks |-> c.blocks, overtaken |-> c.overtaken]
  \/ c.pc = "classes" /\ c = [pc |-> "classes", doc |-> c.doc]
  \/ c.pc = "others" /\ c = [pc |-> "others", doc |-> c.doc, busy |-> c.busy]
  \/ /\ c.pc = "update" /\ c.overtaken \in BOOLEAN
     /\ c = [pc |-> "update", doc |-> c.doc, slot |-> c.slot, overtaken |-> c.overtaken]
  \/ c.pc = "plan" /\ c = [pc |-> "plan", busy |-> c.busy, number |-> c.number]
  \/ c.pc = "routines" /\ c = [pc |-> "routines", number |-> c.number, fixed |-> c.fixed]
  \/ c = [pc |-> "dedup"]
  \/ c = [pc |-> "tell"]

CallsShaped ==
  /\ call = [h \in Handlers |-> call[h]]
  /\ \A h \in Handlers : CallShape(call[h])

PushesCovered ==
  /\ pushes \in Nat /\ faults \in Nat /\ deduped \in BOOLEAN
  /\ IsFiniteSet(Telling)
  /\ pushes + Cardinality(Telling) <= faults + (IF deduped THEN 1 ELSE 0)

IInv ==
  /\ CallsShaped
  /\ PushesCovered
  /\ deduped => pushes > 0 \/ untold \/ Telling # {}

-----------------------------------------------------------------------------
(***************************************************************************)
(* What a step of h does to the calls: h goes on, and others learn at most *)
(* that they were overtaken.                                               *)
(***************************************************************************)
Moves(h, next) ==
  /\ call' = [g \in Handlers |-> call'[g]]
  /\ call'[h] = next
  /\ \A g \in Handlers \ {h} :
       \/ call'[g] = call[g]
       \/ /\ call[g].pc \in {"insert", "update"}
          /\ call'[g] = [call[g] EXCEPT !.overtaken = TRUE]

LEMMA GotoMoves ==
  ASSUME CallsShaped, NEW h \in Handlers, NEW next, Goto(h, next)
  PROVE  Moves(h, next)
BY DEF CallsShaped, Goto, Moves

LEMMA WriteMoves ==
  ASSUME CallsShaped, NEW h \in Handlers, NEW s, NEW new, NEW next, Write(h, s, new, next)
  PROVE  Moves(h, next)
<1>1. call' = [g \in Handlers |->
                 IF g = h THEN next
                 ELSE IF RewriteCuts(call[g], s, new) \/ OthersChange(call[g], s, new)
                      THEN [call[g] EXCEPT !.overtaken = TRUE]
                      ELSE call[g]]
  BY DEF Write
<1>2. \A g \in Handlers :
        RewriteCuts(call[g], s, new) \/ OthersChange(call[g], s, new)
          => call[g].pc \in {"insert", "update"}
  BY DEF RewriteCuts, OthersChange
<1>3. QED
  BY <1>1, <1>2 DEF Moves

LEMMA MovesShape ==
  ASSUME CallsShaped, NEW h \in Handlers, NEW next, CallShape(next), Moves(h, next)
  PROVE  /\ CallsShaped'
         /\ next.pc = "tell" => Telling' = Telling \cup {h}
         /\ next.pc # "tell" => Telling' = Telling \ {h}
<1>1. ASSUME NEW g \in Handlers, g # h
      PROVE  CallShape(call'[g]) /\ call'[g].pc = call[g].pc
  <2>1. CallShape(call[g])
    BY DEF CallsShaped
  <2>2. CASE call'[g] = call[g]
    BY <2>1, <2>2
  <2>3. CASE call[g].pc = "insert" /\ call'[g] = [call[g] EXCEPT !.overtaken = TRUE]
    <3>1. call[g] = [pc |-> "insert", store |-> call[g].store, blocks |-> call[g].blocks,
                     overtaken |-> call[g].overtaken]
      BY <2>1, <2>3 DEF CallShape, Idle
    <3>2. call'[g] = [pc |-> "insert", store |-> call[g].store, blocks |-> call[g].blocks,
                      overtaken |-> TRUE]
      BY <2>3, <3>1
    <3>3. QED
      BY <2>3, <3>2 DEF CallShape
  <2>4. CASE call[g].pc = "update" /\ call'[g] = [call[g] EXCEPT !.overtaken = TRUE]
    <3>1. call[g] = [pc |-> "update", doc |-> call[g].doc, slot |-> call[g].slot,
                     overtaken |-> call[g].overtaken]
      BY <2>1, <2>4 DEF CallShape, Idle
    <3>2. call'[g] = [pc |-> "update", doc |-> call[g].doc, slot |-> call[g].slot,
                      overtaken |-> TRUE]
      BY <2>4, <3>1
    <3>3. QED
      BY <2>4, <3>2 DEF CallShape
  <2>5. QED
    BY <1>1, <2>2, <2>3, <2>4 DEF Moves
<1>2. call' = [g \in Handlers |-> call'[g]] /\ call'[h] = next
  BY DEF Moves
<1>3. CallsShaped'
  BY <1>1, <1>2 DEF CallsShaped, CallShape, Idle
<1>4. QED
  BY <1>1, <1>2, <1>3 DEF Telling

-----------------------------------------------------------------------------
(***************************************************************************)
(* Steps that have nothing to do with the push.                            *)
(***************************************************************************)
LEMMA QuietStep ==
  ASSUME IInv, NEW h \in Handlers, NEW next, CallShape(next), Moves(h, next),
         call[h].pc # "tell", next.pc # "tell",
         UNCHANGED <<deduped, pushes, untold, faults>>
  PROVE  IInv'
<1>1. CallsShaped' /\ Telling' = Telling
  BY MovesShape DEF IInv, Telling
<1>2. PushesCovered'
  BY <1>1 DEF IInv, PushesCovered
<1>3. QED
  BY <1>1, <1>2 DEF IInv

LEMMA EditStep ==
  ASSUME IInv, UNCHANGED <<call, deduped, pushes, untold, faults>>
  PROVE  IInv'
<1>1. Telling' = Telling
  BY DEF Telling
<1>2. CallsShaped'
  BY DEF IInv, CallsShaped, CallShape, Idle
<1>3. QED
  BY <1>1, <1>2 DEF IInv, PushesCovered

LEMMA IdleShape == CallShape(Idle) /\ Idle.pc = "idle"
BY DEF CallShape, Idle

LEMMA StartStep ==
  ASSUME IInv, NEW h \in Handlers,
         GenerateStudy(h) \/ RegenerateFind(h) \/ LifeRead(h)
  PROVE  IInv'
<1>1. call[h].pc # "tell" /\ UNCHANGED <<deduped, pushes, untold, faults>>
  BY IdleShape DEF GenerateStudy, RegenerateFind, LifeRead, Called, telling
<1>2. CASE GenerateStudy(h)
  <2>1. PICK b : Goto(h, [pc |-> "delete", store |-> "study", blocks |-> b])
    BY <1>2 DEF GenerateStudy, Rewrite
  <2> DEFINE next == [pc |-> "delete", store |-> "study", blocks |-> b]
  <2>2. CallShape(next) /\ next.pc = "delete" /\ Goto(h, next)
    BY <2>1 DEF CallShape
  <2> HIDE DEF next
  <2>3. Moves(h, next)
    BY <2>2, GotoMoves DEF IInv
  <2>4. QED
    BY <1>1, <2>2, <2>3, QuietStep
<1>3. CASE RegenerateFind(h)
  <2>1. PICK d : Goto(h, [pc |-> "classes", doc |-> d])
    BY <1>3 DEF RegenerateFind
  <2> DEFINE next == [pc |-> "classes", doc |-> d]
  <2>2. CallShape(next) /\ next.pc = "classes" /\ Goto(h, next)
    BY <2>1 DEF CallShape
  <2> HIDE DEF next
  <2>3. Moves(h, next)
    BY <2>2, GotoMoves DEF IInv
  <2>4. QED
    BY <1>1, <2>2, <2>3, QuietStep
<1>4. CASE LifeRead(h)
  <2>1. PICK b, n : Goto(h, [pc |-> "plan", busy |-> b, number |-> n])
    BY <1>4 DEF LifeRead
  <2> DEFINE next == [pc |-> "plan", busy |-> b, number |-> n]
  <2>2. CallShape(next) /\ next.pc = "plan" /\ Goto(h, next)
    BY <2>1 DEF CallShape
  <2> HIDE DEF next
  <2>3. Moves(h, next)
    BY <2>2, GotoMoves DEF IInv
  <2>4. QED
    BY <1>1, <2>2, <2>3, QuietStep
<1>5. QED
  BY <1>2, <1>3, <1>4

LEMMA ReadStep ==
  ASSUME IInv, NEW h \in Handlers,
         RegenerateRead(h) \/ RegenerateChoose(h) \/ LifeReadPlan(h) \/ LifeLayer(h)
  PROVE  IInv'
<1>1. call[h].pc # "tell" /\ UNCHANGED <<deduped, pushes, untold, faults>>
  BY DEF RegenerateRead, RegenerateChoose, LifeReadPlan, LifeLayer, telling
<1>2. CASE RegenerateRead(h)
  <2>1. PICK d, b : Goto(h, [pc |-> "others", doc |-> d, busy |-> b])
    BY <1>2 DEF RegenerateRead
  <2> DEFINE next == [pc |-> "others", doc |-> d, busy |-> b]
  <2>2. CallShape(next) /\ next.pc = "others" /\ Goto(h, next)
    BY <2>1 DEF CallShape
  <2> HIDE DEF next
  <2>3. Moves(h, next)
    BY <2>2, GotoMoves DEF IInv
  <2>4. QED
    BY <1>1, <2>2, <2>3, QuietStep
<1>3. CASE RegenerateChoose(h)
  <2>1. \/ Goto(h, Idle)
        \/ \E d, s : Goto(h, [pc |-> "update", doc |-> d, slot |-> s, overtaken |-> FALSE])
    BY <1>3 DEF RegenerateChoose, Finish
  <2>2. CASE Goto(h, Idle)
    <3>1. Moves(h, Idle)
      BY <2>2, GotoMoves DEF IInv
    <3>2. QED
      BY <1>1, <3>1, IdleShape, QuietStep
  <2>3. CASE \E d, s : Goto(h, [pc |-> "update", doc |-> d, slot |-> s, overtaken |-> FALSE])
    <3>1. PICK d, s : Goto(h, [pc |-> "update", doc |-> d, slot |-> s, overtaken |-> FALSE])
      BY <2>3
    <3> DEFINE next == [pc |-> "update", doc |-> d, slot |-> s, overtaken |-> FALSE]
    <3>2. CallShape(next) /\ next.pc = "update" /\ Goto(h, next)
      BY <3>1 DEF CallShape
    <3> HIDE DEF next
    <3>3. Moves(h, next)
      BY <3>2, GotoMoves DEF IInv
    <3>4. QED
      BY <1>1, <3>2, <3>3, QuietStep
  <2>4. QED
    BY <2>1, <2>2, <2>3
<1>4. CASE LifeReadPlan(h)
  <2>1. PICK n, f : Goto(h, [pc |-> "routines", number |-> n, fixed |-> f])
    BY <1>4 DEF LifeReadPlan
  <2> DEFINE next == [pc |-> "routines", number |-> n, fixed |-> f]
  <2>2. CallShape(next) /\ next.pc = "routines" /\ Goto(h, next)
    BY <2>1 DEF CallShape
  <2> HIDE DEF next
  <2>3. Moves(h, next)
    BY <2>2, GotoMoves DEF IInv
  <2>4. QED
    BY <1>1, <2>2, <2>3, QuietStep
<1>5. CASE LifeLayer(h)
  <2>1. PICK b : Goto(h, [pc |-> "delete", store |-> "life", blocks |-> b])
    BY <1>5 DEF LifeLayer, Rewrite
  <2> DEFINE next == [pc |-> "delete", store |-> "life", blocks |-> b]
  <2>2. CallShape(next) /\ next.pc = "delete" /\ Goto(h, next)
    BY <2>1 DEF CallShape
  <2> HIDE DEF next
  <2>3. Moves(h, next)
    BY <2>2, GotoMoves DEF IInv
  <2>4. QED
    BY <1>1, <2>2, <2>3, QuietStep
<1>6. QED
  BY <1>2, <1>3, <1>4, <1>5

LEMMA StoreStep ==
  ASSUME IInv, NEW h \in Handlers,
         DeleteAll(h) \/ InsertAll(h) \/ RegenerateUpdate(h)
  PROVE  IInv'
<1>1. call[h].pc # "tell" /\ UNCHANGED <<deduped, pushes, untold, faults>>
  BY DEF DeleteAll, InsertAll, RegenerateUpdate, telling
<1>2. \/ Moves(h, Idle)
      \/ Moves(h, [pc |-> "dedup"])
      \/ \E s, b : Moves(h, [pc |-> "insert", store |-> s, blocks |-> b, overtaken |-> FALSE])
  <2>1. CallsShaped
    BY DEF IInv
  <2>2. CASE DeleteAll(h)
    <3> DEFINE c == call[h]
    <3> DEFINE next == IF c.blocks = {} THEN Idle
             ELSE [pc |-> "insert", store |-> c.store, blocks |-> c.blocks, overtaken |-> FALSE]
    <3>1. Write(h, c.store, {}, next)
      BY <2>2 DEF DeleteAll
    <3>2. Moves(h, next)
      <4> HIDE DEF next, c
      <4>1. QED
        BY <2>1, <3>1, WriteMoves
    <3>3. QED
      BY <3>2
  <2>3. CASE InsertAll(h)
    <3> DEFINE c == call[h]
    <3> DEFINE new == docs[c.store] \cup c.blocks
    <3> DEFINE next == IF c.store = "life" /\ Conflicting(c.blocks) THEN [pc |-> "dedup"] ELSE Idle
    <3>1. Write(h, c.store, new, next)
      BY <2>3 DEF InsertAll
    <3>2. Moves(h, next)
      <4> HIDE DEF next, c, new
      <4>1. QED
        BY <2>1, <3>1, WriteMoves
    <3>3. QED
      BY <3>2
  <2>4. CASE RegenerateUpdate(h)
    <3>1. CASE Finish(h)
      BY <2>1, <3>1, GotoMoves DEF Finish
    <3>2. CASE ~Finish(h)
      <4> DEFINE c == call[h]
      <4> DEFINE new == {d \in docs["study"] : d.id # c.doc.id} \cup {Moved(c.doc, c.slot)}
      <4>1. Write(h, "study", new, Idle)
        BY <2>4, <3>2 DEF RegenerateUpdate
      <4> HIDE DEF c, new
      <4>2. QED
        BY <2>1, <4>1, WriteMoves
    <3>3. QED
      BY <3>1, <3>2
  <2>5. QED
    BY <2>2, <2>3, <2>4
<1>3. CASE Moves(h, Idle)
  BY <1>1, <1>3, IdleShape, QuietStep
<1>4. CASE Moves(h, [pc |-> "dedup"])
  BY <1>1, <1>4, QuietStep DEF CallShape
<1>5. CASE \E s, b : Moves(h, [pc |-> "insert", store |-> s, blocks |-> b, overtaken |-> FALSE])
  <2>1. PICK s, b : Moves(h, [pc |-> "insert", store |-> s, blocks |-> b, overtaken |-> FALSE])
    BY <1>5
  <2> DEFINE next == [pc |-> "insert", store |-> s, blocks |-> b, overtaken |-> FALSE]
  <2>2. CallShape(next) /\ next.pc = "insert" /\ Moves(h, next)
    BY <2>1 DEF CallShape
  <2> HIDE DEF next
  <2>3. QED
    BY <1>1, <2>2, QuietStep
<1>6. QED
  BY <1>2, <1>3, <1>4, <1>5

-----------------------------------------------------------------------------
(***************************************************************************)
(* The push: the key lets one call through, a fault lets through or ends   *)
(* another.                                                                *)
(***************************************************************************)
TellShape == [pc |-> "tell"]

LEMMA TellIsShape == CallShape(TellShape) /\ TellShape.pc = "tell"
BY DEF CallShape, TellShape

\* A call that may now enqueue, one unit of the bound more being there for it.
LEMMA OneMore ==
  ASSUME NEW a \in Nat, NEW b \in Int, NEW c \in Nat, NEW d \in Nat, NEW e \in Int,
         NEW p \in Nat, p + c <= a + b, a + b + 1 <= d + e
  PROVE  p + (c + 1) <= d + e
OBVIOUS

LEMMA LetThroughStep ==
  ASSUME IInv, NEW h \in Handlers, Goto(h, TellShape), call[h].pc # "tell",
         UNCHANGED <<pushes, untold>>, faults' \in Nat, deduped' \in BOOLEAN,
         faults + (IF deduped THEN 1 ELSE 0) + 1 <= faults' + (IF deduped' THEN 1 ELSE 0)
  PROVE  IInv'
<1>1. Moves(h, TellShape)
  BY GotoMoves DEF IInv
<1>2. CallsShaped' /\ Telling' = Telling \cup {h}
  BY <1>1, TellIsShape, MovesShape DEF IInv
<1>3. h \notin Telling /\ IsFiniteSet(Telling)
  BY DEF Telling, IInv, PushesCovered
<1>4. /\ IsFiniteSet(Telling') /\ Cardinality(Telling') = Cardinality(Telling) + 1
      /\ Cardinality(Telling) \in Nat
  BY <1>2, <1>3, FS_AddElement, FS_CardinalityType
<1>5. /\ pushes \in Nat /\ faults \in Nat
      /\ pushes + Cardinality(Telling) <= faults + (IF deduped THEN 1 ELSE 0)
  BY DEF IInv, PushesCovered
<1>6. pushes + Cardinality(Telling') <= faults' + (IF deduped' THEN 1 ELSE 0)
  <2>1. PICK was, is, c : /\ was = IF deduped THEN 1 ELSE 0
                          /\ is = IF deduped' THEN 1 ELSE 0
                          /\ c = Cardinality(Telling)
    OBVIOUS
  <2>2. was \in Int /\ is \in Int
    BY <2>1
  <2>3. faults + was + 1 <= faults' + is
    BY <2>1, Zenon
  <2>4. pushes + c <= faults + was /\ c \in Nat
    BY <1>4, <1>5, <2>1
  <2>5. pushes + (c + 1) <= faults' + is
    BY <1>5, <2>2, <2>3, <2>4, OneMore
  <2>6. QED
    BY <1>4, <2>1, <2>5
<1>7. QED
  BY <1>2, <1>4, <1>5, <1>6 DEF IInv, PushesCovered

\* A call that was about to enqueue ends, and its push was enqueued or lost to a fault.
LEMMA ToldStep ==
  ASSUME IInv, NEW h \in Handlers, Goto(h, Idle), call[h].pc = "tell", UNCHANGED deduped,
         \/ pushes' = pushes + 1 /\ UNCHANGED <<untold, faults>>
         \/ pushes' = pushes /\ untold' = TRUE /\ faults' = faults + 1
  PROVE  IInv'
<1>1. Moves(h, Idle)
  BY GotoMoves DEF IInv
<1>2. CallsShaped' /\ Telling' = Telling \ {h}
  BY <1>1, IdleShape, MovesShape DEF IInv
<1>3. h \in Telling /\ IsFiniteSet(Telling)
  BY DEF Telling, IInv, PushesCovered
<1>4. /\ IsFiniteSet(Telling') /\ Cardinality(Telling') = Cardinality(Telling) - 1
      /\ Cardinality(Telling) \in Nat /\ Cardinality(Telling') \in Nat
  BY <1>2, <1>3, FS_RemoveElement, FS_CardinalityType
<1>5. /\ pushes \in Nat /\ faults \in Nat /\ deduped \in BOOLEAN
      /\ pushes + Cardinality(Telling) <= faults + (IF deduped THEN 1 ELSE 0)
  BY DEF IInv, PushesCovered
<1>6. /\ pushes' \in Nat /\ faults' \in Nat
      /\ pushes' + Cardinality(Telling') <= faults' + (IF deduped THEN 1 ELSE 0)
  BY <1>4, <1>5
<1>7. pushes' > 0 \/ untold'
  BY <1>5
<1>8. QED
  BY <1>2, <1>4, <1>5, <1>6, <1>7 DEF IInv, PushesCovered

LEMMA DedupStep ==
  ASSUME IInv, NEW h \in Handlers, DedupOrSkip(h) \/ DedupFailsOpen(h)
  PROVE  IInv'
<1>1. call[h].pc = "dedup" /\ UNCHANGED <<pushes, untold>>
  BY DEF DedupOrSkip, DedupFailsOpen, telling
<1>2. deduped \in BOOLEAN /\ faults \in Nat /\ CallsShaped
  BY DEF IInv, PushesCovered
<1>3. CASE DedupOrSkip(h) /\ deduped
  <2>1. Goto(h, Idle) /\ deduped' = deduped /\ faults' = faults
    BY <1>2, <1>3 DEF DedupOrSkip, Finish
  <2>2. Moves(h, Idle)
    BY <1>2, <2>1, GotoMoves
  <2>3. QED
    BY <1>1, <2>1, <2>2, IdleShape, QuietStep
<1>4. CASE DedupOrSkip(h) /\ ~deduped
  <2>1. Goto(h, TellShape) /\ deduped' = TRUE /\ faults' = faults
    BY <1>4 DEF DedupOrSkip, TellShape
  <2>2. faults + (IF deduped THEN 1 ELSE 0) + 1 <= faults' + (IF deduped' THEN 1 ELSE 0)
    BY <1>2, <1>4, <2>1
  <2>3. QED
    BY <1>1, <1>2, <2>1, <2>2, LetThroughStep
<1>5. CASE DedupFailsOpen(h)
  <2>1. Goto(h, TellShape) /\ deduped' = deduped /\ faults' = faults + 1
    BY <1>5 DEF DedupFailsOpen, TellShape, Fault, telling
  <2>2. faults + (IF deduped THEN 1 ELSE 0) + 1 <= faults' + (IF deduped' THEN 1 ELSE 0)
    BY <1>2, <2>1
  <2>3. faults' \in Nat
    BY <1>2, <2>1
  <2>4. QED
    BY <1>1, <1>2, <2>1, <2>2, <2>3, LetThroughStep
<1>6. QED
  BY <1>3, <1>4, <1>5

LEMMA EnqueueStep ==
  ASSUME IInv, NEW h \in Handlers, EnqueuePush(h) \/ EnqueueFails(h)
  PROVE  IInv'
BY ToldStep DEF EnqueuePush, EnqueueFails, Finish, Fault

LEMMA ExpireStep ==
  ASSUME IInv, DedupExpires
  PROVE  IInv'
<1>1. Telling = {} /\ Telling' = {} /\ deduped' = FALSE /\ pushes' = 0
      /\ UNCHANGED <<call, untold, faults>>
  BY DEF DedupExpires, Telling
<1>2. CallsShaped'
  BY <1>1 DEF IInv, CallsShaped, CallShape, Idle
<1>3. faults \in Nat /\ IsFiniteSet({}) /\ Cardinality({}) = 0
  BY FS_EmptySet DEF IInv, PushesCovered
<1>4. PushesCovered'
  <2>1. IsFiniteSet(Telling') /\ Cardinality(Telling') = 0
    BY <1>1, <1>3
  <2>2. pushes' \in Nat /\ faults' \in Nat /\ deduped' \in BOOLEAN /\ ~deduped'
    BY <1>1, <1>3
  <2>3. pushes' + Cardinality(Telling') <= faults' + (IF deduped' THEN 1 ELSE 0)
    BY <1>1, <1>3, <2>1, <2>2
  <2>4. QED
    BY <2>1, <2>2, <2>3 DEF PushesCovered
<1>5. QED
  BY <1>1, <1>2, <1>4 DEF IInv

LEMMA FailStep ==
  ASSUME IInv, NEW h \in Handlers, CallFails(h)
  PROVE  IInv'
<1>1. /\ Goto(h, Idle) /\ faults' = faults + 1 /\ UNCHANGED <<deduped, pushes>>
      /\ untold' = (untold \/ call[h].pc \in {"dedup", "tell"})
  BY DEF CallFails, Finish, Fault
<1>2. CASE call[h].pc = "tell"
  BY <1>1, <1>2, ToldStep
<1>3. CASE call[h].pc # "tell"
  <2>1. Moves(h, Idle)
    BY <1>1, GotoMoves DEF IInv
  <2>2. CallsShaped' /\ Telling' = Telling
    BY <1>3, <2>1, IdleShape, MovesShape DEF IInv, Telling
  <2>3. /\ pushes \in Nat /\ faults \in Nat /\ deduped \in BOOLEAN /\ IsFiniteSet(Telling)
        /\ pushes + Cardinality(Telling) <= faults + (IF deduped THEN 1 ELSE 0)
    BY DEF IInv, PushesCovered
  <2>4. Cardinality(Telling) \in Nat
    BY <2>3, FS_CardinalityType
  <2>5. PushesCovered'
    BY <1>1, <2>2, <2>3, <2>4 DEF PushesCovered
  <2>6. (deduped => pushes > 0 \/ untold \/ Telling # {})'
    BY <1>1, <2>2 DEF IInv
  <2>7. QED
    BY <2>2, <2>5, <2>6 DEF IInv
<1>4. QED
  BY <1>2, <1>3

-----------------------------------------------------------------------------
LEMMA InitIInv == Init => IInv
<1> SUFFICES ASSUME Init PROVE IInv
  OBVIOUS
<1>1. call = [h \in Handlers |-> call[h]] /\ \A h \in Handlers : call[h] = Idle
  BY DEF Init
<1>2. CallsShaped /\ Telling = {}
  BY <1>1, IdleShape DEF CallsShaped, Telling
<1>3. IsFiniteSet({}) /\ Cardinality({}) = 0
  BY FS_EmptySet
<1>4. pushes = 0 /\ faults = 0 /\ deduped = FALSE
  BY DEF Init
<1>5. PushesCovered
  <2>1. IsFiniteSet(Telling) /\ Cardinality(Telling) = 0
    BY <1>2, <1>3
  <2>2. pushes \in Nat /\ faults \in Nat /\ deduped \in BOOLEAN /\ ~deduped
    BY <1>4
  <2>3. pushes + Cardinality(Telling) <= faults + (IF deduped THEN 1 ELSE 0)
    BY <1>4, <2>1, <2>2
  <2>4. QED
    BY <2>1, <2>2, <2>3 DEF PushesCovered
<1>6. QED
  BY <1>2, <1>4, <1>5 DEF IInv

LEMMA Inductive == IInv /\ [Next]_vars => IInv'
<1> SUFFICES ASSUME IInv, [Next]_vars PROVE IInv'
  OBVIOUS
<1>1. CASE CreateEntry \/ UpdateEntry \/ DeleteEntry \/ EditRoutines \/ UNCHANGED vars
  BY <1>1, EditStep
    DEF CreateEntry, UpdateEntry, DeleteEntry, EditRoutines, vars, telling
<1>2. CASE DedupExpires
  BY <1>2, ExpireStep
<1>3. ASSUME NEW h \in Handlers,
             GenerateStudy(h) \/ RegenerateFind(h) \/ LifeRead(h)
      PROVE  IInv'
  BY <1>3, StartStep
<1>4. ASSUME NEW h \in Handlers,
             RegenerateRead(h) \/ RegenerateChoose(h) \/ LifeReadPlan(h) \/ LifeLayer(h)
      PROVE  IInv'
  BY <1>4, ReadStep
<1>5. ASSUME NEW h \in Handlers, DeleteAll(h) \/ InsertAll(h) \/ RegenerateUpdate(h)
      PROVE  IInv'
  BY <1>5, StoreStep
<1>6. ASSUME NEW h \in Handlers, DedupOrSkip(h) \/ DedupFailsOpen(h) PROVE IInv'
  BY <1>6, DedupStep
<1>7. ASSUME NEW h \in Handlers, EnqueuePush(h) \/ EnqueueFails(h) PROVE IInv'
  BY <1>7, EnqueueStep
<1>8. ASSUME NEW h \in Handlers, CallFails(h) PROVE IInv'
  BY <1>8, FailStep
<1>9. QED
  BY <1>1, <1>2, <1>3, <1>4, <1>5, <1>6, <1>7, <1>8 DEF Next

(***************************************************************************)
(* notify_life_schedule_conflict: a window has one push more than there    *)
(* were faults at most, and the key that silences a call is there after or *)
(* before a push, or when a fault lost it.                                 *)
(***************************************************************************)
THEOREM TellsOnceHolds == Spec => []TellsOnce
<1>1. IInv => TellsOnce
  <2> SUFFICES ASSUME IInv PROVE TellsOnce
    OBVIOUS
  <2>1. /\ pushes \in Nat /\ faults \in Nat /\ IsFiniteSet(Telling)
        /\ pushes + Cardinality(Telling) <= faults + (IF deduped THEN 1 ELSE 0)
    BY DEF IInv, PushesCovered
  <2>2. Cardinality(Telling) \in Nat
    BY <2>1, FS_CardinalityType
  <2>3. pushes <= 1 + faults
    BY <2>1, <2>2
  <2>4. QED
    BY <2>3 DEF TellsOnce, IInv, Telling
<1>2. QED
  BY <1>1, InitIInv, Inductive, PTL DEF Spec

-----------------------------------------------------------------------------
(***************************************************************************)
(* The inductive invariant for the stores.  What a call carries from one   *)
(* of its steps to the next is the blocks of one call, or a block of the   *)
(* plan; and a call between delete_many and insert_many finds its store    *)
(* empty, or was told that somebody else wrote it.                         *)
(***************************************************************************)
DocShape(d) == d = [id |-> d.id, block |-> d.block]

OneCall(S) ==
  /\ \A d \in S : DocShape(d)
  /\ \A d, e \in S : d.id[1] = e.id[1] /\ (d.id = e.id => d = e)

CallSound(c) ==
  /\ c.pc \in {"delete", "insert"} => c.store \in Store /\ OneCall(c.blocks)
  /\ c.pc \in {"classes", "others", "update"} => DocShape(c.doc)

CallsSound == \A h \in Handlers : CallSound(call[h])

StoresShaped ==
  /\ docs = [s \in Store |-> docs[s]]
  /\ wrote = [s \in Store |-> wrote[s]]
  /\ mixed \in [Store -> BOOLEAN]
  /\ cut \in [Store -> BOOLEAN]
  /\ \A s \in Store : \A d \in docs[s] : DocShape(d)

Undisturbed ==
  \A h \in Handlers :
    call[h].pc = "insert" /\ ~call[h].overtaken => docs[call[h].store] = {}

Between(s) == \E h \in Handlers : call[h].pc = "insert" /\ call[h].store = s

WholeStore(s) ==
  \/ Ids(docs[s]) = wrote[s] /\ OneCall(docs[s])
  \/ mixed[s] \/ cut[s]
  \/ Between(s)

WInv ==
  /\ CallsShaped /\ CallsSound
  /\ StoresShaped /\ Undisturbed
  /\ \A s \in Store : WholeStore(s)

-----------------------------------------------------------------------------
(***************************************************************************)
(* The calls other than h keep what they carry.                            *)
(***************************************************************************)
LEMMA OthersKeep ==
  ASSUME CallsShaped, NEW h \in Handlers, NEW next, Moves(h, next), NEW g \in Handlers, g # h
  PROVE  /\ call'[g].pc = call[g].pc
         /\ call[g].pc \in {"delete", "insert"} =>
              call'[g].store = call[g].store /\ call'[g].blocks = call[g].blocks
         /\ call[g].pc \in {"classes", "others", "update"} => call'[g].doc = call[g].doc
         /\ call[g].pc = "insert" /\ ~call'[g].overtaken => ~call[g].overtaken
<1>1. CallShape(call[g])
  BY DEF CallsShaped
<1>2. CASE call'[g] = call[g]
  BY <1>2
<1>3. CASE call[g].pc = "insert" /\ call'[g] = [call[g] EXCEPT !.overtaken = TRUE]
  <2>1. call[g] = [pc |-> "insert", store |-> call[g].store, blocks |-> call[g].blocks,
                   overtaken |-> call[g].overtaken]
    BY <1>1, <1>3 DEF CallShape, Idle
  <2>2. call'[g] = [pc |-> "insert", store |-> call[g].store, blocks |-> call[g].blocks,
                    overtaken |-> TRUE]
    BY <1>3, <2>1
  <2>3. QED
    BY <1>3, <2>2
<1>4. CASE call[g].pc = "update" /\ call'[g] = [call[g] EXCEPT !.overtaken = TRUE]
  <2>1. call[g] = [pc |-> "update", doc |-> call[g].doc, slot |-> call[g].slot,
                   overtaken |-> call[g].overtaken]
    BY <1>1, <1>4 DEF CallShape, Idle
  <2>2. call'[g] = [pc |-> "update", doc |-> call[g].doc, slot |-> call[g].slot,
                    overtaken |-> TRUE]
    BY <1>4, <2>1
  <2>3. QED
    BY <1>4, <2>2
<1>5. QED
  BY <1>2, <1>3, <1>4 DEF Moves

LEMMA MovesSound ==
  ASSUME CallsShaped, CallsSound, NEW h \in Handlers, NEW next,
         CallShape(next), CallSound(next), Moves(h, next)
  PROVE  CallsShaped' /\ CallsSound'
<1>1. CallsShaped'
  BY MovesShape
<1>2. ASSUME NEW g \in Handlers, g # h PROVE CallSound(call'[g])
  <2>1. CallSound(call[g])
    BY DEF CallsSound
  <2>2. QED
    BY <1>2, <2>1, OthersKeep DEF CallSound
<1>3. call'[h] = next
  BY DEF Moves
<1>4. QED
  BY <1>1, <1>2, <1>3 DEF CallsSound, CallSound, OneCall, DocShape

\* A step that leaves the stores alone, and neither begins nor ends a rewrite.
LEMMA CalmStep ==
  ASSUME WInv, NEW h \in Handlers, NEW next, CallShape(next), CallSound(next), Moves(h, next),
         call[h].pc # "insert", next.pc # "insert", UNCHANGED stores
  PROVE  WInv'
<1>1. CallsShaped' /\ CallsSound'
  BY MovesSound DEF WInv
<1>2. UNCHANGED <<docs, mixed, cut, wrote>>
  BY DEF stores
<1>3. StoresShaped'
  BY <1>2 DEF WInv, StoresShaped, DocShape
<1>4. call'[h] = next
  BY DEF Moves
<1>5. Undisturbed'
  BY <1>2, <1>4, OthersKeep DEF WInv, Undisturbed
<1>6. ASSUME NEW s \in Store, Between(s) PROVE Between(s)'
  <2>1. PICK g \in Handlers : call[g].pc = "insert" /\ call[g].store = s
    BY <1>6 DEF Between
  <2>2. call'[g].pc = "insert" /\ call'[g].store = s
    BY <2>1, OthersKeep DEF WInv
  <2>3. QED
    BY <2>2 DEF Between
<1>7. ASSUME NEW s \in Store PROVE WholeStore(s)'
  <2>1. WholeStore(s)
    BY DEF WInv
  <2>2. QED
    BY <1>2, <1>6, <2>1 DEF WholeStore, Ids, OneCall, DocShape
<1>8. QED
  BY <1>1, <1>3, <1>5, <1>7 DEF WInv

LEMMA CalmEdit ==
  ASSUME WInv, UNCHANGED <<call, stores>>
  PROVE  WInv'
<1>1. UNCHANGED <<call, docs, mixed, cut, wrote>>
  BY DEF stores
<1>2. CallsShaped'
  BY <1>1 DEF WInv, CallsShaped, CallShape, Idle
<1>3. CallsSound' /\ StoresShaped' /\ Undisturbed'
  BY <1>1 DEF WInv, CallsSound, CallSound, StoresShaped, Undisturbed, OneCall, DocShape
<1>4. \A s \in Store : WholeStore(s)'
  BY <1>1 DEF WInv, WholeStore, Between, Ids, OneCall, DocShape
<1>5. QED
  BY <1>2, <1>3, <1>4 DEF WInv

\* The steps that read, choose and tell.
LEMMA RewriteSound ==
  ASSUME NEW s \in Store, NEW n, NEW blocks
  PROVE  CallShape(Rewrite(s, n, blocks)) /\ CallSound(Rewrite(s, n, blocks))
         /\ Rewrite(s, n, blocks).pc = "delete"
<1> DEFINE S == {[id |-> <<n, i>>, block |-> blocks[i]] : i \in DOMAIN blocks}
<1>1. OneCall(S)
  <2>1. ASSUME NEW d \in S PROVE DocShape(d)
    BY DEF DocShape
  <2>2. ASSUME NEW d \in S, NEW e \in S PROVE d.id[1] = e.id[1] /\ (d.id = e.id => d = e)
    <3>1. PICK i \in DOMAIN blocks : d = [id |-> <<n, i>>, block |-> blocks[i]]
      OBVIOUS
    <3>2. PICK j \in DOMAIN blocks : e = [id |-> <<n, j>>, block |-> blocks[j]]
      OBVIOUS
    <3>3. d.id = <<n, i>> /\ e.id = <<n, j>>
      BY <3>1, <3>2
    <3>4. QED
      BY <3>1, <3>2, <3>3
  <2>3. QED
    BY <2>1, <2>2 DEF OneCall
<1>2. Rewrite(s, n, blocks) = [pc |-> "delete", store |-> s, blocks |-> S]
  BY DEF Rewrite
<1> HIDE DEF S
<1>3. QED
  BY <1>1, <1>2 DEF CallShape, CallSound

LEMMA CalmGoto ==
  ASSUME WInv, NEW h \in Handlers, NEW next, CallShape(next), CallSound(next), Goto(h, next),
         call[h].pc # "insert", next.pc # "insert", UNCHANGED stores
  PROVE  WInv'
BY CalmStep, GotoMoves DEF WInv

LEMMA IdleSound == CallShape(Idle) /\ CallSound(Idle) /\ Idle.pc = "idle"
BY DEF CallShape, CallSound, Idle

LEMMA StartKeeps ==
  ASSUME WInv, NEW h \in Handlers,
         GenerateStudy(h) \/ RegenerateFind(h) \/ LifeRead(h)
  PROVE  WInv'
<1>1. call[h].pc # "insert" /\ UNCHANGED stores
  BY IdleSound DEF GenerateStudy, RegenerateFind, LifeRead, Called
<1>2. CASE GenerateStudy(h)
  <2>1. PICK b : Goto(h, Rewrite("study", calls', b))
    BY <1>2 DEF GenerateStudy
  <2>2. "study" \in Store
    BY DEF Store
  <2>3. PICK n : n = calls'
    OBVIOUS
  <2> DEFINE next == Rewrite("study", n, b)
  <2>4. CallShape(next) /\ CallSound(next) /\ next.pc = "delete"
    BY <2>2, RewriteSound
  <2>5. Goto(h, next)
    BY <2>1, <2>3
  <2> HIDE DEF next
  <2>6. QED
    BY <1>1, <2>4, <2>5, CalmGoto
<1>3. CASE RegenerateFind(h)
  <2>1. PICK d \in docs["study"] : Goto(h, [pc |-> "classes", doc |-> d])
    BY <1>3 DEF RegenerateFind
  <2>2. DocShape(d)
    BY DEF WInv, StoresShaped, Store
  <2> DEFINE next == [pc |-> "classes", doc |-> d]
  <2>3. CallShape(next) /\ CallSound(next) /\ next.pc = "classes" /\ Goto(h, next)
    BY <2>1, <2>2 DEF CallShape, CallSound
  <2> HIDE DEF next
  <2>4. QED
    BY <1>1, <2>3, CalmGoto
<1>4. CASE LifeRead(h)
  <2>1. PICK b, n : Goto(h, [pc |-> "plan", busy |-> b, number |-> n])
    BY <1>4 DEF LifeRead
  <2> DEFINE next == [pc |-> "plan", busy |-> b, number |-> n]
  <2>2. CallShape(next) /\ CallSound(next) /\ next.pc = "plan" /\ Goto(h, next)
    BY <2>1 DEF CallShape, CallSound
  <2> HIDE DEF next
  <2>3. QED
    BY <1>1, <2>2, CalmGoto
<1>5. QED
  BY <1>2, <1>3, <1>4

LEMMA ReadKeeps ==
  ASSUME WInv, NEW h \in Handlers,
         RegenerateRead(h) \/ RegenerateChoose(h) \/ LifeReadPlan(h) \/ LifeLayer(h)
  PROVE  WInv'
<1>1. call[h].pc # "insert" /\ UNCHANGED stores
  BY DEF RegenerateRead, RegenerateChoose, LifeReadPlan, LifeLayer
<1>2. CallSound(call[h])
  BY DEF WInv, CallsSound
<1>3. CASE RegenerateRead(h)
  <2>1. PICK d, b : d = call[h].doc /\ Goto(h, [pc |-> "others", doc |-> d, busy |-> b])
    BY <1>3 DEF RegenerateRead
  <2>2. DocShape(d)
    BY <1>2, <1>3, <2>1 DEF RegenerateRead, CallSound
  <2> DEFINE next == [pc |-> "others", doc |-> d, busy |-> b]
  <2>3. CallShape(next) /\ CallSound(next) /\ next.pc = "others" /\ Goto(h, next)
    BY <2>1, <2>2 DEF CallShape, CallSound
  <2> HIDE DEF next
  <2>4. QED
    BY <1>1, <2>3, CalmGoto
<1>4. CASE RegenerateChoose(h)
  <2>1. PICK d : d = call[h].doc
    OBVIOUS
  <2>2. DocShape(d)
    BY <1>2, <1>4, <2>1 DEF RegenerateChoose, CallSound
  <2>3. \/ Goto(h, Idle)
        \/ \E s : Goto(h, [pc |-> "update", doc |-> d, slot |-> s, overtaken |-> FALSE])
    BY <1>4, <2>1 DEF RegenerateChoose, Finish
  <2>4. CASE Goto(h, Idle)
    BY <1>1, <2>4, IdleSound, CalmGoto
  <2>5. CASE \E s : Goto(h, [pc |-> "update", doc |-> d, slot |-> s, overtaken |-> FALSE])
    <3>1. PICK s : Goto(h, [pc |-> "update", doc |-> d, slot |-> s, overtaken |-> FALSE])
      BY <2>5
    <3> DEFINE next == [pc |-> "update", doc |-> d, slot |-> s, overtaken |-> FALSE]
    <3>2. CallShape(next) /\ CallSound(next) /\ next.pc = "update" /\ Goto(h, next)
      BY <2>2, <3>1 DEF CallShape, CallSound
    <3> HIDE DEF next
    <3>3. QED
      BY <1>1, <3>2, CalmGoto
  <2>6. QED
    BY <2>3, <2>4, <2>5
<1>5. CASE LifeReadPlan(h)
  <2>1. PICK n, f : Goto(h, [pc |-> "routines", number |-> n, fixed |-> f])
    BY <1>5 DEF LifeReadPlan
  <2> DEFINE next == [pc |-> "routines", number |-> n, fixed |-> f]
  <2>2. CallShape(next) /\ CallSound(next) /\ next.pc = "routines" /\ Goto(h, next)
    BY <2>1 DEF CallShape, CallSound
  <2> HIDE DEF next
  <2>3. QED
    BY <1>1, <2>2, CalmGoto
<1>6. CASE LifeLayer(h)
  <2>1. PICK n, b : Goto(h, Rewrite("life", n, b))
    BY <1>6 DEF LifeLayer
  <2> DEFINE next == Rewrite("life", n, b)
  <2>2. CallShape(next) /\ CallSound(next) /\ next.pc = "delete"
    BY RewriteSound DEF Store
  <2>3. Goto(h, next)
    BY <2>1
  <2> HIDE DEF next
  <2>4. QED
    BY <1>1, <2>2, <2>3, CalmGoto
<1>7. QED
  BY <1>3, <1>4, <1>5, <1>6

LEMMA TellKeeps ==
  ASSUME WInv, NEW h \in Handlers,
         DedupOrSkip(h) \/ DedupFailsOpen(h) \/ EnqueuePush(h) \/ EnqueueFails(h)
  PROVE  WInv'
<1>1. call[h].pc # "insert" /\ UNCHANGED stores
  BY DEF DedupOrSkip, DedupFailsOpen, EnqueuePush, EnqueueFails
<1>2. Goto(h, Idle) \/ Goto(h, TellShape)
  BY DEF DedupOrSkip, DedupFailsOpen, EnqueuePush, EnqueueFails, Finish, TellShape
<1>3. CallSound(TellShape)
  BY DEF CallSound, TellShape
<1>4. QED
  BY <1>1, <1>2, <1>3, IdleSound, TellIsShape, CalmGoto

-----------------------------------------------------------------------------
(***************************************************************************)
(* The steps that write a store.  One that changes what a rewrite in       *)
(* between had emptied tells it so.                                        *)
(***************************************************************************)
LEMMA WriteTells ==
  ASSUME WInv, NEW h \in Handlers, NEW s \in Store, NEW new, NEW next, Write(h, s, new, next),
         NEW g \in Handlers, g # h, call'[g].pc = "insert", ~call'[g].overtaken
  PROVE  /\ call[g].pc = "insert" /\ call'[g].store = call[g].store
         /\ docs[call[g].store] = {}
         /\ call[g].store = s => new = {}
<1>1. Moves(h, next)
  BY WriteMoves DEF WInv
<1>2. call[g].pc = "insert" /\ call'[g].store = call[g].store /\ ~call[g].overtaken
  BY <1>1, OthersKeep DEF WInv
<1>3. docs[call[g].store] = {}
  BY <1>2 DEF WInv, Undisturbed
<1>4. ASSUME call[g].store = s PROVE new = {}
  <2>1. SUFFICES ASSUME RewriteCuts(call[g], s, new) PROVE FALSE
    BY <1>2, <1>3, <1>4 DEF RewriteCuts
  <2>2. call'[g] = [call[g] EXCEPT !.overtaken = TRUE]
    BY <2>1 DEF Write
  <2>3. call[g] = [pc |-> "insert", store |-> call[g].store, blocks |-> call[g].blocks,
                   overtaken |-> call[g].overtaken]
    BY <1>2 DEF WInv, CallsShaped, CallShape, Idle
  <2>4. call'[g].overtaken
    BY <2>2, <2>3
  <2>5. QED
    BY <2>4
<1>5. QED
  BY <1>2, <1>3, <1>4

LEMMA WriteKeeps ==
  ASSUME WInv, NEW h \in Handlers, NEW s \in Store, NEW new, NEW next, Write(h, s, new, next),
         CallShape(next), CallSound(next), \A d \in new : DocShape(d),
         next.pc = "insert" => next.store = s /\ new = {}
  PROVE  /\ CallsShaped' /\ CallsSound' /\ Undisturbed'
         /\ docs' = [t \in Store |-> IF t = s THEN new ELSE docs[t]]
         /\ \A t \in Store : \A d \in docs'[t] : DocShape(d)
         /\ \A t \in Store :
              Between(t) /\ ~(call[h].pc = "insert" /\ call[h].store = t) => Between(t)'
<1>1. Moves(h, next) /\ call'[h] = next
  BY WriteMoves DEF WInv, Moves
<1>2. CallsShaped' /\ CallsSound'
  BY <1>1, MovesSound DEF WInv
<1>3. docs' = [t \in Store |-> IF t = s THEN new ELSE docs[t]]
  BY DEF Write, WInv, StoresShaped
<1>4. \A t \in Store : \A d \in docs'[t] : DocShape(d)
  BY <1>3 DEF WInv, StoresShaped
<1>5. Undisturbed'
  <2>1. SUFFICES ASSUME NEW g \in Handlers, call'[g].pc = "insert", ~call'[g].overtaken
                 PROVE  docs'[call'[g].store] = {}
    BY DEF Undisturbed
  <2>2. call'[g].store \in Store
    BY <1>2, <2>1 DEF CallsSound, CallSound
  <2>3. CASE g = h
    BY <1>1, <1>3, <2>1, <2>2, <2>3
  <2>4. CASE g # h
    <3>1. /\ call'[g].store = call[g].store /\ docs[call[g].store] = {}
          /\ call[g].store = s => new = {}
      BY <2>1, <2>4, WriteTells
    <3>2. QED
      BY <1>3, <2>2, <3>1
  <2>5. QED
    BY <2>3, <2>4
<1>6. ASSUME NEW t \in Store, Between(t), ~(call[h].pc = "insert" /\ call[h].store = t)
      PROVE  Between(t)'
  <2>1. PICK g \in Handlers : call[g].pc = "insert" /\ call[g].store = t
    BY <1>6 DEF Between
  <2>2. call'[g].pc = "insert" /\ call'[g].store = t
    BY <1>1, <1>6, <2>1, OthersKeep DEF WInv
  <2>3. QED
    BY <2>2 DEF Between
<1>7. QED
  BY <1>2, <1>3, <1>4, <1>5, <1>6

LEMMA DeleteKeeps ==
  ASSUME WInv, NEW h \in Handlers, DeleteAll(h)
  PROVE  WInv'
<1>1. PICK s, b : s = call[h].store /\ b = call[h].blocks
  OBVIOUS
<1>2. call[h].pc = "delete" /\ s \in Store /\ OneCall(b)
  BY <1>1 DEF DeleteAll, WInv, CallsSound, CallSound
<1> DEFINE next == IF b = {} THEN Idle
             ELSE [pc |-> "insert", store |-> s, blocks |-> b, overtaken |-> FALSE]
<1>3. Write(h, s, {}, next)
  BY <1>1 DEF DeleteAll
<1>4. /\ mixed' = [mixed EXCEPT ![s] = FALSE]
      /\ cut' = [cut EXCEPT ![s] = FALSE]
      /\ wrote' = [wrote EXCEPT ![s] = Ids(b)]
  BY <1>1 DEF DeleteAll
<1>5. CallShape(next) /\ CallSound(next)
  BY <1>2, IdleSound DEF CallShape, CallSound
<1>6. /\ next.pc = "insert" => next.store = s
      /\ b # {} => next.pc = "insert" /\ next.store = s
  BY IdleSound
<1>7. call'[h] = next
  <2> HIDE DEF next
  <2>1. QED
    BY <1>3, WriteMoves DEF WInv, Moves
<1> HIDE DEF next
<1>8. /\ CallsShaped' /\ CallsSound' /\ Undisturbed'
      /\ docs' = [t \in Store |-> IF t = s THEN {} ELSE docs[t]]
      /\ \A t \in Store : \A d \in docs'[t] : DocShape(d)
      /\ \A t \in Store : Between(t) => Between(t)'
  BY <1>2, <1>3, <1>5, <1>6, WriteKeeps
<1>9. StoresShaped'
  BY <1>2, <1>4, <1>8 DEF WInv, StoresShaped, DocShape
<1>10. ASSUME NEW t \in Store PROVE WholeStore(t)'
  <2>1. CASE t # s
    <3>1. docs'[t] = docs[t] /\ wrote'[t] = wrote[t] /\ mixed'[t] = mixed[t] /\ cut'[t] = cut[t]
      BY <1>4, <1>8, <2>1 DEF WInv, StoresShaped
    <3>2. WholeStore(t)
      BY DEF WInv
    <3>3. QED
      BY <1>8, <3>1, <3>2 DEF WholeStore, Ids, OneCall, DocShape
  <2>2. CASE t = s /\ b = {}
    <3>1. docs'[t] = {} /\ wrote'[t] = Ids({})
      BY <1>2, <1>4, <1>8, <2>2 DEF WInv, StoresShaped
    <3>2. QED
      BY <3>1 DEF WholeStore, Ids, OneCall
  <2>3. CASE t = s /\ b # {}
    BY <1>6, <1>7, <2>3 DEF WholeStore, Between
  <2>4. QED
    BY <2>1, <2>2, <2>3
<1>11. QED
  BY <1>8, <1>9, <1>10 DEF WInv

LEMMA InsertKeeps ==
  ASSUME WInv, NEW h \in Handlers, InsertAll(h)
  PROVE  WInv'
<1>1. PICK s, b, late : s = call[h].store /\ b = call[h].blocks /\ late = call[h].overtaken
  OBVIOUS
<1>2. /\ call[h].pc = "insert" /\ s \in Store /\ OneCall(b)
      /\ late \in BOOLEAN
      /\ ~late => docs[s] = {}
  BY <1>1 DEF InsertAll, WInv, CallsSound, CallSound, CallsShaped, CallShape, Idle, Undisturbed
<1> DEFINE next == IF s = "life" /\ Conflicting(b) THEN [pc |-> "dedup"] ELSE Idle
<1> DEFINE new == docs[s] \cup b
<1>3. Write(h, s, new, next)
  BY <1>1 DEF InsertAll
<1>4. /\ mixed' = [mixed EXCEPT ![s] = @ \/ late]
      /\ cut' = [cut EXCEPT ![s] = FALSE]
      /\ wrote' = [wrote EXCEPT ![s] = Ids(b)]
  BY <1>1 DEF InsertAll
<1>5. CallShape(next) /\ CallSound(next) /\ next.pc # "insert"
  BY IdleSound DEF CallShape, CallSound
<1>6. \A d \in new : DocShape(d)
  BY <1>2 DEF WInv, StoresShaped, OneCall
<1>7. ~late => new = b
  BY <1>2
<1> HIDE DEF next, new
<1>8. /\ CallsShaped' /\ CallsSound' /\ Undisturbed'
      /\ docs' = [t \in Store |-> IF t = s THEN new ELSE docs[t]]
      /\ \A t \in Store : \A d \in docs'[t] : DocShape(d)
      /\ \A t \in Store : t # s /\ Between(t) => Between(t)'
  BY <1>1, <1>2, <1>3, <1>5, <1>6, WriteKeeps
<1>9. StoresShaped'
  <2>1. mixed' \in [Store -> BOOLEAN] /\ cut' \in [Store -> BOOLEAN]
    BY <1>2, <1>4 DEF WInv, StoresShaped
  <2>2. QED
    BY <1>2, <1>4, <1>8, <2>1 DEF WInv, StoresShaped, DocShape
<1>10. ASSUME NEW t \in Store PROVE WholeStore(t)'
  <2>1. CASE t # s
    <3>1. docs'[t] = docs[t] /\ wrote'[t] = wrote[t] /\ mixed'[t] = mixed[t] /\ cut'[t] = cut[t]
      BY <1>4, <1>8, <2>1 DEF WInv, StoresShaped
    <3>2. WholeStore(t)
      BY DEF WInv
    <3>3. QED
      BY <1>8, <2>1, <3>1, <3>2 DEF WholeStore, Ids, OneCall, DocShape
  <2>2. CASE t = s /\ ~late
    <3>1. docs'[t] = b /\ wrote'[t] = Ids(b)
      BY <1>2, <1>4, <1>7, <1>8, <2>2 DEF WInv, StoresShaped
    <3>2. QED
      BY <1>2, <3>1 DEF WholeStore, Ids, OneCall, DocShape
  <2>3. CASE t = s /\ late
    <3>1. mixed'[t]
      BY <1>2, <1>4, <2>3 DEF WInv, StoresShaped
    <3>2. QED
      BY <3>1 DEF WholeStore
  <2>4. QED
    BY <1>2, <2>1, <2>2, <2>3
<1>11. QED
  BY <1>8, <1>9, <1>10 DEF WInv

\* Update by id puts one block in the place of another of the same id, and never adds one.
LEMMA ReplacedWhole ==
  ASSUME NEW plan, OneCall(plan), NEW old \in plan, NEW doc, DocShape(doc), doc.id = old.id
  PROVE  LET new == {d \in plan : d.id # old.id} \cup {doc}
         IN  Ids(new) = Ids(plan) /\ OneCall(new)
<1> DEFINE new == {d \in plan : d.id # old.id} \cup {doc}
<1>1. \A d \in plan : d.id = old.id \/ d \in new
  OBVIOUS
<1>2. Ids(new) = Ids(plan)
  BY DEF Ids
<1>3. \A d \in new : DocShape(d) /\ d.id[1] = old.id[1]
  BY DEF OneCall
<1>4. \A d, e \in new : d.id = e.id => d = e
  BY DEF OneCall
<1>5. QED
  BY <1>2, <1>3, <1>4 DEF OneCall

LEMMA MovedKeepsId ==
  ASSUME NEW doc, DocShape(doc), NEW slot
  PROVE  DocShape(Moved(doc, slot)) /\ Moved(doc, slot).id = doc.id
<1>1. PICK i, b : doc = [id |-> i, block |-> b]
  BY DEF DocShape
<1>2. PICK m : m = [doc.block EXCEPT !.start = slot.start, !.end = slot.end]
  OBVIOUS
<1>3. Moved(doc, slot) = [doc EXCEPT !.block = m]
  BY <1>2 DEF Moved
<1>4. Moved(doc, slot) = [id |-> i, block |-> m]
  BY <1>1, <1>3
<1>5. QED
  BY <1>1, <1>4 DEF DocShape

LEMMA UpdateKeeps ==
  ASSUME WInv, NEW h \in Handlers, RegenerateUpdate(h)
  PROVE  WInv'
<1>1. PICK doc, slot : doc = call[h].doc /\ slot = call[h].slot
  OBVIOUS
<1>2. call[h].pc = "update" /\ DocShape(doc) /\ UNCHANGED <<cut, wrote>>
  BY <1>1 DEF RegenerateUpdate, WInv, CallsSound, CallSound
<1>3. CASE ~ \E d \in docs["study"] : d.id = doc.id
  <2>1. Goto(h, Idle) /\ UNCHANGED stores
    BY <1>1, <1>2, <1>3 DEF RegenerateUpdate, Finish, stores
  <2>2. QED
    BY <1>2, <2>1, IdleSound, CalmGoto
<1>4. CASE \E d \in docs["study"] : d.id = doc.id
  <2>1. PICK old \in docs["study"] : old.id = doc.id
    BY <1>4
  <2>2. PICK moved : moved = Moved(doc, slot)
    OBVIOUS
  <2>3. DocShape(moved) /\ moved.id = old.id
    BY <1>2, <2>1, <2>2, MovedKeepsId
  <2> DEFINE new == {d \in docs["study"] : d.id # old.id} \cup {moved}
  <2>4. Write(h, "study", new, Idle)
    BY <1>1, <1>4, <2>1, <2>2 DEF RegenerateUpdate
  <2>5. PICK late : mixed' = [mixed EXCEPT !["study"] = @ \/ late] /\ late = call[h].overtaken
    BY <1>1, <1>4 DEF RegenerateUpdate
  <2>6. late \in BOOLEAN
    BY <1>2, <2>5 DEF WInv, CallsShaped, CallShape, Idle
  <2>7. OneCall(docs["study"]) => Ids(new) = Ids(docs["study"]) /\ OneCall(new)
    BY <2>3, ReplacedWhole
  <2>8. \A d \in new : DocShape(d)
    BY <2>3 DEF WInv, StoresShaped, Store
  <2>9. "study" \in Store
    BY DEF Store
  <2> HIDE DEF new
  <2>10. /\ CallsShaped' /\ CallsSound' /\ Undisturbed'
         /\ docs' = [t \in Store |-> IF t = "study" THEN new ELSE docs[t]]
         /\ \A t \in Store : \A d \in docs'[t] : DocShape(d)
         /\ \A t \in Store : Between(t) => Between(t)'
    BY <1>2, <2>4, <2>8, <2>9, IdleSound, WriteKeeps
  <2>11. StoresShaped'
    <3>1. mixed' \in [Store -> BOOLEAN] /\ cut' \in [Store -> BOOLEAN]
      BY <1>2, <2>5, <2>6 DEF WInv, StoresShaped
    <3>2. QED
      BY <1>2, <2>10, <3>1 DEF WInv, StoresShaped, DocShape
  <2>12. ASSUME NEW t \in Store PROVE WholeStore(t)'
    <3>1. wrote'[t] = wrote[t] /\ cut'[t] = cut[t] /\ (mixed[t] => mixed'[t])
      BY <1>2, <2>5 DEF WInv, StoresShaped
    <3>2. WholeStore(t)
      BY DEF WInv
    <3>3. CASE mixed[t] \/ cut[t] \/ Between(t)
      BY <2>10, <3>1, <3>3 DEF WholeStore
    <3>4. CASE Ids(docs[t]) = wrote[t] /\ OneCall(docs[t])
      <4>1. Ids(docs'[t]) = wrote'[t] /\ OneCall(docs'[t])
        BY <2>7, <2>10, <3>1, <3>4
      <4>2. QED
        BY <4>1 DEF WholeStore, Ids, OneCall, DocShape
    <3>5. QED
      BY <3>2, <3>3, <3>4 DEF WholeStore
  <2>13. QED
    BY <2>10, <2>11, <2>12 DEF WInv
<1>5. QED
  BY <1>3, <1>4

\* A call that ends in between says so; any other leaves the stores as they are.
LEMMA FailKeeps ==
  ASSUME WInv, NEW h \in Handlers, CallFails(h)
  PROVE  WInv'
<1>1. /\ Goto(h, Idle) /\ UNCHANGED <<docs, mixed, wrote>>
      /\ cut' = [s \in Store |-> cut[s] \/ (call[h].pc = "insert" /\ call[h].store = s)]
  BY DEF CallFails, Finish
<1>2. Moves(h, Idle) /\ call'[h] = Idle
  BY <1>1, GotoMoves DEF WInv, Moves
<1>3. CallsShaped' /\ CallsSound'
  BY <1>2, IdleSound, MovesSound DEF WInv
<1>4. StoresShaped'
  BY <1>1 DEF WInv, StoresShaped, DocShape
<1>5. Undisturbed'
  BY <1>1, <1>2, IdleSound, OthersKeep DEF WInv, Undisturbed
<1>6. ASSUME NEW s \in Store PROVE WholeStore(s)'
  <2>1. WholeStore(s)
    BY DEF WInv
  <2>2. CASE ~Between(s)
    BY <1>1, <2>1, <2>2 DEF WholeStore, Ids, OneCall, DocShape
  <2>3. CASE Between(s)
    <3>1. PICK g \in Handlers : call[g].pc = "insert" /\ call[g].store = s
      BY <2>3 DEF Between
    <3>2. CASE g = h
      BY <1>1, <3>1, <3>2 DEF WholeStore
    <3>3. CASE g # h
      <4>1. call'[g].pc = "insert" /\ call'[g].store = s
        BY <1>2, <3>1, <3>3, OthersKeep DEF WInv
      <4>2. QED
        BY <4>1 DEF WholeStore, Between
    <3>4. QED
      BY <3>2, <3>3
  <2>4. QED
    BY <2>2, <2>3
<1>7. QED
  BY <1>3, <1>4, <1>5, <1>6 DEF WInv

-----------------------------------------------------------------------------
LEMMA InitWInv == Init => WInv
<1> SUFFICES ASSUME Init PROVE WInv
  OBVIOUS
<1>1. call = [h \in Handlers |-> call[h]] /\ \A h \in Handlers : call[h] = Idle
  BY DEF Init
<1>2. CallsShaped /\ CallsSound /\ Undisturbed
  BY <1>1, IdleSound DEF CallsShaped, CallsSound, Undisturbed
<1>3. /\ docs = [s \in Store |-> {}] /\ wrote = [s \in Store |-> {}]
      /\ mixed = [s \in Store |-> FALSE] /\ cut = [s \in Store |-> FALSE]
  BY DEF Init
<1>4. StoresShaped
  BY <1>3 DEF StoresShaped
<1>5. \A s \in Store : WholeStore(s)
  BY <1>3 DEF WholeStore, Ids, OneCall
<1>6. QED
  BY <1>2, <1>4, <1>5 DEF WInv

LEMMA InductiveW == WInv /\ [Next]_vars => WInv'
<1> SUFFICES ASSUME WInv, [Next]_vars PROVE WInv'
  OBVIOUS
<1>1. CASE CreateEntry \/ UpdateEntry \/ DeleteEntry \/ EditRoutines \/ DedupExpires
           \/ UNCHANGED vars
  BY <1>1, CalmEdit
    DEF CreateEntry, UpdateEntry, DeleteEntry, EditRoutines, DedupExpires, vars
<1>2. ASSUME NEW h \in Handlers, GenerateStudy(h) \/ RegenerateFind(h) \/ LifeRead(h)
      PROVE  WInv'
  BY <1>2, StartKeeps
<1>3. ASSUME NEW h \in Handlers,
             RegenerateRead(h) \/ RegenerateChoose(h) \/ LifeReadPlan(h) \/ LifeLayer(h)
      PROVE  WInv'
  BY <1>3, ReadKeeps
<1>4. ASSUME NEW h \in Handlers,
             DedupOrSkip(h) \/ DedupFailsOpen(h) \/ EnqueuePush(h) \/ EnqueueFails(h)
      PROVE  WInv'
  BY <1>4, TellKeeps
<1>5. ASSUME NEW h \in Handlers, DeleteAll(h) PROVE WInv'
  BY <1>5, DeleteKeeps
<1>6. ASSUME NEW h \in Handlers, InsertAll(h) PROVE WInv'
  BY <1>6, InsertKeeps
<1>7. ASSUME NEW h \in Handlers, RegenerateUpdate(h) PROVE WInv'
  BY <1>7, UpdateKeeps
<1>8. ASSUME NEW h \in Handlers, CallFails(h) PROVE WInv'
  BY <1>8, FailKeeps
<1>9. QED
  BY <1>1, <1>2, <1>3, <1>4, <1>5, <1>6, <1>7, <1>8 DEF Next

(***************************************************************************)
(* replace_all_for_user and regenerate_block: whatever the solvers answer, *)
(* a store holds the blocks of one rewrite, all of them and no other,      *)
(* unless a rewrite is in between, ended there, or others ran into the     *)
(* call that wrote last.                                                   *)
(***************************************************************************)
THEOREM StoresWholeHolds == Spec => []StoresWhole
<1>1. WInv => StoresWhole
  BY DEF WInv, WholeStore, Between, OneCall, StoresWhole
<1>2. QED
  BY <1>1, InitWInv, InductiveW, PTL DEF Spec

-----------------------------------------------------------------------------
(***************************************************************************)
(* The inductive invariant for the study plan.  What a call carries fits   *)
(* what the plan is made of: blocks that end after they start, those of a  *)
(* rewrite apart from each other, and a slot that the other blocks of the  *)
(* day leave free for as long as nobody told the call that they changed.   *)
(***************************************************************************)
StudyShape(b) ==
  /\ b = [subject |-> b.subject, day |-> b.day, start |-> b.start, end |-> b.end]
  /\ TimesForward(b)

PlanShaped(S) == IsFiniteSet(S) /\ \A d \in S : StudyShape(d.block)

Apart(S) ==
  \A d, e \in S : d # e /\ d.block.day = e.block.day => ~Overlaps(d.block, e.block)

Carries(c) ==
  /\ c.pc \in {"delete", "insert"} /\ c.store = "study" => PlanShaped(c.blocks) /\ Apart(c.blocks)
  /\ c.pc \in {"classes", "others", "update"} => StudyShape(c.doc.block)
  /\ c.pc = "others" => IsFiniteSet(c.busy) /\ Forward(c.busy)
  /\ c.pc = "update" => c.slot.start \in Int /\ c.slot.end \in Int /\ c.slot.start < c.slot.end

Fits(c, plan) ==
  \A d \in plan :
    d.id # c.doc.id /\ d.block.day = c.doc.block.day => Avoids(c.slot, d.block)

CallsCarry == \A h \in Handlers : Carries(call[h])

SlotsFit ==
  \A h \in Handlers : call[h].pc = "update" /\ ~call[h].overtaken => Fits(call[h], docs["study"])

\* What the theorem asks of the entries that a user may write.
EntriesForward == \A e \in Entries \cup Patches : TimesForward(e)

TimetableForward == IsFiniteSet(timetable) /\ \A e \in timetable : TimesForward(e)

PlanKept ==
  /\ PlanShaped(docs["study"])
  /\ Apart(docs["study"]) \/ mixed["study"]

PInv ==
  /\ WInv
  /\ TimetableForward
  /\ CallsCarry /\ SlotsFit
  /\ PlanKept

-----------------------------------------------------------------------------
LEMMA OthersCarry ==
  ASSUME CallsShaped, NEW h \in Handlers, NEW next, Moves(h, next), NEW g \in Handlers, g # h
  PROVE  /\ Carries(call[g]) => Carries(call'[g])
         /\ call'[g].pc = "update" =>
              /\ call[g].pc = "update"
              /\ call'[g].doc = call[g].doc /\ call'[g].slot = call[g].slot
              /\ ~call'[g].overtaken => ~call[g].overtaken
<1>1. CallShape(call[g])
  BY DEF CallsShaped
<1>2. CASE call'[g] = call[g]
  BY <1>2
<1>3. CASE call[g].pc = "insert" /\ call'[g] = [call[g] EXCEPT !.overtaken = TRUE]
  <2>1. call[g] = [pc |-> "insert", store |-> call[g].store, blocks |-> call[g].blocks,
                   overtaken |-> call[g].overtaken]
    BY <1>1, <1>3 DEF CallShape, Idle
  <2>2. call'[g] = [pc |-> "insert", store |-> call[g].store, blocks |-> call[g].blocks,
                    overtaken |-> TRUE]
    BY <1>3, <2>1
  <2>3. QED
    BY <1>3, <2>2 DEF Carries
<1>4. CASE call[g].pc = "update" /\ call'[g] = [call[g] EXCEPT !.overtaken = TRUE]
  <2>1. call[g] = [pc |-> "update", doc |-> call[g].doc, slot |-> call[g].slot,
                   overtaken |-> call[g].overtaken]
    BY <1>1, <1>4 DEF CallShape, Idle
  <2>2. call'[g] = [pc |-> "update", doc |-> call[g].doc, slot |-> call[g].slot,
                    overtaken |-> TRUE]
    BY <1>4, <2>1
  <2>3. QED
    BY <1>4, <2>2 DEF Carries
<1>5. QED
  BY <1>2, <1>3, <1>4 DEF Moves

\* A step that leaves the timetable and the plan alone.
LEMMA CalmPlan ==
  ASSUME PInv, WInv', NEW h \in Handlers, NEW next, Moves(h, next), Carries(next),
         next.pc = "update" => Fits(next, docs["study"]),
         UNCHANGED <<timetable, docs, mixed>>
  PROVE  PInv'
<1>1. call'[h] = next /\ CallsShaped
  BY DEF Moves, PInv, WInv
<1>2. \A g \in Handlers : Carries(call'[g])
  BY <1>1, OthersCarry DEF PInv, CallsCarry
<1>3. ASSUME NEW g \in Handlers, call'[g].pc = "update", ~call'[g].overtaken
      PROVE  Fits(call'[g], docs["study"])
  <2>1. CASE g = h
    BY <1>1, <1>3, <2>1
  <2>2. CASE g # h
    <3>1. /\ call[g].pc = "update" /\ ~call[g].overtaken
          /\ call'[g].doc = call[g].doc /\ call'[g].slot = call[g].slot
      BY <1>1, <1>3, <2>2, OthersCarry
    <3>2. Fits(call[g], docs["study"])
      BY <3>1 DEF PInv, SlotsFit
    <3>3. QED
      BY <3>1, <3>2 DEF Fits
  <2>3. QED
    BY <2>1, <2>2
<1>4. CallsCarry' /\ SlotsFit'
  BY <1>2, <1>3 DEF CallsCarry, SlotsFit, Carries, Fits, PlanShaped, Apart, StudyShape,
                    TimesForward, Forward, Avoids, Overlaps
<1>5. TimetableForward' /\ PlanKept'
  BY DEF PInv, TimetableForward, PlanKept, PlanShaped, Apart, StudyShape, TimesForward, Overlaps
<1>6. QED
  BY <1>4, <1>5 DEF PInv

LEMMA CalmCall ==
  ASSUME PInv, WInv', NEW h \in Handlers, NEW next, Goto(h, next), Carries(next),
         next.pc = "update" => Fits(next, docs["study"]),
         UNCHANGED <<timetable, docs, mixed>>
  PROVE  PInv'
BY CalmPlan, GotoMoves DEF PInv, WInv

\* A step that writes a store.
LEMMA WritePlan ==
  ASSUME PInv, WInv', NEW h \in Handlers, NEW s \in Store, NEW new, NEW next,
         Write(h, s, new, next), Carries(next), next.pc # "update", UNCHANGED timetable,
         s = "study" => PlanShaped(new) /\ (Apart(new) \/ mixed'["study"]),
         s # "study" => mixed'["study"] = mixed["study"]
  PROVE  PInv'
<1>1. Moves(h, next) /\ call'[h] = next /\ CallsShaped
  BY WriteMoves DEF PInv, WInv, Moves
<1>2. docs'["study"] = IF s = "study" THEN new ELSE docs["study"]
  BY DEF Write, PInv, WInv, StoresShaped, Store
<1>3. \A g \in Handlers : Carries(call'[g])
  BY <1>1, OthersCarry DEF PInv, CallsCarry
<1>4. ASSUME NEW g \in Handlers, call'[g].pc = "update", ~call'[g].overtaken
      PROVE  Fits(call'[g], docs'["study"])
  <2>1. g # h
    BY <1>1, <1>4
  <2>2. /\ call[g].pc = "update" /\ ~call[g].overtaken
        /\ call'[g].doc = call[g].doc /\ call'[g].slot = call[g].slot
    BY <1>1, <1>4, <2>1, OthersCarry
  <2>3. Fits(call[g], docs["study"])
    BY <2>2 DEF PInv, SlotsFit
  <2>4. CASE s # "study"
    BY <1>2, <2>2, <2>3, <2>4 DEF Fits
  <2>5. CASE s = "study"
    <3>1. ~OthersChange(call[g], s, new)
      <4>1. SUFFICES ASSUME OthersChange(call[g], s, new) PROVE FALSE
        OBVIOUS
      <4>2. call'[g] = [call[g] EXCEPT !.overtaken = TRUE]
        BY <2>1, <4>1 DEF Write
      <4>3. call[g] = [pc |-> "update", doc |-> call[g].doc, slot |-> call[g].slot,
                       overtaken |-> call[g].overtaken]
        BY <1>1, <2>2 DEF CallsShaped, CallShape, Idle
      <4>4. call'[g].overtaken
        BY <4>2, <4>3
      <4>5. QED
        BY <1>4, <4>4
    <3>2. {d \in new : d.id # call[g].doc.id} = {d \in docs["study"] : d.id # call[g].doc.id}
      BY <2>2, <2>5, <3>1 DEF OthersChange
    <3>3. ASSUME NEW d \in new, d.id # call[g].doc.id, d.block.day = call[g].doc.block.day
          PROVE  Avoids(call[g].slot, d.block)
      <4>1. d \in docs["study"]
        BY <3>2, <3>3
      <4>2. QED
        BY <2>3, <3>3, <4>1 DEF Fits
    <3>4. QED
      BY <1>2, <2>2, <2>5, <3>3 DEF Fits
  <2>6. QED
    BY <2>4, <2>5
<1>5. CallsCarry' /\ SlotsFit'
  BY <1>3, <1>4 DEF CallsCarry, SlotsFit, Carries, Fits, PlanShaped, Apart, StudyShape,
                    TimesForward, Forward, Avoids, Overlaps
<1>6. PlanShaped(docs'["study"]) /\ (Apart(docs'["study"]) \/ mixed'["study"])
  BY <1>2 DEF PInv, PlanKept
<1>7. PlanKept'
  BY <1>6 DEF PlanKept, PlanShaped, Apart, StudyShape, TimesForward, Overlaps
<1>8. TimetableForward'
  BY DEF PInv, TimetableForward, TimesForward
<1>9. QED
  BY <1>5, <1>7, <1>8 DEF PInv

-----------------------------------------------------------------------------
(***************************************************************************)
(* What the solvers are given, and what their answers are to the plan.     *)
(***************************************************************************)
LEMMA ImageFinite ==
  ASSUME NEW S, IsFiniteSet(S), NEW T, NEW f \in [S -> T], \A t \in T : \E x \in S : f[x] = t
  PROVE  IsFiniteSet(T)
<1>1. f \in Surjection(S, T)
  BY DEF Surjection
<1>2. QED
  BY <1>1, FS_Surjection

LEMMA BusySound ==
  ASSUME NEW E, IsFiniteSet(E), \A e \in E : TimesForward(e)
  PROVE  IsFiniteSet(Busy(E)) /\ Forward(Busy(E))
<1>1. PICK T : T = Busy(E)
  OBVIOUS
<1>2. T = {[day |-> e.day, start |-> e.start, end |-> e.end] : e \in E}
  BY <1>1 DEF Busy
<1>3. PICK f : f = [e \in E |-> [day |-> e.day, start |-> e.start, end |-> e.end]]
  OBVIOUS
<1>4. f \in [E -> T] /\ \A t \in T : \E e \in E : f[e] = t
  BY <1>2, <1>3
<1>5. IsFiniteSet(T)
  BY <1>4, ImageFinite
<1>6. ASSUME NEW b \in T PROVE b \in Intervals /\ b.start < b.end
  <2>1. PICK e \in E : b = [day |-> e.day, start |-> e.start, end |-> e.end]
    BY <1>2
  <2>2. e.day \in Int /\ e.start \in Int /\ e.end \in Int /\ e.start < e.end
    BY DEF TimesForward
  <2>3. QED
    BY <2>1, <2>2 DEF Intervals
<1>7. QED
  BY <1>1, <1>5, <1>6 DEF Forward

LEMMA OtherBlocksSound ==
  ASSUME PlanShaped(docs["study"]), NEW doc
  PROVE  /\ IsFiniteSet(OtherBlocks(doc)) /\ Forward(OtherBlocks(doc))
         /\ \A d \in docs["study"] : d.id # doc.id =>
              [day |-> d.block.day, start |-> d.block.start, end |-> d.block.end]
                \in OtherBlocks(doc)
<1>1. PICK S, T : S = {e \in docs["study"] : e.id # doc.id} /\ T = OtherBlocks(doc)
  OBVIOUS
<1>2. T = {[day |-> d.block.day, start |-> d.block.start, end |-> d.block.end] : d \in S}
  BY <1>1 DEF OtherBlocks
<1>3. IsFiniteSet(S)
  BY <1>1, FS_Subset DEF PlanShaped
<1>4. PICK f : f = [d \in S |->
                 [day |-> d.block.day, start |-> d.block.start, end |-> d.block.end]]
  OBVIOUS
<1>5. f \in [S -> T] /\ \A t \in T : \E d \in S : f[d] = t
  BY <1>2, <1>4
<1>6. IsFiniteSet(T)
  BY <1>3, <1>5, ImageFinite
<1>7. ASSUME NEW b \in T PROVE b \in Intervals /\ b.start < b.end
  <2>1. PICK d \in S : b = [day |-> d.block.day, start |-> d.block.start, end |-> d.block.end]
    BY <1>2
  <2>2. /\ d.block.day \in Int /\ d.block.start \in Int /\ d.block.end \in Int
        /\ d.block.start < d.block.end
    BY <1>1 DEF PlanShaped, StudyShape, TimesForward
  <2>3. QED
    BY <2>1, <2>2 DEF Intervals
<1>8. QED
  BY <1>1, <1>2, <1>6, <1>7 DEF Forward

LEMMA PlanCarries ==
  ASSUME NEW N, NEW busy, NEW blocks, PlanSound(blocks, N, busy), NEW n
  PROVE  Carries(Rewrite("study", n, blocks)) /\ Rewrite("study", n, blocks).pc = "delete"
<1>1. PICK len \in Nat : len = Len(blocks) /\ DOMAIN blocks = 1..len
  BY DEF PlanSound
<1>2. PICK S : S = {[id |-> <<n, i>>, block |-> blocks[i]] : i \in 1..len}
  OBVIOUS
<1>3. PICK f : f = [i \in 1..len |-> [id |-> <<n, i>>, block |-> blocks[i]]]
  OBVIOUS
<1>4. f \in [1..len -> S] /\ \A d \in S : \E i \in 1..len : f[i] = d
  BY <1>2, <1>3
<1>5. IsFiniteSet(1..len)
  BY FS_Interval
<1>6. IsFiniteSet(S)
  BY <1>4, <1>5, ImageFinite
<1>7. ASSUME NEW i \in 1..len PROVE StudyShape(blocks[i])
  <2>1. blocks[i] \in StudyBlocks(N) /\ InStudyWindow(blocks[i])
    BY <1>1 DEF PlanSound
  <2>2. /\ blocks[i] = [subject |-> blocks[i].subject, day |-> blocks[i].day,
                        start |-> blocks[i].start, end |-> blocks[i].end]
        /\ blocks[i].day \in Int /\ blocks[i].start \in Int /\ blocks[i].end \in Int
    BY <2>1 DEF StudyBlocks
  <2>3. blocks[i].start < blocks[i].end
    BY <2>1, <2>2, StudyAssumption DEF InStudyWindow
  <2>4. QED
    BY <2>2, <2>3 DEF StudyShape, TimesForward
<1>8. ASSUME NEW d \in S PROVE \E i \in 1..len : d.block = blocks[i] /\ d = f[i]
  BY <1>2, <1>3
<1>9. PlanShaped(S)
  BY <1>6, <1>7, <1>8 DEF PlanShaped
<1>10. ASSUME NEW i \in 1..len, NEW j \in 1..len, i < j, blocks[i].day = blocks[j].day
       PROVE  ~Overlaps(blocks[i], blocks[j]) /\ ~Overlaps(blocks[j], blocks[i])
  <2>1. blocks[i].end <= blocks[j].start
    BY <1>1, <1>10 DEF PlanSound
  <2>2. blocks[i].end \in Int /\ blocks[j].start \in Int
    BY <1>7 DEF StudyShape, TimesForward
  <2>3. QED
    BY <2>1, <2>2 DEF Overlaps
<1>11. Apart(S)
  <2>1. SUFFICES ASSUME NEW d \in S, NEW e \in S, d # e, d.block.day = e.block.day
                 PROVE  ~Overlaps(d.block, e.block)
    BY DEF Apart
  <2>2. PICK i \in 1..len, j \in 1..len :
          d.block = blocks[i] /\ d = f[i] /\ e.block = blocks[j] /\ e = f[j]
    BY <1>8
  <2>3. i < j \/ j < i
    BY <2>1, <2>2
  <2>4. QED
    BY <1>10, <2>1, <2>2, <2>3
<1>12. Rewrite("study", n, blocks) = [pc |-> "delete", store |-> "study", blocks |-> S]
  BY <1>1, <1>2 DEF Rewrite
<1>13. QED
  BY <1>9, <1>11, <1>12 DEF Carries

LEMMA LifeCarries ==
  ASSUME NEW n, NEW blocks
  PROVE  Carries(Rewrite("life", n, blocks)) /\ Rewrite("life", n, blocks).pc = "delete"
<1>1. PICK S : Rewrite("life", n, blocks) = [pc |-> "delete", store |-> "life", blocks |-> S]
  BY DEF Rewrite
<1>2. QED
  BY <1>1 DEF Carries

LEMMA ChosenFits ==
  ASSUME PlanShaped(docs["study"]), NEW busy, IsFiniteSet(busy), Forward(busy),
         NEW doc, StudyShape(doc.block), NEW slot,
         slot = FindReplacementSlot(busy, OtherBlocks(doc), doc.block.day, doc.block.start),
         slot # NoSlot
  PROVE  LET c == [pc |-> "update", doc |-> doc, slot |-> slot, overtaken |-> FALSE]
         IN  Carries(c) /\ Fits(c, docs["study"])
<1>1. PICK others : others = OtherBlocks(doc)
  OBVIOUS
<1>2. /\ IsFiniteSet(others) /\ Forward(others)
      /\ \A d \in docs["study"] : d.id # doc.id =>
           [day |-> d.block.day, start |-> d.block.start, end |-> d.block.end] \in others
  BY <1>1, OtherBlocksSound
<1>3. IsFiniteSet(busy \cup others) /\ Forward(busy \cup others)
  BY <1>2, FS_Union DEF Forward
<1>4. PICK day, exclude : day = doc.block.day /\ exclude = doc.block.start
  OBVIOUS
<1>5. /\ slot \in Gap /\ InStudyWindow(slot)
      /\ Clear(slot, day, busy \cup others)
  BY <1>1, <1>3, <1>4, ReplacementSlotSound
<1>6. slot.start \in Int /\ slot.end \in Int /\ slot.start < slot.end
  BY <1>5, StudyAssumption DEF Gap, InStudyWindow
<1>7. ASSUME NEW d \in docs["study"], d.id # doc.id, d.block.day = day
      PROVE  Avoids(slot, d.block)
  <2>1. PICK b \in others : b = [day |-> d.block.day, start |-> d.block.start, end |-> d.block.end]
    BY <1>2, <1>7
  <2>2. Avoids(slot, b)
    BY <1>5, <1>7, <2>1 DEF Clear
  <2>3. b.start = d.block.start /\ b.end = d.block.end
    BY <2>1
  <2>4. QED
    BY <2>2, <2>3 DEF Avoids
<1>8. QED
  BY <1>4, <1>6, <1>7 DEF Carries, Fits

-----------------------------------------------------------------------------
(***************************************************************************)
(* The steps.                                                              *)
(***************************************************************************)
LEMMA EditPlan ==
  ASSUME EntriesForward, PInv, WInv', CreateEntry \/ UpdateEntry \/ DeleteEntry
  PROVE  PInv'
<1>1. /\ UNCHANGED <<call, docs, mixed>>
      /\ \/ \E e \in Entries : timetable' = timetable \cup {e}
         \/ \E e \in timetable, f \in Patches : timetable' = (timetable \ {e}) \cup {f}
         \/ \E e \in timetable : timetable' = timetable \ {e}
  BY DEF CreateEntry, UpdateEntry, DeleteEntry, stores
<1>2. IsFiniteSet(timetable) /\ \A e \in timetable : TimesForward(e)
  BY DEF PInv, TimetableForward
<1>3. IsFiniteSet(timetable')
  <2>1. CASE \E e \in Entries : timetable' = timetable \cup {e}
    BY <1>2, <2>1, FS_AddElement
  <2>2. CASE \E e \in timetable, f \in Patches : timetable' = (timetable \ {e}) \cup {f}
    <3>1. PICK e \in timetable, f \in Patches : timetable' = (timetable \ {e}) \cup {f}
      BY <2>2
    <3>2. PICK rest : rest = timetable \ {e}
      OBVIOUS
    <3>3. IsFiniteSet(rest)
      BY <1>2, <3>2, FS_RemoveElement
    <3>4. QED
      BY <3>1, <3>2, <3>3, FS_AddElement
  <2>3. CASE \E e \in timetable : timetable' = timetable \ {e}
    BY <1>2, <2>3, FS_RemoveElement
  <2>4. QED
    BY <1>1, <2>1, <2>2, <2>3
<1>4. \A e \in timetable' : TimesForward(e)
  BY <1>1, <1>2 DEF EntriesForward
<1>5. TimetableForward'
  BY <1>3, <1>4 DEF TimetableForward, TimesForward
<1>6. CallsCarry' /\ SlotsFit'
  BY <1>1 DEF PInv, CallsCarry, SlotsFit, Carries, Fits, PlanShaped, Apart, StudyShape,
              TimesForward, Forward, Avoids, Overlaps
<1>7. PlanKept'
  BY <1>1 DEF PInv, PlanKept, PlanShaped, Apart, StudyShape, TimesForward, Overlaps
<1>8. QED
  BY <1>5, <1>6, <1>7 DEF PInv

LEMMA StillPlan ==
  ASSUME PInv, WInv', UNCHANGED <<timetable, call, docs, mixed>>
  PROVE  PInv'
<1>1. TimetableForward'
  BY DEF PInv, TimetableForward, TimesForward
<1>2. CallsCarry' /\ SlotsFit'
  BY DEF PInv, CallsCarry, SlotsFit, Carries, Fits, PlanShaped, Apart, StudyShape,
         TimesForward, Forward, Avoids, Overlaps
<1>3. PlanKept'
  BY DEF PInv, PlanKept, PlanShaped, Apart, StudyShape, TimesForward, Overlaps
<1>4. QED
  BY <1>1, <1>2, <1>3 DEF PInv

LEMMA IdleCarries == Carries(Idle) /\ Idle.pc = "idle"
BY DEF Carries, Idle

LEMMA GeneratePlan ==
  ASSUME PInv, WInv', NEW h \in Handlers, GenerateStudy(h)
  PROVE  PInv'
<1>1. PICK busy, subjects, n :
        /\ busy = Busy(timetable)
        /\ Goto(h, Rewrite("study", n, GenerateStudyBlocks(busy, subjects)))
  BY DEF GenerateStudy
<1>2. IsFiniteSet(busy) /\ Forward(busy)
  BY <1>1, BusySound DEF PInv, TimetableForward
<1>3. PICK N, blocks : /\ blocks = GenerateStudyBlocks(busy, subjects)
                       /\ PlanSound(blocks, N, busy)
  BY <1>2, GeneratedPlanSound
<1>4. PICK next : next = Rewrite("study", n, blocks)
  OBVIOUS
<1>5. Carries(next) /\ next.pc = "delete"
  BY <1>3, <1>4, PlanCarries
<1>6. Goto(h, next) /\ UNCHANGED <<timetable, docs, mixed>>
  BY <1>1, <1>3, <1>4 DEF GenerateStudy, inputs, stores
<1>7. QED
  BY <1>5, <1>6, CalmCall

LEMMA RegeneratePlan ==
  ASSUME PInv, WInv', NEW h \in Handlers,
         RegenerateFind(h) \/ RegenerateRead(h) \/ RegenerateChoose(h)
  PROVE  PInv'
<1>1. UNCHANGED <<timetable, docs, mixed>>
  BY DEF RegenerateFind, RegenerateRead, RegenerateChoose, inputs, stores
<1>2. Carries(call[h]) /\ PlanShaped(docs["study"])
  BY DEF PInv, CallsCarry, PlanKept
<1>3. CASE RegenerateFind(h)
  <2>1. PICK d \in docs["study"] : Goto(h, [pc |-> "classes", doc |-> d])
    BY <1>3 DEF RegenerateFind
  <2>2. PICK next : next = [pc |-> "classes", doc |-> d]
    OBVIOUS
  <2>3. Carries(next) /\ next.pc = "classes"
    BY <1>2, <2>2 DEF Carries, PlanShaped
  <2>4. QED
    BY <1>1, <2>1, <2>2, <2>3, CalmCall
<1>4. CASE RegenerateRead(h)
  <2>1. PICK d, busy : d = call[h].doc /\ busy = Busy(timetable)
    OBVIOUS
  <2>2. StudyShape(d.block)
    BY <1>2, <1>4, <2>1 DEF RegenerateRead, Carries
  <2>3. IsFiniteSet(busy) /\ Forward(busy)
    BY <2>1, BusySound DEF PInv, TimetableForward
  <2>4. PICK next : next = [pc |-> "others", doc |-> d, busy |-> busy]
    OBVIOUS
  <2>5. Carries(next) /\ next.pc = "others"
    BY <2>2, <2>3, <2>4 DEF Carries
  <2>6. Goto(h, next)
    BY <1>4, <2>1, <2>4 DEF RegenerateRead
  <2>7. QED
    BY <1>1, <2>5, <2>6, CalmCall
<1>5. CASE RegenerateChoose(h)
  <2>1. PICK d, busy : d = call[h].doc /\ busy = call[h].busy
    OBVIOUS
  <2>2. StudyShape(d.block) /\ IsFiniteSet(busy) /\ Forward(busy)
    BY <1>2, <1>5, <2>1 DEF RegenerateChoose, Carries
  <2>3. PICK slot : slot = FindReplacementSlot(busy, OtherBlocks(d), d.block.day, d.block.start)
    OBVIOUS
  <2>4. IF slot = NoSlot THEN Goto(h, Idle)
        ELSE Goto(h, [pc |-> "update", doc |-> d, slot |-> slot, overtaken |-> FALSE])
    BY <1>5, <2>1, <2>3 DEF RegenerateChoose, Finish
  <2>5. CASE slot = NoSlot
    BY <1>1, <2>4, <2>5, IdleCarries, CalmCall
  <2>6. CASE slot # NoSlot
    <3>1. PICK next : next = [pc |-> "update", doc |-> d, slot |-> slot, overtaken |-> FALSE]
      OBVIOUS
    <3>2. Carries(next) /\ Fits(next, docs["study"])
      BY <1>2, <2>2, <2>3, <2>6, <3>1, ChosenFits
    <3>3. QED
      BY <1>1, <2>4, <2>6, <3>1, <3>2, CalmCall
  <2>7. QED
    BY <2>5, <2>6
<1>6. QED
  BY <1>3, <1>4, <1>5

LEMMA LifePlan ==
  ASSUME PInv, WInv', NEW h \in Handlers, LifeRead(h) \/ LifeReadPlan(h) \/ LifeLayer(h)
  PROVE  PInv'
<1>1. UNCHANGED <<timetable, docs, mixed>>
  BY DEF LifeRead, LifeReadPlan, LifeLayer, inputs, stores
<1>2. PICK next : Goto(h, next) /\ Carries(next) /\ next.pc # "update"
  <2>1. CASE LifeRead(h)
    <3>1. PICK b, n : Goto(h, [pc |-> "plan", busy |-> b, number |-> n])
      BY <2>1 DEF LifeRead
    <3>2. QED
      BY <3>1 DEF Carries
  <2>2. CASE LifeReadPlan(h)
    <3>1. PICK n, f : Goto(h, [pc |-> "routines", number |-> n, fixed |-> f])
      BY <2>2 DEF LifeReadPlan
    <3>2. QED
      BY <3>1 DEF Carries
  <2>3. CASE LifeLayer(h)
    <3>1. PICK n, b : Goto(h, Rewrite("life", n, b))
      BY <2>3 DEF LifeLayer
    <3>2. QED
      BY <3>1, LifeCarries
  <2>4. QED
    BY <2>1, <2>2, <2>3
<1>3. QED
  BY <1>1, <1>2, CalmCall

LEMMA TellPlan ==
  ASSUME PInv, WInv', NEW h \in Handlers,
         \/ DedupOrSkip(h) \/ DedupFailsOpen(h)
         \/ EnqueuePush(h) \/ EnqueueFails(h) \/ CallFails(h)
  PROVE  PInv'
<1>1. UNCHANGED <<timetable, docs, mixed>>
  BY DEF DedupOrSkip, DedupFailsOpen, EnqueuePush, EnqueueFails, CallFails, inputs, stores
<1>2. Goto(h, Idle) \/ Goto(h, TellShape)
  BY DEF DedupOrSkip, DedupFailsOpen, EnqueuePush, EnqueueFails, CallFails, Finish, TellShape
<1>3. Carries(TellShape) /\ TellShape.pc = "tell"
  BY DEF Carries, TellShape
<1>4. QED
  BY <1>1, <1>2, <1>3, IdleCarries, CalmCall

LEMMA DeletePlan ==
  ASSUME PInv, WInv', NEW h \in Handlers, DeleteAll(h)
  PROVE  PInv'
<1>1. PICK s, b : s = call[h].store /\ b = call[h].blocks
  OBVIOUS
<1>2. /\ call[h].pc = "delete" /\ s \in Store
      /\ s = "study" => PlanShaped(b) /\ Apart(b)
      /\ UNCHANGED timetable /\ mixed' = [mixed EXCEPT ![s] = FALSE]
  BY <1>1 DEF DeleteAll, PInv, WInv, CallsSound, CallSound, CallsCarry, Carries, inputs
<1>3. PICK next : next = IF b = {} THEN Idle
             ELSE [pc |-> "insert", store |-> s, blocks |-> b, overtaken |-> FALSE]
  OBVIOUS
<1>4. Write(h, s, {}, next)
  BY <1>1, <1>3 DEF DeleteAll
<1>5. Carries(next) /\ next.pc # "update"
  BY <1>2, <1>3, IdleCarries DEF Carries
<1>6. PlanShaped({}) /\ Apart({})
  BY FS_EmptySet DEF PlanShaped, Apart
<1>7. s # "study" => mixed'["study"] = mixed["study"]
  BY <1>2 DEF PInv, WInv, StoresShaped, Store
<1>8. QED
  BY <1>2, <1>4, <1>5, <1>6, <1>7, WritePlan

LEMMA InsertPlan ==
  ASSUME PInv, WInv', NEW h \in Handlers, InsertAll(h)
  PROVE  PInv'
<1>1. PICK s, b, late : s = call[h].store /\ b = call[h].blocks /\ late = call[h].overtaken
  OBVIOUS
<1>2. /\ call[h].pc = "insert" /\ s \in Store /\ late \in BOOLEAN
      /\ ~late => docs[s] = {}
  BY <1>1 DEF InsertAll, PInv, WInv, CallsSound, CallSound, CallsShaped, CallShape, Idle,
              Undisturbed
<1>3. /\ s = "study" => PlanShaped(b) /\ Apart(b)
      /\ UNCHANGED timetable /\ mixed' = [mixed EXCEPT ![s] = @ \/ late]
  BY <1>1, <1>2 DEF InsertAll, PInv, CallsCarry, Carries, inputs
<1>4. PICK next, new :
        /\ next = IF s = "life" /\ Conflicting(b) THEN [pc |-> "dedup"] ELSE Idle
        /\ new = docs[s] \cup b
  OBVIOUS
<1>5. Write(h, s, new, next)
  BY <1>1, <1>4 DEF InsertAll
<1>6. Carries(next) /\ next.pc # "update"
  BY <1>4, IdleCarries DEF Carries
<1>7. ASSUME s = "study" PROVE PlanShaped(new) /\ (Apart(new) \/ mixed'["study"])
  <2>1. PlanShaped(docs["study"])
    BY DEF PInv, PlanKept
  <2>2. IsFiniteSet(docs["study"] \cup b)
    BY <1>3, <1>7, <2>1, FS_Union DEF PlanShaped
  <2>3. PlanShaped(new)
    BY <1>3, <1>4, <1>7, <2>1, <2>2 DEF PlanShaped
  <2>4. CASE late
    BY <1>3, <1>7, <2>3, <2>4 DEF PInv, WInv, StoresShaped, Store
  <2>5. CASE ~late
    BY <1>2, <1>3, <1>4, <1>7, <2>3, <2>5
  <2>6. QED
    BY <1>2, <2>4, <2>5
<1>8. s # "study" => mixed'["study"] = mixed["study"]
  BY <1>3 DEF PInv, WInv, StoresShaped, Store
<1>9. QED
  BY <1>2, <1>3, <1>5, <1>6, <1>7, <1>8, WritePlan

\* Moving a block to a slot that the others leave free keeps the plan apart.
LEMMA MovedApart ==
  ASSUME NEW plan, PlanShaped(plan), NEW c, StudyShape(c.doc.block), DocShape(c.doc),
         c.slot.start \in Int, c.slot.end \in Int, c.slot.start < c.slot.end
  PROVE  LET new == {d \in plan : d.id # c.doc.id} \cup {Moved(c.doc, c.slot)}
         IN  PlanShaped(new) /\ (Fits(c, plan) /\ Apart(plan) => Apart(new))
<1>1. PICK doc, b, moved : doc = c.doc /\ b = c.doc.block /\ moved = Moved(c.doc, c.slot)
  OBVIOUS
<1>2. PICK rest : rest = {d \in plan : d.id # c.doc.id}
  OBVIOUS
<1>3. PICK new : new = rest \cup {moved}
  OBVIOUS
<1>4. doc = [id |-> doc.id, block |-> b]
      /\ b = [subject |-> b.subject, day |-> b.day, start |-> b.start, end |-> b.end]
      /\ b.day \in Int
  BY <1>1 DEF StudyShape, DocShape, TimesForward
<1>5. PICK m : m = [doc.block EXCEPT !.start = c.slot.start, !.end = c.slot.end]
  OBVIOUS
<1>6. moved = [doc EXCEPT !.block = m]
  BY <1>1, <1>5 DEF Moved
<1>7. m = [subject |-> b.subject, day |-> b.day, start |-> c.slot.start, end |-> c.slot.end]
  BY <1>1, <1>4, <1>5
<1>8. moved.block = m
  BY <1>4, <1>6
<1>9. StudyShape(moved.block)
  BY <1>4, <1>7, <1>8 DEF StudyShape, TimesForward
<1>10. IsFiniteSet(rest)
  BY <1>2, FS_Subset DEF PlanShaped
<1>11. IsFiniteSet(new)
  BY <1>3, <1>10, FS_AddElement
<1>12. PlanShaped(new)
  BY <1>2, <1>3, <1>9, <1>11 DEF PlanShaped
<1>13. ASSUME Fits(c, plan), NEW d \in rest, d.block.day = moved.block.day
       PROVE  ~Overlaps(d.block, moved.block) /\ ~Overlaps(moved.block, d.block)
  <2>1. d \in plan /\ d.id # c.doc.id /\ d.block.day = c.doc.block.day
    BY <1>1, <1>2, <1>7, <1>8, <1>13
  <2>2. Avoids(c.slot, d.block)
    BY <1>13, <2>1 DEF Fits
  <2>3. d.block.start \in Int /\ d.block.end \in Int
    BY <2>1 DEF PlanShaped, StudyShape, TimesForward
  <2>4. moved.block.start = c.slot.start /\ moved.block.end = c.slot.end
    BY <1>7, <1>8
  <2>5. QED
    BY <2>2, <2>3, <2>4 DEF Avoids, Overlaps
<1>14. ASSUME Fits(c, plan), Apart(plan) PROVE Apart(new)
  <2>1. SUFFICES ASSUME NEW d \in new, NEW e \in new, d # e, d.block.day = e.block.day
                 PROVE  ~Overlaps(d.block, e.block)
    BY DEF Apart
  <2>2. CASE d \in rest /\ e \in rest
    BY <1>2, <1>14, <2>1, <2>2 DEF Apart
  <2>3. CASE d = moved \/ e = moved
    BY <1>3, <1>13, <1>14, <2>1, <2>3
  <2>4. QED
    BY <1>3, <2>2, <2>3
<1>15. QED
  BY <1>1, <1>2, <1>3, <1>12, <1>14

LEMMA UpdatePlan ==
  ASSUME PInv, WInv', NEW h \in Handlers, RegenerateUpdate(h)
  PROVE  PInv'
<1>1. PICK c : c = call[h]
  OBVIOUS
<1>2. /\ c.pc = "update" /\ c.overtaken \in BOOLEAN /\ StudyShape(c.doc.block) /\ DocShape(c.doc)
      /\ c.slot.start \in Int /\ c.slot.end \in Int /\ c.slot.start < c.slot.end
  BY <1>1 DEF RegenerateUpdate, PInv, WInv, CallsShaped, CallShape, Idle, CallsSound, CallSound,
              CallsCarry, Carries
<1>3. UNCHANGED timetable /\ PlanShaped(docs["study"])
  BY DEF RegenerateUpdate, PInv, PlanKept, inputs
<1>4. CASE ~ \E d \in docs["study"] : d.id = c.doc.id
  <2>1. Goto(h, Idle) /\ UNCHANGED <<docs, mixed>>
    BY <1>1, <1>4 DEF RegenerateUpdate, Finish
  <2>2. QED
    BY <1>3, <2>1, IdleCarries, CalmCall
<1>5. CASE \E d \in docs["study"] : d.id = c.doc.id
  <2>1. PICK new :
          new = {d \in docs["study"] : d.id # c.doc.id} \cup {Moved(c.doc, c.slot)}
    OBVIOUS
  <2>2. Write(h, "study", new, Idle) /\ mixed' = [mixed EXCEPT !["study"] = @ \/ c.overtaken]
    BY <1>1, <1>5, <2>1 DEF RegenerateUpdate
  <2>3. PICK plan : plan = docs["study"]
    OBVIOUS
  <2>4. PlanShaped(new) /\ (Fits(c, plan) /\ Apart(plan) => Apart(new))
    BY <1>2, <1>3, <2>1, <2>3, MovedApart
  <2>5. mixed'["study"] = (mixed["study"] \/ c.overtaken)
    BY <2>2 DEF PInv, WInv, StoresShaped, Store
  <2>6. Apart(new) \/ mixed'["study"]
    <3>1. CASE c.overtaken \/ mixed["study"]
      BY <2>5, <3>1
    <3>2. CASE ~c.overtaken /\ ~mixed["study"]
      <4>1. Fits(c, plan)
        BY <1>1, <1>2, <2>3, <3>2 DEF PInv, SlotsFit
      <4>2. Apart(plan)
        BY <2>3, <3>2 DEF PInv, PlanKept
      <4>3. QED
        BY <2>4, <4>1, <4>2
    <3>3. QED
      BY <3>1, <3>2
  <2>7. "study" \in Store
    BY DEF Store
  <2>8. QED
    BY <1>3, <2>2, <2>4, <2>6, <2>7, IdleCarries, WritePlan
<1>6. QED
  BY <1>4, <1>5

-----------------------------------------------------------------------------
LEMMA InitPInv == Init => PInv
<1> SUFFICES ASSUME Init PROVE PInv
  OBVIOUS
<1>1. /\ timetable = {} /\ docs["study"] = {}
      /\ \A h \in Handlers : call[h] = Idle
  BY DEF Init, Store
<1>2. TimetableForward /\ PlanKept
  BY <1>1, FS_EmptySet DEF TimetableForward, PlanKept, PlanShaped, Apart
<1>3. CallsCarry /\ SlotsFit
  BY <1>1, IdleCarries DEF CallsCarry, SlotsFit
<1>4. QED
  BY <1>2, <1>3, InitWInv DEF PInv

LEMMA InductiveP ==
  ASSUME EntriesForward
  PROVE  PInv /\ [Next]_vars => PInv'
<1> SUFFICES ASSUME PInv, [Next]_vars PROVE PInv'
  OBVIOUS
<1>1. WInv'
  BY InductiveW DEF PInv
<1>2. CASE CreateEntry \/ UpdateEntry \/ DeleteEntry
  BY <1>1, <1>2, EditPlan
<1>3. CASE EditRoutines \/ DedupExpires \/ UNCHANGED vars
  BY <1>1, <1>3, StillPlan DEF EditRoutines, DedupExpires, vars, inputs, stores
<1>4. ASSUME NEW h \in Handlers, GenerateStudy(h) PROVE PInv'
  BY <1>1, <1>4, GeneratePlan
<1>5. ASSUME NEW h \in Handlers, RegenerateFind(h) \/ RegenerateRead(h) \/ RegenerateChoose(h)
      PROVE  PInv'
  BY <1>1, <1>5, RegeneratePlan
<1>6. ASSUME NEW h \in Handlers, LifeRead(h) \/ LifeReadPlan(h) \/ LifeLayer(h) PROVE PInv'
  BY <1>1, <1>6, LifePlan
<1>7. ASSUME NEW h \in Handlers,
             \/ DedupOrSkip(h) \/ DedupFailsOpen(h)
             \/ EnqueuePush(h) \/ EnqueueFails(h) \/ CallFails(h)
      PROVE  PInv'
  BY <1>1, <1>7, TellPlan
<1>8. ASSUME NEW h \in Handlers, DeleteAll(h) PROVE PInv'
  BY <1>1, <1>8, DeletePlan
<1>9. ASSUME NEW h \in Handlers, InsertAll(h) PROVE PInv'
  BY <1>1, <1>9, InsertPlan
<1>10. ASSUME NEW h \in Handlers, RegenerateUpdate(h) PROVE PInv'
  BY <1>1, <1>10, UpdatePlan
<1>11. QED
  BY <1>2, <1>3, <1>4, <1>5, <1>6, <1>7, <1>8, <1>9, <1>10 DEF Next

(***************************************************************************)
(* generate_study_blocks and find_replacement_slot under the calls of      *)
(* litheral/study/service.py: while nobody writes an entry that ends       *)
(* before it starts, no two blocks of the plan overlap, unless the last    *)
(* write was by a call that another one ran into.                          *)
(***************************************************************************)
THEOREM PlanDisjointHolds ==
  ASSUME EntriesForward
  PROVE  Spec => []PlanDisjoint
<1>1. PInv => PlanDisjoint
  BY DEF PInv, PlanKept, Apart, PlanDisjoint
<1>2. PInv /\ [Next]_vars => PInv'
  BY InductiveP
<1>3. QED
  BY <1>1, <1>2, InitPInv, PTL DEF Spec

-----------------------------------------------------------------------------
(***************************************************************************)
(* Division with remainder, as facts to cite: the provers do no more than  *)
(* linear arithmetic on their own.                                         *)
(***************************************************************************)
LEMMA Modulo ==
  ASSUME NEW L \in Nat \ {0}, NEW x \in Int
  PROVE  /\ x % L \in 0..(L - 1) /\ x \div L \in Int
         /\ x = L * (x \div L) + (x % L)
OBVIOUS

LEMMA SameQuotient ==
  ASSUME NEW L \in Nat \ {0}, NEW a \in Int, NEW b \in Int,
         NEW u \in 0..(L - 1), NEW v \in 0..(L - 1), L * a + u = L * b + v
  PROVE  a = b /\ u = v
<1>1. ASSUME NEW c \in Int, NEW d \in Int, c < d PROVE L * c + L <= L * d
  <2>1. PICK e \in Nat : d = c + 1 + e
    <3>1. d - c - 1 \in Nat /\ d = c + 1 + (d - c - 1)
      BY <1>1
    <3>2. QED
      BY <3>1
  <2>2. L * d = L * c + L + L * e /\ L * e \in Nat /\ L * c \in Int
    BY <2>1
  <2>3. QED
    BY <2>2
<1>2. L * a \in Int /\ L * b \in Int
  OBVIOUS
<1>3. ~(a < b) /\ ~(b < a)
  BY <1>1, <1>2
<1>4. QED
  BY <1>2, <1>3

LEMMA Remainder ==
  ASSUME NEW L \in Nat \ {0}, NEW q \in Int, NEW u \in 0..(L - 1)
  PROVE  (L * q + u) % L = u /\ (L * q + u) \div L = q
<1>1. PICK x \in Int : x = L * q + u
  OBVIOUS
<1>2. /\ x % L \in 0..(L - 1) /\ x \div L \in Int
      /\ x = L * (x \div L) + (x % L)
  BY Modulo
<1>3. QED
  BY <1>1, <1>2, SameQuotient

-----------------------------------------------------------------------------
(***************************************************************************)
(* _next_occurrence_of_weekly_block: the occurrence it computes is the     *)
(* first one after the reference.                                          *)
(***************************************************************************)
LEMMA Multiples ==
  ASSUME NEW L \in Nat \ {0}, NEW a \in Int, NEW b \in Int, a < b
  PROVE  L * a \in Int /\ L * b \in Int /\ L * a + L <= L * b
<1>1. PICK e \in Nat : b = a + 1 + e
  <2>1. b - a - 1 \in Nat /\ b = a + 1 + (b - a - 1)
    OBVIOUS
  <2>2. QED
    BY <2>1
<1>2. L * b = L * a + L + L * e /\ L * e \in Nat /\ L * a \in Int
  BY <1>1
<1>3. QED
  BY <1>2

LEMMA FirstOccurrence ==
  ASSUME NEW b \in Weekly, NEW ref \in Int
  PROVE  LET next == NextOccurrence(b, ref)
             week == WeekDays * DayTicks
             at == b.day * DayTicks + b.start
         IN /\ week \in Nat \ {0} /\ at \in 0..(week - 1)
            /\ next \in Int /\ ref < next /\ next <= ref + week
            /\ next % week = at
<1>1. PICK W, T : W = WeekDays /\ T = DayTicks
  OBVIOUS
<1>2. W \in Nat \ {0} /\ T \in Nat \ {0}
  BY <1>1, RemindersAssumption
<1>3. PICK day, start : day = b.day /\ start = b.start
  OBVIOUS
<1>4. day \in 0..(W - 1) /\ start \in 0..(T - 1)
  BY <1>1, <1>3 DEF Weekly
<1>5. PICK D, m : D = ref \div T /\ m = ref % T
  OBVIOUS
<1>6. D \in Int /\ m \in 0..(T - 1) /\ ref = T * D + m
  BY <1>2, <1>5, Modulo
<1>7. PICK E, today : E = D \div W /\ today = D % W
  OBVIOUS
<1>8. E \in Int /\ today \in 0..(W - 1) /\ D = W * E + today
  BY <1>2, <1>6, <1>7, Modulo
<1>9. PICK ahead : ahead = DaysAhead(day, start, ref)
  OBVIOUS
<1>10. \/ day > today /\ ahead = day - today
       \/ day < today /\ ahead = W - (today - day)
       \/ day = today /\ start > m /\ ahead = 0
       \/ day = today /\ start <= m /\ ahead = W
  <2>1. ahead = CASE day > today -> day - today
                  [] day < today -> W - (today - day)
                  [] OTHER -> IF start > m THEN 0 ELSE W
    BY <1>1, <1>5, <1>7, <1>9 DEF DaysAhead
  <2>2. day \in Int /\ today \in Int /\ start \in Int /\ m \in Int
    BY <1>2, <1>4, <1>6, <1>8
  <2>3. CASE day > today
    BY <2>1, <2>2, <2>3
  <2>4. CASE day < today
    BY <2>1, <2>2, <2>4
  <2>5. CASE day = today
    BY <2>1, <2>2, <2>5
  <2>6. QED
    BY <2>2, <2>3, <2>4, <2>5
<1>11. PICK F \in {E, E + 1} : ahead = (F - E) * W + day - today
  BY <1>2, <1>4, <1>8, <1>10
<1>12. F \in Int /\ ahead \in 0..W
  BY <1>2, <1>4, <1>8, <1>10
<1>13. D + ahead = W * F + day
  BY <1>2, <1>4, <1>8, <1>11, <1>12
<1>14. PICK next : next = (D + ahead) * T + start
  OBVIOUS
<1>15. NextOccurrence(b, ref) = next
  BY <1>1, <1>3, <1>5, <1>9, <1>14 DEF NextOccurrence
<1>16. next \in Int /\ next = T * (D + ahead) + start
  BY <1>2, <1>4, <1>6, <1>12, <1>14
<1>17. PICK week, at : week = W * T /\ at = day * T + start
  OBVIOUS
<1>18. week \in Nat \ {0} /\ at \in 0..(week - 1)
  <2>1. W * T \in Nat /\ day * T \in Nat /\ (day + 1) * T = day * T + T
    BY <1>2, <1>4
  <2>2. CASE day = W - 1
    <3>1. W * T = day * T + T
      BY <1>2, <1>4, <2>1, <2>2
    <3>2. QED
      BY <1>2, <1>4, <1>17, <2>1, <3>1
  <2>3. CASE day < W - 1
    <3>1. T * day + T <= T * W /\ T * day = day * T /\ T * W = W * T
      BY <1>2, <1>4, <2>3, Multiples
    <3>2. QED
      BY <1>2, <1>4, <1>17, <2>1, <3>1
  <2>4. QED
    BY <1>2, <1>4, <2>2, <2>3
<1>19. next = week * F + at
  <2>1. (W * F + day) * T = (W * T) * F + day * T
    BY <1>2, <1>4, <1>12
  <2>2. QED
    BY <1>2, <1>4, <1>12, <1>13, <1>14, <1>17, <2>1
<1>20. next % week = at
  BY <1>12, <1>18, <1>19, Remainder
<1>21. ref < next
  <2>1. CASE ahead = 0
    <3>1. start > m
      BY <1>2, <1>4, <1>8, <1>10, <2>1
    <3>2. T * D \in Int
      BY <1>2, <1>6
    <3>3. QED
      BY <1>2, <1>4, <1>6, <1>16, <2>1, <3>1, <3>2
  <2>2. CASE ahead > 0
    <3>1. T * D + T <= T * (D + ahead) /\ T * D \in Int
      BY <1>2, <1>6, <1>12, <2>2, Multiples
    <3>2. QED
      BY <1>2, <1>4, <1>6, <1>12, <1>16, <3>1
  <2>3. QED
    BY <1>12, <2>1, <2>2
<1>22. next <= ref + week
  <2>1. T * (D + W) = T * D + week /\ T * D \in Int /\ T * (D + W) \in Int
    BY <1>2, <1>6, <1>17
  <2>2. CASE ahead = W
    <3>1. start <= m
      BY <1>2, <1>4, <1>8, <1>10, <2>2
    <3>2. next = T * (D + W) + start
      BY <1>16, <2>2
    <3>3. QED
      BY <1>2, <1>4, <1>6, <1>18, <2>1, <3>1, <3>2
  <2>3. CASE ahead < W
    <3>1. T * (D + ahead) + T <= T * (D + W) /\ T * (D + ahead) \in Int
      BY <1>2, <1>6, <1>12, <2>3, Multiples
    <3>2. QED
      BY <1>2, <1>4, <1>6, <1>12, <1>16, <1>18, <2>1, <3>1
  <2>4. QED
    BY <1>2, <1>12, <2>2, <2>3
<1>23. QED
  BY <1>1, <1>3, <1>15, <1>16, <1>17, <1>18, <1>20, <1>21, <1>22

\* A block begins at a tick of the window exactly when its first occurrence
\* after the window's reference is within the window.
LEMMA WindowSound ==
  ASSUME NEW b \in Weekly, NEW from \in Int, NEW to \in Int
  PROVE  InWindow(b, from, to) <=>
           \E k \in (from + 1)..to : k % (WeekDays * DayTicks) = b.day * DayTicks + b.start
<1>1. PICK next, week, at : /\ next = NextOccurrence(b, from)
                            /\ week = WeekDays * DayTicks
                            /\ at = b.day * DayTicks + b.start
  OBVIOUS
<1>2. /\ week \in Nat \ {0} /\ at \in 0..(week - 1)
      /\ next \in Int /\ from < next /\ next <= from + week
      /\ next % week = at
  BY <1>1, FirstOccurrence
<1>3. ASSUME NEW k \in (from + 1)..to, k % week = at PROVE next <= k
  <2>1. SUFFICES ASSUME k < next PROVE FALSE
    BY <1>2
  <2>2. PICK p, q : p = k \div week /\ q = next \div week
    OBVIOUS
  <2>3. p \in Int /\ k = week * p + at
    BY <1>2, <1>3, <2>2, Modulo
  <2>4. q \in Int /\ next = week * q + at
    BY <1>2, <2>2, Modulo
  <2>5. p < q
    <3>1. week * p \in Int /\ week * q \in Int
      BY <1>2, <2>3, <2>4
    <3>2. CASE p = q
      BY <1>2, <2>1, <2>3, <2>4, <3>1, <3>2
    <3>3. CASE q < p
      <4>1. week * q + week <= week * p
        BY <1>2, <2>3, <2>4, <3>3, Multiples
      <4>2. QED
        BY <1>2, <2>1, <2>3, <2>4, <3>1, <4>1
    <3>4. QED
      BY <2>3, <2>4, <3>2, <3>3
  <2>6. week * p + week <= week * q /\ week * p \in Int /\ week * q \in Int
    BY <1>2, <2>5, <2>3, <2>4, Multiples
  <2>7. QED
    BY <1>2, <2>6, <2>3, <2>4
<1>4. InWindow(b, from, to) <=> next <= to
  BY <1>1, <1>2 DEF InWindow
<1>5. ASSUME next <= to PROVE next \in (from + 1)..to /\ next % week = at
  BY <1>2, <1>5
<1>6. ASSUME NEW k \in (from + 1)..to, k % week = at PROVE next <= to
  <2>1. next <= k
    BY <1>3, <1>6
  <2>2. QED
    BY <1>2, <2>1
<1>7. QED
  BY <1>1, <1>4, <1>5, <1>6

-----------------------------------------------------------------------------
(***************************************************************************)
(* The behaviours of Solvers: what is answered is what the operator of the *)
(* task's kind says.  What is left to show of each property is a fact      *)
(* about that operator.                                                    *)
(***************************************************************************)
Answered ==
  /\ task \in Tasks
  /\ Solved("generate") => answer = GenerateStudyBlocks(task.busy, task.subjects)
  /\ Solved("replace") =>
       answer = FindReplacementSlot(task.input.busy, task.input.others,
                                    task.input.day, task.input.exclude)
  /\ Solved("life") => answer = BuildLifeSchedule(task.fixed, task.routines)
  /\ Solved("remind") =>
       answer = RemindedOf(task.input.plan, task.input.deduped, task.input.redisUp,
                           task.input.now, task.input.window)

LEMMA KindsApart ==
  /\ "generate" # "replace" /\ "generate" # "life" /\ "generate" # "remind"
  /\ "replace" # "life" /\ "replace" # "remind" /\ "life" # "remind"
OBVIOUS

LEMMA InitAnswered == Given => Answered
BY DEF Given, Answered, Solved

LEMMA InductiveAnswered == Answered /\ [Solve]_solverVars => Answered'
<1> SUFFICES ASSUME Answered, [Solve]_solverVars PROVE Answered'
  OBVIOUS
<1>1. CASE UNCHANGED solverVars
  BY <1>1 DEF Answered, Solved, solverVars, Tasks
<1>2. CASE Solve
  <2>1. task' = task /\ solved' = TRUE /\ task \in Tasks
    BY <1>2 DEF Solve, Answered
  <2>2. task' \in Tasks'
    BY <2>1 DEF Tasks
  <2>3. CASE Generate
    BY <2>1, <2>2, <2>3, KindsApart DEF Generate, Answered, Solved
  <2>4. CASE Replace
    BY <2>1, <2>2, <2>4, KindsApart DEF Replace, Answered, Solved
  <2>5. CASE Layer
    BY <2>1, <2>2, <2>5, KindsApart DEF Layer, Answered, Solved
  <2>6. CASE Remind
    BY <2>1, <2>2, <2>6, KindsApart DEF Remind, Answered, Solved
  <2>7. QED
    BY <1>2, <2>3, <2>4, <2>5, <2>6 DEF Solve
<1>3. QED
  BY <1>1, <1>2

LEMMA SolvingAnswers == Solving => []Answered
<1>1. QED
  BY InitAnswered, InductiveAnswered, PTL DEF Solving

LEMMA InputOf ==
  ASSUME Answered
  PROVE  /\ task.kind = "generate" => task.busy \in BusySets /\ task.subjects \in SubjectLists
         /\ task.kind = "replace" => task.input \in Replacements
         /\ task.kind = "life" => task.fixed \in FixedLists /\ task.routines \in RoutineInputs
         /\ task.kind = "remind" => task.input \in ReminderRuns
BY KindsApart DEF Answered, Tasks

(***************************************************************************)
(* RemindersSound, for a week and a day of any length, any plan and any    *)
(* window.                                                                 *)
(***************************************************************************)
THEOREM RemindersSoundHolds ==
  ASSUME RemindProper
  PROVE  Solving => []RemindersSound
<1>1. ASSUME Answered PROVE RemindersSound
  <2>1. SUFFICES ASSUME Solved("remind")
                 PROVE  LET t == task.input
                            begins(b) == \E k \in (t.now + t.window.from + 1)..(t.now + t.window.to) :
                                           k % (WeekDays * DayTicks) = b.day * DayTicks + b.start
                        IN answer = {b \in t.plan : begins(b)} \ (IF t.redisUp THEN t.deduped ELSE {})
    BY DEF RemindersSound
  <2>2. PICK t : t = task.input
    OBVIOUS
  <2>3. t \in ReminderRuns
    BY <1>1, <2>1, <2>2, InputOf DEF Solved
  <2>4. /\ t.plan \subseteq Weekly
        /\ t.now \in Int /\ t.window.from \in Int /\ t.window.to \in Int
    BY <2>3 DEF RemindProper
  <2>5. PICK from, to : from = t.now + t.window.from /\ to = t.now + t.window.to
    OBVIOUS
  <2>6. from \in Int /\ to \in Int
    BY <2>4, <2>5
  <2>7. answer = {b \in t.plan : InWindow(b, from, to) /\ (t.redisUp => b \notin t.deduped)}
    BY <1>1, <2>1, <2>2, <2>5 DEF Answered, RemindedOf
  <2>8. \A b \in t.plan :
          InWindow(b, from, to) <=>
            \E k \in (from + 1)..to : k % (WeekDays * DayTicks) = b.day * DayTicks + b.start
    BY <2>4, <2>6, WindowSound
  <2>9. answer = {b \in t.plan :
                    \E k \in (from + 1)..to :
                      k % (WeekDays * DayTicks) = b.day * DayTicks + b.start}
                   \ (IF t.redisUp THEN t.deduped ELSE {})
    BY <2>7, <2>8
  <2>10. QED
    BY <2>2, <2>5, <2>9
<1>2. QED
  BY <1>1, SolvingAnswers, PTL

-----------------------------------------------------------------------------
(***************************************************************************)
(* Nothing free is missed: a time from which a shortest block fits the     *)
(* window and avoids what keeps the user busy lies in a gap that the sweep *)
(* keeps, and in a chunk that the gap is cut into.                         *)
(***************************************************************************)
Fitting(s, B) ==
  /\ s \in Int /\ StudyStart <= s /\ s + MinBlock <= StudyEnd
  /\ \A b \in B : s + MinBlock <= b.start \/ b.end <= s

Spans(gap, s) == gap.start <= s /\ s + MinBlock <= gap.end

Spanned(free, s) == \E i \in DOMAIN free : Spans(free[i], s)

LEMMA KeepSpans ==
  ASSUME NEW free \in Seq(Gap), NEW gap \in Gap, NEW s \in Int
  PROVE  Spanned(free, s) \/ Spans(gap, s) => Spanned(Keep(free, gap), s)
<1>1. gap.start \in Int /\ gap.end \in Int /\ MinBlock \in Int
  BY StudyAssumption DEF Gap
<1>2. CASE ~(gap.end - gap.start >= MinBlock)
  BY <1>1, <1>2 DEF Keep, Spanned, Spans
<1>3. CASE gap.end - gap.start >= MinBlock
  <2> DEFINE new == Append(free, gap)
  <2>1. /\ DOMAIN free = 1..Len(free) /\ Len(free) \in Nat
        /\ DOMAIN new = 1..(Len(free) + 1)
        /\ \A i \in 1..Len(free) : new[i] = free[i]
        /\ new[Len(free) + 1] = gap
    OBVIOUS
  <2>2. Keep(free, gap) = new
    BY <1>3 DEF Keep
  <2> HIDE DEF new
  <2>3. CASE Spans(gap, s)
    <3>1. Len(free) + 1 \in DOMAIN new
      BY <2>1
    <3>2. QED
      BY <2>1, <2>2, <2>3, <3>1 DEF Spanned
  <2>4. ASSUME NEW i \in DOMAIN free, Spans(free[i], s) PROVE Spanned(new, s)
    <3>1. i \in DOMAIN new /\ new[i] = free[i]
      BY <2>1
    <3>2. QED
      BY <2>4, <3>1 DEF Spanned
  <2>5. QED
    BY <2>2, <2>3, <2>4 DEF Spanned
<1>4. QED
  BY <1>2, <1>3

LEMMA SweepSpans ==
  ASSUME NEW n \in Nat, NEW B, Forward(B), NEW busy \in [1..n -> B],
         \A b \in B : \E j \in 1..n : b = busy[j],
         \A i, j \in 1..n : i < j => busy[i].start <= busy[j].start,
         NEW s, Fitting(s, B)
  PROVE  \A k \in 0..n : s < Sweep(busy)[k].cursor => Spanned(Sweep(busy)[k].free, s)
<1> DEFINE w(k) == Sweep(busy)[k]
<1> DEFINE K == {k \in 0..n : s < w(k).cursor => Spanned(w(k).free, s)}
<1>1. busy \in [1..n -> Intervals] /\ \A j \in 1..n : busy[j] \in Intervals /\ busy[j] \in B
  BY DEF Forward
<1>2. w(0) = [cursor |-> StudyStart, free |-> <<>>]
      /\ \A k \in 1..n : w(k) = PassBusy(w(k - 1), busy[k])
  BY <1>1, SweepSteps DEF Intervals
<1>3. \A k \in 0..n : w(k).cursor \in Int /\ FreeSound(w(k).free, B, w(k).cursor)
  BY SweepSound
<1>4. /\ StudyStart \in Int /\ StudyEnd \in Int /\ MinBlock \in Nat \ {0}
      /\ s \in Int /\ StudyStart <= s /\ s + MinBlock <= StudyEnd
  BY StudyAssumption DEF Fitting
<1> HIDE DEF w
<1>5. 0 \in K
  BY <1>2, <1>4
<1>6. ASSUME NEW k \in 1..n, k - 1 \in K PROVE k \in K
  <2>1. PICK p, b : p = w(k - 1) /\ b = busy[k]
    OBVIOUS
  <2>2. /\ p.cursor \in Int /\ p.free \in Seq(Gap)
        /\ s < p.cursor => Spanned(p.free, s)
    BY <1>3, <1>6, <2>1 DEF FreeSound
  <2>3. b.start \in Int /\ b.end \in Int /\ (s + MinBlock <= b.start \/ b.end <= s)
    BY <1>1, <2>1 DEF Fitting, Intervals
  <2>4. PICK gap : gap = [start |-> p.cursor, end |-> Least(b.start, StudyEnd)]
    OBVIOUS
  <2>5. gap \in Gap /\ gap.start = p.cursor /\ gap.end = Least(b.start, StudyEnd)
    BY <1>4, <2>2, <2>3, <2>4 DEF Gap, Least
  <2>6. w(k) = [cursor |-> Greatest(p.cursor, b.end),
                free |-> IF b.start > p.cursor THEN Keep(p.free, gap) ELSE p.free]
    BY <1>2, <2>1, <2>4 DEF PassBusy
  <2>7. SUFFICES ASSUME s < Greatest(p.cursor, b.end)
                 PROVE  Spanned(IF b.start > p.cursor THEN Keep(p.free, gap) ELSE p.free, s)
    BY <2>6
  <2>8. CASE s < p.cursor
    BY <1>4, <2>2, <2>5, <2>8, KeepSpans
  <2>9. CASE ~(s < p.cursor)
    <3>1. s < b.end
      BY <1>4, <2>2, <2>3, <2>7, <2>9 DEF Greatest
    <3>2. b.start > p.cursor /\ s + MinBlock <= b.start
      BY <1>4, <2>2, <2>3, <2>9, <3>1
    <3>3. Spans(gap, s)
      BY <1>4, <2>2, <2>3, <2>5, <2>9, <3>2 DEF Spans, Least
    <3>4. QED
      BY <1>4, <2>2, <2>5, <3>2, <3>3, KeepSpans
  <2>10. QED
    BY <2>8, <2>9
<1> HIDE DEF K
<1>7. \A k \in 0..n : k \in K
  BY <1>5, <1>6, UpTo
<1>8. QED
  BY <1>7 DEF K, w

LEMMA FreeIntervalsSpan ==
  ASSUME NEW busy, IsFiniteSet(busy), Forward(busy), NEW day,
         NEW s, Fitting(s, {b \in busy : b.day = day})
  PROVE  Spanned(FreeIntervals(day, busy), s)
<1>1. PICK B : B = {b \in busy : b.day = day}
  OBVIOUS
<1>2. IsFiniteSet(B) /\ Forward(B) /\ B \subseteq Intervals /\ Fitting(s, B)
  BY <1>1, FS_Subset DEF Forward
<1>3. PICK q, n : q = ByStart(B) /\ n = Cardinality(B)
  OBVIOUS
<1>4. /\ n \in Nat /\ q \in [1..n -> B] /\ Len(q) = n
      /\ \A x \in B : \E i \in 1..n : x = q[i]
      /\ \A i, j \in 1..n : i < j => q[i].start <= q[j].start
  BY <1>2, <1>3, ByStartSound DEF Rising
<1>5. PICK last : last = Sweep(q)[n]
  OBVIOUS
<1>6. last.cursor \in Int /\ FreeSound(last.free, B, last.cursor)
  BY <1>2, <1>4, <1>5, SweepSound
<1>7. s < last.cursor => Spanned(last.free, s)
  BY <1>2, <1>4, <1>5, SweepSpans
<1>8. PICK gap : gap = [start |-> last.cursor, end |-> StudyEnd]
  OBVIOUS
<1>9. FreeIntervals(day, busy) =
        IF last.cursor < StudyEnd THEN Keep(last.free, gap) ELSE last.free
  BY <1>1, <1>3, <1>4, <1>5, <1>8 DEF FreeIntervals
<1>10. /\ StudyEnd \in Int /\ MinBlock \in Nat \ {0} /\ s \in Int /\ s + MinBlock <= StudyEnd
       /\ last.free \in Seq(Gap)
  BY <1>2, <1>6, StudyAssumption DEF Fitting, FreeSound
<1>11. gap \in Gap /\ gap.start = last.cursor /\ gap.end = StudyEnd
  BY <1>6, <1>8, <1>10 DEF Gap
<1>12. CASE s < last.cursor
  BY <1>7, <1>9, <1>10, <1>11, <1>12, KeepSpans
<1>13. CASE ~(s < last.cursor)
  <2>1. last.cursor < StudyEnd /\ Spans(gap, s)
    BY <1>6, <1>10, <1>11, <1>13 DEF Spans
  <2>2. QED
    BY <1>9, <1>10, <1>11, <2>1, KeepSpans
<1>14. QED
  BY <1>12, <1>13

\* The time is one of those that some block of the sequence occupies.
Within(q, s) == \E i \in DOMAIN q : q[i].start <= s /\ s < q[i].end

LEMMA SplitHolds ==
  ASSUME NEW f \in Gap, InStudyWindow(f), NEW s \in Int, Spans(f, s)
  PROVE  Within(SplitIntoBlocks(f), s)
<1> DEFINE room(i) == f.end - (f.start + i * MaxBlock)
<1> DEFINE T == {i \in 0..(f.end - f.start) : room(i) >= MinBlock}
<1>1. PICK q, m : q = SplitIntoBlocks(f) /\ m = Cardinality(T)
  OBVIOUS
<1>2. /\ f.start \in Int /\ f.end \in Int /\ f.start <= s /\ s + MinBlock <= f.end
      /\ MinBlock \in Nat \ {0} /\ MaxBlock \in Nat \ {0} /\ MinBlock <= MaxBlock
  BY StudyAssumption DEF Gap, Spans
<1>3. PICK t, u : t = (s - f.start) \div MaxBlock /\ u = (s - f.start) % MaxBlock
  OBVIOUS
<1>4. t \in Nat /\ u \in 0..(MaxBlock - 1) /\ s - f.start = t * MaxBlock + u
  <2>1. t \in Int /\ u \in 0..(MaxBlock - 1) /\ s - f.start = MaxBlock * t + u
    <3>1. PICK x \in Int : x = s - f.start
      BY <1>2
    <3>2. x = MaxBlock * (x \div MaxBlock) + (x % MaxBlock)
          /\ x \div MaxBlock \in Int /\ x % MaxBlock \in 0..(MaxBlock - 1)
      BY <1>2, Modulo
    <3>3. QED
      BY <1>3, <3>1, <3>2
  <2>2. CASE t < 0
    <3>1. MaxBlock * t + MaxBlock <= MaxBlock * 0 /\ MaxBlock * t \in Int
      BY <1>2, <2>1, <2>2, Multiples
    <3>2. QED
      BY <1>2, <2>1, <3>1
  <2>3. QED
    BY <1>2, <2>1, <2>2
<1>5. t * MaxBlock \in Nat /\ (t + 1) * MaxBlock = t * MaxBlock + MaxBlock
  BY <1>4, Times
<1>6. 0..t \subseteq T
  <2>1. ASSUME NEW i \in 0..t PROVE i \in T
    <3>1. i \in Nat /\ i * MaxBlock \in Nat /\ i * MaxBlock <= t * MaxBlock
      BY <1>4, Times
    <3>2. room(i) >= MinBlock
      BY <1>2, <1>4, <1>5, <3>1
    <3>3. t <= t * MaxBlock
      <4>1. PICK e \in Nat : MaxBlock = 1 + e
        <5>1. MaxBlock - 1 \in Nat /\ MaxBlock = 1 + (MaxBlock - 1)
          BY <1>2
        <5>2. QED
          BY <5>1
      <4>2. t * (1 + e) = t + t * e /\ t * e \in Nat
        BY <1>4
      <4>3. QED
        BY <1>4, <4>1, <4>2
    <3>4. i <= f.end - f.start
      BY <1>2, <1>4, <1>5, <3>3
    <3>5. QED
      BY <1>2, <3>1, <3>2, <3>4
  <2>2. QED
    BY <2>1
<1>7. m \in Nat /\ t + 1 <= m
  <2>1. PICK l \in Int : l = f.end - f.start
    BY <1>2
  <2>2. T \in SUBSET (0..l)
    BY <2>1
  <2> HIDE DEF T
  <2>3. IsFiniteSet(T)
    <3>1. IsFiniteSet(0..l)
      BY <2>1, FS_Interval
    <3>2. QED
      BY <2>2, <3>1, FS_Subset
  <2>4. Cardinality(0..t) = t + 1
    BY <1>4, FS_Interval
  <2>5. QED
    BY <1>1, <1>6, <2>3, <2>4, FS_Subset, FS_CardinalityType
<1>8. q = [i \in 1..m |-> [start |-> f.start + (i - 1) * MaxBlock,
                           end |-> Least(f.start + i * MaxBlock, f.end)]]
  BY <1>1 DEF SplitIntoBlocks
<1>9. t + 1 \in 1..m /\ (t + 1) - 1 = t
  BY <1>4, <1>7
<1>10. PICK x, y : x = t * MaxBlock /\ y = (t + 1) * MaxBlock
  OBVIOUS
<1>11. q[t + 1] = [start |-> f.start + x, end |-> Least(f.start + y, f.end)]
  BY <1>8, <1>9, <1>10
<1>12. f.start + x <= s /\ s < Least(f.start + y, f.end)
  BY <1>2, <1>4, <1>5, <1>10 DEF Least
<1>13. t + 1 \in DOMAIN q
  BY <1>8, <1>9
<1>14. QED
  BY <1>1, <1>11, <1>12, <1>13 DEF Within

LEMMA JoinHolds ==
  ASSUME NEW q \in Seq(Gap), NEW r \in Seq(Gap), NEW s
  PROVE  Within(q, s) \/ Within(r, s) => Within(q \o r, s)
<1>1. PICK m, n : m = Len(q) /\ n = Len(r)
  OBVIOUS
<1>2. PICK p : p = q \o r
  OBVIOUS
<1>3. m \in Nat /\ n \in Nat /\ DOMAIN q = 1..m /\ DOMAIN r = 1..n
  BY <1>1
<1>4. /\ DOMAIN p = 1..(m + n)
      /\ \A i \in 1..m : p[i] = q[i]
      /\ \A i \in 1..n : p[m + i] = r[i]
  BY <1>1, <1>2
<1>5. ASSUME NEW i \in DOMAIN q, q[i].start <= s, s < q[i].end PROVE Within(p, s)
  <2>1. i \in DOMAIN p /\ p[i] = q[i]
    BY <1>3, <1>4
  <2>2. QED
    BY <1>5, <2>1 DEF Within
<1>6. ASSUME NEW i \in DOMAIN r, r[i].start <= s, s < r[i].end PROVE Within(p, s)
  <2>1. m + i \in DOMAIN p /\ p[m + i] = r[i]
    BY <1>3, <1>4
  <2>2. QED
    BY <1>6, <2>1 DEF Within
<1>7. QED
  BY <1>2, <1>5, <1>6 DEF Within

LEMMA SplitsHold ==
  ASSUME NEW free \in Seq(Gap), \A i \in DOMAIN free : InStudyWindow(free[i]),
         NEW s \in Int, Spanned(free, s)
  PROVE  Within(Split(free)[Len(free)], s)
<1> DEFINE w(k) == Split(free)[k]
<1>1. PICK n \in Nat : n = Len(free)
  OBVIOUS
<1>2. DOMAIN free = 1..n /\ \A k \in 1..n : free[k] \in Gap /\ InStudyWindow(free[k])
  BY <1>1
<1>3. PICK j \in 1..n : Spans(free[j], s)
  BY <1>2 DEF Spanned
<1>4. /\ w(0) = <<>>
      /\ \A k \in 1..n : w(k) = w(k - 1) \o SplitIntoBlocks(free[k])
  BY <1>1, SplitSteps
<1> HIDE DEF w
<1> DEFINE K == {k \in 0..n : w(k) \in Seq(Gap) /\ (j <= k => Within(w(k), s))}
<1>5. 0 \in K
  <2>1. <<>> \in Seq(Gap) /\ ~(j <= 0)
    OBVIOUS
  <2>2. w(0) \in Seq(Gap)
    BY <1>4, <2>1
  <2>3. QED
    BY <2>1, <2>2
<1>6. ASSUME NEW k \in 1..n, k - 1 \in K PROVE k \in K
  <2>1. PICK p, q : p = w(k - 1) /\ q = SplitIntoBlocks(free[k])
    OBVIOUS
  <2>2. p \in Seq(Gap) /\ (j <= k - 1 => Within(p, s)) /\ w(k) = p \o q
    BY <1>4, <1>6, <2>1
  <2>3. q \in Seq(Gap)
    BY <1>2, <2>1, SplitBlocks
  <2>4. j = k => Within(q, s)
    BY <1>2, <1>3, <2>1, SplitHolds
  <2>5. j <= k => Within(p \o q, s)
    BY <2>2, <2>3, <2>4, JoinHolds
  <2>6. p \o q \in Seq(Gap)
    BY <2>2, <2>3
  <2>7. w(k) \in Seq(Gap) /\ (j <= k => Within(w(k), s)) /\ k \in 0..n
    BY <2>2, <2>5, <2>6
  <2>8. QED
    BY <2>7
<1> HIDE DEF K
<1>7. \A k \in 0..n : k \in K
  BY <1>5, <1>6, UpTo
<1>8. n \in K
  BY <1>7
<1>9. QED
  BY <1>1, <1>8 DEF K, w

LEMMA ChunksHold ==
  ASSUME NEW busy, IsFiniteSet(busy), Forward(busy), NEW day,
         NEW s, Fitting(s, {b \in busy : b.day = day})
  PROVE  Within(Chunks(day, busy), s)
<1>1. PICK B, free : B = {b \in busy : b.day = day} /\ free = FreeIntervals(day, busy)
  OBVIOUS
<1>2. PICK c \in Int : FreeSound(free, B, c)
  BY <1>1, FreeIntervalsSound
<1>3. free \in Seq(Gap) /\ \A i \in DOMAIN free : InStudyWindow(free[i])
  BY <1>2 DEF FreeSound
<1>4. Spanned(free, s) /\ s \in Int
  BY <1>1, FreeIntervalsSpan DEF Fitting
<1>5. QED
  BY <1>1, <1>3, <1>4, SplitsHold DEF Chunks

-----------------------------------------------------------------------------
(***************************************************************************)
(* Avoiding an interval, as its ends say, is sharing no unit of time with  *)
(* it.                                                                     *)
(***************************************************************************)
LEMMA UnitsApart ==
  ASSUME NEW lo \in Int, NEW hi \in Int, lo < hi,
         NEW b, b.start \in Int, b.end \in Int, b.start < b.end
  PROVE  (lo..(hi - 1)) \cap Units(b) = {} <=> hi <= b.start \/ b.end <= lo
<1>1. ASSUME hi <= b.start \/ b.end <= lo PROVE (lo..(hi - 1)) \cap Units(b) = {}
  BY <1>1 DEF Units
<1>2. ASSUME ~(hi <= b.start), ~(b.end <= lo) PROVE (lo..(hi - 1)) \cap Units(b) # {}
  <2>1. PICK x \in Int : x = IF lo < b.start THEN b.start ELSE lo
    OBVIOUS
  <2>2. x \in lo..(hi - 1) /\ x \in Units(b)
    BY <1>2, <2>1 DEF Units
  <2>3. QED
    BY <2>2
<1>3. QED
  BY <1>1, <1>2

Lasting(S) == \A b \in S : b.start \in Int /\ b.end \in Int /\ b.start < b.end

LEMMA ForwardLasts == ASSUME NEW B, Forward(B) PROVE Lasting(B)
BY DEF Forward, Intervals, Lasting

LEMMA TakenApart ==
  ASSUME NEW busy, Lasting(busy), NEW day, NEW lo \in Int, NEW hi \in Int, lo < hi
  PROVE  (lo..(hi - 1)) \cap Taken(day, busy) = {} <=>
           \A b \in busy : b.day = day => hi <= b.start \/ b.end <= lo
<1>1. \A b \in busy : b.start \in Int /\ b.end \in Int /\ b.start < b.end
  BY DEF Lasting
<1>2. \A b \in busy : (lo..(hi - 1)) \cap Units(b) = {} <=> hi <= b.start \/ b.end <= lo
  BY <1>1, UnitsApart
<1>3. (lo..(hi - 1)) \cap Taken(day, busy) = {} <=>
        \A b \in busy : b.day = day => (lo..(hi - 1)) \cap Units(b) = {}
  BY DEF Taken
<1>4. QED
  BY <1>2, <1>3

LEMMA FreeStartsFit ==
  ASSUME NEW busy, Forward(busy), NEW day, NEW s
  PROVE  s \in FreeStarts(day, busy, MinBlock) => Fitting(s, {b \in busy : b.day = day})
<1>1. SUFFICES ASSUME s \in FreeStarts(day, busy, MinBlock)
               PROVE  Fitting(s, {b \in busy : b.day = day})
  OBVIOUS
<1>2. /\ s \in Int /\ StudyStart <= s /\ s + MinBlock <= StudyEnd
      /\ MinBlock \in Nat \ {0}
      /\ (s..((s + MinBlock) - 1)) \cap Taken(day, busy) = {}
  <2>1. s \in StudyStart..(StudyEnd - MinBlock) /\ s..(s + MinBlock - 1) \cap Taken(day, busy) = {}
    BY <1>1 DEF FreeStarts
  <2>2. StudyStart \in Int /\ StudyEnd \in Int /\ MinBlock \in Nat \ {0}
    BY StudyAssumption
  <2>3. QED
    BY <2>1, <2>2
<1>3. s + MinBlock \in Int /\ s < s + MinBlock
  BY <1>2
<1>4. \A b \in busy : b.day = day => s + MinBlock <= b.start \/ b.end <= s
  <2>1. PICK hi \in Int : hi = s + MinBlock
    BY <1>3
  <2>2. QED
    BY <1>2, <1>3, <2>1, TakenApart, ForwardLasts
<1>5. QED
  BY <1>2, <1>4 DEF Fitting

\* What a block of the solver, clear of what is busy, takes of the day.
LEMMA BlockUnits ==
  ASSUME NEW busy, Forward(busy), NEW day,
         NEW c, c.start \in Int, c.end \in Int,
         InStudyWindow(c), c.end - c.start <= MaxBlock, Clear(c, day, busy)
  PROVE  /\ c.end - c.start \in MinBlock..MaxBlock
         /\ Units(c) \subseteq StudyStart..(StudyEnd - 1)
         /\ Units(c) \cap Taken(day, busy) = {}
<1>1. /\ StudyStart \in Int /\ StudyEnd \in Int /\ MinBlock \in Nat \ {0} /\ MaxBlock \in Nat
      /\ StudyStart <= c.start /\ c.end <= StudyEnd /\ c.end - c.start >= MinBlock
  BY StudyAssumption DEF InStudyWindow
<1>2. c.end - c.start \in MinBlock..MaxBlock /\ c.start < c.end
  BY <1>1
<1>3. Units(c) \subseteq StudyStart..(StudyEnd - 1)
  BY <1>1 DEF Units
<1>4. \A b \in busy : b.day = day => c.end <= b.start \/ b.end <= c.start
  BY DEF Clear, Avoids
<1>5. PICK lo \in Int, hi \in Int : lo = c.start /\ hi = c.end
  OBVIOUS
<1>6. (lo..(hi - 1)) \cap Taken(day, busy) = {}
  BY <1>2, <1>4, <1>5, TakenApart, ForwardLasts
<1>7. QED
  BY <1>2, <1>3, <1>5, <1>6 DEF Units

(***************************************************************************)
(* ReplacementSound, for a window and blocks of any size and any classes   *)
(* and other blocks that end after they start.                             *)
(***************************************************************************)
THEOREM ReplacementSoundHolds ==
  ASSUME ReplaceProper
  PROVE  Solving => []ReplacementSound
<1>1. ASSUME Answered PROVE ReplacementSound
  <2>1. SUFFICES ASSUME Solved("replace") PROVE ReplacementSound
    BY DEF ReplacementSound
  <2>2. PICK t, busy : t = task.input /\ busy = t.busy \cup t.others
    OBVIOUS
  <2>3. t \in Replacements
    BY <1>1, <2>1, <2>2, InputOf DEF Solved
  <2>4. IsFiniteSet(busy) /\ Forward(busy)
    BY <2>2, <2>3 DEF ReplaceProper
  <2>5. answer = FindReplacementSlot(t.busy, t.others, t.day, t.exclude)
    BY <1>1, <2>1, <2>2 DEF Answered
  <2>6. PICK chunks : chunks = Chunks(t.day, busy)
    OBVIOUS
  <2>7. ChunksSound(chunks, {b \in busy : b.day = t.day})
    BY <2>4, <2>6, DayChunksSound
  <2>8. chunks \in Seq(Gap) /\ DOMAIN chunks = 1..Len(chunks) /\ Len(chunks) \in Nat
    BY <2>7 DEF ChunksSound
  <2>9. PICK starts : starts = FreeStarts(t.day, busy, MinBlock)
    OBVIOUS
  <2>10. ASSUME NEW s \in starts PROVE s \in Int /\ Within(chunks, s)
    <3>1. Fitting(s, {b \in busy : b.day = t.day})
      BY <2>4, <2>9, FreeStartsFit
    <3>2. QED
      BY <2>4, <2>6, <3>1, ChunksHold DEF Fitting
  <2>11. PICK elsewhere : elsewhere = {i \in DOMAIN chunks : chunks[i].start # t.exclude}
    OBVIOUS
  <2>12. answer = IF elsewhere # {} THEN chunks[Min(elsewhere)]
                  ELSE IF chunks # <<>> THEN Head(chunks) ELSE NoSlot
    BY <2>2, <2>5, <2>6, <2>11 DEF FindReplacementSlot
  <2>13. elsewhere # {} => Min(elsewhere) \in elsewhere
    <3>1. SUFFICES ASSUME elsewhere # {} PROVE Min(elsewhere) \in elsewhere
      OBVIOUS
    <3>2. elsewhere \in SUBSET Nat
      BY <2>8, <2>11
    <3>3. \E x \in elsewhere : \A y \in elsewhere : x <= y
      BY <3>1, <3>2, LeastNat
    <3>4. QED
      BY <3>3 DEF Min
  <2>14. \A c \in Gap : c # NoSlot
    BY DEF Gap, NoSlot
  <2>15. CASE chunks = <<>>
    <3>1. DOMAIN chunks = {}
      BY <2>15
    <3>2. elsewhere = {} /\ answer = NoSlot
      BY <2>11, <2>12, <2>15, <3>1
    <3>3. starts = {}
      BY <2>10, <3>1 DEF Within
    <3>4. QED
      BY <2>2, <2>9, <3>2, <3>3 DEF ReplacementSound
  <2>16. CASE chunks # <<>>
    <3>1. PICK i \in DOMAIN chunks : /\ answer = chunks[i]
                                     /\ elsewhere # {} => i \in elsewhere
      <4>1. CASE elsewhere # {}
        <5>1. Min(elsewhere) \in DOMAIN chunks
          BY <2>11, <2>13, <4>1
        <5>2. QED
          BY <2>12, <2>13, <4>1, <5>1
      <4>2. CASE elsewhere = {}
        <5>1. answer = chunks[1] /\ 1 \in DOMAIN chunks
          BY <2>8, <2>12, <2>16, <4>2
        <5>2. QED
          BY <4>2, <5>1
      <4>3. QED
        BY <4>1, <4>2
    <3>2. answer \in Gap /\ answer.start \in Int /\ answer.end \in Int /\ answer # NoSlot
      BY <2>8, <2>14, <3>1, GapOf
    <3>3. /\ InStudyWindow(answer) /\ answer.end - answer.start <= MaxBlock
          /\ Clear(answer, t.day, busy)
      BY <2>7, <3>1 DEF ChunksSound, Clear
    <3>4. /\ answer.end - answer.start \in MinBlock..MaxBlock
          /\ Units(answer) \subseteq StudyStart..(StudyEnd - 1)
          /\ Units(answer) \cap Taken(t.day, busy) = {}
      BY <2>4, <3>2, <3>3, BlockUnits
    <3>5. ASSUME answer.start = t.exclude, NEW s \in starts
          PROVE  s \in t.exclude..(t.exclude + MaxBlock - 1)
      <4>1. elsewhere = {}
        BY <2>11, <3>1, <3>5
      <4>2. PICK j \in DOMAIN chunks : chunks[j].start <= s /\ s < chunks[j].end
        BY <2>10 DEF Within
      <4>3. chunks[j].start = t.exclude
        BY <2>11, <4>1
      <4>4. chunks[j].end - chunks[j].start <= MaxBlock /\ MaxBlock \in Nat
        BY <2>7, StudyAssumption DEF ChunksSound
      <4>5. chunks[j].start \in Int /\ chunks[j].end \in Int /\ s \in Int
        BY <2>8, <2>10, GapOf
      <4>6. QED
        BY <4>2, <4>3, <4>4, <4>5
    <3>6. answer.start = t.exclude => starts \subseteq t.exclude..(t.exclude + MaxBlock - 1)
      BY <3>5
    <3>7. QED
      BY <2>2, <2>9, <3>2, <3>4, <3>6 DEF ReplacementSound
  <2>17. QED
    BY <2>15, <2>16
<1>2. QED
  BY <1>1, SolvingAnswers, PTL

-----------------------------------------------------------------------------
(***************************************************************************)
(* _find_free_slot.  The invariant of the search: while nothing is found,  *)
(* the blocks behind it end at the cursor or before it, and one of them is *)
(* in the way of every time before the cursor; what is found avoids every  *)
(* block of the day.                                                       *)
(***************************************************************************)
SeekState == [cursor : Int, slot : Gap \cup {NoRoom}]

LEMMA SeekSteps ==
  ASSUME NEW n \in Nat, NEW blocks \in [1..n -> Intervals], NEW duration \in Int
  PROVE  LET w == Seek(duration, blocks) IN
         /\ w[0] = [cursor |-> LifeStart, slot |-> NoRoom]
         /\ \A k \in 0..n : w[k] \in SeekState
         /\ \A k \in 1..n : w[k] = TryGap(duration, w[k - 1], blocks[k])
<1> DEFINE base == [cursor |-> LifeStart, slot |-> NoRoom]
<1> DEFINE step == [p \in (1..n) \X SeekState |-> TryGap(duration, p[2], blocks[p[1]])]
<1>1. Len(blocks) = n
  OBVIOUS
<1>2. base \in SeekState
  BY LifeAssumption DEF SeekState
<1>3. ASSUME NEW s \in SeekState, NEW b \in Intervals
      PROVE  TryGap(duration, s, b) \in SeekState
  <2>1. s.cursor \in Int /\ s.slot \in Gap \cup {NoRoom} /\ b.start \in Int /\ b.end \in Int
    BY DEF SeekState, Intervals
  <2>2. PICK gap : gap = [start |-> s.cursor, end |-> s.cursor + duration]
    OBVIOUS
  <2>3. gap \in Gap
    BY <2>1, <2>2 DEF Gap
  <2>4. PICK c : c = Greatest(s.cursor, b.end)
    OBVIOUS
  <2>5. c \in Int
    BY <2>1, <2>4 DEF Greatest
  <2>6. /\ [s EXCEPT !.slot = gap] \in SeekState
        /\ [s EXCEPT !.cursor = c] \in SeekState
    BY <2>3, <2>5 DEF SeekState
  <2>7. QED
    BY <2>2, <2>4, <2>6 DEF TryGap
<1>4. Closed(n, SeekState, step)
  <2>1. ASSUME NEW k \in 1..n, NEW v \in SeekState PROVE step[<<k, v>>] \in SeekState
    <3>1. step[<<k, v>>] = TryGap(duration, v, blocks[k]) /\ blocks[k] \in Intervals
      OBVIOUS
    <3> HIDE DEF step
    <3>2. QED
      BY <1>3, <3>1
  <2>2. QED
    BY <2>1 DEF Closed
<1>5. PICK f : Follows(n, SeekState, base, step, f)
  <2> HIDE DEF base, step
  <2>1. QED
    BY <1>2, <1>4, Recursion
<1>6. ASSUME NEW k \in 1..n PROVE f[k] = TryGap(duration, f[k - 1], blocks[k])
  <2>1. f[k - 1] \in SeekState /\ f[k] = step[<<k, f[k - 1]>>]
    <3> HIDE DEF base, step
    <3>1. k - 1 \in 0..n
      OBVIOUS
    <3>2. QED
      BY <1>5, <3>1 DEF Follows
  <2>2. QED
    BY <2>1
<1> HIDE DEF base, step
<1>7. ASSUME NEW k \in 0..n
      PROVE  f[k] = IF k = 0 THEN base ELSE TryGap(duration, f[k - 1], blocks[k])
  <2>1. CASE k = 0
    BY <1>5, <2>1 DEF Follows
  <2>2. CASE k # 0
    <3>1. k \in 1..n
      BY <2>2
    <3>2. QED
      BY <1>6, <2>2, <3>1
  <2>3. QED
    BY <2>1, <2>2
<1>8. f = [k \in 0..n |-> IF k = 0 THEN base ELSE TryGap(duration, f[k - 1], blocks[k])]
  BY <1>5, <1>7 DEF Follows
<1>9. PICK w : w = Seek(duration, blocks)
  OBVIOUS
<1>10. w = [k \in 0..n |-> IF k = 0 THEN base ELSE TryGap(duration, w[k - 1], blocks[k])]
  BY <1>1, <1>8, <1>9 DEF Seek, base
<1>11. w[0] = base /\ \A k \in 1..n : w[k] = TryGap(duration, w[k - 1], blocks[k])
  BY <1>10
<1>12. \A k \in 0..n : w[k] \in SeekState
  <2> DEFINE K == {k \in 0..n : w[k] \in SeekState}
  <2>1. 0 \in K
    BY <1>2, <1>11
  <2>2. ASSUME NEW k \in 1..n, k - 1 \in K PROVE k \in K
    BY <1>3, <1>11, <2>2
  <2> HIDE DEF K
  <2>3. \A k \in 0..n : k \in K
    BY <2>1, <2>2, UpTo
  <2>4. QED
    BY <2>3 DEF K
<1>13. QED
  BY <1>9, <1>11, <1>12 DEF base

\* b is in the way of what begins at s and lasts for the duration.
InTheWay(b, s, duration) == ~(s + duration <= b.start \/ b.end <= s)

Blocked(S, s, duration) == \E b \in S : InTheWay(b, s, duration)

Searched(w, S, duration, ended) ==
  /\ w.cursor \in Int
  /\ w.slot = NoRoom =>
       /\ \A b \in ended : b.end <= w.cursor
       /\ \A s \in Int : LifeStart <= s /\ s < w.cursor => Blocked(S, s, duration)
  /\ w.slot # NoRoom =>
       /\ w.slot \in Gap /\ w.slot.end = w.slot.start + duration
       /\ \A b \in S : Avoids(w.slot, b)

LEMMA TryGapSound ==
  ASSUME NEW S, Forward(S), NEW duration \in Nat \ {0}, NEW ended, ended \subseteq S,
         NEW w \in SeekState, Searched(w, S, duration, ended),
         NEW b \in S, \A x \in S : x \in ended \/ b.start <= x.start
  PROVE  Searched(TryGap(duration, w, b), S, duration, ended \cup {b})
<1>1. /\ w.cursor \in Int /\ b.start \in Int /\ b.end \in Int /\ b.start < b.end
      /\ \A x \in S : x.start \in Int /\ x.end \in Int
  BY DEF SeekState, Forward, Intervals
<1>2. PICK gap : gap = [start |-> w.cursor, end |-> w.cursor + duration]
  OBVIOUS
<1>3. gap \in Gap /\ gap.start = w.cursor /\ gap.end = w.cursor + duration /\ gap # NoRoom
  BY <1>1, <1>2 DEF Gap, NoRoom
<1>4. PICK c : c = Greatest(w.cursor, b.end)
  OBVIOUS
<1>5. c \in Int /\ w.cursor <= c /\ b.end <= c /\ (c = w.cursor \/ c = b.end)
  BY <1>1, <1>4 DEF Greatest
<1>6. PICK v : v = TryGap(duration, w, b)
  OBVIOUS
<1>7. CASE w.slot # NoRoom
  <2>1. v = w
    BY <1>6, <1>7 DEF TryGap
  <2>2. QED
    BY <1>6, <1>7, <2>1 DEF Searched
<1>8. CASE w.slot = NoRoom /\ b.start - w.cursor >= duration
  <2>1. v = [w EXCEPT !.slot = gap]
    BY <1>2, <1>6, <1>8 DEF TryGap
  <2>2. v.cursor = w.cursor /\ v.slot = gap
    BY <2>1 DEF SeekState
  <2>3. ASSUME NEW x \in S PROVE Avoids(gap, x)
    <3>1. CASE x \in ended
      BY <1>1, <1>3, <1>8, <3>1 DEF Searched, Avoids
    <3>2. CASE b.start <= x.start
      BY <1>1, <1>3, <1>8, <3>2 DEF Avoids
    <3>3. QED
      BY <3>1, <3>2
  <2>4. QED
    BY <1>1, <1>3, <1>6, <2>2, <2>3 DEF Searched
<1>9. CASE w.slot = NoRoom /\ ~(b.start - w.cursor >= duration)
  <2>1. v = [w EXCEPT !.cursor = c]
    BY <1>4, <1>6, <1>9 DEF TryGap
  <2>2. v.cursor = c /\ v.slot = NoRoom
    BY <1>9, <2>1 DEF SeekState
  <2>3. ASSUME NEW x \in ended \cup {b} PROVE x.end <= c
    <3>1. CASE x \in ended
      <4>1. x.end <= w.cursor /\ x.end \in Int
        BY <1>1, <1>9, <3>1 DEF Searched
      <4>2. QED
        BY <1>1, <1>5, <4>1
    <3>2. QED
      BY <1>5, <3>1
  <2>4. ASSUME NEW s \in Int, LifeStart <= s, s < c PROVE Blocked(S, s, duration)
    <3>1. CASE s < w.cursor
      BY <1>9, <2>4, <3>1 DEF Searched
    <3>2. CASE ~(s < w.cursor)
      <4>1. s < b.end /\ b.start < s + duration
        BY <1>1, <1>5, <1>9, <2>4, <3>2
      <4>2. InTheWay(b, s, duration)
        BY <1>1, <4>1 DEF InTheWay
      <4>3. QED
        BY <4>2 DEF Blocked
    <3>3. QED
      BY <3>1, <3>2
  <2>5. QED
    BY <1>5, <1>6, <2>2, <2>3, <2>4 DEF Searched
<1>10. QED
  BY <1>7, <1>8, <1>9

LEMMA FreeSlotSound ==
  ASSUME NEW day, NEW duration \in Nat \ {0}, NEW placed,
         NEW S, S = OnDay(day, placed), IsFiniteSet(S), Forward(S),
         NEW room, room = FindFreeSlot(day, duration, placed)
  PROVE  /\ room # NoRoom =>
              /\ room \in Gap /\ room.end = room.start + duration
              /\ \A b \in S : Avoids(room, b)
         /\ room = NoRoom =>
              \A s \in LifeStart..(LifeEnd - duration) : Blocked(S, s, duration)
<1>1. PICK q, n : q = ByStart(S) /\ n = Cardinality(S)
  OBVIOUS
<1>2. /\ n \in Nat /\ q \in [1..n -> S] /\ Len(q) = n
      /\ \A x \in S : \E i \in 1..n : x = q[i]
      /\ \A i, j \in 1..n : i < j => q[i].start <= q[j].start
  <2>1. S \subseteq Intervals
    BY DEF Forward
  <2>2. QED
    BY <1>1, <2>1, ByStartSound DEF Rising
<1>3. q \in [1..n -> Intervals] /\ \A i \in 1..n : q[i] \in S /\ q[i].start \in Int
  BY <1>2 DEF Forward, Intervals
<1>4. PICK w : w = Seek(duration, q)
  OBVIOUS
<1>5. /\ w[0] = [cursor |-> LifeStart, slot |-> NoRoom]
      /\ \A k \in 0..n : w[k] \in SeekState
      /\ \A k \in 1..n : w[k] = TryGap(duration, w[k - 1], q[k])
  <2>1. duration \in Int /\ n \in Nat /\ q \in [1..n -> Intervals]
    BY <1>2, <1>3
  <2>2. /\ Seek(duration, q)[0] = [cursor |-> LifeStart, slot |-> NoRoom]
        /\ \A k \in 0..n : Seek(duration, q)[k] \in SeekState
        /\ \A k \in 1..n :
             Seek(duration, q)[k] = TryGap(duration, Seek(duration, q)[k - 1], q[k])
    BY <2>1, SeekSteps
  <2>3. QED
    BY <1>4, <2>2
<1>6. LifeStart \in Int /\ LifeEnd \in Int
  BY LifeAssumption
<1> DEFINE Ended(k) == {q[i] : i \in 1..k}
<1> DEFINE K == {k \in 0..n : Searched(w[k], S, duration, Ended(k))}
<1>7. 0 \in K
  <2>1. w[0].cursor = LifeStart /\ w[0].slot = NoRoom /\ Ended(0) = {}
    BY <1>5
  <2>2. Searched(w[0], S, duration, Ended(0))
    BY <1>6, <2>1 DEF Searched
  <2>3. QED
    BY <1>2, <2>2
<1>8. ASSUME NEW k \in 1..n, k - 1 \in K PROVE k \in K
  <2>1. PICK p, b, e : p = w[k - 1] /\ b = q[k] /\ e = Ended(k - 1)
    OBVIOUS
  <2>2. p \in SeekState /\ Searched(p, S, duration, e)
    BY <1>5, <1>8, <2>1
  <2>3. b \in S /\ e \subseteq S
    <3>1. \A i \in 1..(k - 1) : i \in 1..n
      BY <1>2
    <3>2. QED
      BY <1>3, <2>1, <3>1
  <2>4. ASSUME NEW x \in S PROVE x \in e \/ b.start <= x.start
    <3>1. PICK i \in 1..n : x = q[i]
      BY <1>2
    <3>2. CASE i < k
      BY <2>1, <3>1, <3>2
    <3>3. CASE i = k
      BY <1>3, <2>1, <3>1, <3>3
    <3>4. CASE i > k
      BY <1>2, <2>1, <3>1, <3>4
    <3>5. QED
      BY <3>2, <3>3, <3>4
  <2>5. Searched(TryGap(duration, p, b), S, duration, e \cup {b})
    BY <2>2, <2>3, <2>4, TryGapSound
  <2>6. Ended(k) = e \cup {b}
    BY <2>1
  <2>7. w[k] = TryGap(duration, p, b)
    BY <1>5, <2>1
  <2>8. QED
    BY <2>5, <2>6, <2>7
<1> HIDE DEF K
<1>9. \A k \in 0..n : k \in K
  BY <1>2, <1>7, <1>8, UpTo
<1>10. PICK last : last = w[n]
  OBVIOUS
<1>11. Searched(last, S, duration, Ended(n)) /\ Ended(n) = S
  <2>1. n \in K
    BY <1>2, <1>9
  <2>2. Searched(last, S, duration, Ended(n))
    BY <1>10, <2>1 DEF K
  <2>3. Ended(n) = S
    BY <1>2, <1>3
  <2>4. QED
    BY <2>2, <2>3
<1>12. PICK gap : gap = [start |-> last.cursor, end |-> last.cursor + duration]
  OBVIOUS
<1>13. room = IF last.slot # NoRoom THEN last.slot
              ELSE IF LifeEnd - last.cursor >= duration THEN gap ELSE NoRoom
  BY <1>1, <1>2, <1>4, <1>10, <1>12 DEF FindFreeSlot
<1>14. last.cursor \in Int /\ \A x \in S : x.start \in Int /\ x.end \in Int
  BY <1>11 DEF Searched, Forward, Intervals
<1>15. CASE last.slot # NoRoom
  BY <1>11, <1>13, <1>15 DEF Searched
<1>16. CASE last.slot = NoRoom /\ LifeEnd - last.cursor >= duration
  <2>1. gap \in Gap /\ gap.start = last.cursor /\ gap.end = gap.start + duration /\ gap # NoRoom
    BY <1>12, <1>14 DEF Gap, NoRoom
  <2>2. \A x \in S : Avoids(gap, x)
    BY <1>11, <1>16, <2>1 DEF Searched, Avoids
  <2>3. QED
    BY <1>13, <1>16, <2>1, <2>2
<1>17. CASE last.slot = NoRoom /\ ~(LifeEnd - last.cursor >= duration)
  <2>1. room = NoRoom
    BY <1>13, <1>17
  <2>2. ASSUME NEW s \in LifeStart..(LifeEnd - duration) PROVE Blocked(S, s, duration)
    <3>1. s \in Int /\ LifeStart <= s /\ s < last.cursor
      BY <1>6, <1>14, <1>17
    <3>2. QED
      BY <1>11, <1>17, <3>1 DEF Searched
  <2>3. QED
    BY <2>1, <2>2
<1>18. QED
  BY <1>15, <1>16, <1>17

-----------------------------------------------------------------------------
(***************************************************************************)
(* build_life_schedule, one routine on one day: what is placed is right    *)
(* for the blocks placed before it.                                        *)
(***************************************************************************)
LifeBlocks(Q, N) ==
  {b \in [source : Q, id : N, day : Int, start : Int, end : Int, conflict : BOOLEAN] :
     b.start < b.end}

RoutineOf(r, N) == r.id \in N /\ RoutineShaped(r)

Beside(b, S) == \E x \in S : x.day = b.day /\ Overlaps(b, x)

NoRoomLeft(day, duration, S) ==
  \A s \in LifeStart..(LifeEnd - duration) :
    \E x \in S : x.day = day /\ InTheWay(x, s, duration)

Placing(b, r, S) ==
  /\ b.id = r.id /\ b.end - b.start = r.end - r.start
  /\ b.conflict <=> Beside(b, S)
  /\ b.start # r.start => r.flexible
  /\ b.conflict => /\ b.start = r.start
                   /\ r.flexible => NoRoomLeft(b.day, r.end - r.start, S)

LEMMA LifeBlockType ==
  ASSUME NEW Q, NEW N, NEW b \in LifeBlocks(Q, N)
  PROVE  /\ b.source \in Q /\ b.id \in N /\ b.day \in Int /\ b.conflict \in BOOLEAN
         /\ b.start \in Int /\ b.end \in Int /\ b.start < b.end
BY DEF LifeBlocks

LEMMA OnDaySound ==
  ASSUME NEW Q, NEW N, NEW placed \in Seq(LifeBlocks(Q, N)), NEW day \in Int
  PROVE  /\ IsFiniteSet(OnDay(day, placed)) /\ Forward(OnDay(day, placed))
         /\ \A x \in OnDay(day, placed) :
              \E y \in ToSet(placed) : y.day = day /\ y.start = x.start /\ y.end = x.end
         /\ \A y \in ToSet(placed) : y.day = day =>
              \E x \in OnDay(day, placed) : y.start = x.start /\ y.end = x.end
<1>1. PICK n \in Nat : n = Len(placed)
  OBVIOUS
<1>2. DOMAIN placed = 1..n /\ \A i \in 1..n : placed[i] \in LifeBlocks(Q, N)
  BY <1>1
<1>3. \A i \in 1..n : /\ placed[i].start \in Int /\ placed[i].end \in Int
                      /\ placed[i].start < placed[i].end
  BY <1>2, LifeBlockType
<1>4. PICK J : J = {j \in 1..n : placed[j].day = day}
  OBVIOUS
<1>5. PICK T : T = OnDay(day, placed)
  OBVIOUS
<1>6. T = {[day |-> day, start |-> placed[i].start, end |-> placed[i].end] : i \in J}
  BY <1>2, <1>4, <1>5 DEF OnDay
<1>7. IsFiniteSet(J)
  <2>1. IsFiniteSet(1..n) /\ J \in SUBSET (1..n)
    BY <1>4, FS_Interval
  <2>2. QED
    BY <2>1, FS_Subset
<1>8. PICK f : f = [i \in J |-> [day |-> day, start |-> placed[i].start, end |-> placed[i].end]]
  OBVIOUS
<1>9. f \in [J -> T] /\ \A t \in T : \E i \in J : f[i] = t
  BY <1>6, <1>8
<1>10. IsFiniteSet(T)
  BY <1>7, <1>9, ImageFinite
<1>11. ASSUME NEW x \in T
       PROVE  /\ x \in Intervals /\ x.start < x.end
              /\ \E y \in ToSet(placed) : y.day = day /\ y.start = x.start /\ y.end = x.end
  <2>1. PICK i \in J : x = [day |-> day, start |-> placed[i].start, end |-> placed[i].end]
    BY <1>6
  <2>2. i \in 1..n /\ placed[i].day = day
    BY <1>4
  <2>3. placed[i].start \in Int /\ placed[i].end \in Int /\ placed[i].start < placed[i].end
    BY <1>3, <2>2
  <2>4. x \in Intervals /\ x.start = placed[i].start /\ x.end = placed[i].end
    BY <2>1, <2>3 DEF Intervals
  <2>5. placed[i] \in ToSet(placed)
    BY <1>2, <2>2 DEF ToSet
  <2>6. QED
    BY <2>2, <2>3, <2>4, <2>5
<1>12. ASSUME NEW y \in ToSet(placed), y.day = day
       PROVE  \E x \in T : y.start = x.start /\ y.end = x.end
  <2>1. PICK i \in 1..n : y = placed[i]
    BY <1>2 DEF ToSet
  <2>2. PICK x : x = [day |-> day, start |-> placed[i].start, end |-> placed[i].end]
    OBVIOUS
  <2>3. x \in T /\ y.start = x.start /\ y.end = x.end
    BY <1>4, <1>6, <1>12, <2>1, <2>2
  <2>4. QED
    BY <2>3
<1>13. QED
  BY <1>5, <1>10, <1>11, <1>12 DEF Forward

LEMMA PlaceRoutineSound ==
  ASSUME NEW Q, "routine" \in Q, NEW N, NEW placed \in Seq(LifeBlocks(Q, N)),
         NEW r, RoutineOf(r, N), NEW day \in Int
  PROVE  \E b \in LifeBlocks(Q, N) :
           /\ PlaceRoutine(placed, r, day) = Append(placed, b)
           /\ b.day = day /\ Placing(b, r, ToSet(placed))
<1>1. PICK S, T : S = ToSet(placed) /\ T = OnDay(day, placed)
  OBVIOUS
<1>2. /\ IsFiniteSet(T) /\ Forward(T)
      /\ \A x \in T : \E y \in S : y.day = day /\ y.start = x.start /\ y.end = x.end
      /\ \A y \in S : y.day = day => \E x \in T : y.start = x.start /\ y.end = x.end
  BY <1>1, OnDaySound
<1>3. \A y \in S : y.start \in Int /\ y.end \in Int /\ y.start < y.end
  <2>1. \A y \in S : y \in LifeBlocks(Q, N)
    BY <1>1 DEF ToSet
  <2>2. QED
    BY <2>1, LifeBlockType
<1>4. /\ r.id \in N /\ r.start \in Int /\ r.end \in Int /\ r.start < r.end
      /\ r.flexible \in BOOLEAN
  BY DEF RoutineOf, RoutineShaped
<1>5. PICK duration \in Nat \ {0} : duration = r.end - r.start
  BY <1>4
<1>6. PICK slot, room : /\ slot = [day |-> day, start |-> r.start, end |-> r.end]
                        /\ room = FindFreeSlot(day, duration, placed)
  OBVIOUS
<1>7. slot.day = day /\ slot.start = r.start /\ slot.end = r.end
  BY <1>6
<1>8. /\ room # NoRoom =>
           /\ room \in Gap /\ room.end = room.start + duration
           /\ \A x \in T : Avoids(room, x)
      /\ room = NoRoom =>
           \A s \in LifeStart..(LifeEnd - duration) : Blocked(T, s, duration)
  <2>1. T = OnDay(day, placed) /\ IsFiniteSet(T) /\ Forward(T)
    BY <1>1, <1>2
  <2>2. room = FindFreeSlot(day, duration, placed)
    BY <1>6
  <2>3. QED
    BY <2>1, <2>2, FreeSlotSound
<1>9. HasConflict(slot, placed) <=> \E y \in S : y.day = day /\ Overlaps(slot, y)
  BY <1>1, <1>7 DEF HasConflict, ToSet
<1>10. PICK plain, moved, flagged :
         /\ plain = LifeBlock("routine", r.id, day, slot, FALSE)
         /\ moved = LifeBlock("routine", r.id, day, room, FALSE)
         /\ flagged = LifeBlock("routine", r.id, day, slot, TRUE)
  OBVIOUS
<1>11. PlaceRoutine(placed, r, day) =
         CASE ~HasConflict(slot, placed) -> Append(placed, plain)
           [] HasConflict(slot, placed) /\ r.flexible /\ room # NoRoom -> Append(placed, moved)
           [] OTHER -> Append(placed, flagged)
  BY <1>5, <1>6, <1>10 DEF PlaceRoutine
<1>12. CASE ~HasConflict(slot, placed)
  <2>1. /\ plain.id = r.id /\ plain.day = day /\ plain.conflict = FALSE
        /\ plain.start = r.start /\ plain.end = r.end
        /\ plain \in LifeBlocks(Q, N)
    BY <1>4, <1>7, <1>10 DEF LifeBlock, LifeBlocks
  <2>2. ~Beside(plain, S)
    BY <1>7, <1>9, <1>12, <2>1 DEF Beside, Overlaps
  <2>3. Placing(plain, r, S)
    BY <1>4, <2>1, <2>2 DEF Placing
  <2>4. PlaceRoutine(placed, r, day) = Append(placed, plain)
    BY <1>11, <1>12
  <2>5. QED
    BY <1>1, <2>1, <2>3, <2>4
<1>13. CASE HasConflict(slot, placed) /\ r.flexible /\ room # NoRoom
  <2>1. room.start \in Int /\ room.end \in Int /\ room.end = room.start + duration
    BY <1>8, <1>13 DEF Gap
  <2>2. /\ moved.id = r.id /\ moved.day = day /\ moved.conflict = FALSE
        /\ moved.start = room.start /\ moved.end = room.end
        /\ moved \in LifeBlocks(Q, N)
    BY <1>4, <1>5, <1>10, <2>1 DEF LifeBlock, LifeBlocks
  <2>3. ASSUME NEW y \in S, y.day = day PROVE ~Overlaps(moved, y)
    <3>1. PICK x \in T : y.start = x.start /\ y.end = x.end
      BY <1>2, <2>3
    <3>2. Avoids(room, x)
      BY <1>8, <1>13
    <3>3. QED
      BY <1>3, <2>1, <2>2, <3>1, <3>2 DEF Avoids, Overlaps
  <2>4. ~Beside(moved, S)
    BY <2>2, <2>3 DEF Beside
  <2>5. Placing(moved, r, S)
    <3>1. moved.end - moved.start = r.end - r.start
      BY <1>4, <1>5, <2>1, <2>2
    <3>2. QED
      BY <1>13, <2>2, <2>4, <3>1 DEF Placing
  <2>6. PlaceRoutine(placed, r, day) = Append(placed, moved)
    BY <1>11, <1>13
  <2>7. QED
    BY <1>1, <2>2, <2>5, <2>6
<1>14. CASE HasConflict(slot, placed) /\ ~(r.flexible /\ room # NoRoom)
  <2>1. /\ flagged.id = r.id /\ flagged.day = day /\ flagged.conflict = TRUE
        /\ flagged.start = r.start /\ flagged.end = r.end
        /\ flagged \in LifeBlocks(Q, N)
    BY <1>4, <1>7, <1>10 DEF LifeBlock, LifeBlocks
  <2>2. Beside(flagged, S)
    BY <1>7, <1>9, <1>14, <2>1 DEF Beside, Overlaps
  <2>3. ASSUME r.flexible PROVE NoRoomLeft(day, duration, S)
    <3>1. room = NoRoom
      BY <1>14, <2>3
    <3>2. ASSUME NEW s \in LifeStart..(LifeEnd - duration)
          PROVE  \E y \in S : y.day = day /\ InTheWay(y, s, duration)
      <4>1. PICK x \in T : InTheWay(x, s, duration)
        BY <1>8, <3>1 DEF Blocked
      <4>2. PICK y \in S : y.day = day /\ y.start = x.start /\ y.end = x.end
        BY <1>2
      <4>3. QED
        BY <4>1, <4>2 DEF InTheWay
    <3>3. QED
      BY <3>2 DEF NoRoomLeft
  <2>4. Placing(flagged, r, S)
    BY <1>5, <2>1, <2>2, <2>3 DEF Placing
  <2>5. PlaceRoutine(placed, r, day) = Append(placed, flagged)
    BY <1>11, <1>14
  <2>6. QED
    BY <1>1, <2>1, <2>4, <2>5
<1>15. QED
  BY <1>12, <1>13, <1>14

-----------------------------------------------------------------------------
(***************************************************************************)
(* The loops of build_life_schedule.  Their invariant: the first blocks    *)
(* are the fixed ones, and each of the others is a routine's on one of its *)
(* days, right for the blocks before it; m of them were placed.            *)
(***************************************************************************)
Ahead(placed, i) == {placed[j] : j \in 1..(i - 1)}

RightAt(placed, i, r) ==
  /\ \E j \in DOMAIN r.days : placed[i].day = r.days[j]
  /\ Placing(placed[i], r, Ahead(placed, i))

Layered(placed, base, B, R, m) ==
  /\ placed \in Seq(B) /\ Len(placed) = Len(base) + m
  /\ \A i \in 1..Len(base) : placed[i] = base[i]
  /\ \A i \in (Len(base) + 1)..Len(placed) : \E r \in R : RightAt(placed, i, r)

LEMMA LayeredGrows ==
  ASSUME NEW B, NEW base \in Seq(B), NEW R, NEW m \in Nat,
         NEW placed, Layered(placed, base, B, R, m),
         NEW r \in R, NEW j \in DOMAIN r.days, NEW b \in B,
         b.day = r.days[j], Placing(b, r, ToSet(placed))
  PROVE  Layered(Append(placed, b), base, B, R, m + 1)
<1>1. PICK new, n : new = Append(placed, b) /\ n = Len(placed)
  OBVIOUS
<1>2. /\ n \in Nat /\ placed \in Seq(B) /\ DOMAIN placed = 1..n /\ Len(base) \in Nat
      /\ n = Len(base) + m
  BY <1>1 DEF Layered
<1>3. /\ new \in Seq(B) /\ Len(new) = n + 1
      /\ \A i \in 1..n : new[i] = placed[i]
      /\ new[n + 1] = b
  BY <1>1, <1>2
<1>4. Ahead(new, n + 1) = ToSet(placed)
  BY <1>2, <1>3 DEF Ahead, ToSet
<1>5. ASSUME NEW i \in (Len(base) + 1)..Len(new) PROVE \E q \in R : RightAt(new, i, q)
  <2>1. CASE i = n + 1
    <3>1. RightAt(new, i, r)
      BY <1>3, <1>4, <2>1 DEF RightAt
    <3>2. QED
      BY <3>1
  <2>2. CASE i # n + 1
    <3>1. i \in (Len(base) + 1)..Len(placed) /\ i \in 1..n
      BY <1>1, <1>2, <1>3, <2>2
    <3>2. PICK q \in R : RightAt(placed, i, q)
      BY <3>1 DEF Layered
    <3>3. Ahead(new, i) = Ahead(placed, i) /\ new[i] = placed[i]
      <4>1. \A l \in 1..(i - 1) : new[l] = placed[l]
        BY <1>2, <1>3, <3>1
      <4>2. QED
        BY <1>3, <3>1, <4>1 DEF Ahead
    <3>4. RightAt(new, i, q)
      BY <3>2, <3>3 DEF RightAt
    <3>5. QED
      BY <3>4
  <2>3. QED
    BY <2>1, <2>2
<1>6. \A i \in 1..Len(base) : new[i] = base[i]
  BY <1>2, <1>3 DEF Layered
<1>7. Len(new) = Len(base) + (m + 1)
  BY <1>2, <1>3
<1>8. QED
  BY <1>1, <1>3, <1>5, <1>6, <1>7 DEF Layered

LEMMA LayerRoutineSteps ==
  ASSUME NEW Q, "routine" \in Q, NEW N, NEW placed \in Seq(LifeBlocks(Q, N)),
         NEW r, RoutineOf(r, N)
  PROVE  /\ LayerRoutine(placed, r)[0] = placed
         /\ \A k \in 1..Len(r.days) :
              LayerRoutine(placed, r)[k] =
                PlaceRoutine(LayerRoutine(placed, r)[k - 1], r, r.days[k])
         /\ \A k \in 0..Len(r.days) : LayerRoutine(placed, r)[k] \in Seq(LifeBlocks(Q, N))
<1> DEFINE S == Seq(LifeBlocks(Q, N))
<1>1. PICK n, days : days = r.days /\ n = Len(days)
  OBVIOUS
<1>2. days \in Seq(Int) /\ n \in Nat /\ \A k \in 1..n : days[k] \in Int
  BY <1>1 DEF RoutineOf, RoutineShaped
<1> DEFINE step == [p \in (1..n) \X S |-> PlaceRoutine(p[2], r, days[p[1]])]
<1>3. ASSUME NEW k \in 1..n, NEW v \in S PROVE PlaceRoutine(v, r, days[k]) \in S
  <2>1. PICK b \in LifeBlocks(Q, N) : PlaceRoutine(v, r, days[k]) = Append(v, b)
    BY <1>2, PlaceRoutineSound
  <2>2. QED
    BY <2>1
<1> HIDE DEF S
<1>4. Closed(n, S, step)
  <2>1. ASSUME NEW k \in 1..n, NEW v \in S PROVE step[<<k, v>>] \in S
    <3>1. step[<<k, v>>] = PlaceRoutine(v, r, days[k])
      OBVIOUS
    <3> HIDE DEF step
    <3>2. QED
      BY <1>3, <3>1
  <2>2. QED
    BY <2>1 DEF Closed
<1>5. PICK f : Follows(n, S, placed, step, f)
  <2>1. placed \in S
    BY DEF S
  <2> HIDE DEF step
  <2>2. QED
    BY <1>2, <1>4, <2>1, Recursion
<1>6. ASSUME NEW k \in 1..n PROVE f[k] = PlaceRoutine(f[k - 1], r, days[k])
  <2>1. f[k - 1] \in S /\ f[k] = step[<<k, f[k - 1]>>]
    <3> HIDE DEF step
    <3>1. k - 1 \in 0..n
      BY <1>2
    <3>2. QED
      BY <1>5, <3>1 DEF Follows
  <2>2. QED
    BY <2>1
<1> HIDE DEF step
<1>7. ASSUME NEW k \in 0..n
      PROVE  f[k] = IF k = 0 THEN placed ELSE PlaceRoutine(f[k - 1], r, days[k])
  <2>1. CASE k = 0
    BY <1>5, <2>1 DEF Follows
  <2>2. CASE k # 0
    <3>1. k \in 1..n
      BY <1>2, <2>2
    <3>2. QED
      BY <1>6, <2>2, <3>1
  <2>3. QED
    BY <2>1, <2>2
<1>8. f = [k \in 0..n |-> IF k = 0 THEN placed ELSE PlaceRoutine(f[k - 1], r, days[k])]
  BY <1>5, <1>7 DEF Follows
<1>9. PICK w : w = LayerRoutine(placed, r)
  OBVIOUS
<1>10. w = [k \in 0..n |-> IF k = 0 THEN placed ELSE PlaceRoutine(w[k - 1], r, days[k])]
  <2>1. w = CHOOSE v : v = [k \in 0..n |->
                              IF k = 0 THEN placed ELSE PlaceRoutine(v[k - 1], r, days[k])]
    BY <1>1, <1>9, Zenon DEF LayerRoutine
  <2>2. QED
    BY <1>8, <2>1
<1>11. w[0] = placed /\ \A k \in 1..n : w[k] = PlaceRoutine(w[k - 1], r, days[k])
  BY <1>2, <1>10
<1>12. \A k \in 0..n : w[k] \in S
  <2> DEFINE K == {k \in 0..n : w[k] \in S}
  <2>1. 0 \in K
    BY <1>2, <1>11 DEF S
  <2>2. ASSUME NEW k \in 1..n, k - 1 \in K PROVE k \in K
    BY <1>2, <1>3, <1>11, <2>2
  <2> HIDE DEF K
  <2>3. \A k \in 0..n : k \in K
    BY <1>2, <2>1, <2>2, UpTo
  <2>4. QED
    BY <2>3 DEF K
<1>13. QED
  BY <1>1, <1>9, <1>11, <1>12 DEF S

LEMMA LayerRoutineSound ==
  ASSUME NEW Q, "routine" \in Q, NEW N, NEW B, B = LifeBlocks(Q, N),
         NEW base \in Seq(B), NEW R, NEW m \in Nat,
         NEW placed, Layered(placed, base, B, R, m), NEW r \in R, RoutineOf(r, N)
  PROVE  Layered(LayerRoutine(placed, r)[Len(r.days)], base, B, R, m + Len(r.days))
<1>1. PICK w, n : w = LayerRoutine(placed, r) /\ n = Len(r.days)
  OBVIOUS
<1>2. n \in Nat /\ r.days \in Seq(Int) /\ DOMAIN r.days = 1..n /\ \A k \in 1..n : r.days[k] \in Int
  BY <1>1 DEF RoutineOf, RoutineShaped
<1>3. /\ w[0] = placed
      /\ \A k \in 1..n : w[k] = PlaceRoutine(w[k - 1], r, r.days[k])
      /\ \A k \in 0..n : w[k] \in Seq(B)
  <2>1. placed \in Seq(LifeBlocks(Q, N))
    BY DEF Layered
  <2>2. QED
    BY <1>1, <2>1, LayerRoutineSteps
<1> DEFINE K == {k \in 0..n : Layered(w[k], base, B, R, m + k)}
<1>4. 0 \in K
  BY <1>2, <1>3
<1>5. ASSUME NEW k \in 1..n, k - 1 \in K PROVE k \in K
  <2>1. PICK p, l : p = w[k - 1] /\ l = m + (k - 1)
    OBVIOUS
  <2>2. Layered(p, base, B, R, l) /\ l \in Nat /\ l + 1 = m + k
    BY <1>2, <1>5, <2>1
  <2>3. p \in Seq(LifeBlocks(Q, N)) /\ r.days[k] \in Int
    BY <1>2, <2>2 DEF Layered
  <2>4. PICK b \in LifeBlocks(Q, N) :
          /\ PlaceRoutine(p, r, r.days[k]) = Append(p, b)
          /\ b.day = r.days[k] /\ Placing(b, r, ToSet(p))
    BY <2>3, PlaceRoutineSound
  <2>5. Layered(Append(p, b), base, B, R, l + 1)
    BY <1>2, <2>2, <2>4, LayeredGrows
  <2>6. w[k] = Append(p, b)
    BY <1>3, <2>1, <2>4
  <2>7. Layered(w[k], base, B, R, m + k)
    BY <2>2, <2>5, <2>6
  <2>8. k \in 0..n
    BY <1>2
  <2>9. QED
    BY <2>7, <2>8
<1> HIDE DEF K
<1>6. \A k \in 0..n : k \in K
  BY <1>2, <1>4, <1>5, UpTo
<1>7. n \in K
  BY <1>2, <1>6
<1>8. QED
  BY <1>1, <1>7 DEF K

\* The routines of the first k, each on each of its days.
Wanted(asked, k) == UNION {{j} \X DOMAIN asked[j].days : j \in 1..k}

LEMMA WantedGrows ==
  ASSUME NEW R, NEW asked \in Seq(R), \A r \in R : r.days \in Seq(Int),
         NEW k \in 1..Len(asked),
         IsFiniteSet(Wanted(asked, k - 1))
  PROVE  /\ IsFiniteSet(Wanted(asked, k))
         /\ Cardinality(Wanted(asked, k)) =
              Cardinality(Wanted(asked, k - 1)) + Len(asked[k].days)
<1>1. PICK l \in Nat : l = Len(asked[k].days)
  OBVIOUS
<1>2. asked[k].days \in Seq(Int) /\ DOMAIN asked[k].days = 1..l
  BY <1>1
<1>3. PICK V, W, X : /\ V = Wanted(asked, k - 1) /\ W = Wanted(asked, k)
                     /\ X = {k} \X (1..l)
  OBVIOUS
<1>4. W = V \cup X
  <2>1. \A j \in 1..k : j \in 1..(k - 1) \/ j = k
    OBVIOUS
  <2>2. \A j \in 1..(k - 1) : j \in 1..k
    OBVIOUS
  <2>3. k \in 1..k
    OBVIOUS
  <2>4. ASSUME NEW x PROVE x \in W <=> x \in V \/ x \in X
    <3>1. x \in W <=> \E j \in 1..k : x \in {j} \X DOMAIN asked[j].days
      BY <1>3 DEF Wanted
    <3>2. x \in V <=> \E j \in 1..(k - 1) : x \in {j} \X DOMAIN asked[j].days
      BY <1>3 DEF Wanted
    <3>3. x \in X <=> x \in {k} \X DOMAIN asked[k].days
      BY <1>2, <1>3
    <3>4. QED
      BY <2>1, <2>2, <2>3, <3>1, <3>2, <3>3
  <2>5. QED
    BY <2>4
<1>5. V \cap X = {}
  <2>1. \A x \in V : x[1] \in 1..(k - 1)
    BY <1>3 DEF Wanted
  <2>2. \A x \in X : x[1] = k
    BY <1>3
  <2>3. QED
    BY <2>1, <2>2
<1>6. IsFiniteSet(X) /\ Cardinality(X) = l
  <2>1. IsFiniteSet({k}) /\ Cardinality({k}) = 1
    BY FS_Singleton
  <2>2. IsFiniteSet(1..l) /\ Cardinality(1..l) = l
    <3>1. 1 \in Int /\ l \in Int
      OBVIOUS
    <3>2. IsFiniteSet(1..l) /\ Cardinality(1..l) = IF 1 > l THEN 0 ELSE l - 1 + 1
      BY <3>1, FS_Interval
    <3>3. (IF 1 > l THEN 0 ELSE l - 1 + 1) = l
      OBVIOUS
    <3>4. QED
      BY <3>2, <3>3
  <2>3. IsFiniteSet(X) /\ Cardinality(X) = 1 * l
    BY <1>3, <2>1, <2>2, FS_Product
  <2>4. QED
    BY <2>3
<1>7. IsFiniteSet(V) /\ Cardinality(V) \in Nat
  BY <1>3, FS_CardinalityType
<1>8. IsFiniteSet(V \cup X)
      /\ Cardinality(V \cup X) = Cardinality(V) + Cardinality(X) - Cardinality(V \cap X)
  BY <1>6, <1>7, FS_Union
<1>9. Cardinality(V \cap X) = 0
  BY <1>5, FS_EmptySet
<1>10. QED
  BY <1>1, <1>3, <1>4, <1>6, <1>7, <1>8, <1>9

FixedLayer(fixed) ==
  [i \in DOMAIN fixed |->
     LifeBlock(fixed[i].source, fixed[i].id, fixed[i].day, fixed[i], FALSE)]

\* What the solver is given: blocks and routines that end after they start.
LifeInput(fixed, F, asked, R, Q, N) ==
  /\ fixed \in Seq(F) /\ asked \in Seq(R) /\ "routine" \in Q
  /\ \A f \in F : TimesForward(f) /\ f.source \in Q /\ f.id \in N
  /\ \A r \in R : RoutineOf(r, N)

AsGiven(q, fixed) ==
  /\ Len(q) = Len(fixed)
  /\ \A i \in 1..Len(fixed) : /\ q[i].id = fixed[i].id /\ q[i].conflict = FALSE
                              /\ q[i].start = fixed[i].start /\ q[i].end = fixed[i].end

LEMMA FixedLayerType ==
  ASSUME NEW F, NEW Q, NEW N, NEW fixed \in Seq(F),
         \A f \in F : TimesForward(f) /\ f.source \in Q /\ f.id \in N
  PROVE  FixedLayer(fixed) \in Seq(LifeBlocks(Q, N)) /\ AsGiven(FixedLayer(fixed), fixed)
<1>len. PICK n \in Nat : n = Len(fixed)
  OBVIOUS
<1>1. PICK q : q = FixedLayer(fixed)
  OBVIOUS
<1>2. DOMAIN fixed = 1..n
  BY <1>len, <1>1
<1>3. q = [i \in 1..n |-> LifeBlock(fixed[i].source, fixed[i].id, fixed[i].day, fixed[i], FALSE)]
  BY <1>len, <1>1, <1>2 DEF FixedLayer
<1>4. ASSUME NEW i \in 1..n
      PROVE  /\ q[i] \in LifeBlocks(Q, N)
             /\ q[i].id = fixed[i].id /\ q[i].conflict = FALSE
             /\ q[i].start = fixed[i].start /\ q[i].end = fixed[i].end
  <2>1. PICK f \in F : f = fixed[i]
    BY <1>len, <1>1
  <2>2. /\ f.source \in Q /\ f.id \in N /\ f.day \in Int
        /\ f.start \in Int /\ f.end \in Int /\ f.start < f.end
    BY DEF TimesForward
  <2>3. q[i] = LifeBlock(f.source, f.id, f.day, f, FALSE)
    BY <1>3, <2>1
  <2>4. QED
    BY <2>1, <2>2, <2>3 DEF LifeBlock, LifeBlocks
<1>5. q \in Seq(LifeBlocks(Q, N)) /\ Len(q) = n
  <2>1. PICK B : B = LifeBlocks(Q, N)
    OBVIOUS
  <2>2. \A i \in 1..n : q[i] \in B
    BY <1>4, <2>1
  <2>3. q \in [1..n -> B]
    BY <1>3, <2>2
  <2>4. q \in Seq(B) /\ Len(q) = n
    BY <2>3
  <2>5. QED
    BY <2>1, <2>4
<1>6. AsGiven(q, fixed)
  BY <1>len, <1>1, <1>4, <1>5 DEF AsGiven
<1>7. QED
  BY <1>len, <1>1, <1>5, <1>6

LEMMA LayersSteps ==
  ASSUME NEW F, NEW R, NEW Q, NEW N, NEW fixed, NEW asked,
         LifeInput(fixed, F, asked, R, Q, N)
  PROVE  LET w == LayerRoutines(fixed, asked) IN
         /\ w[0] = FixedLayer(fixed)
         /\ \A k \in 1..Len(asked) :
              w[k] = LayerRoutine(w[k - 1], asked[k])[Len(asked[k].days)]
<1> DEFINE S == Seq(LifeBlocks(Q, N))
<1> DEFINE Next1(v, r) == LayerRoutine(v, r)[Len(r.days)]
<1>1. /\ fixed \in Seq(F) /\ asked \in Seq(R) /\ "routine" \in Q
      /\ \A f \in F : TimesForward(f) /\ f.source \in Q /\ f.id \in N
      /\ \A r \in R : RoutineOf(r, N)
  BY DEF LifeInput
<1>len. PICK n \in Nat : n = Len(asked)
  BY <1>1
<1>2. PICK base : base = FixedLayer(fixed)
  OBVIOUS
<1>3. base \in S
  BY <1>1, <1>len, <1>2, FixedLayerType
<1>4. ASSUME NEW k \in 1..n, NEW v \in S PROVE Next1(v, asked[k]) \in S
  <2>1. PICK r \in R : r = asked[k]
    BY <1>1, <1>len, <1>2
  <2>2. RoutineOf(r, N)
    BY <1>1
  <2>3. Len(r.days) \in 0..Len(r.days)
    <3>1. r.days \in Seq(Int)
      BY <2>2 DEF RoutineOf, RoutineShaped
    <3>2. QED
      BY <3>1
  <2>4. LayerRoutine(v, r)[Len(r.days)] \in Seq(LifeBlocks(Q, N))
    BY <1>1, <2>2, <2>3, LayerRoutineSteps
  <2>5. QED
    BY <2>1, <2>4
<1> DEFINE step == [p \in (1..n) \X S |-> Next1(p[2], asked[p[1]])]
<1> HIDE DEF S, Next1
<1>5. Closed(n, S, step)
  <2>1. ASSUME NEW k \in 1..n, NEW v \in S PROVE step[<<k, v>>] \in S
    <3>1. step[<<k, v>>] = Next1(v, asked[k])
      OBVIOUS
    <3> HIDE DEF step
    <3>2. QED
      BY <1>4, <3>1
  <2>2. QED
    BY <2>1 DEF Closed
<1>6. PICK f : Follows(n, S, base, step, f)
  <2> HIDE DEF step
  <2>1. QED
    BY <1>3, <1>5, Recursion
<1>7. ASSUME NEW k \in 1..n PROVE f[k] = Next1(f[k - 1], asked[k])
  <2>1. f[k - 1] \in S /\ f[k] = step[<<k, f[k - 1]>>]
    <3> HIDE DEF step
    <3>1. k - 1 \in 0..n
      OBVIOUS
    <3>2. QED
      BY <1>6, <3>1 DEF Follows
  <2>2. QED
    BY <2>1
<1> HIDE DEF step
<1>8. ASSUME NEW k \in 0..n
      PROVE  f[k] = IF k = 0 THEN base ELSE Next1(f[k - 1], asked[k])
  <2>1. CASE k = 0
    BY <1>6, <2>1 DEF Follows
  <2>2. CASE k # 0
    <3>1. k \in 1..n
      BY <2>2
    <3>2. QED
      BY <1>7, <2>2, <3>1
  <2>3. QED
    BY <2>1, <2>2
<1>9. f = [k \in 0..n |-> IF k = 0 THEN base ELSE Next1(f[k - 1], asked[k])]
  BY <1>6, <1>8 DEF Follows
<1>10. PICK w : w = LayerRoutines(fixed, asked)
  OBVIOUS
<1>11. w = [k \in 0..n |-> IF k = 0 THEN base ELSE Next1(w[k - 1], asked[k])]
  BY <1>len, <1>2, <1>9, <1>10 DEF LayerRoutines, FixedLayer, Next1
<1>12. w[0] = base /\ \A k \in 1..n : w[k] = Next1(w[k - 1], asked[k])
  BY <1>11
<1>13. QED
  BY <1>len, <1>2, <1>10, <1>12 DEF Next1

LEMMA LayersSound ==
  ASSUME NEW F, NEW R, NEW Q, NEW N, NEW fixed, NEW asked,
         LifeInput(fixed, F, asked, R, Q, N)
  PROVE  Layered(BuildLifeSchedule(fixed, asked), FixedLayer(fixed), LifeBlocks(Q, N),
                 ToSet(asked), Cardinality(Wanted(asked, Len(asked))))
<1>1. /\ fixed \in Seq(F) /\ asked \in Seq(R) /\ "routine" \in Q
      /\ \A f \in F : TimesForward(f) /\ f.source \in Q /\ f.id \in N
      /\ \A r \in R : RoutineOf(r, N)
  BY DEF LifeInput
<1>len. PICK n \in Nat : n = Len(asked)
  BY <1>1
<1>2. PICK base, B, T : /\ base = FixedLayer(fixed)
                        /\ B = LifeBlocks(Q, N) /\ T = ToSet(asked)
  OBVIOUS
<1>3. base \in Seq(B)
  BY <1>1, <1>len, <1>2, FixedLayerType
<1>4. DOMAIN asked = 1..n /\ \A k \in 1..n : asked[k] \in R /\ asked[k] \in T
  BY <1>1, <1>len, <1>2 DEF ToSet
<1>5. PICK w : w = LayerRoutines(fixed, asked)
  OBVIOUS
<1>6. /\ w[0] = base
      /\ \A k \in 1..n : w[k] = LayerRoutine(w[k - 1], asked[k])[Len(asked[k].days)]
  BY <1>len, <1>2, <1>5, LayersSteps
<1> DEFINE K == {k \in 0..n : /\ IsFiniteSet(Wanted(asked, k))
                              /\ Layered(w[k], base, B, T, Cardinality(Wanted(asked, k)))}
<1>7. 0 \in K
  <2>1. Wanted(asked, 0) = {}
    BY DEF Wanted
  <2>2. IsFiniteSet(Wanted(asked, 0)) /\ Cardinality(Wanted(asked, 0)) = 0
    BY <2>1, FS_EmptySet
  <2>3. Layered(base, base, B, T, 0)
    <3>1. Len(base) \in Nat /\ Len(base) = Len(base) + 0
      BY <1>3
    <3>2. ~ \E i \in (Len(base) + 1)..Len(base) : TRUE
      BY <3>1
    <3>3. QED
      BY <1>3, <3>1, <3>2 DEF Layered
  <2>4. QED
    BY <1>6, <2>2, <2>3
<1>8. ASSUME NEW k \in 1..n, k - 1 \in K PROVE k \in K
  <2>1. PICK p, r, m, l : /\ p = w[k - 1] /\ r = asked[k] /\ l = Len(asked[k].days)
                          /\ m = Cardinality(Wanted(asked, k - 1))
    OBVIOUS
  <2>2. IsFiniteSet(Wanted(asked, k - 1)) /\ Layered(p, base, B, T, m)
    BY <1>8, <2>1
  <2>3. m \in Nat
    BY <2>1, <2>2, FS_CardinalityType
  <2>4. r \in T /\ RoutineOf(r, N)
    BY <1>1, <1>4, <2>1
  <2>5. Layered(LayerRoutine(p, r)[Len(r.days)], base, B, T, m + Len(r.days))
    BY <1>1, <1>len, <1>2, <1>3, <2>2, <2>3, <2>4, LayerRoutineSound
  <2>6. /\ IsFiniteSet(Wanted(asked, k))
        /\ Cardinality(Wanted(asked, k)) = m + Len(r.days)
    <3>1. \A q \in R : q.days \in Seq(Int)
      BY <1>1 DEF RoutineOf, RoutineShaped
    <3>2. k \in 1..Len(asked)
      BY <1>len, <1>2
    <3>3. QED
      BY <1>1, <2>1, <2>2, <3>1, <3>2, WantedGrows
  <2>7. w[k] = LayerRoutine(p, r)[Len(r.days)]
    BY <1>6, <2>1
  <2>8. QED
    BY <2>5, <2>6, <2>7
<1> HIDE DEF K
<1>9. \A k \in 0..n : k \in K
  BY <1>7, <1>8, UpTo
<1>10. n \in K
  BY <1>9
<1>11. QED
  BY <1>len, <1>2, <1>5, <1>10 DEF K, BuildLifeSchedule

-----------------------------------------------------------------------------
LEMMA LifeInputs ==
  ASSUME LifeProper, NEW fixed \in FixedLists, NEW asked \in RoutineInputs
  PROVE  \E F, R, Q, N : LifeInput(fixed, F, asked, R, Q, N)
<1>1. PICK F : F = ToSet(fixed) /\ fixed \in Seq(F) /\ \A f \in F : TimesForward(f)
  BY DEF LifeProper
<1>2. PICK R : R = ToSet(asked) /\ asked \in Seq(R) /\ \A r \in R : RoutineShaped(r)
  BY DEF LifeProper
<1>3. PICK Q, N : /\ Q = {f.source : f \in F} \cup {"routine"}
                  /\ N = {f.id : f \in F} \cup {r.id : r \in R}
  OBVIOUS
<1>4. \A f \in F : f.source \in Q /\ f.id \in N
  BY <1>3
<1>5. \A r \in R : RoutineOf(r, N)
  BY <1>2, <1>3 DEF RoutineOf
<1>6. LifeInput(fixed, F, asked, R, Q, N)
  BY <1>1, <1>2, <1>3, <1>4, <1>5 DEF LifeInput
<1>7. QED
  BY <1>6

\* Placing, said over the units of time that are taken.
LEMMA PlacingTakes ==
  ASSUME NEW S, Lasting(S), NEW r, r.start \in Int, r.end \in Int, r.start < r.end,
         NEW b, b.start \in Int, b.end \in Int, b.start < b.end,
         Placing(b, r, S)
  PROVE  /\ b.conflict <=> Units(b) \cap Taken(b.day, S) # {}
         /\ b.conflict /\ r.flexible =>
              \A s \in LifeStart..(LifeEnd - (r.end - r.start)) :
                (s..(s + r.end - r.start - 1)) \cap Taken(b.day, S) # {}
<1>1. \A x \in S : x.start \in Int /\ x.end \in Int /\ x.start < x.end
  BY DEF Lasting
<1>2. Units(b) = b.start..(b.end - 1)
  BY DEF Units
<1>3. Units(b) \cap Taken(b.day, S) = {} <=>
        \A x \in S : x.day = b.day => b.end <= x.start \/ x.end <= b.start
  BY <1>2, TakenApart
<1>4. Beside(b, S) <=> Units(b) \cap Taken(b.day, S) # {}
  BY <1>1, <1>3 DEF Beside, Overlaps
<1>5. ASSUME NEW s \in LifeStart..(LifeEnd - (r.end - r.start)),
             NoRoomLeft(b.day, r.end - r.start, S)
      PROVE  (s..(s + r.end - r.start - 1)) \cap Taken(b.day, S) # {}
  <2>1. PICK hi \in Int : hi = s + (r.end - r.start)
    BY LifeAssumption
  <2>2. s \in Int /\ s < hi /\ s + r.end - r.start - 1 = hi - 1
    BY <2>1, LifeAssumption
  <2>3. (s..(hi - 1)) \cap Taken(b.day, S) = {} <=>
          \A x \in S : x.day = b.day => hi <= x.start \/ x.end <= s
    BY <2>2, TakenApart
  <2>4. PICK x \in S : x.day = b.day /\ InTheWay(x, s, r.end - r.start)
    BY <1>5 DEF NoRoomLeft
  <2>5. QED
    BY <2>1, <2>2, <2>3, <2>4 DEF InTheWay
<1>6. QED
  BY <1>4, <1>5 DEF Placing

(***************************************************************************)
(* LifeSound, for a window of any size, any classes and study blocks, and  *)
(* any routines: the fixed blocks stay as they are, no routine is lost on  *)
(* any day, what is not flagged shares no time with what was there, and a  *)
(* flexible routine is flagged only when no gap of the window takes it.    *)
(***************************************************************************)
THEOREM LifeSoundHolds ==
  ASSUME LifeProper
  PROVE  Solving => []LifeSound
<1>1. ASSUME Answered PROVE LifeSound
  <2>1. SUFFICES ASSUME Solved("life") PROVE LifeSound
    BY DEF LifeSound
  <2>2. PICK fixed, asked : fixed = task.fixed /\ asked = task.routines
    OBVIOUS
  <2>3. fixed \in FixedLists /\ asked \in RoutineInputs
    BY <1>1, <2>1, <2>2, InputOf DEF Solved
  <2>4. PICK F, R, Q, N : LifeInput(fixed, F, asked, R, Q, N)
    BY <2>3, LifeInputs
  <2>5. /\ fixed \in Seq(F) /\ asked \in Seq(R)
        /\ \A f \in F : TimesForward(f) /\ f.source \in Q /\ f.id \in N
        /\ \A r \in R : RoutineOf(r, N)
    BY <2>4 DEF LifeInput
  <2>6. answer = BuildLifeSchedule(fixed, asked)
    BY <1>1, <2>1, <2>2 DEF Answered
  <2>len. PICK n \in Nat : n = Len(fixed)
    BY <2>5
  <2>7. PICK base, m : /\ base = FixedLayer(fixed)
                       /\ m = Cardinality(Wanted(asked, Len(asked)))
    OBVIOUS
  <2>8. Layered(answer, base, LifeBlocks(Q, N), ToSet(asked), m)
    BY <2>4, <2>6, <2>len, <2>7, LayersSound
  <2>9. Len(base) = n /\ \A i \in 1..n : /\ base[i].id = fixed[i].id /\ base[i].conflict = FALSE
                                         /\ base[i].start = fixed[i].start
                                         /\ base[i].end = fixed[i].end
    <3>1. fixed \in Seq(F) /\ \A f \in F : TimesForward(f) /\ f.source \in Q /\ f.id \in N
      BY <2>5
    <3>2. AsGiven(FixedLayer(fixed), fixed)
      BY <3>1, FixedLayerType
    <3>3. QED
      BY <2>len, <2>7, <3>2 DEF AsGiven
  <2>10. /\ answer \in Seq(LifeBlocks(Q, N)) /\ Len(answer) = n + m
         /\ \A i \in 1..n : answer[i] = base[i]
         /\ \A i \in (n + 1)..Len(answer) : \E r \in ToSet(asked) : RightAt(answer, i, r)
    BY <2>8, <2>9 DEF Layered
  <2>11. UNION {{k} \X DOMAIN asked[k].days : k \in DOMAIN asked}
           = Wanted(asked, Len(asked))
    BY <2>5 DEF Wanted
  <2>12. ASSUME NEW i \in 1..n
         PROVE  /\ Units(answer[i]) = Units(fixed[i])
                /\ answer[i].id = fixed[i].id
                /\ ~answer[i].conflict
    BY <2>9, <2>10 DEF Units
  <2>13. \A i \in 1..Len(answer) :
           /\ answer[i].start \in Int /\ answer[i].end \in Int /\ answer[i].start < answer[i].end
           /\ answer[i].conflict \in BOOLEAN
    <3>1. \A i \in 1..Len(answer) : answer[i] \in LifeBlocks(Q, N)
      BY <2>10
    <3>2. QED
      BY <3>1, LifeBlockType
  <2>14. ASSUME NEW i \in (n + 1)..Len(answer)
         PROVE  LET b == answer[i]
                    r == CHOOSE q \in ToSet(asked) : q.id = b.id
                    taken == Taken(b.day, {answer[j] : j \in 1..(i - 1)})
                IN /\ b.day \in ToSet(r.days)
                   /\ b.end - b.start = r.end - r.start
                   /\ b.conflict <=> Units(b) \cap taken # {}
                   /\ b.start # r.start => r.flexible
                   /\ b.conflict =>
                        /\ b.start = r.start
                        /\ r.flexible =>
                             \A s \in LifeStart..(LifeEnd - (r.end - r.start)) :
                               s..s + r.end - r.start - 1 \cap taken # {}
    <3>1. PICK r \in ToSet(asked) : RightAt(answer, i, r)
      BY <2>10
    <3>2. PICK b, S : b = answer[i] /\ S = Ahead(answer, i)
      OBVIOUS
    <3>3. Placing(b, r, S) /\ \E j \in DOMAIN r.days : b.day = r.days[j]
      BY <3>1, <3>2 DEF RightAt
    <3>4. r = CHOOSE q \in ToSet(asked) : q.id = b.id
      <4>1. r.id = b.id
        BY <3>3 DEF Placing
      <4>2. \A q \in ToSet(asked) : q.id = b.id => q = r
        BY <2>3, <4>1 DEF LifeProper
      <4>3. QED
        BY <4>1, <4>2
    <3>5. RoutineOf(r, N)
      BY <2>5 DEF ToSet
    <3>6. r.start \in Int /\ r.end \in Int /\ r.start < r.end
      BY <3>5 DEF RoutineOf, RoutineShaped
    <3>7. i \in 1..Len(answer) /\ \A j \in 1..(i - 1) : j \in 1..Len(answer)
      BY <2>10
    <3>8. b.start \in Int /\ b.end \in Int /\ b.start < b.end
      BY <2>13, <3>2, <3>7
    <3>9. Lasting(S)
      BY <2>13, <3>2, <3>7 DEF Lasting, Ahead
    <3>10. /\ b.conflict <=> Units(b) \cap Taken(b.day, S) # {}
           /\ b.conflict /\ r.flexible =>
                \A s \in LifeStart..(LifeEnd - (r.end - r.start)) :
                  (s..(s + r.end - r.start - 1)) \cap Taken(b.day, S) # {}
      BY <3>3, <3>6, <3>8, <3>9, PlacingTakes
    <3>11. b.day \in ToSet(r.days)
      BY <3>3 DEF ToSet
    <3>12. S = {answer[j] : j \in 1..(i - 1)}
      BY <3>2 DEF Ahead
    <3>13. /\ b.end - b.start = r.end - r.start
           /\ b.start # r.start => r.flexible
           /\ b.conflict => b.start = r.start
      BY <3>3 DEF Placing
    <3>14. QED
      BY <3>2, <3>4, <3>10, <3>11, <3>12, <3>13
  <2>15. Len(answer) = n + m
    BY <2>10
  <2>16. /\ n = Len(task.fixed) /\ fixed = task.fixed /\ asked = task.routines
         /\ m = Cardinality(UNION {{k} \X DOMAIN task.routines[k].days :
                                      k \in DOMAIN task.routines})
    BY <2>2, <2>len, <2>7, <2>11
  <2>17. \A i \in 1..Len(task.fixed) : /\ Units(answer[i]) = Units(task.fixed[i])
                                       /\ answer[i].id = task.fixed[i].id
                                       /\ ~answer[i].conflict
    BY <2>12, <2>16
  <2>18. ASSUME NEW i \in (Len(task.fixed) + 1)..Len(answer)
         PROVE  LET b == answer[i]
                    r == CHOOSE q \in ToSet(task.routines) : q.id = b.id
                    taken == Taken(b.day, {answer[j] : j \in 1..(i - 1)})
                IN /\ b.day \in ToSet(r.days)
                   /\ b.end - b.start = r.end - r.start
                   /\ b.conflict <=> Units(b) \cap taken # {}
                   /\ b.start # r.start => r.flexible
                   /\ b.conflict =>
                        /\ b.start = r.start
                        /\ r.flexible =>
                             \A s \in LifeStart..(LifeEnd - (r.end - r.start)) :
                               s..s + r.end - r.start - 1 \cap taken # {}
    BY <2>14, <2>16
  <2>19. Len(answer) = Len(task.fixed) + Cardinality(UNION {{k} \X DOMAIN task.routines[k].days :
                                                              k \in DOMAIN task.routines})
    BY <2>15, <2>16
  <2>20. QED
    BY <2>17, <2>18, <2>19, Zenon DEF LifeSound
<1>2. QED
  BY <1>1, SolvingAnswers, PTL

-----------------------------------------------------------------------------
(***************************************************************************)
(* The turn of one day: what is used of its budget is the time that its    *)
(* blocks take, and each chunk passed is a block unless a shortest block   *)
(* no longer fits the budget.                                              *)
(***************************************************************************)
BlocksOn(S, day) == {x \in S : x.day = day}

Became(c, day, S) == \E b \in S : b.day = day /\ b.start = c.start /\ b.end = c.end

Spent(p, day) ==
  /\ IsFiniteSet(Taken(day, ToSet(p.blocks)))
  /\ Cardinality(Taken(day, ToSet(p.blocks))) = p.used
  /\ p.used \in Nat /\ p.used <= DayBudget

Used(p, day, chunks, k) ==
  \A j \in 1..k : p.used + MinBlock > DayBudget \/ Became(chunks[j], day, ToSet(p.blocks))

\* The blocks go to the subjects in turn.
Dealt(blocks, names) ==
  \A k \in DOMAIN blocks : blocks[k].subject = names[((k - 1) % Len(names)) + 1]

LEMMA SetAppend ==
  ASSUME NEW B, NEW q \in Seq(B), NEW b \in B
  PROVE  ToSet(Append(q, b)) = ToSet(q) \cup {b}
<1>1. PICK n \in Nat : n = Len(q)
  OBVIOUS
<1>2. PICK r : r = Append(q, b)
  OBVIOUS
<1>3. /\ DOMAIN q = 1..n /\ DOMAIN r = 1..(n + 1)
      /\ \A i \in 1..n : r[i] = q[i]
      /\ r[n + 1] = b
  BY <1>1, <1>2
<1>4. \A i \in 1..(n + 1) : i \in 1..n \/ i = n + 1
  OBVIOUS
<1>5. \A i \in 1..n : i \in 1..(n + 1)
  OBVIOUS
<1>6. n + 1 \in 1..(n + 1)
  OBVIOUS
<1>7. \A x : x \in ToSet(r) <=> \E i \in 1..(n + 1) : r[i] = x
  BY <1>3 DEF ToSet
<1>8. \A x : x \in ToSet(q) <=> \E i \in 1..n : q[i] = x
  BY <1>3 DEF ToSet
<1>9. ASSUME NEW x PROVE x \in ToSet(r) <=> x \in ToSet(q) \cup {b}
  BY <1>3, <1>4, <1>5, <1>6, <1>7, <1>8
<1>10. QED
  BY <1>2, <1>9

LEMMA TakenMore ==
  ASSUME NEW S, NEW b
  PROVE  /\ Taken(b.day, S \cup {b}) = Taken(b.day, S) \cup Units(b)
         /\ \A d : d # b.day => BlocksOn(S \cup {b}, d) = BlocksOn(S, d)
<1>1. ASSUME NEW x
      PROVE  x \in Taken(b.day, S \cup {b}) <=> x \in Taken(b.day, S) \cup Units(b)
  BY DEF Taken
<1>2. ASSUME NEW d, d # b.day PROVE BlocksOn(S \cup {b}, d) = BlocksOn(S, d)
  BY <1>2 DEF BlocksOn
<1>3. QED
  BY <1>1, <1>2

LEMMA UnitsCount ==
  ASSUME NEW b, b.start \in Int, b.end \in Int, b.start < b.end
  PROVE  IsFiniteSet(Units(b)) /\ Cardinality(Units(b)) = b.end - b.start
<1>1. PICK lo \in Int, hi \in Int : lo = b.start /\ hi = b.end - 1
  OBVIOUS
<1>2. IsFiniteSet(lo..hi) /\ Cardinality(lo..hi) = IF lo > hi THEN 0 ELSE hi - lo + 1
  BY FS_Interval
<1>3. lo <= hi /\ hi - lo + 1 = b.end - b.start
  BY <1>1
<1>4. Units(b) = lo..hi
  BY <1>1 DEF Units
<1>5. Cardinality(lo..hi) = hi - lo + 1
  BY <1>2, <1>3
<1>6. QED
  BY <1>2, <1>3, <1>4, <1>5

LEMMA WithSpent ==
  ASSUME NEW N, NEW p \in PlanState(N), NEW b \in StudyBlocks(N), b.start < b.end,
         Lasting(ToSet(p.blocks)), Past(p.blocks, b.day, b.start),
         Spent(p, b.day), p.used + (b.end - b.start) <= DayBudget
  PROVE  Spent(With(p, b), b.day)
<1>1. /\ p.used \in Int /\ p.blocks \in Seq(StudyBlocks(N))
      /\ b.start \in Int /\ b.end \in Int
  BY DEF PlanState, StudyBlocks
<1>2. PICK S, T, r : S = ToSet(p.blocks) /\ T = Taken(b.day, S) /\ r = With(p, b)
  OBVIOUS
<1>3. r.used = p.used + (b.end - b.start) /\ r.blocks = Append(p.blocks, b)
  BY <1>2 DEF With
<1>4. Taken(b.day, ToSet(r.blocks)) = T \cup Units(b)
  <2>1. ToSet(r.blocks) = S \cup {b}
    BY <1>1, <1>2, <1>3, SetAppend
  <2>2. QED
    BY <1>2, <2>1, TakenMore
<1>5. IsFiniteSet(T) /\ Cardinality(T) = p.used /\ p.used \in Nat
  BY <1>2 DEF Spent
<1>6. IsFiniteSet(Units(b)) /\ Cardinality(Units(b)) = b.end - b.start
  BY <1>1, UnitsCount
<1>7. T \cap Units(b) = {}
  <2>1. \A x \in S : x.day = b.day => x.end <= b.start
    BY <1>2 DEF Past, ToSet
  <2>2. PICK lo \in Int, hi \in Int : lo = b.start /\ hi = b.end
    BY <1>1
  <2>3. (lo..(hi - 1)) \cap Taken(b.day, S) = {}
    BY <1>2, <2>1, <2>2, TakenApart
  <2>4. QED
    BY <1>2, <2>2, <2>3 DEF Units
<1>8. /\ IsFiniteSet(T \cup Units(b))
      /\ Cardinality(T \cup Units(b)) =
           Cardinality(T) + Cardinality(Units(b)) - Cardinality(T \cap Units(b))
  BY <1>5, <1>6, FS_Union
<1>9. Cardinality(T \cap Units(b)) = 0
  BY <1>7, FS_EmptySet
<1>10. Cardinality(T \cup Units(b)) = r.used
  BY <1>1, <1>3, <1>5, <1>6, <1>8, <1>9
<1>11. r.used \in Nat /\ r.used <= DayBudget
  BY <1>1, <1>3, <1>5
<1>12. QED
  BY <1>2, <1>4, <1>8, <1>10, <1>11 DEF Spent

LEMMA WithDealt ==
  ASSUME NEW N, NEW blocks \in Seq(StudyBlocks(N)), NEW b \in StudyBlocks(N), NEW names,
         Dealt(blocks, names), b.subject = names[(Len(blocks) % Len(names)) + 1]
  PROVE  Dealt(Append(blocks, b), names)
<1>1. PICK n \in Nat : n = Len(blocks)
  OBVIOUS
<1>2. PICK r : r = Append(blocks, b)
  OBVIOUS
<1>3. /\ DOMAIN blocks = 1..n /\ DOMAIN r = 1..(n + 1)
      /\ \A i \in 1..n : r[i] = blocks[i]
      /\ r[n + 1] = b
  BY <1>1, <1>2
<1>4. ASSUME NEW k \in 1..(n + 1)
      PROVE  r[k].subject = names[((k - 1) % Len(names)) + 1]
  <2>1. CASE k = n + 1
    <3>1. k - 1 = n
      BY <2>1
    <3>2. QED
      BY <1>1, <1>3, <2>1, <3>1
  <2>2. CASE k # n + 1
    <3>1. k \in 1..n
      BY <2>2
    <3>2. QED
      BY <1>3, <3>1 DEF Dealt
  <2>3. QED
    BY <2>1, <2>2
<1>5. QED
  BY <1>2, <1>3, <1>4 DEF Dealt

\* What a step of the day's loop keeps.
OnCourse(p, q, names, day, chunks, k) ==
  /\ Spent(p, day) /\ Used(p, day, chunks, k) /\ Dealt(p.blocks, names)
  /\ \A d : d # day => BlocksOn(ToSet(p.blocks), d) = BlocksOn(ToSet(q), d)

LEMMA PlaceOnCourse ==
  ASSUME NEW names, NEW p \in PlanState(Dealing(names)), NEW q, NEW day \in Int,
         NEW chunks \in Seq(Gap), NEW k \in 1..Len(chunks),
         chunks[k].end - chunks[k].start >= MinBlock,
         Lasting(ToSet(p.blocks)), Past(p.blocks, day, chunks[k].start),
         OnCourse(p, q, names, day, chunks, k - 1)
  PROVE  OnCourse(Place(p, chunks[k], day, names), q, names, day, chunks, k)
<1>1. PICK N, c, r : /\ N = Dealing(names) /\ c = chunks[k]
                     /\ r = Place(p, c, day, names)
  OBVIOUS
<1>2. c \in Gap /\ c.start \in Int /\ c.end \in Int /\ c.end - c.start >= MinBlock
  <2>1. c \in Gap
    BY <1>1
  <2>2. QED
    BY <1>1, <2>1 DEF Gap
<1>3. /\ MinBlock \in Nat \ {0} /\ DayBudget \in Nat
      /\ p.used \in Nat /\ p.used <= DayBudget
  BY StudyAssumption DEF OnCourse, Spent
<1>4. p \in PlanState(N) /\ p.blocks \in Seq(StudyBlocks(N))
  BY <1>1 DEF PlanState
<1>5. \A j \in 1..k : j \in 1..(k - 1) \/ j = k
  OBVIOUS
<1>6. CASE r = p /\ (c.end - c.start < MinBlock \/ p.used + MinBlock > DayBudget)
  <2>1. p.used + MinBlock > DayBudget
    BY <1>2, <1>3, <1>6
  <2>2. Used(r, day, chunks, k)
    BY <1>6, <2>1 DEF Used
  <2>3. QED
    BY <1>1, <1>6, <2>2 DEF OnCourse
<1>7. CASE \E b \in StudyBlocks(N) : Placed(p, c, day, names, b) /\ r = With(p, b)
  <2>1. PICK b \in StudyBlocks(N) : Placed(p, c, day, names, b) /\ r = With(p, b)
    BY <1>7
  <2>2. /\ b.subject = names[(Len(p.blocks) % Len(names)) + 1]
        /\ b.day = day /\ b.start = c.start
        /\ b.end <= c.end /\ b.end - b.start >= MinBlock
        /\ p.used + (b.end - b.start) <= DayBudget
        /\ b.end = c.end \/ p.used + (b.end - b.start) = DayBudget
    BY <2>1 DEF Placed
  <2>3. b.start \in Int /\ b.end \in Int
    BY DEF StudyBlocks
  <2>4. b.start < b.end
    BY <1>3, <2>2, <2>3
  <2>5. r.used = p.used + (b.end - b.start) /\ r.blocks = Append(p.blocks, b)
    BY <2>1 DEF With
  <2>6. PICK S : S = ToSet(p.blocks)
    OBVIOUS
  <2>7. ToSet(r.blocks) = S \cup {b}
    BY <1>4, <2>5, <2>6, SetAppend
  <2>8. Spent(r, day)
    <3>1. Past(p.blocks, b.day, b.start) /\ Spent(p, b.day)
      BY <1>1, <2>2 DEF OnCourse
    <3>2. Spent(With(p, b), b.day)
      BY <1>4, <2>2, <2>4, <3>1, WithSpent
    <3>3. QED
      BY <2>1, <2>2, <3>2
  <2>9. Used(r, day, chunks, k)
    <3>1. ASSUME NEW j \in 1..(k - 1)
          PROVE  r.used + MinBlock > DayBudget \/ Became(chunks[j], day, ToSet(r.blocks))
      <4>1. p.used + MinBlock > DayBudget \/ Became(chunks[j], day, S)
        BY <2>6 DEF OnCourse, Used
      <4>2. CASE p.used + MinBlock > DayBudget
        BY <1>3, <2>3, <2>4, <2>5, <4>2
      <4>3. CASE Became(chunks[j], day, S)
        BY <2>7, <4>3 DEF Became
      <4>4. QED
        BY <4>1, <4>2, <4>3
    <3>2. r.used + MinBlock > DayBudget \/ Became(c, day, ToSet(r.blocks))
      <4>1. CASE b.end = c.end
        BY <2>2, <2>7, <4>1 DEF Became
      <4>2. CASE p.used + (b.end - b.start) = DayBudget
        <5>1. r.used = DayBudget
          BY <2>5, <4>2
        <5>2. QED
          BY <1>3, <5>1
      <4>3. QED
        BY <2>2, <4>1, <4>2
    <3>3. ASSUME NEW j \in 1..k
          PROVE  r.used + MinBlock > DayBudget \/ Became(chunks[j], day, ToSet(r.blocks))
      <4>1. CASE j \in 1..(k - 1)
        BY <3>1, <4>1
      <4>2. CASE j = k
        BY <1>1, <3>2, <4>2
      <4>3. QED
        BY <1>5, <4>1, <4>2
    <3>4. QED
      BY <3>3 DEF Used
  <2>10. Dealt(r.blocks, names)
    <3>1. Dealt(p.blocks, names)
      BY DEF OnCourse
    <3>2. Dealt(Append(p.blocks, b), names)
      BY <1>4, <2>2, <3>1, WithDealt
    <3>3. QED
      BY <2>5, <3>2
  <2>11. ASSUME NEW d, d # day PROVE BlocksOn(ToSet(r.blocks), d) = BlocksOn(ToSet(q), d)
    <3>1. BlocksOn(S \cup {b}, d) = BlocksOn(S, d)
      BY <2>2, <2>11, TakenMore
    <3>2. BlocksOn(S, d) = BlocksOn(ToSet(q), d)
      BY <2>6, <2>11 DEF OnCourse
    <3>3. QED
      BY <2>7, <3>1, <3>2
  <2>12. QED
    BY <1>1, <2>8, <2>9, <2>10, <2>11 DEF OnCourse
<1>8. \/ r = p /\ (c.end - c.start < MinBlock \/ p.used + MinBlock > DayBudget)
      \/ \E b \in StudyBlocks(N) : Placed(p, c, day, names, b) /\ r = With(p, b)
  BY <1>1, <1>2, PlaceCases
<1>9. QED
  BY <1>6, <1>7, <1>8

\* The blocks of a sound plan end after they start.
LEMMA PlanLasts ==
  ASSUME NEW N, NEW busy, NEW blocks, PlanSound(blocks, N, busy)
  PROVE  Lasting(ToSet(blocks))
<1>1. MinBlock \in Nat \ {0}
  BY StudyAssumption
<1>2. ASSUME NEW i \in DOMAIN blocks
      PROVE  blocks[i].start \in Int /\ blocks[i].end \in Int /\ blocks[i].start < blocks[i].end
  <2>1. blocks[i] \in StudyBlocks(N)
    BY DEF PlanSound
  <2>2. blocks[i].start \in Int /\ blocks[i].end \in Int
    BY <2>1 DEF StudyBlocks
  <2>3. blocks[i].end - blocks[i].start >= MinBlock
    BY DEF PlanSound, InStudyWindow
  <2>4. QED
    BY <1>1, <2>2, <2>3
<1>3. QED
  BY <1>2 DEF Lasting, ToSet

LEMMA StudyDayOnCourse ==
  ASSUME NEW names, NEW busy, busy \subseteq Intervals, NEW day \in Int,
         NEW chunks, ChunksSound(chunks, {b \in busy : b.day = day}),
         NEW plan, PlanSound(plan, Dealing(names), busy),
         \A i \in DOMAIN plan : plan[i].day < day,
         Dealt(plan, names)
  PROVE  OnCourse(StudyDay(day, chunks, names, plan)[Len(chunks)], plan, names, day, chunks, Len(chunks))
<1>1. PICK N, n, w : /\ N = Dealing(names) /\ n = Len(chunks)
                     /\ w = StudyDay(day, chunks, names, plan)
  OBVIOUS
<1>2. chunks \in Seq(Gap) /\ n \in Nat /\ DOMAIN chunks = 1..n /\ plan \in Seq(StudyBlocks(N))
  BY <1>1 DEF ChunksSound, PlanSound
<1>3. /\ w[0] = [used |-> 0, blocks |-> plan]
      /\ \A k \in 0..n : w[k] \in PlanState(N)
      /\ \A k \in 1..n : w[k] = Place(w[k - 1], chunks[k], day, names)
  BY <1>1, <1>2, StudyDaySteps
<1>4. \A k \in 0..n : PlanSound(w[k].blocks, N, busy) /\ Awaits(w[k].blocks, day, chunks, k)
  BY <1>1, StudyDayBefore
<1> DEFINE K == {k \in 0..n : OnCourse(w[k], plan, names, day, chunks, k)}
<1>5. 0 \in K
  <2>1. PICK p : p = [used |-> 0, blocks |-> plan]
    OBVIOUS
  <2>2. p.used = 0 /\ p.blocks = plan
    BY <2>1
  <2>3. \A i \in DOMAIN plan : plan[i].day # day
    <3>1. \A i \in DOMAIN plan : plan[i] \in StudyBlocks(N)
      BY <1>2
    <3>2. \A i \in DOMAIN plan : plan[i].day \in Int
      BY <3>1 DEF StudyBlocks
    <3>3. QED
      BY <3>2
  <2>4. Taken(day, ToSet(plan)) = {}
    BY <2>3 DEF Taken, ToSet
  <2>5. Spent(p, day)
    <3>1. IsFiniteSet({}) /\ Cardinality({}) = 0
      BY FS_EmptySet
    <3>2. DayBudget \in Nat
      BY StudyAssumption
    <3>3. QED
      BY <2>2, <2>4, <3>1, <3>2 DEF Spent
  <2>6. Used(p, day, chunks, 0)
    BY DEF Used
  <2>7. OnCourse(p, plan, names, day, chunks, 0)
    BY <2>2, <2>5, <2>6 DEF OnCourse
  <2>8. QED
    BY <1>2, <1>3, <2>1, <2>7
<1>6. ASSUME NEW k \in 1..n, k - 1 \in K PROVE k \in K
  <2>1. PICK p, c : p = w[k - 1] /\ c = chunks[k]
    OBVIOUS
  <2>2. k - 1 \in 0..n
    BY <1>2
  <2>3. p \in PlanState(N)
    BY <1>3, <2>1, <2>2
  <2>4. PlanSound(p.blocks, N, busy) /\ Awaits(p.blocks, day, chunks, k - 1)
    BY <1>4, <2>1, <2>2
  <2>5. Lasting(ToSet(p.blocks))
    BY <2>4, PlanLasts
  <2>6. c.end - c.start >= MinBlock
    BY <1>2, <2>1 DEF ChunksSound, InStudyWindow
  <2>7. Past(p.blocks, day, c.start)
    <3>1. k \in DOMAIN chunks /\ k > k - 1
      BY <1>2
    <3>2. \A i \in DOMAIN p.blocks : p.blocks[i].day < day \/ p.blocks[i].end <= c.start
      BY <2>1, <2>4, <3>1 DEF Awaits
    <3>3. \A i \in DOMAIN p.blocks : p.blocks[i] \in StudyBlocks(N)
      BY <2>4 DEF PlanSound
    <3>4. \A i \in DOMAIN p.blocks : p.blocks[i].day \in Int
      BY <3>3 DEF StudyBlocks
    <3>5. QED
      BY <3>2, <3>4 DEF Past
  <2>8. OnCourse(p, plan, names, day, chunks, k - 1)
    BY <1>6, <2>1
  <2>9. OnCourse(Place(p, c, day, names), plan, names, day, chunks, k)
    BY <1>1, <1>2, <2>1, <2>3, <2>5, <2>6, <2>7, <2>8, PlaceOnCourse
  <2>10. QED
    BY <1>3, <2>1, <2>9
<1> HIDE DEF K
<1>7. \A k \in 0..n : k \in K
  BY <1>2, <1>5, <1>6, UpTo
<1>8. n \in K
  BY <1>2, <1>7
<1>9. QED
  BY <1>1, <1>8 DEF K

-----------------------------------------------------------------------------
(***************************************************************************)
(* The days in turn: a day that is done keeps to its budget and, with a    *)
(* shortest block's worth of it left, has no room for one; the days after  *)
(* it leave its blocks alone.                                              *)
(***************************************************************************)
DayDone(S, busy, day) ==
  /\ Cardinality(Taken(day, S)) <= DayBudget
  /\ Cardinality(Taken(day, S)) + MinBlock <= DayBudget =>
       FreeStarts(day, busy \cup BlocksOn(S, day), MinBlock) = {}

LEMMA SameBlocksDone ==
  ASSUME NEW S, NEW T, NEW busy, NEW day,
         BlocksOn(S, day) = BlocksOn(T, day), DayDone(S, busy, day)
  PROVE  DayDone(T, busy, day)
<1>1. Taken(day, S) = Taken(day, T)
  BY DEF Taken, BlocksOn
<1>2. QED
  BY <1>1 DEF DayDone

LEMMA CourseDone ==
  ASSUME NEW busy, IsFiniteSet(busy), Forward(busy), NEW day \in Int,
         NEW chunks, chunks = Chunks(day, busy), Len(chunks) \in Nat,
         DOMAIN chunks = 1..Len(chunks),
         NEW p, NEW q, NEW names, OnCourse(p, q, names, day, chunks, Len(chunks)),
         Lasting(ToSet(p.blocks))
  PROVE  DayDone(ToSet(p.blocks), busy, day)
<1>1. PICK S, n : S = ToSet(p.blocks) /\ n = Len(chunks)
  OBVIOUS
<1>2. /\ Cardinality(Taken(day, S)) = p.used /\ p.used <= DayBudget
      /\ \A j \in 1..n : p.used + MinBlock > DayBudget \/ Became(chunks[j], day, S)
      /\ p.used \in Nat /\ MinBlock \in Nat \ {0} /\ DayBudget \in Nat
  BY <1>1, StudyAssumption DEF OnCourse, Spent, Used
<1>3. ASSUME p.used + MinBlock <= DayBudget,
             NEW s \in FreeStarts(day, busy \cup BlocksOn(S, day), MinBlock)
      PROVE  FALSE
  <2>1. PICK all : all = Taken(day, busy \cup BlocksOn(S, day))
    OBVIOUS
  <2>2. s \in StudyStart..(StudyEnd - MinBlock) /\ (s..(s + MinBlock - 1)) \cap all = {}
    BY <2>1 DEF FreeStarts
  <2>3. Taken(day, busy) \subseteq all
    BY <2>1 DEF Taken
  <2>4. s \in FreeStarts(day, busy, MinBlock)
    BY <2>2, <2>3 DEF FreeStarts
  <2>5. Fitting(s, {b \in busy : b.day = day})
    BY <2>4, FreeStartsFit
  <2>6. Within(chunks, s) /\ s \in Int
    BY <2>5, ChunksHold DEF Fitting
  <2>7. PICK j \in 1..n : chunks[j].start <= s /\ s < chunks[j].end
    BY <1>1, <2>6 DEF Within
  <2>8. Became(chunks[j], day, S)
    BY <1>2, <1>3
  <2>9. PICK b \in S : b.day = day /\ b.start = chunks[j].start /\ b.end = chunks[j].end
    BY <2>8 DEF Became
  <2>10. b.start \in Int /\ b.end \in Int
    BY <1>1 DEF Lasting
  <2>11. s \in Units(b)
    BY <2>6, <2>7, <2>9, <2>10 DEF Units
  <2>12. s \in all
    BY <2>1, <2>9, <2>11 DEF Taken, BlocksOn
  <2>13. s \in s..(s + MinBlock - 1)
    BY <1>2, <2>6
  <2>14. QED
    BY <2>2, <2>12, <2>13
<1>4. p.used + MinBlock <= DayBudget =>
        FreeStarts(day, busy \cup BlocksOn(S, day), MinBlock) = {}
  BY <1>3
<1>5. QED
  BY <1>1, <1>2, <1>4 DEF DayDone

\* The turn of a day: it is done, and the plan of the other days as it was.
DayTurned(r, plan, busy, names, day) ==
  /\ DayDone(ToSet(r), busy, day) /\ Dealt(r, names)
  /\ \A d : d # day => BlocksOn(ToSet(r), d) = BlocksOn(ToSet(plan), d)

LEMMA NextDaySound ==
  ASSUME NEW busy, IsFiniteSet(busy), Forward(busy), NEW names, NEW day \in Int,
         NEW plan, PlanSound(plan, Dealing(names), busy), Dealt(plan, names),
         \A i \in DOMAIN plan : plan[i].day < day
  PROVE  /\ PlanSound(NextDay(day, busy, names, plan), Dealing(names), busy)
         /\ \A i \in DOMAIN NextDay(day, busy, names, plan) :
              NextDay(day, busy, names, plan)[i].day < day + 1
         /\ DayTurned(NextDay(day, busy, names, plan), plan, busy, names, day)
<1>1. PICK chunks : chunks = Chunks(day, busy)
  OBVIOUS
<1>2. ChunksSound(chunks, {b \in busy : b.day = day}) /\ busy \subseteq Intervals
  BY <1>1, DayChunksSound DEF Forward
<1>3. chunks \in Seq(Gap) /\ Len(chunks) \in Nat /\ DOMAIN chunks = 1..Len(chunks)
  BY <1>2 DEF ChunksSound
<1>4. PICK p, r : p = StudyDay(day, chunks, names, plan)[Len(chunks)] /\ r = p.blocks
  OBVIOUS
<1>5. r = NextDay(day, busy, names, plan)
  BY <1>1, <1>4 DEF NextDay
<1>6. PlanSound(r, Dealing(names), busy) /\ \A i \in DOMAIN r : r[i].day < day + 1
  <2>1. PICK t : t = StudyDay(day, chunks, names, plan)[Len(chunks)].blocks
    OBVIOUS
  <2>2. PlanSound(t, Dealing(names), busy) /\ \A i \in DOMAIN t : t[i].day < day + 1
    BY <1>2, <2>1, StudyDaySound
  <2>3. QED
    BY <1>4, <2>1, <2>2
<1>7. OnCourse(p, plan, names, day, chunks, Len(chunks))
  BY <1>2, <1>4, StudyDayOnCourse
<1>8. Lasting(ToSet(r))
  BY <1>6, PlanLasts
<1>9. DayDone(ToSet(r), busy, day)
  BY <1>1, <1>3, <1>4, <1>7, <1>8, CourseDone
<1>10. DayTurned(r, plan, busy, names, day)
  BY <1>4, <1>7, <1>9 DEF OnCourse, DayTurned
<1>11. QED
  BY <1>5, <1>6, <1>10

LEMMA StudyDaysDone ==
  ASSUME NEW busy, IsFiniteSet(busy), Forward(busy), NEW names
  PROVE  /\ Dealt(StudyDays(busy, names)[LastDay + 1], names)
         /\ \A d \in 0..LastDay : DayDone(ToSet(StudyDays(busy, names)[LastDay + 1]), busy, d)
<1> DEFINE N == Dealing(names)
<1>1. PICK last \in Nat : last = LastDay + 1
  BY StudyAssumption
<1>2. PICK s : s = StudyDays(busy, names)
  OBVIOUS
<1>3. s[0] = <<>> /\ \A n \in 1..last : s[n] = NextDay(n - 1, busy, names, s[n - 1])
  BY <1>1, <1>2, StudyDaysSteps
<1> DEFINE Until(r, n) == \A i \in DOMAIN r : r[i].day < n
<1> DEFINE K == {n \in 0..last : /\ PlanSound(s[n], N, busy) /\ Until(s[n], n) /\ Dealt(s[n], names)
                                 /\ \A d \in 0..(n - 1) : DayDone(ToSet(s[n]), busy, d)}
<1>4. 0 \in K
  <2>1. PICK e : e = <<>>
    OBVIOUS
  <2>2. DOMAIN e = {} /\ e \in Seq(StudyBlocks(N))
    BY <2>1
  <2>3. PlanSound(e, N, busy) /\ Until(e, 0) /\ Dealt(e, names)
    BY <2>2 DEF PlanSound, Dealt
  <2>4. s[0] = e
    BY <1>3, <2>1
  <2>5. \A d \in 0..(0 - 1) : FALSE
    OBVIOUS
  <2>6. QED
    BY <2>3, <2>4, <2>5
<1>5. ASSUME NEW n \in 1..last, n - 1 \in K PROVE n \in K
  <2>1. PICK plan, day, r : /\ plan = s[n - 1] /\ day = n - 1
                            /\ r = NextDay(day, busy, names, plan)
    OBVIOUS
  <2>2. day \in Int /\ day + 1 = n
    BY <2>1
  <2>3. /\ PlanSound(plan, Dealing(names), busy) /\ Dealt(plan, names)
        /\ \A i \in DOMAIN plan : plan[i].day < day
        /\ \A d \in 0..(day - 1) : DayDone(ToSet(plan), busy, d)
    BY <1>5, <2>1
  <2>4. /\ PlanSound(r, Dealing(names), busy)
        /\ \A i \in DOMAIN r : r[i].day < day + 1
        /\ DayTurned(r, plan, busy, names, day)
    BY <2>1, <2>2, <2>3, NextDaySound
  <2>5. ASSUME NEW d \in 0..(n - 1) PROVE DayDone(ToSet(r), busy, d)
    <3>1. CASE d = day
      BY <2>4, <3>1 DEF DayTurned
    <3>2. CASE d # day
      <4>1. d \in 0..(day - 1)
        BY <2>2, <3>2
      <4>2. DayDone(ToSet(plan), busy, d)
        BY <2>3, <4>1
      <4>3. BlocksOn(ToSet(plan), d) = BlocksOn(ToSet(r), d)
        BY <2>4, <3>2 DEF DayTurned
      <4>4. QED
        BY <4>2, <4>3, SameBlocksDone
    <3>3. QED
      BY <3>1, <3>2
  <2>6. s[n] = r
    BY <1>3, <2>1
  <2>7. Dealt(r, names)
    BY <2>4 DEF DayTurned
  <2>8. QED
    BY <2>2, <2>4, <2>5, <2>6, <2>7
<1> HIDE DEF K
<1>6. \A n \in 0..last : n \in K
  BY <1>4, <1>5, UpTo
<1>7. last \in K
  BY <1>6
<1>8. LastDay = last - 1
  BY <1>1, StudyAssumption
<1>9. QED
  BY <1>1, <1>2, <1>7, <1>8 DEF K

-----------------------------------------------------------------------------
(***************************************************************************)
(* Taking turns: of n blocks dealt to L subjects in turn, one of two       *)
(* subjects gets as many as the other or one more, and it is the one that  *)
(* comes first.                                                            *)
(***************************************************************************)
Turns(n, L, u) == {k \in 1..n : ((k - 1) % L) = u}

LEMMA TurnAt ==
  ASSUME NEW n \in Nat, NEW L \in Nat \ {0}, NEW u \in 0..(L - 1), NEW k \in Turns(n, L, u)
  PROVE  \E a \in Nat : k - 1 = L * a + u
<1>1. k \in 1..n /\ ((k - 1) % L) = u
  BY DEF Turns
<1>2. PICK x \in Nat : x = k - 1
  BY <1>1
<1>3. PICK a : a = x \div L
  OBVIOUS
<1>4. a \in Int /\ x = L * a + u
  BY <1>1, <1>2, <1>3, Modulo
<1>5. a >= 0
  <2>1. SUFFICES ASSUME a < 0 PROVE FALSE
    BY <1>4
  <2>2. L * a + L <= L * 0
    BY <1>4, <2>1, Multiples
  <2>3. L * a \in Int /\ L * 0 = 0
    BY <1>4
  <2>4. QED
    BY <1>2, <1>4, <2>2, <2>3
<1>6. QED
  BY <1>2, <1>4, <1>5

LEMMA TurnOf ==
  ASSUME NEW n \in Nat, NEW L \in Nat \ {0}, NEW u \in 0..(L - 1), NEW a \in Nat,
         NEW k \in Int, k - 1 = L * a + u, k <= n
  PROVE  k \in Turns(n, L, u)
<1>1. PICK x \in Int : x = L * a + u
  OBVIOUS
<1>2. (x % L) = u
  BY <1>1, Remainder
<1>3. L * a >= 0 /\ L * a \in Int
  OBVIOUS
<1>4. x >= 0 /\ x = k - 1
  BY <1>1, <1>3
<1>5. k \in 1..n /\ ((k - 1) % L) = u
  BY <1>2, <1>4
<1>6. QED
  BY <1>5 DEF Turns

LEMMA TurnsFinite ==
  ASSUME NEW n \in Nat, NEW L, NEW u
  PROVE  IsFiniteSet(Turns(n, L, u)) /\ Cardinality(Turns(n, L, u)) \in Nat
<1>1. PICK U : U = Turns(n, L, u)
  OBVIOUS
<1>2. U \in SUBSET (1..n)
  BY <1>1 DEF Turns
<1>3. IsFiniteSet(1..n)
  BY FS_Interval
<1>4. IsFiniteSet(U)
  BY <1>2, <1>3, FS_Subset
<1>5. QED
  BY <1>1, <1>4, FS_CardinalityType

LEMMA TurnsShared ==
  ASSUME NEW n \in Nat, NEW L \in Nat \ {0}, NEW u \in 0..(L - 1), NEW v \in 0..(L - 1), u < v
  PROVE  /\ Cardinality(Turns(n, L, v)) \in Nat /\ Cardinality(Turns(n, L, u)) \in Nat
         /\ Cardinality(Turns(n, L, v)) <= Cardinality(Turns(n, L, u))
         /\ Cardinality(Turns(n, L, u)) <= Cardinality(Turns(n, L, v)) + 1
<1>1. PICK U, V, W : U = Turns(n, L, u) /\ V = Turns(n, L, v) /\ W = U \ {u + 1}
  OBVIOUS
<1>2. /\ IsFiniteSet(U) /\ IsFiniteSet(V)
      /\ Cardinality(U) \in Nat /\ Cardinality(V) \in Nat
      /\ U \subseteq Nat /\ V \subseteq Nat
  <2>1. U \subseteq Nat /\ V \subseteq Nat
    BY <1>1 DEF Turns
  <2>2. QED
    BY <1>1, <2>1, TurnsFinite
<1>3. Cardinality(V) <= Cardinality(U)
  <2>1. PICK f : f = [k \in V |-> k - (v - u)]
    OBVIOUS
  <2>2. ASSUME NEW k \in V PROVE k - (v - u) \in U
    <3>1. PICK a \in Nat : k - 1 = L * a + v
      BY <1>1, TurnAt
    <3>2. k \in 1..n
      BY <1>1 DEF Turns
    <3>3. L * a \in Int
      OBVIOUS
    <3>4. PICK j \in Int : j = k - (v - u)
      BY <3>2
    <3>5. j - 1 = L * a + u /\ j <= n
      BY <3>1, <3>2, <3>3, <3>4
    <3>6. j \in Turns(n, L, u)
      BY <3>5, TurnOf
    <3>7. QED
      BY <1>1, <3>4, <3>6
  <2>3. f \in [V -> U]
    BY <2>1, <2>2
  <2>4. \A j, k \in V : f[j] = f[k] => j = k
    BY <1>2, <2>1
  <2>5. f \in Injection(V, U)
    BY <2>3, <2>4 DEF Injection, IsInjective
  <2>6. QED
    BY <1>2, <2>5, FS_Injection
<1>4. IsFiniteSet(W) /\ Cardinality(W) \in Nat /\ Cardinality(U) <= Cardinality(W) + 1
  <2>1. IsFiniteSet(W)
        /\ Cardinality(W) = IF u + 1 \in U THEN Cardinality(U) - 1 ELSE Cardinality(U)
    BY <1>1, <1>2, FS_RemoveElement
  <2>2. Cardinality(W) \in Nat
    BY <2>1, FS_CardinalityType
  <2>3. QED
    BY <1>2, <2>1, <2>2
<1>5. Cardinality(W) <= Cardinality(V)
  <2>1. PICK f : f = [k \in W |-> k - (L - (v - u))]
    OBVIOUS
  <2>2. ASSUME NEW k \in W PROVE k - (L - (v - u)) \in V
    <3>1. k \in U /\ k # u + 1
      BY <1>1
    <3>2. PICK a \in Nat : k - 1 = L * a + u
      BY <1>1, <3>1, TurnAt
    <3>3. k \in 1..n
      BY <1>1, <3>1 DEF Turns
    <3>4. a # 0
      <4>1. SUFFICES ASSUME a = 0 PROVE FALSE
        OBVIOUS
      <4>2. L * a = 0
        BY <4>1
      <4>3. QED
        BY <3>1, <3>2, <3>3, <4>2
    <3>5. PICK b \in Nat : a = b + 1
      <4>1. a - 1 \in Nat /\ a = (a - 1) + 1
        BY <3>4
      <4>2. QED
        BY <4>1
    <3>6. L * a = L * b + L /\ L * b \in Int
      BY <3>5
    <3>7. PICK j \in Int : j = k - (L - (v - u))
      BY <3>3
    <3>8. j - 1 = L * b + v /\ j <= n
      BY <3>2, <3>3, <3>6, <3>7
    <3>9. j \in Turns(n, L, v)
      BY <3>8, TurnOf
    <3>10. QED
      BY <1>1, <3>7, <3>9
  <2>3. f \in [W -> V]
    BY <2>1, <2>2
  <2>4. \A j, k \in W : f[j] = f[k] => j = k
    BY <1>1, <1>2, <2>1
  <2>5. f \in Injection(W, V)
    BY <2>3, <2>4 DEF Injection, IsInjective
  <2>6. QED
    BY <1>2, <2>5, FS_Injection
<1>6. QED
  BY <1>1, <1>2, <1>3, <1>4, <1>5

-----------------------------------------------------------------------------
(***************************************************************************)
(* The ranking is an order of the subjects, those that score more first.   *)
(***************************************************************************)
LEMMA ScoreType == ASSUME NEW s, SubjectShaped(s) PROVE SubjectScore(s) \in Int
<1>1. UrgencyDays \in Nat /\ s.priority \in Int /\ s.exam \in Int
  BY StudyAssumption DEF SubjectShaped
<1>2. QED
  BY <1>1 DEF SubjectScore

\* names lists the n subjects by rank.
Ranks(rank, subjects, names, n) ==
  /\ rank \in [1..n -> 1..n] /\ Len(names) = n
  /\ \A i, j \in 1..n : i # j => rank[i] # rank[j]
  /\ \A i \in 1..n : names[rank[i]] = subjects[i].name
  /\ \A i, j \in 1..n :
       SubjectScore(subjects[i]) > SubjectScore(subjects[j]) => rank[i] < rank[j]

LEMMA RankedSound ==
  ASSUME NEW S, NEW subjects \in Seq(S), \A s \in S : SubjectShaped(s)
  PROVE  \E rank : Ranks(rank, subjects, Ranked(subjects), Len(subjects))
<1>1. PICK n \in Nat : n = Len(subjects)
  OBVIOUS
<1>2. DOMAIN subjects = 1..n /\ \A i \in 1..n : subjects[i] \in S
  BY <1>1
<1>3. \A i \in 1..n : SubjectScore(subjects[i]) \in Int
  BY <1>2, ScoreType
<1>4. PICK R : R = {p \in (1..n) \X (1..n) : RanksBefore(subjects, p[1], p[2])}
  OBVIOUS
<1>5. \A i, j \in 1..n : <<i, j>> \in R <=> RanksBefore(subjects, i, j)
  BY <1>4
<1>6. Arranges(R, 1..n)
  BY <1>3, <1>5 DEF Arranges, RanksBefore
<1>7. IsFiniteSet(1..n) /\ Cardinality(1..n) = n
  <2>1. IsFiniteSet(1..n) /\ Cardinality(1..n) = IF 1 > n THEN 0 ELSE n - 1 + 1
    BY FS_Interval
  <2>2. (IF 1 > n THEN 0 ELSE n - 1 + 1) = n
    OBVIOUS
  <2>3. QED
    BY <2>1, <2>2
<1>8. PICK t \in SetToSeqs(1..n) : Arranged(t, R)
  BY <1>6, <1>7, OrderExists
<1>9. \A i, j \in DOMAIN t : i < j => RanksBefore(subjects, t[i], t[j])
  <2>1. DOMAIN t = 1..n /\ \A i \in 1..n : t[i] \in 1..n
    BY <1>7, <1>8 DEF SetToSeqs
  <2>2. QED
    BY <1>5, <1>8, <2>1 DEF Arranged
<1>10. PICK o : o = CHOOSE x \in SetToSeqs(1..n) :
                      \A i, j \in DOMAIN x : i < j => RanksBefore(subjects, x[i], x[j])
  OBVIOUS
<1>11. o \in SetToSeqs(1..n) /\ \A i, j \in DOMAIN o : i < j => RanksBefore(subjects, o[i], o[j])
  BY <1>9, <1>10
<1>12. o \in [1..n -> 1..n] /\ \A i, j \in 1..n : i # j => o[i] # o[j]
  BY <1>7, <1>11 DEF SetToSeqs
<1>13. \A i \in 1..n : \E r \in 1..n : o[r] = i
  <2>1. o \in Injection(1..n, 1..n)
    BY <1>12 DEF Injection, IsInjective
  <2>2. o \in Surjection(1..n, 1..n)
    BY <1>7, <2>1, FS_Injection
  <2>3. QED
    BY <2>2 DEF Surjection
<1>14. PICK rank : rank = [i \in 1..n |-> CHOOSE r \in 1..n : o[r] = i]
  OBVIOUS
<1>15. rank \in [1..n -> 1..n] /\ \A i \in 1..n : o[rank[i]] = i
  BY <1>13, <1>14
<1>16. PICK names : names = Ranked(subjects)
  OBVIOUS
<1>17. names = [i \in 1..n |-> subjects[o[i]].name]
  BY <1>2, <1>10, <1>16 DEF Ranked
<1>18. Len(names) = n /\ \A i \in 1..n : names[rank[i]] = subjects[i].name
  <2>1. PICK M : M = {names[i] : i \in 1..n}
    OBVIOUS
  <2>2. names \in [1..n -> M]
    BY <1>17, <2>1
  <2>3. names \in Seq(M) /\ Len(names) = n
    BY <2>2
  <2>4. QED
    BY <1>15, <1>17, <2>3
<1>19. ASSUME NEW i \in 1..n, NEW j \in 1..n,
              SubjectScore(subjects[i]) > SubjectScore(subjects[j])
       PROVE  rank[i] < rank[j]
  <2>1. rank[i] \in 1..n /\ rank[j] \in 1..n /\ o[rank[i]] = i /\ o[rank[j]] = j
    BY <1>15
  <2>2. i # j /\ rank[i] # rank[j]
    BY <1>3, <1>19, <2>1
  <2>3. CASE rank[j] < rank[i]
    <3>1. RanksBefore(subjects, j, i)
      BY <1>11, <1>12, <2>1, <2>3
    <3>2. QED
      BY <1>3, <1>19, <3>1 DEF RanksBefore
  <2>4. QED
    BY <2>1, <2>2, <2>3
<1>20. \A i, j \in 1..n : i # j => rank[i] # rank[j]
  BY <1>15
<1>21. Ranks(rank, subjects, names, n)
  BY <1>15, <1>18, <1>19, <1>20 DEF Ranks
<1>22. QED
  BY <1>1, <1>16, <1>21

Share(q, name) == Cardinality({k \in DOMAIN q : q[k].subject = name})

LEMMA SharesSound ==
  ASSUME NEW S, NEW subjects \in Seq(S), \A s \in S : SubjectShaped(s), subjects # <<>>,
         \A i, j \in DOMAIN subjects : subjects[i].name = subjects[j].name => i = j,
         NEW B, NEW q \in Seq(B), Dealt(q, Ranked(subjects))
  PROVE  \A i, j \in DOMAIN subjects :
           /\ Share(q, subjects[i].name) <= Share(q, subjects[j].name) + 1
           /\ SubjectScore(subjects[i]) > SubjectScore(subjects[j]) =>
                Share(q, subjects[i].name) >= Share(q, subjects[j].name)
<1>1. PICK L \in Nat \ {0} : L = Len(subjects)
  OBVIOUS
<1>2. PICK n \in Nat : n = Len(q)
  OBVIOUS
<1>3. DOMAIN subjects = 1..L /\ DOMAIN q = 1..n
  BY <1>1, <1>2
<1>4. PICK names : names = Ranked(subjects)
  OBVIOUS
<1>5. PICK rank :
        /\ rank \in [1..L -> 1..L]
        /\ \A i, j \in 1..L : i # j => rank[i] # rank[j]
        /\ Len(names) = L
        /\ \A i \in 1..L : names[rank[i]] = subjects[i].name
        /\ \A i, j \in 1..L :
             SubjectScore(subjects[i]) > SubjectScore(subjects[j]) => rank[i] < rank[j]
  <2>1. PICK rank : Ranks(rank, subjects, names, L)
    BY <1>1, <1>4, RankedSound
  <2>2. QED
    BY <2>1 DEF Ranks
<1>6. \A r \in 1..L : \E i \in 1..L : rank[i] = r
  <2>1. rank \in Injection(1..L, 1..L)
    BY <1>5 DEF Injection, IsInjective
  <2>2. IsFiniteSet(1..L)
    BY FS_Interval
  <2>3. rank \in Surjection(1..L, 1..L)
    BY <2>1, <2>2, FS_Injection
  <2>4. QED
    BY <2>3 DEF Surjection
<1>7. \A k \in 1..n : q[k].subject = names[((k - 1) % L) + 1]
  BY <1>3, <1>4, <1>5 DEF Dealt
<1>8. ASSUME NEW i \in 1..L
      PROVE  Share(q, subjects[i].name) = Cardinality(Turns(n, L, rank[i] - 1))
  <2>1. ASSUME NEW k \in 1..n
        PROVE  q[k].subject = subjects[i].name <=> ((k - 1) % L) = rank[i] - 1
    <3>1. k - 1 \in Int
      OBVIOUS
    <3>2. PICK x \in 0..(L - 1) : x = ((k - 1) % L)
      BY <3>1, Modulo
    <3>3. x + 1 \in 1..L
      OBVIOUS
    <3>4. PICK j \in 1..L : rank[j] = x + 1
      BY <1>6, <3>3
    <3>5. q[k].subject = subjects[j].name
      BY <1>5, <1>7, <3>2, <3>4
    <3>6. q[k].subject = subjects[i].name <=> i = j
      BY <1>3, <3>5
    <3>7. PICK y \in 1..L : y = rank[i]
      BY <1>5
    <3>8. i = j <=> y = x + 1
      BY <1>5, <3>4, <3>7
    <3>9. y = x + 1 <=> x = y - 1
      OBVIOUS
    <3>10. QED
      BY <3>2, <3>6, <3>7, <3>8, <3>9
  <2>2. {k \in DOMAIN q : q[k].subject = subjects[i].name} = Turns(n, L, rank[i] - 1)
    BY <1>3, <2>1 DEF Turns
  <2>3. QED
    BY <2>2 DEF Share
<1>9. ASSUME NEW i \in 1..L, NEW j \in 1..L, rank[i] < rank[j]
      PROVE  /\ Share(q, subjects[i].name) \in Nat /\ Share(q, subjects[j].name) \in Nat
             /\ Share(q, subjects[j].name) <= Share(q, subjects[i].name)
             /\ Share(q, subjects[i].name) <= Share(q, subjects[j].name) + 1
  <2>1. PICK x \in 1..L, y \in 1..L : x = rank[i] /\ y = rank[j]
    BY <1>5
  <2>2. PICK u \in 0..(L - 1), v \in 0..(L - 1) : u = x - 1 /\ v = y - 1 /\ u < v
    <3>1. x < y
      BY <1>9, <2>1
    <3>2. x - 1 \in 0..(L - 1) /\ y - 1 \in 0..(L - 1) /\ x - 1 < y - 1
      BY <3>1
    <3>3. QED
      BY <3>2
  <2>3. /\ Cardinality(Turns(n, L, v)) \in Nat /\ Cardinality(Turns(n, L, u)) \in Nat
        /\ Cardinality(Turns(n, L, v)) <= Cardinality(Turns(n, L, u))
        /\ Cardinality(Turns(n, L, u)) <= Cardinality(Turns(n, L, v)) + 1
    BY <2>2, TurnsShared
  <2>4. QED
    BY <1>8, <2>1, <2>2, <2>3
<1>10. ASSUME NEW i \in 1..L, NEW j \in 1..L
       PROVE  /\ Share(q, subjects[i].name) <= Share(q, subjects[j].name) + 1
              /\ SubjectScore(subjects[i]) > SubjectScore(subjects[j]) =>
                   Share(q, subjects[i].name) >= Share(q, subjects[j].name)
  <2>1. rank[i] \in 1..L /\ rank[j] \in 1..L
    BY <1>5
  <2>2. CASE rank[i] < rank[j]
    BY <1>9, <2>2
  <2>3. CASE rank[j] < rank[i]
    <3>1. ~(SubjectScore(subjects[i]) > SubjectScore(subjects[j]))
      BY <1>5, <2>1, <2>3
    <3>2. /\ Share(q, subjects[i].name) \in Nat /\ Share(q, subjects[j].name) \in Nat
          /\ Share(q, subjects[i].name) <= Share(q, subjects[j].name)
      BY <1>9, <2>3
    <3>3. QED
      BY <3>1, <3>2
  <2>4. CASE rank[i] = rank[j]
    <3>1. i = j
      BY <1>5, <2>4
    <3>2. Share(q, subjects[i].name) \in Nat
      <4>1. Share(q, subjects[i].name) = Cardinality(Turns(n, L, rank[i] - 1))
        BY <1>8
      <4>2. QED
        BY <4>1, TurnsFinite
    <3>3. QED
      BY <3>1, <3>2
  <2>5. QED
    BY <2>1, <2>2, <2>3, <2>4
<1>11. QED
  BY <1>3, <1>10

\* What a sound plan takes of each day.
LEMMA PlanTakes ==
  ASSUME NEW N, NEW busy, Forward(busy), NEW q, PlanSound(q, N, busy)
  PROVE  /\ \A b \in ToSet(q) : /\ b.end - b.start \in MinBlock..MaxBlock
                                /\ Units(b) \subseteq StudyStart..(StudyEnd - 1)
                                /\ Units(b) \cap Taken(b.day, busy) = {}
         /\ \A k, l \in DOMAIN q : k # l /\ q[k].day = q[l].day => Units(q[k]) \cap Units(q[l]) = {}
<1>1. Lasting(ToSet(q))
  BY PlanLasts
<1>2. \A k \in DOMAIN q : q[k].start \in Int /\ q[k].end \in Int /\ q[k].start < q[k].end
  BY <1>1 DEF Lasting, ToSet
<1>3. ASSUME NEW b \in ToSet(q)
      PROVE  /\ b.end - b.start \in MinBlock..MaxBlock
             /\ Units(b) \subseteq StudyStart..(StudyEnd - 1)
             /\ Units(b) \cap Taken(b.day, busy) = {}
  <2>1. b.start \in Int /\ b.end \in Int
    BY <1>1 DEF Lasting
  <2>2. PICK i \in DOMAIN q : b = q[i]
    BY DEF ToSet
  <2>3. InStudyWindow(b) /\ b.end - b.start <= MaxBlock
    BY <2>2 DEF PlanSound
  <2>4. Clear(b, b.day, busy)
    BY <2>2 DEF PlanSound, Clear
  <2>5. QED
    BY <2>1, <2>3, <2>4, BlockUnits
<1>4. DOMAIN q \subseteq Int
  <2>1. q \in Seq(StudyBlocks(N))
    BY DEF PlanSound
  <2>2. QED
    BY <2>1
<1>5. ASSUME NEW k \in DOMAIN q, NEW l \in DOMAIN q, k < l, q[k].day = q[l].day
      PROVE  Units(q[k]) \cap Units(q[l]) = {}
  <2>1. q[k].end <= q[l].start
    BY <1>5 DEF PlanSound
  <2>2. PICK a, b : a = q[k] /\ b = q[l]
    OBVIOUS
  <2>3. /\ a.start \in Int /\ a.end \in Int /\ b.start \in Int /\ b.end \in Int
        /\ a.end <= b.start
    BY <1>2, <2>1, <2>2
  <2>4. Units(a) \cap Units(b) = {}
    BY <2>3 DEF Units
  <2>5. QED
    BY <2>2, <2>4
<1>6. ASSUME NEW k \in DOMAIN q, NEW l \in DOMAIN q, k # l, q[k].day = q[l].day
      PROVE  Units(q[k]) \cap Units(q[l]) = {}
  <2>1. k < l \/ l < k
    BY <1>4, <1>6
  <2>2. QED
    BY <1>5, <1>6, <2>1
<1>7. QED
  BY <1>3, <1>6

\* The plan that is generated, as the property says it.
PlanRight(q, busy, subjects) ==
  /\ subjects = <<>> => q = <<>>
  /\ \A b \in ToSet(q) : /\ b.end - b.start \in MinBlock..MaxBlock
                         /\ Units(b) \subseteq StudyStart..(StudyEnd - 1)
                         /\ Units(b) \cap Taken(b.day, busy) = {}
  /\ \A k, l \in DOMAIN q : k # l /\ q[k].day = q[l].day => Units(q[k]) \cap Units(q[l]) = {}
  /\ \A d \in 0..LastDay :
       /\ Cardinality(Taken(d, ToSet(q))) <= DayBudget
       /\ subjects # <<>> /\ Cardinality(Taken(d, ToSet(q))) + MinBlock <= DayBudget =>
            FreeStarts(d, busy \cup BlocksOn(ToSet(q), d), MinBlock) = {}
  /\ \A i, j \in DOMAIN subjects :
       /\ Share(q, subjects[i].name) <= Share(q, subjects[j].name) + 1
       /\ SubjectScore(subjects[i]) > SubjectScore(subjects[j]) =>
            Share(q, subjects[i].name) >= Share(q, subjects[j].name)

LEMMA GeneratedRight ==
  ASSUME NEW busy, IsFiniteSet(busy), Forward(busy),
         NEW S, NEW subjects \in Seq(S), \A s \in S : SubjectShaped(s),
         \A i, j \in DOMAIN subjects : subjects[i].name = subjects[j].name => i = j
  PROVE  PlanRight(GenerateStudyBlocks(busy, subjects), busy, subjects)
<1>1. PICK q : q = GenerateStudyBlocks(busy, subjects)
  OBVIOUS
<1>2. CASE subjects = <<>>
  <2>1. q = <<>> /\ DOMAIN q = {} /\ DOMAIN subjects = {}
    BY <1>1, <1>2 DEF GenerateStudyBlocks
  <2>2. ToSet(q) = {}
    BY <2>1 DEF ToSet
  <2>3. ASSUME NEW d PROVE Cardinality(Taken(d, ToSet(q))) <= DayBudget
    <3>1. Taken(d, ToSet(q)) = {}
      BY <2>2 DEF Taken
    <3>2. Cardinality({}) = 0
      BY FS_EmptySet
    <3>3. DayBudget \in Nat
      BY StudyAssumption
    <3>4. QED
      BY <3>1, <3>2, <3>3
  <2>4. PlanRight(q, busy, subjects)
    BY <1>2, <2>1, <2>2, <2>3 DEF PlanRight
  <2>5. QED
    BY <1>1, <2>4
<1>3. CASE subjects # <<>>
  <2>1. PICK names, N : names = Ranked(subjects) /\ N = Dealing(names)
    OBVIOUS
  <2>2. q = StudyDays(busy, names)[LastDay + 1]
    BY <1>1, <1>3, <2>1 DEF GenerateStudyBlocks
  <2>3. PlanSound(q, N, busy)
    BY <2>1, <2>2, StudyDaysSound
  <2>4. q \in Seq(StudyBlocks(N))
    BY <2>3 DEF PlanSound
  <2>5. Dealt(q, names) /\ \A d \in 0..LastDay : DayDone(ToSet(q), busy, d)
    BY <2>2, StudyDaysDone
  <2>6. /\ \A b \in ToSet(q) : /\ b.end - b.start \in MinBlock..MaxBlock
                               /\ Units(b) \subseteq StudyStart..(StudyEnd - 1)
                               /\ Units(b) \cap Taken(b.day, busy) = {}
        /\ \A k, l \in DOMAIN q :
             k # l /\ q[k].day = q[l].day => Units(q[k]) \cap Units(q[l]) = {}
    BY <2>3, PlanTakes
  <2>7. \A i, j \in DOMAIN subjects :
          /\ Share(q, subjects[i].name) <= Share(q, subjects[j].name) + 1
          /\ SubjectScore(subjects[i]) > SubjectScore(subjects[j]) =>
               Share(q, subjects[i].name) >= Share(q, subjects[j].name)
    BY <1>3, <2>1, <2>4, <2>5, SharesSound
  <2>8. PlanRight(q, busy, subjects)
    BY <1>3, <2>5, <2>6, <2>7 DEF PlanRight, DayDone
  <2>9. QED
    BY <1>1, <2>8
<1>4. QED
  BY <1>2, <1>3

(***************************************************************************)
(* GenerateSound, for a week, a window and a budget of any size, any       *)
(* classes that end after they start and any number of subjects: the plan  *)
(* keeps to the window, to the lengths and to each day's budget, shares no *)
(* time with a class, leaves no room for a block that the budget allows,   *)
(* and gives no subject two blocks more than another, or fewer than one    *)
(* that scores less.                                                       *)
(***************************************************************************)
THEOREM GenerateSoundHolds ==
  ASSUME GenerateProper
  PROVE  Solving => []GenerateSound
<1>1. ASSUME Answered PROVE GenerateSound
  <2>1. SUFFICES ASSUME Solved("generate") PROVE GenerateSound
    BY DEF GenerateSound
  <2>2. PICK busy, subjects : busy = task.busy /\ subjects = task.subjects
    OBVIOUS
  <2>3. busy \in BusySets /\ subjects \in SubjectLists
    BY <1>1, <2>1, <2>2, InputOf DEF Solved
  <2>4. IsFiniteSet(busy) /\ Forward(busy)
    BY <2>3 DEF GenerateProper
  <2>5. PICK S : subjects \in Seq(S) /\ \A s \in S : SubjectShaped(s)
    BY <2>3 DEF GenerateProper
  <2>6. \A i, j \in DOMAIN subjects : subjects[i].name = subjects[j].name => i = j
    BY <2>3 DEF GenerateProper
  <2>7. answer = GenerateStudyBlocks(busy, subjects)
    BY <1>1, <2>1, <2>2 DEF Answered
  <2>8. PlanRight(answer, busy, subjects)
    BY <2>4, <2>5, <2>6, <2>7, GeneratedRight
  <2>9. PlanRight(answer, task.busy, task.subjects)
    BY <2>2, <2>8
  <2>10. QED
    BY <2>9, Zenon DEF PlanRight, GenerateSound, Share, BlocksOn
<1>2. QED
  BY <1>1, SolvingAnswers, PTL
=============================================================================
