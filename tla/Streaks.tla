------------------------------- MODULE Streaks -------------------------------
(***************************************************************************)
(* Partner streaks (app/streaks/service.py, repository.py) and the score   *)
(* and rank they feed (app/progression/service.py, repository.py).         *)
(*                                                                         *)
(* A handler is split at each await on MongoDB; find_one_and_update and    *)
(* insert_one are single steps.  Time is counted in ticks, DayLength of    *)
(* them to a UTC day; handlers read the clock when they decide, and the    *)
(* date they store was read no earlier than that and no later than the     *)
(* write.                                                                  *)
(***************************************************************************)
EXTENDS Integers, Sequences, FiniteSets

CONSTANTS Pairs,           \* pairs <<user_a, user_b>> with user_a < user_b
          Requests,        \* request handlers that may run at the same time
          DayLength,       \* ticks in a day
          StaleWindow,     \* a longer silence breaks the streak (two days)
          Milestone,       \* a streak of every multiple of it is rewarded
          Award,           \* points a milestone gives each partner
          Thresholds,      \* scores at which the rank rises
          MaxTime,         \* bound on the clock
          MaxCrashes       \* bound on the handlers that die

ASSUME StreaksAssumption ==
    /\ Pairs \subseteq Nat \X Nat
    /\ \A pair \in Pairs : pair[1] < pair[2]
    /\ {DayLength, StaleWindow, Award} \subseteq Nat \ {0}
    /\ Milestone \in Nat /\ Milestone > 1     \* accept, the first day, rewards nobody
    /\ Thresholds \subseteq Nat \ {0} /\ IsFiniteSet(Thresholds)
    /\ MaxTime \in Nat /\ MaxCrashes \in Nat

VARIABLES clock,
          streak,     \* the partner_streaks collection
          score,      \* users.thesdel_score
          rank,       \* users.rank, as the number of thresholds passed
          req,        \* what each request handler is doing
          log,        \* history: the acceptance and the check-ins of a pair
          lost,       \* history: points a user never got, the handler having died
          crashes

vars == <<clock, streak, score, rank, req, log, lost, crashes>>

Users == UNION {{pair[1], pair[2]} : pair \in Pairs}

Partners(pair) == {pair[1], pair[2]}

Day(t) == t \div DayLength

Time == 0..MaxTime

NoStreak == [status |-> "none"]

Pending(u) == [status |-> "pending", invited_by |-> u]

\* accepted_by is history; last is last_interaction_at.
Active(inviter, accepter, n, t) ==
    [status |-> "active", invited_by |-> inviter, accepted_by |-> accepter,
     current |-> n, last |-> t]

NoRequest == [pc |-> "idle"]

TypeOK ==
    /\ clock \in Time
    /\ streak \in [Pairs -> {NoStreak} \cup {Pending(u) : u \in Users}
                    \cup [status: {"active"}, invited_by: Users, accepted_by: Users,
                          current: Nat \ {0}, last: Time]]
    /\ score \in [Users -> Nat]
    /\ rank \in [Users -> 0..Cardinality(Thresholds)]
    /\ req \in [Requests -> {NoRequest}
                 \cup [pc: {"accepting"}, pair: Pairs, user: Users, since: Time]
                 \cup [pc: {"checking"}, pair: Pairs, last: Time, new: Nat, since: Time]
                 \cup [pc: {"awarding"}, pair: Pairs, next: {1, 2}]
                 \cup [pc: {"ranking"}, pair: Pairs, next: {1, 2}, new: Nat]]
    /\ log \in [Pairs -> Seq([since: Time, at: Time, current: Nat])]
    /\ lost \in [Users -> Nat]
    /\ crashes \in 0..MaxCrashes

compute_rank(s) == Cardinality({t \in Thresholds : s >= t})

-----------------------------------------------------------------------------
Init ==
    /\ clock = 0
    /\ streak = [pair \in Pairs |-> NoStreak]
    /\ score = [u \in Users |-> 0]
    /\ rank = [u \in Users |-> 0]
    /\ req = [p \in Requests |-> NoRequest]
    /\ log = [pair \in Pairs |-> <<>>]
    /\ lost = [u \in Users |-> 0]
    /\ crashes = 0

Start(p, r) == req[p] = NoRequest /\ req' = [req EXCEPT ![p] = r]

Goto(p, r) == req' = [req EXCEPT ![p] = r]

Record(pair, since, at, n) ==
    log' = [log EXCEPT ![pair] = Append(@, [since |-> since, at |-> at, current |-> n])]

(***************************************************************************)
(* invite: the unique index on the pair lets the first insert win; any     *)
(* other invite returns the row that is there.                             *)
(***************************************************************************)
Invite(p, pair, u) ==
    /\ req[p] = NoRequest
    /\ u \in Partners(pair)
    /\ streak[pair] = NoStreak
    /\ streak' = [streak EXCEPT ![pair] = Pending(u)]
    /\ UNCHANGED <<clock, score, rank, req, log, lost, crashes>>

(***************************************************************************)
(* accept: the caller must not be the one who invited; the update is       *)
(* conditional on the row being pending still.                             *)
(***************************************************************************)
MayAcceptOwn(pair, u) ==     \* slip: the inviter may accept as well
    /\ u \in Partners(pair)
    /\ streak[pair].status = "pending"

MayAccept(pair, u) ==
    /\ u \in Partners(pair)
    /\ streak[pair].status = "pending"
    /\ streak[pair].invited_by # u

AcceptFind(p, pair, u) ==
    /\ MayAccept(pair, u)
    /\ Start(p, [pc |-> "accepting", pair |-> pair, user |-> u, since |-> clock])
    /\ UNCHANGED <<clock, streak, score, rank, log, lost, crashes>>

AcceptWrite(p) ==
    /\ req[p].pc = "accepting"
    /\ LET pair == req[p].pair IN
       IF streak[pair].status = "pending"
       THEN \E now \in req[p].since..clock :
              /\ streak' = [streak EXCEPT ![pair] =
                              Active(@.invited_by, req[p].user, 1, now)]
              /\ Record(pair, req[p].since, now, 1)
       ELSE UNCHANGED <<streak, log>>
    /\ Goto(p, NoRequest)
    /\ UNCHANGED <<clock, score, rank, lost, crashes>>

(***************************************************************************)
(* check_in: the row is read and the decision taken; a second check-in of  *)
(* the same UTC day ends there.  The write goes through only if nobody has *)
(* checked in meanwhile, which last_interaction_at tells.                  *)
(***************************************************************************)
Stale(last, now) == now - last > StaleWindow

CheckInFindAnyTime(p, pair) ==     \* slip: a second check-in of the day goes on
    LET doc == streak[pair] IN
    /\ doc.status = "active"
    /\ Start(p, [pc |-> "checking", pair |-> pair, last |-> doc.last, since |-> clock,
                 new |-> IF Stale(doc.last, clock) THEN 1 ELSE doc.current + 1])
    /\ UNCHANGED <<clock, streak, score, rank, log, lost, crashes>>

CheckInFind(p, pair) ==
    LET doc == streak[pair] IN
    /\ doc.status = "active"
    /\ Day(doc.last) # Day(clock)
    /\ Start(p, [pc |-> "checking", pair |-> pair, last |-> doc.last, since |-> clock,
                 new |-> IF Stale(doc.last, clock) THEN 1 ELSE doc.current + 1])
    /\ UNCHANGED <<clock, streak, score, rank, log, lost, crashes>>

UpdateById(pair, last) == TRUE     \* slip: the write is not conditional

Unchanged(pair, last) == streak[pair].last = last

RewardedFromThenOn(n) == n >= Milestone     \* slip: not every Milestone-th day only

Rewarded(n) == n % Milestone = 0

CheckInWrite(p) ==
    LET pair == req[p].pair
        new  == req[p].new IN
    /\ req[p].pc = "checking"
    /\ IF Unchanged(pair, req[p].last)
       THEN \E now \in req[p].since..clock :
              /\ streak' = [streak EXCEPT ![pair].current = new, ![pair].last = now]
              /\ Record(pair, req[p].since, now, new)
              /\ IF Rewarded(new)
                 THEN Goto(p, [pc |-> "awarding", pair |-> pair, next |-> 1])
                 ELSE Goto(p, NoRequest)
       ELSE Goto(p, NoRequest) /\ UNCHANGED <<streak, log>>
    /\ UNCHANGED <<clock, score, rank, lost, crashes>>

(***************************************************************************)
(* add_score for user_a, then for user_b: an atomic $inc that returns the  *)
(* new score, then refresh_rank, which stores the rank of that score.      *)
(***************************************************************************)
IncrementScoreTwice(p) ==     \* slip: the amount is added to the new score again
    LET u == req[p].pair[req[p].next] IN
    /\ req[p].pc = "awarding"
    /\ score' = [score EXCEPT ![u] = @ + Award]
    /\ Goto(p, [pc |-> "ranking", pair |-> req[p].pair, next |-> req[p].next,
                new |-> score[u] + Award + Award])
    /\ UNCHANGED <<clock, streak, rank, log, lost, crashes>>

IncrementScore(p) ==
    LET u == req[p].pair[req[p].next] IN
    /\ req[p].pc = "awarding"
    /\ score' = [score EXCEPT ![u] = @ + Award]
    /\ Goto(p, [pc |-> "ranking", pair |-> req[p].pair, next |-> req[p].next,
                new |-> score[u] + Award])
    /\ UNCHANGED <<clock, streak, rank, log, lost, crashes>>

RefreshRankNoEnd(p) ==     \* slip: goes on awarding past user_b
    LET u == req[p].pair[req[p].next] IN
    /\ req[p].pc = "ranking"
    /\ rank' = [rank EXCEPT ![u] = compute_rank(req[p].new)]
    /\ Goto(p, [pc |-> "awarding", pair |-> req[p].pair, next |-> req[p].next + 1])
    /\ UNCHANGED <<clock, streak, score, log, lost, crashes>>

RefreshRank(p) ==
    LET u == req[p].pair[req[p].next] IN
    /\ req[p].pc = "ranking"
    /\ rank' = [rank EXCEPT ![u] = compute_rank(req[p].new)]
    /\ Goto(p, IF req[p].next = 1
               THEN [pc |-> "awarding", pair |-> req[p].pair, next |-> 2]
               ELSE NoRequest)
    /\ UNCHANGED <<clock, streak, score, log, lost, crashes>>

(***************************************************************************)
(* Whether a handler still owes user u the points of the milestone it      *)
(* recorded; they are lost when it dies.                                   *)
(***************************************************************************)
Owes(p, u) ==
    \/ req[p].pc = "awarding" /\ \E i \in req[p].next..2 : req[p].pair[i] = u
    \/ req[p].pc = "ranking" /\ req[p].next = 1 /\ req[p].pair[2] = u

Crash(p) ==
    /\ req[p] # NoRequest
    /\ crashes < MaxCrashes
    /\ crashes' = crashes + 1
    /\ lost' = [u \in Users |-> IF Owes(p, u) THEN lost[u] + Award ELSE lost[u]]
    /\ Goto(p, NoRequest)
    /\ UNCHANGED <<clock, streak, score, rank, log>>

Tick ==
    /\ clock < MaxTime
    /\ clock' = clock + 1
    /\ UNCHANGED <<streak, score, rank, req, log, lost, crashes>>

Handler(p) ==
    \/ \E pair \in Pairs : \E u \in Partners(pair) :
         Invite(p, pair, u) \/ AcceptFind(p, pair, u)
    \/ \E pair \in Pairs : CheckInFind(p, pair)
    \/ AcceptWrite(p) \/ CheckInWrite(p) \/ IncrementScore(p) \/ RefreshRank(p)
    \/ Crash(p)

Next == (\E p \in Requests : Handler(p)) \/ Tick

Spec == Init /\ [][Next]_vars

-----------------------------------------------------------------------------
(***************************************************************************)
(* Mutual opt-in: an active streak was asked for by one partner and        *)
(* accepted by the other, whoever invited first and however two            *)
(* invitations or acceptances overlap.                                     *)
(***************************************************************************)
MutualOptIn ==
    \A pair \in Pairs : streak[pair].status = "active" =>
      {streak[pair].invited_by, streak[pair].accepted_by} = Partners(pair)

DaysRise(entries) ==
    \A i, j \in 1..Len(entries) : i < j => Day(entries[i].at) < Day(entries[j].at)

(***************************************************************************)
(* docs/DATABASE.md: a pair's streak moves at most once per UTC calendar   *)
(* day, both partners checking in together and around midnight included.   *)
(***************************************************************************)
OncePerDay == \A pair \in Pairs : DaysRise(log[pair])

Broken(entries, i) == i = 1 \/ Stale(entries[i - 1].at, entries[i].since)

Counted(entries, current) ==
    \E first \in 1..Len(entries) :
      /\ Broken(entries, first)
      /\ \A i \in (first + 1)..Len(entries) : ~Broken(entries, i)
      /\ current = Len(entries) - first + 1

(***************************************************************************)
(* No check-in is lost or counted twice: current_streak is the number of   *)
(* recorded days since the last silence that was longer than the window.   *)
(***************************************************************************)
StreakCountsLog ==
    \A pair \in Pairs : streak[pair].status = "active" =>
      /\ Counted(log[pair], streak[pair].current)
      /\ streak[pair].last = log[pair][Len(log[pair])].at

(***************************************************************************)
(* Milestone points are conserved: what a user has, what handlers still    *)
(* owe and what died with a handler add up to the milestones reached.      *)
(***************************************************************************)
Rewards(pair) ==
    {<<pair, i>> : i \in {j \in 1..Len(log[pair]) : log[pair][j].current % Milestone = 0}}

Milestones(u) == UNION {Rewards(pair) : pair \in {q \in Pairs : u \in Partners(q)}}

Debtors(u) == {p \in Requests : Owes(p, u)}

AwardsAddUp ==
    \A u \in Users :
      score[u] + Award * Cardinality(Debtors(u)) + lost[u]
        = Award * Cardinality(Milestones(u))

(***************************************************************************)
(* The stored rank never runs ahead of the score, whatever the order in    *)
(* which concurrent awards store it.                                       *)
(***************************************************************************)
RankNotAhead == \A u \in Users : rank[u] <= compute_rank(score[u])
=============================================================================
