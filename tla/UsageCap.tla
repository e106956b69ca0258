------------------------------ MODULE UsageCap ------------------------------
(***************************************************************************)
(* The monthly cap on AI generations, app/usage/service.py over            *)
(* app/usage/repository.py, for one user and one capped feature (every     *)
(* such pair has a counter of its own).                                    *)
(*                                                                         *)
(* The counter of a month is a Redis key that INCR creates and EXPIRE       *)
(* gives a time to live, in two round trips; the audit log is in MongoDB.  *)
(* Time is counted in ticks, TicksPerSecond of them to a second, because   *)
(* EXPIRE takes whole seconds and the clock does not.                      *)
(***************************************************************************)
EXTENDS Integers, FiniteSets

CONSTANTS Requests,        \* request handlers that may run at the same time
          Limit,           \* generations a month
          TicksPerSecond,
          MonthLength,     \* ticks in a month
          MaxTime,         \* bound on the clock
          MaxAttempts,     \* bound on the reservations asked for
          MaxFaults        \* bound on Redis errors and handlers that die

ASSUME UsageCapAssumption ==
    /\ {Limit, TicksPerSecond, MonthLength} \subseteq Nat \ {0}
    /\ {MaxTime, MaxAttempts, MaxFaults} \subseteq Nat

VARIABLES clock,
          count,      \* the counter of each month, 0 when there is no key
          expiry,     \* the tick at which its key disappears, or Never
          log,        \* ai_usage_log
          req,        \* what each request handler is doing
          attempts,   \* history: reservations asked for, which also names them
          life,       \* history: how often the key of a month was created
          granted,    \* history: the reservations granted
          unset,      \* history: months whose key an error left without expiry
          faults

vars == <<clock, count, expiry, log, req, attempts, life, granted, unset, faults>>

Time == 0..MaxTime

Month(t) == t \div MonthLength

Months == 0..Month(MaxTime)

Never == -1

NoRequest == [pc |-> "idle"]

Attempt == 1..MaxAttempts

Grant == [id: Attempt, month: Months, at: Time, life: Attempt]

TypeOK ==
    /\ clock \in Time
    /\ count \in [Months -> 0..MaxAttempts]
    /\ expiry \in [Months -> Nat \cup {Never}]
    /\ \A m \in Months : expiry[m] = Never \/ (expiry[m] > clock /\ count[m] > 0)
    /\ log \subseteq [id: Attempt, created: Months, status: {"attempted", "succeeded", "failed"}]
    /\ req \in [Requests -> {NoRequest}
                  \cup [pc: {"counting"}, id: Attempt, month: Months]
                  \cup [pc: {"expiring", "logging"}, grant: Grant]
                  \cup [pc: {"generating"}, id: Attempt]]
    /\ attempts \in 0..MaxAttempts
    /\ life \in [Months -> 0..MaxAttempts]
    /\ granted \subseteq Grant
    /\ unset \subseteq Months
    /\ faults \in 0..MaxFaults

-----------------------------------------------------------------------------
Init ==
    /\ clock = 0
    /\ count = [m \in Months |-> 0]
    /\ expiry = [m \in Months |-> Never]
    /\ log = {}
    /\ req = [p \in Requests |-> NoRequest]
    /\ attempts = 0
    /\ life = [m \in Months |-> 0]
    /\ granted = {}
    /\ unset = {}
    /\ faults = 0

Goto(p, r) == req' = [req EXCEPT ![p] = r]

Finish(p) == Goto(p, NoRequest)

(***************************************************************************)
(* check_and_reserve: the key is named after the month it starts in.       *)
(***************************************************************************)
Begin(p) ==
    /\ req[p] = NoRequest
    /\ attempts < MaxAttempts
    /\ attempts' = attempts + 1
    /\ Goto(p, [pc |-> "counting", id |-> attempts + 1, month |-> Month(clock)])
    /\ UNCHANGED <<clock, count, expiry, log, life, granted, unset, faults>>

(***************************************************************************)
(* INCR, which creates the key when there is none.                         *)
(***************************************************************************)
Count(m) ==
    /\ count' = [count EXCEPT ![m] = @ + 1]
    /\ life' = [life EXCEPT ![m] = IF count[m] = 0 THEN @ + 1 ELSE @]

OverLimit(n) == n > Limit

FirstIsZero(n) == n = 0     \* slip: INCR is taken to return the old value

First(n) == n = 1

Incr(p) ==
    LET m == req[p].month
        n == count[m] + 1
        g == [id |-> req[p].id, month |-> m, at |-> clock, life |-> life'[m]] IN
    /\ req[p].pc = "counting"
    /\ Count(m)
    /\ \/ /\ First(n)
          /\ Goto(p, [pc |-> "expiring", grant |-> g])
          /\ UNCHANGED granted
       \/ /\ ~First(n) /\ OverLimit(n)
          /\ Finish(p)
          /\ UNCHANGED granted
       \/ /\ ~First(n) /\ ~OverLimit(n)
          /\ granted' = granted \cup {g}
          /\ Goto(p, [pc |-> "logging", grant |-> g])
    /\ UNCHANGED <<clock, expiry, log, attempts, unset, faults>>

(***************************************************************************)
(* EXPIRE with the whole seconds from now to the end of the month, at      *)
(* least one.  The end and now are two readings of the clock.              *)
(***************************************************************************)
SecondsUntilResetShort(end, now) ==     \* slip: a second is taken off
    IF end - now >= 2 * TicksPerSecond
    THEN (end - now) \div TicksPerSecond - 1 ELSE 1

SecondsUntilResetZero(end, now) ==     \* slip: not at least one
    (end - now) \div TicksPerSecond

SecondsUntilReset(end, now) ==
    IF end - now >= TicksPerSecond THEN (end - now) \div TicksPerSecond ELSE 1

Expire(g) ==
    \E read \in g.at..clock : \E now \in read..clock :
      LET end == (Month(read) + 1) * MonthLength IN
      expiry' = IF count[g.month] = 0 THEN expiry
                ELSE [expiry EXCEPT ![g.month] =
                        clock + TicksPerSecond * SecondsUntilReset(end, now)]

SetExpiry(p) ==
    LET g == req[p].grant IN
    /\ req[p].pc = "expiring"
    /\ Expire(g)
    /\ granted' = granted \cup {g}
    /\ Goto(p, [pc |-> "logging", grant |-> g])
    /\ UNCHANGED <<clock, count, log, attempts, life, unset, faults>>

(***************************************************************************)
(* log_attempt stamps the row with the time of the insert.                 *)
(***************************************************************************)
LogAttempt(p) ==
    LET g == req[p].grant IN
    /\ req[p].pc = "logging"
    /\ log' = log \cup {[id |-> g.id, created |-> Month(clock), status |-> "attempted"]}
    /\ Goto(p, [pc |-> "generating", id |-> g.id])
    /\ UNCHANGED <<clock, count, expiry, attempts, life, granted, unset, faults>>

(***************************************************************************)
(* mark_succeeded or mark_failed, when the generation is over.             *)
(***************************************************************************)
Outcome(p, status) ==
    LET id == req[p].id IN
    log' = {IF row.id = id THEN [row EXCEPT !.status = status] ELSE row : row \in log}

MarkOutcomeRefund(p, status) ==     \* slip: a failure gives its unit back
    /\ req[p].pc = "generating"
    /\ Outcome(p, status)
    /\ count' = [count EXCEPT ![Month(clock)] =
                   IF status = "failed" /\ @ > 0 THEN @ - 1 ELSE @]
    /\ Finish(p)
    /\ UNCHANGED <<clock, expiry, attempts, life, granted, unset, faults>>

MarkOutcome(p, status) ==
    /\ req[p].pc = "generating"
    /\ Outcome(p, status)
    /\ Finish(p)
    /\ UNCHANGED <<clock, count, expiry, attempts, life, granted, unset, faults>>

(***************************************************************************)
(* What goes wrong: Redis carries out an operation and its answer is lost, *)
(* or a handler dies before its next operation (which is also how an error *)
(* of Redis or MongoDB that had no effect ends it).                        *)
(***************************************************************************)
Fault == faults < MaxFaults /\ faults' = faults + 1

IncrAnswerLost(p) ==
    LET m == req[p].month IN
    /\ req[p].pc = "counting"
    /\ Fault
    /\ Count(m)
    /\ unset' = unset \cup {x \in {m} : count[m] = 0}
    /\ Finish(p)
    /\ UNCHANGED <<clock, expiry, log, attempts, granted>>

ExpireAnswerLost(p) ==
    /\ req[p].pc = "expiring"
    /\ Fault
    /\ Expire(req[p].grant)
    /\ Finish(p)
    /\ UNCHANGED <<clock, count, log, attempts, life, granted, unset>>

Crash(p) ==
    /\ req[p] # NoRequest
    /\ Fault
    /\ unset' = unset \cup {m \in Months : req[p].pc = "expiring" /\ req[p].grant.month = m}
    /\ Finish(p)
    /\ UNCHANGED <<clock, count, expiry, log, attempts, life, granted>>

(***************************************************************************)
(* Redis drops a key when its time comes.                                  *)
(***************************************************************************)
Due(m) == expiry[m] = clock + 1

Tick ==
    /\ clock < MaxTime
    /\ clock' = clock + 1
    /\ count' = [m \in Months |-> IF Due(m) THEN 0 ELSE count[m]]
    /\ expiry' = [m \in Months |-> IF Due(m) THEN Never ELSE expiry[m]]
    /\ UNCHANGED <<log, req, attempts, life, granted, unset, faults>>

Handler(p) ==
    \/ Begin(p) \/ Incr(p) \/ SetExpiry(p) \/ LogAttempt(p)
    \/ \E status \in {"succeeded", "failed"} : MarkOutcome(p, status)
    \/ IncrAnswerLost(p) \/ ExpireAnswerLost(p) \/ Crash(p)

Next == (\E p \in Requests : Handler(p)) \/ Tick

Spec == Init /\ [][Next]_vars

-----------------------------------------------------------------------------
GrantedIn(m) == {g \in granted : g.month = m}

(***************************************************************************)
(* The cap holds up to the last second of a month, however handlers        *)
(* overlap, fail or straddle the turn of the month: the counter cannot     *)
(* disappear before that second.                                           *)
(***************************************************************************)
CapUntilLastSecond ==
    \A m \in Months :
      Cardinality({g \in GrantedIn(m) : g.at < (m + 1) * MonthLength - TicksPerSecond})
        <= Limit

(***************************************************************************)
(* The live counter never falls behind the generations it let through, so  *)
(* a failed one keeps its unit (docs/ARCHITECTURE.md, section 13).         *)
(***************************************************************************)
CounterCoversGrants ==
    \A m \in Months : count[m] > 0 =>
      Cardinality({g \in GrantedIn(m) : g.life = life[m]}) <= count[m]

(***************************************************************************)
(* A counter without a time to live is about to get one, or an error of    *)
(* the request that created it is to blame.                                *)
(***************************************************************************)
ExpiryFollows ==
    \A m \in Months : count[m] > 0 /\ expiry[m] = Never =>
      \/ m \in unset
      \/ \E p \in Requests : req[p].pc = "expiring" /\ req[p].grant.month = m
=============================================================================
