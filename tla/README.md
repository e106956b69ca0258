# Thesdel: a TLA+ verification project

Thesdel is a FastAPI backend (`app/`, one process or several) over MongoDB and
Redis, an ARQ worker (`app/worker.py`) and a browser client (`frontend/`). Every
request handler is a coroutine: at each `await` on a database other handlers
run, in the same process or another one. Almost nothing is wrapped in a
transaction, so what the system promises rests on single-document updates, on
unique indexes and on the order of the operations in a handler. These modules
model that: one action per database operation, one record per request handler
for what it carries from one operation to the next.

## 1. Inventory

| Component | State | Operations | Hard behaviour | What makes it correct |
|---|---|---|---|---|
| Refresh sessions (`app/auth/service.py`, `repository.py`) | `sessions`: user, family, expiry, `revoked_at` | login, register, Google login, refresh, logout, revoke all on reset | rotation is find, revoke, insert; handlers overlap; a handler dies between revoke and insert; a family is revoked under a rotation in flight | no successor beside a usable predecessor; revocation is final; a family never reopens |
| Verification and reset tokens (`app/auth`) | `auth_tokens`, `email_verified_at`, `password_hash` | register, resend, request reset, verify, confirm | check then act on a document read before; burn before effect; invalidate and insert are two operations | a link acts once, for its user and its purpose; newer links supersede older ones |
| Partner streaks (`app/streaks`) | `partner_streaks` | invite, accept, check in, read with lazy reset | both partners act at once; UTC midnight; 48 hour window; compare-and-set on `last_interaction_at` | mutual opt-in; one day per calendar day; count equals the days recorded |
| Score and rank (`app/progression`) | `thesdel_score`, `rank`, `user_badges`, `seasons` | `add_score`, `refresh_rank`, badge award | increment and rank are two updates; milestone pays two users in turn | points conserved; rank follows score; a badge once |
| Usage caps (`app/usage`) | Redis counter per month, `ai_usage_log` | reserve, mark outcome, status | INCR and EXPIRE in two steps; counter and log in two stores; month boundary; fails closed | never more than the cap; a failed attempt is not refunded |
| Rate limiter (`app/shared/rate_limit.py`) | Redis counter per window | check | as above; a counter left without expiry | bounded requests per window, and a window that ends |
| Jobs (`app/shared/jobs.py`, `app/auth/jobs.py`, `app/notifications`) | ARQ queue, `sent_at`, dedup keys, `device_tokens` | enqueue (failures swallowed), send email, fan out pushes, prune dead devices | at-least-once delivery, retry with backoff, crash between send and mark, dead letter | every accepted job ends; done only when everyone due was reached; nothing mailed after the mark; no push to a device that left the user before |
| File uploads (`app/files`) | `file_uploads`, object storage | upload, download link, delete, hourly sweep | two stores, no transaction, sweep against user | no document without its object and no object without its document, but for a failed handler; everything stored goes in the end |
| Classes (`app/classes`) | `classes.member_count`, `class_members` | create, preview, join (transaction) | duplicate joins; aborted transactions, lost commits; create outside a transaction | count equals members; who is told to be in is in |
| Announcements (`app/announcements`) | `announcements` | post with its fan-out, page through, pin, edit | posts and pins between two pages; equal times; joins and failures during a fan-out | no unpinned post repeated or skipped; pushes to members, to each who is due one |
| Study and life planner (`app/litheral`) | `study_plans`, `life_schedule_blocks` | generate, regenerate a block, build the week | delete-then-insert; slot chosen against stale blocks; interval arithmetic | blocks inside the window, off classes, apart, within the budget; a store holds one generation |
| Study reminders (`app/litheral/study/jobs.py`) | dedup keys | remind of the blocks of the next day, of the next minutes | weekly times around midnight and the end of the week | each block that begins in the window, once |
| Timetable, routines | one document per entry | create, update, delete | a PATCH of one time alone | what the planners take for granted of an entry |
| Authorization (`app/shared/deps.py`) | none | resolve user, tier, membership per request | none | reads fresh data each time |
| Browser client (`frontend/src/lib`) | access and refresh token in storage | auto-refresh once, logout | single flight per tab only; late answers after logout | one refresh per token; signed out stays signed out |

How they interact: `auth` hands tokens to the mail jobs through
`shared/jobs.py`; a confirmed reset revokes the user's sessions; `streaks` pays
milestones through `ProgressionService.add_score`; the planners reserve a unit
of `usage` before they work and read `timetable` (and `routines`, for the life
planner); `announcements` reads `classes` for the members and enqueues pushes
through `notifications`, and so does the life planner for conflicts; the client
drives refresh and logout. MongoDB and Redis are the only shared state.

The hazards of the code, each at its line, are in `PROJECT.json`.

## 2. What is modelled

Common conventions. A request handler `p` has a record `req[p]`; `pc` names the
operation it performs next, the other fields hold what it read. `Crash(p)`
drops a handler at any await (a killed process, a cancelled request). A
`find_one` with the checks that follow it up to the next await, an
`update_one`, an `update_many`, an `insert_one` and a `find_one_and_update` are
each one step. Taking `update_many` as one step is an assumption about
MongoDB, which applies it document by document: a write that runs while such an
update is under way counts here as before or after all of it. Ids are positions
in insertion order unless a module says otherwise; hashes, tokens and addresses
are those ids. The later modules have one failure action per handler or job in
place of `Crash`. Definitions whose comment begins with *slip* are mistakes the
specification does not use: each run is repeated with one of them in place of
the definition after it, to see that the property notices.

### Sessions, SessionFamilies

`Sessions` models `login`/`register`/`google_login` (their last step, the
insert), `refresh` (`RefreshAccept`, `RevokeRotated`, `IssueSuccessor`; or
`RefreshReuse`, `RevokeFamily`), `logout` (`Logout`, `RevokeOwn`), the last
step of `confirm_password_reset` (`RevokeAllForUser`), expiry and crashes.
`parent` and `by` of a row and the variable `condemned` are history.
Sessions share one time to live, so they expire in insertion order. A rotated
token whose row the TTL index removed is refused without a trace, as an unknown
token is.

`SessionFamilies` is what the handlers promise about a family: unborn, then
open, then closed, and never open again. `FamilyLifecycle` is that
specification under the mapping `familyPhase`; a family counts as open while
something in it is usable or a rotation of it is in flight.

Run `sessions` (2 users, 2 handlers, 3 sessions, about 187,000 states): the
invariants `RotationOrder`, `OneExchangePerHandler`, `CondemnedStayDead` and
the refinement `FamilyLifecycle`. Two handlers are what every race here needs;
three sessions give a login, a rotation and a sibling or a second family.

Run `rotation_race`: `ExchangedOnce`, the promise of `docs/SECURITY.md`, fails:
`refresh` revokes by `_id` without requiring that `revoked_at` is still unset.

### AuthTokens

Issuing (`Request`, `Invalidate`, `Insert`), and redeeming (`Present`,
`MarkUsed`, then `MarkVerified` or `UpdatePassword`). Requests from `register`,
`resend_verification` and `request_password_reset` differ only in purpose and
in the check that the user is not verified. A redeemed token that is presented
again changes nothing whichever answer it gets. `GoogleUsers` are born verified.
`seen`, `redeemed` and `applied` are history. Whether the mail arrives is not
modelled here (`Jobs` does): an inserted token may be presented.

Run `auth_tokens` (2 users, one from Google, 2 handlers, 2 tokens, about
196,000 states): `IssueSupersedes` (what a newer link does to older ones),
`EffectsOwned` (right user and purpose), `RedeemedTakesEffect` (a burnt link has
its effect unless its handler died), and the action property `DeadStaysDead`.

Run `reset_single_use` shows that a reset link is not single-use under overlap.

### Streaks

`invite`, `accept`, `check_in` and the `add_score` calls of a milestone. Time is
a clock in ticks; a handler decides with the clock it reads at `CheckInFind`
and the write stores a date read between that and the write, so a decision made
before midnight may be stored after it. `log` records every accepted day,
`lost` the points that died with a handler; `Owes` says what a live one has
yet to pay.

Run `streaks` (one pair, 2 handlers, days of 2 ticks, a window of 4 ticks, a
milestone every 2 days, clock to 7, one crash, about 290,000 states):
`MutualOptIn`, `OncePerDay`, `StreakCountsLog`, `AwardsAddUp`, `RankNotAhead`.
The constants of the code (48 hours, every 7th day, 10 points, thresholds at
100 and up) are parameters, scaled so that a broken streak, two milestones and
two ranks fit in four days. The clock bound ends the model, so deadlock is not
checked there.

### UsageCap

`check_and_reserve` for one user and one capped feature: `Begin` names the key
of the month, `Incr`, `SetExpiry` for the first of a counter, `LogAttempt`, then
`MarkOutcome`. Redis drops a key when its time comes (`Tick`). An operation may
be carried out while its answer is lost (`IncrAnswerLost`, `ExpireAnswerLost`);
an error without effect, or a dead process, is `Crash`. Time has ticks shorter
than a second since `EXPIRE` counts whole seconds. An unlimited feature skips
Redis and only writes the log; it is left out.

Run `usage_cap` (2 handlers, a limit of 2, months of three seconds of 2 ticks,
clock to 7, 3 reservations, one fault, about 1,520,000 states):
`CapUntilLastSecond`, `CounterCoversGrants`, `ExpiryFollows`. The clock passes the turn of the month, so a reservation
begun before and counted or expired after it occurs. A month of a few seconds is
enough because only its end, and readings of the clock on either side of it,
are special. The clock bound ends the model, so deadlock is not checked.

### Files

An upload is an object in storage and a document in MongoDB: `Upload`,
`PutObject`, `InsertDoc` for `upload_timetable_import`; `DeleteDoc`,
`DeleteObject` for `delete`; `SweepStart`, then `SweepObject` and `SweepDoc` per
entry for the hourly `cleanup_abandoned_file_uploads`. `created_at` is the time
read after the object was put. `HandlerFails` and `SweepFails` end a run between
any two of these: a storage or MongoDB error that nothing catches, or a dead
process. `orphaned` and `bared` are history and say what such failures left.

Run `files` (2 handlers, 2 sweeps at once, 2 uploads, a sweep of at most one
entry so that the cap bites, 2 failures, about 21,000 states): `DocsBacked`,
`OrphansExplained`, and under `FairSpec` the liveness property
`EventuallyErased`. Uploads end at `LastUpload` and the clock goes past it by
more than the time to live, so every upload grows old enough to be swept.

### Jobs, Delivery

`Jobs` models the two email jobs and the push job, what ARQ does with them
(`Begin`, `Finish`, `StoreFails`, `WorkerDies`, and `TooMany` for its own
`max_tries`), and the device registry beside them. A provider may accept a
message and its answer be lost, so a retry may send it again. An attempt of a
push lists the devices first and works through them while they are handed over,
unregistered, retired by FCM or pruned. `moved`, `listed`, `met`, `deaths` are
history.

`Delivery` is what `docs/ARCHITECTURE.md`, section 8, promises: a job accepted
is settled once, done only if everyone found due was reached, and always in the
end. `KeepsPromise` is that specification under the mapping `Outcome`, its
liveness included.

Run `jobs` (one job at a time of the two kinds, 2 devices, 2 users, dead letter
at the second attempt, drop after the third, three changes of the devices, about
79,000 states): `MarkedNotMailed`, `DroppedAfterDeaths`, `PushesToOwnDevices`,
`KeepsPromise`. A mail and a push share nothing but the queue, which treats jobs
independently, so one job at a time loses no interleaving of a property here;
the constants keep the relation of the code (`max_tries` is one more than
`MAX_TRIES`).

### StudySolver, LifeSolver, Reminders, Solvers

The pure algorithms as functions: `generate_study_blocks` and
`find_replacement_slot`, `build_life_schedule`, and which blocks a run of a
reminder job finds due. `Solvers` takes one input, computes one answer and
compares it with a definition by sets of units of time, which knows no cursor, no
sort and no sweep. Every loop of the code is a recursive function of the number of
its passes, and a sort is an order that exists (`ByStart`, `Ranked`): forms the
provers can expand. `Solvers` calls its initial states and step `Given` and `Solve`,
since `PlannerProofs` takes it together with `Planner`.

Run `solvers` (about 226,000 states, half of them inputs): `GenerateSound`
(window, lengths, classes, budget, nothing left that would have fitted, fair
shares by rank), `ReplacementSound`, `LifeSound` (nothing lost or moved that need
not be; the flag exactly on conflicts), `RemindersSound`. A unit is a quarter of
an hour, so 2 and 4 units are the program's own 30 and 60 minutes; the study
window is cut from 56 units to 13 and the budget to 8, which keeps every
branch: gaps too short, chunks cut to the budget, intervals nested, touching and
beyond the window. For the reminders a week has three days of four ticks. `MCProper`
evaluates on these inputs the hypotheses under which the four properties are proved
(section 4).

### Planner

The stores the solvers write and the calls that do it: `generate` (one step of
reading and computing, since a body that names its subjects and one that does
not both read the timetable once; then `DeleteAll` and `InsertAll`),
`regenerate_block` (`RegenerateFind`, `Read`, `Choose`, `Update`), and the life
planner's `_run` (three reads, the layering, the rewrite, then the conflict
push: `DedupOrSkip`, `EnqueuePush`). Entries of the timetable are created,
patched and deleted and the routines change between any two steps. The cap
around the calls is `UsageCap`'s.

`mixed` says that a store was last written by a call that another had overtaken,
`cut` that a rewrite ended between its two steps: what remains is claimed for
every other case. `wrote` holds the ids of a store's last rewrite. Run `planner`
(two calls at a time, three in all, two edits, one fault, a day of six units, about
872,000 states): `PlanDisjoint`, `StoresWhole`,
`TellsOnce`. A third call is what it takes to run into the first after a second
one wrote; one entry and one routine give a conflict and its absence.

Run `inverted_entry`: with a PATCH that sets the start alone, `PlanDisjoint`
fails without any overlap of calls (section 3).

### Classes, Announcements, ClassFeed

`Classes`: `create_class` (`PickCode`, `InsertClass`, `AddRep`, no transaction)
and `join_class` (`JoinFindClass`, `JoinFindMember`, then `JoinAdd`, `JoinCount`,
`JoinCommit` in a transaction, `JoinAgain` after any exception). MongoDB's
transactions are external: a write conflict, or the unique index, aborts; a commit
may take effect while its answer is lost (`CommitFails`).

`Announcements`: posting with its fan-out, an enqueue or the request failing in
it, pins, and one reader's walk through the feed (`ListPinned`, `ListPage`). A
page is a set, the newest `PageSize` of what the query finds; the order within a
page is left out, but for the last post, which the cursor names.
`_id`s and times need not agree: the times come from the clocks of several
processes, so a later post may sort before an earlier one, also behind the cursor.

`ClassFeed` composes the two for the first class (INSTANCE with the members and
reps of `Classes` for `enrolled` and `reps`): joins go on between the listing of
the members and the pushes. Run `class_feed` (2 requests, a rep and 2 students,
2 creations and 2 joins, 2 posts that may share a time, pages of one, one change
of a pin, a fault in each part, about 1,209,000 states): `CountExact`,
`AnswersTrue`, `WalkComplete`, `PushesRight`. Requests and the two students are
symmetric; no property tells them apart. With pages of one every post is a page
boundary, where the cursor can go wrong.

### Fairness

Safety properties assume none. Two specifications assume weak fairness:

- `Files!FairSpec`: a running handler goes on until it ends or fails, time
  passes, and each sweep takes its steps, since `WorkerSettings.cron_jobs` runs
  one every hour. Failures are bounded, so in the end a sweep runs through; with
  unboundedly many failing sweeps nothing need be erased.
- `Jobs!FairSpec`: some worker goes on with a job that is queued or runs
  (`Work(j)`), as ARQ's poll loop does. Workers may die without a bound;
  `max_tries` ends such a job.

## 3. Where the code departs from its documents

Shown by a run, each in `PROJECT.json` with the line it contradicts:

- `rotation_race`: two overlapping refreshes of one token both succeed.
- `reset_single_use`: two overlapping confirmations of one reset link both set a
  password.
- `inverted_entry`: a PATCH can store an entry that ends before it starts, and
  the study plan made from it overlaps itself.

Met while modelling; the properties named above state what does hold beside them:

- Two overlapping requests for a link leave both usable, against ADR-010
  (`app/auth/repository.py:143`).
- Of two overlapping awards the lower score may store its rank last, and
  `users.rank` stays behind until the next award (`app/progression/service.py:154`).
- `_seconds_until_reset` truncates, so the counter of a month disappears within
  its last second and a new one starts (`app/usage/service.py:50`).
- `find_replacement_slot` gives back the slot a block has when the day offers no
  other, and does not look at the day's budget.
- `_find_free_slot` of the life planner does not cut the gap before a block at
  the end of the window, so a moved routine may end after it.
- `regenerate_block` of a block that a generation deleted meanwhile is counted
  as a success and then ends in an error.
- One storage error in the hourly sweep ends the whole run, and the other
  entries wait for the next.
- A link that was superseded before its mail was sent is still mailed.
- A crash between the two inserts of `create_class` leaves a class without a rep.
- Two joins of different users that count the same class at once are a write
  conflict; one of them ends in a Conflict and nothing retries it
  (`app/classes/service.py:67`).

## 4. What is proved

Each proof module proves about the component's specification as it stands, for
every value of the constants that satisfies the assumption in the component's
module: any users, any number of handlers at work at the same time, any bounds.
The assumptions are the types and these facts of the code: `MaxTries \in
1..QueueTries` (`MAX_TRIES` is 5, ARQ's own `max_tries` 6), disjoint kinds of
jobs, `Milestone > 1` (it is 7; `accept` records the first day of a streak and
rewards nobody), `user_a < user_b` in a pair, page sizes, limits and lengths of
time above zero. TLC evaluates them in the runs.

Every module has an inductive invariant, lemmas that each action keeps it,
and the theorems as its consequences. The properties alone are not inductive;
what has to be added is what a handler still relies on when it resumes after an
await.

| Module | Theorems | What the invariant adds, and why |
|---|---|---|
| `SessionsProofs` | `TypeCorrect`, `RotationOrderHolds`, `OneExchangePerHandlerHolds`, `CondemnedStayDeadHolds`, `SerialRotation`, `Refinement` | `FamilyBound`: a family is named by a session of its user, not younger than its members, or a login could land in an old family. `RevokedBeforeIssue`: who is about to insert a successor has revoked the predecessor. `NotExchangedAgain`: who rotates a session has not exchanged it before |
| `AuthTokensProofs` | `TypeCorrect`, `IssueSupersedesHolds`, `EffectsOwnedHolds`, `RedeemedTakesEffectHolds`, `DeadStaysDeadHolds`, `SeriallySingleUseHolds` | `InsertingSeen`: the row is still to come when its predecessors are used up. `SeenEarlier`: a row does not supersede itself. `RightEndpoint`, `ApplyingBurnt`: what a handler holds between burning a link and acting on it. `AppliedSpent`: a handler that acted has let go of the link |
| `StreaksProofs` | `TypeCorrect`, `MutualOptInHolds`, `OncePerDayHolds`, `StreakCountsLogHolds`, `RankNotAheadHolds`, `AwardsAddUpHolds` | `AcceptInv`, `CheckInv`: what a handler derived from a row is still right while `last_interaction_at`, which only rises, has the value it read; this is where the compare-and-set is needed. `RankInv`: a score only grows while its rank is on the way. `AwardInv`: each milestone has a debtor for each partner until it is paid or dies |
| `UsageCapProofs` | `TypeCorrect`, `CapUntilLastSecondHolds`, `CounterCoversGrantsHolds`, `ExpiryFollowsHolds` | `ReservationInv` and `CounterInv`: a reservation of the key's current life was counted by it. `LifeInv`: the first life of a key lasts to the last second of its month, from the lemma `ExpiryLate` on truncated seconds. `AttemptsCover`: the counter is finite |
| `JobsProofs` | `TypeCorrect`, `MarkedNotMailedHolds`, `DroppedAfterDeathsHolds`, `PushesToOwnDevicesHolds`, `SafeDelivery` | `DeathsCounted`: the deaths along the attempts, from which the drop follows. `MailMet`, `PushMet`, `DoneMet`: whoever an attempt need not reach any more was reached or is dead, which is what settling a job as done means in `Delivery` |
| `FilesProofs` | `TypeCorrect`, `DocsBackedHolds`, `OrphansExplainedHolds`, `OwnKeysHolds` | `OwnKeys`: at most one handler has a key, and no document does then. `SweptWereInserted`: no sweep has a key in hand before its document was there. `StoredBeforeInsert`, `ErasedBeforeDocument`: the order of the two stores, up and down |
| `ClassFeedProofs` | `CountExactHolds`, `AnswersTrueHolds`, `PushesRightHolds`, `WalkCompleteHolds` | `KeysFree`: two open transactions that got past the insert hold different keys, which nobody has; so a commit adds one member to the count it adds one to. `RepsApart`, `MembersKnown`: the creator comes into a class without members. `PosterInv`: the members only grow between a request and its fan-out. `WalkInv`: what was shown does not lie before the cursor, what is due was shown or does |
| `PlannerProofs` | `TellsOnceHolds`, `StoresWholeHolds`, `PlanDisjointHolds`; `GenerateSoundHolds`, `ReplacementSoundHolds`, `LifeSoundHolds`, `RemindersSoundHolds`; `GeneratedPlanSound`, `ReplacementSlotSound` | `PushesCovered`: each push, and each call about to enqueue one, was let through by the one setting of the key or by a fault. `Undisturbed`: a call between `delete_many` and `insert_many` finds its store empty, or knows that another wrote it. `SlotsFit`: the slot a regenerate chose is clear of the other blocks for as long as nobody told it that they changed. The solvers take one step, so the theorems on them are about functions: the invariants are those of their loops (below) |

`PlanDisjointHolds` assumes that an entry ends after it starts (`EntriesForward`);
without that the property is false, as `inverted_entry` shows. `StoresWholeHolds`
and `TellsOnceHolds` assume nothing of the timetable or of what the solvers answer.

The four theorems on the solvers assume of their inputs what is named in `Solvers`:

- `GenerateProper`, `ReplaceProper`, `LifeProper`: classes, blocks and routines end
  after they start. `create` requires it of an entry; a PATCH does not, and what
  follows from an inverted entry is `inverted_entry`, not a theorem.
- `GenerateProper`: the subjects have distinct names. They do when they come from the
  timetable; a body may name one twice, and that name then gets the blocks of both.
- `LifeProper`: routines that differ have different ids, which are their `_id`s.
- `RemindProper`: blocks begin at a tick of the week, as the solver's blocks do.

The inputs are otherwise arbitrary (finite, their times whole numbers), and so are
the window, the lengths, the budget, the horizon of urgency, the week and the day.
With these four, every invariant that a passing run checks is stated by a theorem.

Five theorems state what no run checks as it stands. `GeneratedPlanSound` and
`ReplacementSlotSound` are about the study solver alone, for every set of busy
intervals, every list of subjects and all lengths of time: the part of
`GenerateSound` and `ReplacementSound` on window, lengths and overlaps.
`SerialRotation` and
`SeriallySingleUseHolds` say that the races of `rotation_race` and
`reset_single_use` take handlers that overlap: what one handler does after the
other exchanges a token, or applies a link, once. `OwnKeysHolds` is the fact
about keys that both properties of `Files` rest on.

Two refinements are proved as safety: `Refinement` (`Spec => FamilyLifecycle`)
shows for each action how the phase of the one family it touches may move, and
`SafeDelivery` that each step of the queue and its workers is a step or a stutter
of `Delivery`, of one job.

Arguments worth knowing before a change of the code:

- Sets of reservations, of debtors and of members are counted by what one step
  adds or takes (`FiniteSetTheorems`), so no proof needs a bound on them.
- The order of the feed is a lemma about time and `_id` (`FeedOrder`). A page
  is the posts with fewer than `PageSize` ahead of them; `FrontShort` (a page
  that is not full is everything) takes the first post left out, which exists
  because numbers are well founded (`Least`).
- The points add up because the only step that records a rewarded day makes the
  handler a debtor of both partners in the same step; with `Milestone = 1` this
  fails, since `accept` records a day and pays nothing.

- The loops of the study solver are recursive functions over `0..n`. `Recursion`
  shows that such a function exists and takes the values its body says, once its
  steps stay within a set; then each loop has an invariant, shown by `UpTo`. That
  of the sweep (`FreeSound`, `SweepSound`) says that a gap is clear also of the
  intervals still to come, which is what the sort by start is for; it needs
  intervals that end after they start.

- The budget of a day is counted by units: `used` is the number of units the day's
  blocks take (`Spent`, `Used`), because each block begins where the ones before it on
  the day have ended (`Awaits`), so it takes units that are not taken yet.
- That a day with budget left has no free stretch (`DayDone`) is shown along the
  chunks: one that was passed is a block now, or the budget was already too short for
  it, and then it stays too short (`PlaceOnCourse`, `StudyDayOnCourse`). What is free
  of the classes lies in a gap the sweep found, and a gap cut into chunks leaves less
  than a shortest block at its end.
- The fair shares are those of dealing in turn: the blocks of a subject are the
  positions of the plan with one remainder (`TurnOf`), and moving each back by the
  distance of two subjects, or to the round before, is an injection (`TurnsShared`).
  The ranking exists because `RanksBefore` is total and transitive (`OrderExists`).
- In the life schedule an entry never changes once it is placed: it was put in with a
  flag that says whether the time was taken by what stood before it, and that is what
  `LifeSound` asks at the end. A flexible routine is moved to the first gap that takes
  it, so a flag on one means that no gap did.
- The reminders reduce to one fact about remainders: a window of absolute ticks meets
  a weekly block's time exactly when some number of whole weeks leads from one to the
  other, on whatever side of midnight or of Sunday it lies.

Left to TLC: liveness under fairness (`EventuallyErased`, and the liveness of
`KeepsPromise`), and `ENABLED`.

## 5. Plan

Models left: `Client` (tabs, single flight) over `Sessions`, and a password reset
over `AuthTokens` and `Sessions` with logins that checked the old password.

## 6. What is not modelled

- The rate limiter: its INCR and EXPIRE are those of `UsageCap`, on keys of their
  own; it differs in that nothing sets a missing expiry later.
- Badges and seasons: nothing in the source calls the award of a badge, which is
  one insert under a unique index, and seasons are only read.
- The browser client, which is in the plan, and the pages of the frontend.
- Authorization: checks on documents read afresh in each request, no state; the
  rep check is the guard of `Post`.
- Image decoding and re-encoding (reduced to which images are accepted), hashing
  and JWTs, HTTP formats, configuration, wiring and logging.
- The loop of the reminder jobs over the users, and their enqueue; the worker
  registers neither job, so they never run.
- Class timetable entries, which nothing modelled reads.
- The seed migration: static data, inserted once.

The uniqueness and TTL indexes of `app/shared/db.py` are assumed. Weak points of
this abstraction: an `update_many` or a `delete_many` is one step, and so is the
read of a cursor.

## 7. Running

`tlc -config MCSessions.cfg MCSessions`, and likewise for the other modules
whose names begin with MC. Three further configurations end in a counterexample:
`MCSessionsRotation.cfg` (of `MCSessions`), `MCAuthTokensSingleUse.cfg` (of
`MCAuthTokens`) and `MCPlannerPatch.cfg` (of `MCPlanner`). The proofs:
`tlapm SessionsProofs.tla`, and likewise `AuthTokensProofs`, `StreaksProofs`,
`UsageCapProofs`, `JobsProofs`, `FilesProofs`, `ClassFeedProofs` and
`PlannerProofs`.
