# Formal verification of quotaguard

quotaguard decides whether a request made with an API key may go ahead.  Every
check runs one Lua script in Redis that charges three layers together: a token
bucket per resource (*burst*), a sliding-window log per resource (*sustained*)
and a monthly counter per key (*quota*).  Around the script are a cache of keys,
an admin API and a CLI over SQLite, a rollup job that persists the monthly
counters, and a webhook outbox for the warning that a key has reached its soft
threshold.

This directory holds TLA+ models of these parts, the TLC configurations that
check them on small instances, and TLAPS proofs of the safety properties for all
values of the constants, the refinement included: 32 of the 36 properties that
passing runs check.  The other four are liveness and stay with TLC.

    tlc -workers 2 -config CheckScript.cfg CheckLuaMC
    tlapm CheckScriptProofs.tla
    tlapm OnePlanProofs.tla

## 1. Inventory

| Component | Source | State | Operations |
| --- | --- | --- | --- |
| Admission script | `app/lua/check.lua`, `services/checker.py` | Redis: bucket hash, window zset, quota counter, soft flag, each with a TTL | one atomic run per check: refill, trim, decide, consume or deny, report |
| Civil calendar | `app/lua/check.lua:38-80` | none | days to date, date to days, month end |
| Key cache | `services/keycache.py` | `_cache`, `_generation` | `resolve`, `_load` (threadpool), `invalidate` |
| Administration | `services/plans.py`, `services/keys.py`, `routers/admin.py`, `cli.py` | SQLite `plans`, `api_keys` | create and update plans; issue, update, revoke keys |
| Check endpoint | `routers/check.py`, `services/checker.py` | none of its own | resolve, run the script, choose the reported layer, enqueue the warning |
| Redis client | `app/redis_client.py` | script SHAs, one connection pool | register, EVALSHA with one reload on NOSCRIPT, close |
| Rollup | `services/rollup.py` | Redis lock; SQLite `rollups` | lock, scan, upsert, restore, reconcile, release |
| Webhooks | `services/webhooks.py` | SQLite `webhook_outbox` | enqueue, deliver a batch, back off, exhaust |
| Scheduler | `app/scheduler.py` | two tasks on the event loop | run deliveries every 5 s and rollups every `ROLLUP_INTERVAL_SECONDS` |
| Usage report | `services/usage.py` | none of its own | the live month (two reads of Redis), then its history (SQLite) |
| Settings, logging, errors, health, auth | `config.py`, `logging.py`, `errors.py`, `deps.py`, ... | none beyond a request | |

**Interactions.**  A check resolves its key through the cache on the event loop,
passes the key's limits to the script as arguments, so that limits may be as
stale as the cache, and, when the script reports `soft_crossed`, inserts an
outbox row in the threadpool before it answers.  Admin handlers run in threadpool threads of the
same process and call `invalidate()` there; the CLI is another process, whose
`invalidate()` clears a cache nobody reads.  The rollup reads the quota counters
and flags that checks write, and inserts outbox rows that the check path also
inserts; delivery reads plans that admins change.  The scheduler calls delivery and
rollup on the event loop itself, so a pass holds up every check of the process.  A
usage report reads the counters of Redis and then the rows of SQLite.

**What is hard.**  The script itself is atomic, but its state expires, its clock
may regress across a failover, its arithmetic rounds, and its limits change under
it.  The cache is written by the event loop and by threads.  Rollup runs overlap
once one outlasts its lock.  A command to Redis may time out before or after the script
ran, and Redis may forget the script.  A process may end between any two of Redis, SQLite
and the POST.  `PROJECT.json` lists each of these hazards at its line.

**What makes each part correct.**

* Script: nothing is over-admitted by any layer in spite of expiry, rounding, clock
  regression and changing limits; a denial leaves no trace; the warning comes exactly
  once; the reported values mean what the headers say.
* Calendar: every day belongs to the right month, which ends when it ends.
* Cache: what a check is told was true less than a TTL ago; the cache is bounded.
* Rollup: runs exclude each other; rows are only raised; every count and every
  warning is persisted unless it is lost first.
* Request: a check is charged at most once and as its answer says, waits for a
  bounded time, fails only for a reason, and is answered; one header tells the truth about
  three layers.
* Administration: concurrent mutations keep what each of them relied on.
* Usage report: figures are never invented, and final once a month is over; each month
  asked for is listed once.
* Webhooks: attempts are bounded, spaced by the backoff, and every row settles.

## 2. Modules

| Module | Models | Lines of the source |
| --- | --- | --- |
| `CheckScript` | the script for one key, over resources, months and plans | `check.lua:67-209`, `checker.py:92-103` |
| `Admission` | what the script promises: a bucket that fills by itself, a log, the spending | abstract |
| `CheckScriptRefinement` | the mapping from `CheckScript` to `Admission` | |
| `CheckResponse` | the answer made of a reply: the layer the header speaks for | `checker.py:106-187` |
| `CheckScriptMC` | the plans for TLC | |
| `CheckLuaMC` | `CheckScriptMC` and `CivilDates` in one run | |
| `CheckScriptProofs` | theorems about `CheckScript` for all plans and clocks | |
| `OnePlanProofs` | theorems about `CheckScript` and `CheckResponse` under one plan, and the refinement of `Admission` | |
| `CivilDates` | the calendar, next to one turned day by day | `check.lua:38-80` |
| `CivilDatesProofs` | theorems about the calendar | |
| `KeyCache`, `KeyCacheMC` | the cache and every mutation, with threads, CLI and restart | `keycache.py`, `plans.py`, `keys.py`, `admin.py`, `cli.py` |
| `KeyCacheProofs` | theorems about `KeyCache` | |
| `CheckRequest` | a check on the event loop: registry, timeouts, faults of Redis and of the process | `routers/check.py`, `redis_client.py`, `scheduler.py`, `main.py` |
| `CheckRequestProofs` | theorems about `CheckRequest` | |
| `Rollup` | a rollup run statement by statement, the check path, crashes and data loss | `rollup.py`, `webhooks.py:67-112` |
| `RollupProofs` | theorems about `Rollup` | |
| `Delivery` | delivery passes, retries, faults | `webhooks.py:115-238` |
| `DeliveryProofs` | theorems about `Delivery` | |
| `UsageReport` | a report against checks, rollups, the turn of the month and data loss | `usage.py` |
| `UsageReportProofs` | theorems about `UsageReport` | |

### CheckScript

`bucket`, `window`, `wexp`, `quota` and `flag` are the Redis keys with their
expiry; an absent key is one whose expiry has passed.  A run of the script is one
step, `Allow` or `Deny`, since Redis runs it serially.  Time counts in ticks and
tokens in microtokens, `UTOK` of each to a second and a token (a million in the
source, two in the runs), which keeps the arithmetic of the source and its
rounding.  The doubles of the refill are a nondeterministic choice, `Roundings`: the
credit may fall one microtoken short, or the time it is charged a tick long.
Members of the window are records of the requests they stand for.  The random
`request_id` is the running total of the admitted cost, which no two requests on a
resource share.  `Regress` is a failover to a Redis whose clock is behind;
keys that had expired may or may not have been purged by then.  The variables after
`reply` are history and no guard reads them.

A key whose monthly limit or threshold changes, or a cache that is stale, lets
checks under several `Plans` alternate: each check picks one.  Two
properties need what the plans agree on: `SameWindow` (the trim
by a plan with a short window forgets members that a longer one still counts, and the
TTL is that of the last plan) and `GraceCovers` (the minute of grace in the bucket's
TTL covers a refill of the largest capacity at the highest rate; otherwise a bucket
that expires under a fast plan is full under a slow one).  Both are stated as hypotheses
of the properties, and both are true of one plan that does not change.

### CheckResponse

Operators over the `reply` of `CheckScript` and two properties that relate the answer to what
the next check would get, so it is checked in the run of the script.  `Tighter` compares the
ratios as integers: two quotients of the source are equal doubles when the ratios are
equal.  `to_out` keeps the fields that headers render.

### CheckRequest

The handler of each request is at one of its awaits: `load` (SCRIPT LOAD), `eval`
(EVALSHA) or `thread` (the outbox insert); between two of them it does not give
up the loop.  `resolve()` succeeds (`Arrive`) or fails (`LookupFails`) in one step here and is
taken apart in `KeyCache`; the script is
reduced to what charges the counter and sets the flag.  `Pass` takes the loop for some
ticks, during which nobody is resumed while Redis goes on and timers run down.  A timer that
is due when the loop goes on cancels the await even if the reply is there, which is what
asyncio's timeout does.  redis-py makes no retry of its own by default.  `Stall`, `Stop` and
`Start` are Redis, whose data is kept and whose script cache is not; `Restart` is the
server process, whose preload `load_all` may fail.  `Reject` is a Redis that is up and
answers a command with an error, and `SourceFails` a script file that cannot be read when it is
due to be loaded.  A command that was sent and given up
on is a `stray`: Redis may still run it.  `failures` records which request met which of these,
and `disturbed` which met a stall or a stop.  Time stands still for what takes
no time (`Settled`).  A command is taken to find an open connection: opening one may take
a timeout of its own.  All requests are for one key and cost one.

### KeyCache

A mutation reads and checks (`Begin`), commits the columns it changed (`Commit`), and
invalidates in two steps (`Bump`, `Clear`), as the assignments of
`invalidate()` are.  A check that misses is `Miss`, `Load` in the threadpool, then
`Keep` or `Discard`, and `Store`.  `LoopFree` is the event loop: no other check runs
between `Keep` and `Store`, but admin threads do.  The CLI's sessions commit to the
same rows and invalidate nothing here.  `views` remembers what the row said in each
second.  A miss takes the generation in the same step in which it finds no entry:
these are two statements, and a bump between them has the effect of one before both.

`Request` is the admin API and `Command` the CLI: they call the same services, but no command
updates a plan.

### Rollup

`run[r].pc` is the next Redis command or SQL statement of runner `r`; checks and other
runners go between any two.  At this commit `services/rollup.py` cannot be imported: it takes
`get_pool` from `app.redis_client`, which does not define it, and with it fails whatever imports
it (the scheduler and `main.py` among them).  The module is modelled as it is written, with
that pool as an external part.  Whether such a pool decodes its replies is not known, and `release_lock`
compares the reply of GET with a string, so `Decodes` has both cases.
A check costs one, and one month is modelled.  `quota_limit` of a row is left out.
`restore.lua` and `unlock.lua` are not reached at this commit: `restore_from_rollup`
reads `registry.scripts`, which the registry does not have, catches the AttributeError and
restores nothing; and no registry is set on the pool.

### Delivery

One pass after another over the batch of rows that were due when it began.  `Post` and
`Record` are separate: the process may end between the two.  A row keeps how many ticks
it has to wait instead of its `next_attempt_at`, and the jitter is any
wait between 0.8 and 1.2 times the backoff.  SQLite scans the outbox by id, since no
index covers the filter.  The service is documented as a single instance, so one loop
delivers.  `Unhook` is one way: once a plan loses its webhook, it does not come back.

### UsageReport

`Ask`, `ReadCount`, `ReadFlag` and `ReadHistory` are the statements of `get_usage_report`
between which something else can happen; an error of Redis or of SQLite leaves its part
out, as the code does.  The month is taken from the clock once.  A rollup is one step, and
at least one goes through in a month, since `ROLLUP_INTERVAL_SECONDS` is at most a day (and
not 0).  A quota key outlives its month by 45 days, that is by one whole month and part
of the next (`Outlives`).  `quota` and `remaining` of an entry are left out: the live month
reports the limit of today and a row the limit of the run that raised it last.
`services/usage.py` imports the missing `get_pool` too, so it cannot be imported either; it is
modelled as it is written.

## 3. Model checking

| Run | Shows | Bounds |
| --- | --- | --- |
| `check_script` | one plan, steady clock: replies and the header made of them are honest, keys expire after their month, a denial leaves no trace, the warning is neither missed nor repeated, the script implements `Admission`; month, inverse and month end agree with a calendar turned by hand | 1 resource, costs 1 and 2, 8 ticks (4 s), months of 3 s; every day of 1970-2370, a full Gregorian cycle |
| `check_script_drift` | two plans alternate, the clock regresses: no layer over-admits, one warning a month | 2 resources, 5 ticks, skew 1, months of 2 s |
| `key_cache` | what a check is told was true less than a TTL before it asked; the cache's bound; a lookup overtaken by an invalidation never finds the generation unchanged; a revocation is final | 1 check, one admin and one CLI session, 2 commits, TTL 2 s, 3 s, room for 1 entry |
| `rollup` | mutual exclusion, rows only raised, counts and warnings persisted | 2 runners, 3 checks, threshold 2, 2 faults |
| `check_request` | charged at most once and as answered, bounded waits, errors only for a reason, every check answered | 2 checks, quota and threshold 1, timeout 1 tick, a pass of up to 2, 2 faults, error replies and failed lookups among them |
| `usage_report` | nothing invented, closed months final, flag not behind the count | 4 months, 2 checks in each, 1 and 3 months asked for, 1 data loss |
| `delivery` | attempts bounded and spaced, every row settles | 2 rows, batch of 1, 3 attempts, 1 fault |

Why these bounds are enough.  `check_script` fills and empties a bucket of three tokens,
reaches the window's limit and the quota, crosses the threshold, lets the bucket
and window expire and enters the next month.  In
`check_script_drift` each layer is the binding one for some plan, the
threshold of one plan is crossed after that of the other, and a TTL passes before a
regression that would revive the key.  Two resources show that
they share the quota and nothing else.  In `key_cache` a second commit is what it
takes to invalidate after the one that was loaded, or to write a key that was revoked
since it was read.  In `check_request` a quota of one makes the two checks compete, a pass of two
ticks outlasts the timeout, and two faults stop Redis twice, before and after the
reload, or end both Redis and the process.  In `usage_report` a counter can expire in the fourth
month at the latest; in `rollup` two runners and two faults give
a crash with the lock held and a loss of data during a run.  The calendar repeats
every 146097 days, and the run covers each day of that cycle; it shares no state with the
script, so `CheckLuaMC` explores one after the other.

The definitions named `Slip...` are the mutations that show each property can fail: a slip
that a maintainer could make (a `<` for a `<=`, a key that expires too early, a
forgotten reset), defined before the definition it corrupts.  With the
slip in its place, TLC finds the property violated under the run's own
configuration.  `PROJECT.json` names one for each property.  They are part of no
specification.

### Fairness

* `Rollup`: weak fairness of each runner's next step and of the lock's expiry.  The
  loop in `scheduler.py:36-62` runs the rollup again after every interval, a
  synchronous run does not stop by itself, a process that crashed is restarted, and Redis
  expires keys.  It needs `ROLLUP_INTERVAL_SECONDS > 0`.  The check path gets none:
  no check need ever come, and `Enqueue` may be lost.
* `Delivery`: weak fairness of the loop and of time.  The endpoint may fail for ever.

* `CheckRequest`: weak fairness of the handlers (the loop resumes what is due), of the
  threadpool insert, of the report of a refused connection, of Redis while it is up, and of time.
  Nothing makes a stalled Redis go on or a stopped one start: the timeout alone ends the
  wait.  Requests end, so the run does not check for deadlock.

Other safety runs use the specifications without fairness.

### Disagreements found

Five runs end in a violation, each of one claim that a comment or a document
makes and the code does not keep.

* `stale_store`: `resolve()` compares the generation and stores in separate statements;
  an admin thread that invalidates between them leaves the old key in the cleared cache, which
  the comment on `_generation` rules out.  The
  staleness stays below a TTL (`AnswerIsRecent`).
* `webhook_skew`: two concurrent plan updates each keep the rule "a soft threshold needs a
  webhook" and break it together.
* `rollup_overlap`: a run that outlasts its lock lowers a row the next run has raised;
  the docstring says `used` is only ever raised.
* `delivery_starvation`: a row whose plan has no webhook stays due and takes a place in every
  batch; with `BATCH_SIZE` of them, a due row behind them is never tried.
* `report_months`: a report of two months lists the current month twice, live and from its row,
  once a rollup has run in it, and the row takes the place of the month before.
  `docs/api-contracts.md:165` has the current month live and prior months from rollups, and
  `usage.py:57,66` mean the limit of n - 1 rows for prior months.

Others show in the models without a run of their own.

* No counter is ever restored after a data loss: `Restore` of `Rollup` changes nothing, where
  `docs/architecture.md:300` has the next rollup restore it.
* Delivery and rollup hold the event loop (`Pass`), where `docs/architecture.md:302` says that
  delivery never slows the check path; a pass longer than the timeout can turn a charged
  check into an error (`ErrorsAreExplained` names the case).
* `docs/architecture.md:299` has a Redis outage or a command error follow the plan's
  `redis_down_policy`, answer 200 within `REDIS_TIMEOUT_MS` and the connect timeout, and consume
  nothing.  The code reads the policy nowhere on the check path and answers 500 (`Fail`, `TimeOut`); the
  check may have been charged (`TimeOut` leaves a stray, which `ChargedAsAnswered` allows for an
  error), and it may wait for four commands of a timeout each (`WaitBounded`).
* A report shows `soft_threshold_crossed` as false for every row, where the example of
  `docs/api-contracts.md:178` has it true.

## 4. Proofs

Every invariant, every action property and the refinement that passing runs check is also a
theorem, proved for all values of the constants that meet the named assumptions
of its module.  TLC finds out on a small instance whether a formula holds; the proof
says that the instance was not too small.  The bounds of the models (`MaxTime`,
`MaxFaults`, ...) are arbitrary naturals in the proofs.

The proofs follow one pattern.  A property is seldom inductive: its inductive
invariant is a conjunction of named parts, each with a comment that says what it adds; a
lemma per action, or group of actions, shows that it is preserved, and the theorem
follows from it.

### CheckScriptProofs: any plans, any clock

From positive costs (`CostsAssumption`), plans with positive limits
(`PlansAssumption`), a month of whole seconds (`UnitsAssumption`) and graces and
bounds that are naturals.

* **TypeCorrect** `Spec => []TypeOK`.  `TypeOK` is inductive as it stands.  Most of the work is
  `RefillFacts`: whatever the rounding, a refilled bucket holds a natural number of
  microtokens and no more than its capacity.
* **MonthSafe** `Spec => [](QuotaHeld /\ SoftAtMostOnce)`.  The replies and the warnings say
  nothing about the counter that decided them, so neither property is inductive.  `QuotaInv`
  adds that the counter of every month equals what was really spent in it and
  does not expire before the month ends; `SoftInv` that a month's warning was given at most once and
  that its flag outlives the month.  Lemma `UsedIsSpent` follows: while it is the
  current month, what the script reads is what was spent.  A clock that regresses
  changes nothing, since the expiries are absolute.
* **ExpirySafe** `Spec => []CountersExpire`.  Inductive next to `QuotaInv`: the script takes a
  write for the first of its month when it reads zero, and by `UsedIsSpent` it reads zero
  only when nothing was written.
* **WindowSafe** `Spec => []WindowBound`.  The window is a trimmed copy of the log, with a
  TTL of its own.  `WindowInv` says that every logged request that is still within its
  window *of real time* is in the stored set and the set has not expired; since the clock
  never runs ahead of real time, a trim by the clock forgets none of them
  (`TrimKeepsRecent`), so that the count that admits a request is no less than the number
  the bound is about.
* **BurstSafe** `Spec => []BurstConformance`.  `BurstInvAt` bounds, for each logged request, what
  was granted since plus what is left in the bucket, by the capacity and what the rate
  credits up to the refill time stored in the bucket, and by the same up to now; and what
  was granted alone by what the rate will have brought when the bucket expires.  The first
  two carry the refill, in which the time that is charged covers the credit (`CreditCovered`);
  the third carries expiry, after which the bucket is full.  `LogInv` ties the log to the running total.

### OnePlanProofs: one plan that does not change

A reply describes what the next check will find, which cannot be true of a client whose limits
change in between.  So these theorems are about `SamePlan`: `Plans` has at most one
member.  A clock that goes back makes values that count from it untrue, so the properties
themselves speak only of states in which the clock is right (`Steady`), or the theorem
assumes `MaxSkew = 0`, that is no regress at all (`RemainingUntilRegress` and
`HeaderUntilRegress` prove these two up to the first regress without that).  These are the
conditions of the run `check_script`.

* The **buckets**.  `BucketOK` says that a stored bucket, left alone until its key expires, is full by
  then, so that an expired bucket and a full one are the same; `Worth` is what it holds now
  without rounding.  `RefillWorth`: a refill finds that, or one microtoken less.
  `RefillReaches`, `WorthGrows` and `LaterIsBelow` bound what a refill finds k ticks
  later, from both sides.
* **`SteadyInv`** collects what holds of the keys while the clock is right, and **`ReplyInv`** says
  that a reply, as long as it is the last thing that happened, describes the stored state.
* **RemainingIsTrue**, **ResetsAreTrue**, **RetryIsTrue**, **DenialClears**: by `ReplyInv` each is a
  statement about one state and a later time.  `LaterWindow`, `SustainedResetIs`,
  `LaterUsed`, `QuotaResetEnds` say what a check finds then.  `RetryIsTrue` needs both
  directions: `WaitIsEnough`, and `WaitIsNeeded` for two seconds less.
* **HeaderSpeaksForAll**: the header reports the layer with the smallest ratio.  `RatioTransitive` makes the
  comparison an order, so the layer chosen is the least of the three, and a zero on any layer
  is shown (`TightestIs`); `NothingLeft` is the case of a zero, `RemainingIsTrue`'s lemma
  `Spendable` the other.
* **WarningIsExact**: `FlagSetInv` adds to `SoftInv` that a flag is set only by a warning.
  No assumption on the clock.
* **DenialsLeaveNoTrace**: `TrimTwice`; it needs plans that agree on the window (`SameWindow`) and nothing else.
* **ScriptImplementsAdmission** `Spec => ImplementsAdmission`: `RefineInit` for the initial states, and
  `RefineAllow`, `RefineDeny`, `RefineTick` for the steps, under the invariant `RefineInv`.
  The level of `Admission` is the worth of the stored bucket (`LevelInv`), a tick adds the rate to
  it (`TickWorth`), and what the script counts in the trimmed set is what `Admission` counts in
  the whole log (`RecentIsCounted`, by a bijection that rests on unique request ids, `UniqueInv`).

### CivilDatesProofs

**DayOfDate**, **DateOfDay**, **EndOfMonth**: the run covers one Gregorian cycle, the theorems every day
from 1970 on, from the assumption that `LastDay` is a natural.  The invariant is `DayInv`: the date
is one a calendar can show, and `days_from_civil` of it is the day.
`DaysFromCivilIs` takes the formula apart into days to the year (which starts in March), to the month and
to the day; `NextDayIs` shows each grows by one as the calendar turns; `YearOfEraIs`,
`MonthOfYearIs` and `CivilIsInverse` show that the divisions of `civil_from_days` undo it.

### KeyCacheProofs: any number of sessions and checks

* **RevocationStays**: `SessionsInv` says which columns a session may write, so that no commit
  clears `revoked` with a value it read earlier.
* **CacheStaysBounded**: `BoundInv`; the set of digests may be infinite.
* **GenerationIsAGuard**: `LookupInv` orders the row a lookup has read after every mutation that bumped the
  generation it started under.
* **AnswersAreRecent**: `ViewsInv`, `LoadedInv` and `CachedInv` follow a value from the table to the lookup to the
  entry: an entry expires a TTL after a second in which the row said that, or earlier.

### CheckRequestProofs: any number of requests, passes and faults

* **ChargesMatchAnswers**: `ChargeInv` sorts the stages of a request into those where it is not charged, those
  where it is, and those where it gave up; a command left behind is the only one that may still charge.
* **WaitsEnd**: `WaitInv` gives every stage a `Budget`, the timeouts of the commands so far, and the age is
  within it and the time passes held the loop.
* **ErrorsHaveCauses**: `FaultInv` keeps, for each stage, why its timer has run down or why its reply is an
  error; the script that a reload has just put into the cache is there unless Redis failed.  The causes
  are those of `ErrorsAreExplained`: a stall, a stop or an absence of Redis, a pass as long as the
  timeout, a failed lookup, an unreadable script file, an error reply of a running Redis.  What
  the theorem rules out is everything else, above all a lost script cache, the fault of
  another check and a timer that was left running.

### RollupProofs: any number of keys and runners

* **OneRunAtATime**: `LockInv`, whoever runs holds the lock.
* **RowsOnlyRise**: `SeenInv`, without overlap the row an UPDATE writes is still what the SELECT saw.
* **WarningsAreTrue**: `TruthInv`, every count that a run, the check path, a flag or the outbox carries was
  reached, and was at the threshold unless data was lost.

### DeliveryProofs: any outbox, batch and number of faults

* **PostsAreBounded**: `PassInv` (the rows a pass has left are due) and `CountInv` (posts are accounted for by
  recorded attempts, the row in hand and the faults).
* **BackoffIsKept**: `WaitInv`.  `BackoffIsTheSchedule` uses the assumption that the cap on the delay is
  at most `Base * 2^MAX_DOUBLINGS`, so that capping the exponent shortens no delay.  The 30 and
  3600 seconds of `webhooks.py:34-35` meet it, as its comment on `MAX_DOUBLINGS` says.

### UsageReportProofs: any number of months and requests

* The page: a row's place is one more than the number of later rows (`RankIs`), no two rows share a
  place and none is left empty (`RanksDiffer`, `RanksAreTaken`), so that every entry of the
  history is a row (`HistoryIs`), on which the theorems rest.
* **ReportInventsNothing**: `CountsInv`, counters, rows and what a report has read are at most what was admitted.
* **ClosedMonthsAreWhole**: `FinalInv`, the counter of a month that closes is whole until a rollup has
  written it, and the row stays whole.
* **FlagKeepsUp**: `FlagInv`, a month that crossed has its flag for as long as a report asks for it.

### Checked by TLC alone

* `WarningIsKept`, `CountIsKept`, `Settles` and `EveryCheckAnswered`: liveness under fairness, out of the
  prover's reach.
* The five violations of section 3, which are counterexamples.
* That the models' hypotheses can be met: each theorem with one is about a property that a run
  checks under constants that meet it.

## 5. Not modelled

* A regression or a gap longer than the 45 days by which quota and flag keys outlive their
  month; loss of Redis data during checks (it is in `Rollup`, not in `CheckScript`).
* Opening connections, the pool, and `close()`, which runs when the process ends.
  Cancellation of the scheduler's tasks, which can only happen while they sleep.
* A skew between the clock of the server, by which a report names its month, and that of Redis.
* Payloads, signatures, logging, error envelopes, authentication, field bounds, migrations:
  output or validation without state.  An exception that ends a delivery pass and comes back
  in each one, as for a malformed URL, is beyond `MaxFaults`.

## 6. Plan

Done, in this order: `CheckScript` with its runs, `Admission` and the refinement; the first
theorems; `KeyCache`, `Rollup`, `Delivery`, `CivilDates`; `CheckRequest`,
`CheckResponse`, `UsageReport`, the CLI; `BurstConformance` as a theorem; theorems about every
component; the honesty of replies and headers and the refinement as theorems.

Left:

1. What a reply is worth after a regress: the values then count from a clock that is behind, and
   should be wrong by no more than the regress.
2. The enqueueing and the counts of `Rollup` as safety theorems that its liveness rests on (a warning
   is in the outbox, in the flag or lost), and the same for the rows of `Delivery`.
3. A second month in `Rollup`, and the clocks of the server and of Redis apart in `UsageReport`.
