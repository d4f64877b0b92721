---------------------------- MODULE CheckRequest ----------------------------
(***************************************************************************)
(* A check on its way through the server process: the handler of           *)
(* routers/check.py, the script registry and the timeouts of               *)
(* app/redis_client.py, and the event loop they share with the scheduler.  *)
(*                                                                         *)
(* A handler runs on the loop until it awaits Redis or a thread, and is    *)
(* resumed on the loop.  A scheduler pass is synchronous: while it runs,   *)
(* the loop resumes nobody, but Redis goes on and timers fall due.  Redis  *)
(* may stall, stop and lose its script cache.  Time is in ticks; what the  *)
(* loop and Redis do when nothing holds them up takes none.                *)
(*                                                                         *)
(* All requests are for one key and cost one.                              *)
(***************************************************************************)
EXTENDS Integers, FiniteSets

CONSTANTS
  Requests,    \* the checks that are made
  Timeout,     \* REDIS_TIMEOUT_MS, for the connection and the command
  Hard, Soft,  \* the key's monthly quota and its threshold
  PassTicks,   \* the longest scheduler pass
  MaxPasses,   \* bound: scheduler passes
  MaxFaults    \* bound: stalls, stops, crashes and errors

ASSUME LimitsAssumption == Hard \in Nat /\ Soft \in Nat
ASSUME TimesAssumption == Timeout \in Nat \ {0} /\ PassTicks \in Nat \ {0}
ASSUME RequestBounds == MaxPasses \in Nat /\ MaxFaults \in Nat

VARIABLES
  req,        \* where the handler of each request is
  registered, \* whether the registry has the script's SHA
  server,     \* Redis: up, stalled or down
  cached,     \* whether Redis has the script in its cache
  used, flag, \* the key's counter and its soft flag
  stray,      \* requests that gave up on an EVALSHA Redis has yet to read
  pass,       \* ticks left of the scheduler pass that holds the loop
  charges,    \* history: how often each request was charged
  age,        \* history: ticks each request has awaited Redis
  blocked,    \* history: how many of them the loop was held by a pass
  disturbed,  \* history: requests that met a fault of Redis on their way
  failures,   \* history: the other errors that requests met, see Causes
  passes,     \* bound: passes so far
  faults      \* bound: faults so far

redis == <<server, cached, used, flag>>
clocks == <<age, blocked>>
causes == <<disturbed, failures>>
bounds == <<passes, faults>>
vars == <<req, registered, redis, stray, pass, charges, clocks, causes, bounds>>

Idle == [pc |-> "idle"]
Done(answer) == [pc |-> "done", answer |-> answer]
Answered(q, answers) == req[q].pc = "done" /\ req[q].answer \in answers

OnRedis(q) == req[q].pc \in {"load", "eval"}
Waiting(q) == OnRedis(q) \/ req[q].pc = "thread"

-----------------------------------------------------------------------------
(* The loop                                                                *)

LoopFree == pass = 0

NoReply == "none"

\* A timeout in milliseconds that is passed on where seconds are due, one that
\* is divided without a fraction, and one that is not passed on at all.
SlipDeadlineUnit == 1000 * Timeout
SlipDeadlineZero == 0
SlipDeadlineUnset == -1
Deadline == Timeout

\* Send a command and await its reply, for at most the timeout.
Await(q, pc, retried) ==
  req' = [req EXCEPT ![q] =
            [pc |-> pc, retried |-> retried, reply |-> NoReply, left |-> Deadline]]

Finish(q, answer) == req' = [req EXCEPT ![q] = Done(answer)]

Fault == faults < MaxFaults /\ faults' = faults + 1 /\ UNCHANGED passes

\* The lookup of the key fails, the source of the script cannot be read, or a Redis
\* that is up answers a command with an error (OOM, READONLY, LOADING).
Causes == {"lookup", "source", "command"}

Meets(q, cause) == failures' = failures \cup {<<q, cause>>} /\ UNCHANGED disturbed

\* The handler raises: 500.
Raise(q, cause) == Finish(q, "error") /\ Meets(q, cause)

\* An unknown or revoked key is refused; any other goes to Redis.  Here resolve()
\* has found the key, or that there is none.
Arrive(q) ==
  /\ LoopFree
  /\ req[q] = Idle
  /\ \/ Finish(q, "refused")
     \/ Await(q, IF registered THEN "eval" ELSE "load", FALSE)
  /\ disturbed' = IF server = "up" THEN disturbed ELSE disturbed \cup {q}
  /\ UNCHANGED <<registered, redis, stray, pass, charges, clocks, failures, bounds>>

\* resolve() cannot look the key up: SQLite fails on a cache miss.
LookupFails(q) ==
  /\ LoopFree
  /\ req[q] = Idle
  /\ Fault
  /\ Raise(q, "lookup")
  /\ UNCHANGED <<registered, redis, stray, pass, charges, clocks>>

Replied(q, pc, replies) ==
  LoopFree /\ req[q].pc = pc /\ req[q].reply \in replies

\* register
Registered(q) ==
  /\ Replied(q, "load", {"sha"})
  /\ registered' = TRUE
  /\ Await(q, "eval", req[q].retried)
  /\ UNCHANGED <<redis, stray, pass, charges, clocks, causes, bounds>>

\* Retrying on any RedisError, and never.
SlipReloadsAll(q) ==
  req[q].pc = "eval" /\ req[q].reply \in {"NOSCRIPT", "error"} /\ ~req[q].retried
SlipReloadsNone(q) == FALSE

\* NOSCRIPT is answered with one reload and one more EVALSHA.
Reloads(q) == req[q].pc = "eval" /\ req[q].reply = "NOSCRIPT" /\ ~req[q].retried

Reload(q) ==
  /\ LoopFree
  /\ Reloads(q)
  /\ Await(q, "load", TRUE)
  /\ UNCHANGED <<registered, redis, stray, pass, charges, clocks, causes, bounds>>

\* The script is due to be loaded and its file cannot be read.
SourceFails(q) ==
  /\ LoopFree
  /\ (req[q] = Idle /\ ~registered) \/ Reloads(q)
  /\ Fault
  /\ Raise(q, "source")
  /\ UNCHANGED <<registered, redis, stray, pass, charges, clocks>>

\* The decision is the answer, after the outbox row when the threshold is crossed.
Decide(q) ==
  /\ Replied(q, "eval", {"allowed", "denied", "crossed"})
  /\ IF req[q].reply = "crossed"
     THEN req' = [req EXCEPT ![q] = [pc |-> "thread", reply |-> NoReply]]
     ELSE Finish(q, req[q].reply)
  /\ UNCHANGED <<registered, redis, stray, pass, charges, clocks, causes, bounds>>

\* enqueue_soft_warning in the threadpool, whatever comes of it.
Insert(q) ==
  /\ req[q].pc = "thread" /\ req[q].reply = NoReply
  /\ req' = [req EXCEPT ![q].reply = "inserted"]
  /\ UNCHANGED <<registered, redis, stray, pass, charges, clocks, causes, bounds>>

Resume(q) ==
  /\ Replied(q, "thread", {"inserted"})
  /\ Finish(q, "allowed")
  /\ UNCHANGED <<registered, redis, stray, pass, charges, clocks, causes, bounds>>

\* A Redis error is an unhandled exception: 500.
Fail(q) ==
  /\ LoopFree
  /\ OnRedis(q) /\ req[q].reply \in {"error", "NOSCRIPT"} /\ ~Reloads(q)
  /\ Finish(q, "error")
  /\ UNCHANGED <<registered, redis, stray, pass, charges, clocks, causes, bounds>>

\* An EVALSHA that was sent and not read may still be read by Redis.
Left(q) == req[q].pc = "eval" /\ req[q].reply = NoReply

\* A timer that is due when the loop comes round cancels the await even if the
\* reply has arrived in the meantime; the connection is closed.
TimeOut(q) ==
  /\ LoopFree
  /\ OnRedis(q) /\ req[q].left = 0
  /\ stray' = IF Left(q) THEN stray \cup {q} ELSE stray
  /\ Finish(q, "error")
  /\ UNCHANGED <<registered, redis, pass, charges, clocks, causes, bounds>>

Handle(q) ==
  \/ Registered(q) \/ Reload(q) \/ Decide(q) \/ Resume(q) \/ Fail(q) \/ TimeOut(q)

\* deliver_webhooks or rollup.run, called from a coroutine without a thread.
Pass ==
  /\ LoopFree
  /\ passes < MaxPasses
  /\ passes' = passes + 1
  /\ pass' \in 1 .. PassTicks
  /\ UNCHANGED <<req, registered, redis, stray, charges, clocks, causes, faults>>

-----------------------------------------------------------------------------
(* Redis                                                                   *)

Admits == cached /\ used < Hard
Crosses == Admits /\ used < Soft /\ used + 1 >= Soft /\ ~flag

\* The admission script, in so far as it charges the counter and sets the flag.
RunScript(q) ==
  /\ used' = IF Admits THEN used + 1 ELSE used
  /\ flag' = (flag \/ Crosses)
  /\ charges' = IF Admits THEN [charges EXCEPT ![q] = @ + 1] ELSE charges
  /\ UNCHANGED <<server, cached>>

Decision ==
  IF ~cached THEN "NOSCRIPT"
  ELSE IF Crosses THEN "crossed" ELSE IF Admits THEN "allowed" ELSE "denied"

Pending(q) == OnRedis(q) /\ req[q].reply = NoReply

Load(q) ==
  /\ server = "up" /\ Pending(q) /\ req[q].pc = "load"
  /\ cached' = TRUE
  /\ req' = [req EXCEPT ![q].reply = "sha"]
  /\ UNCHANGED <<registered, server, used, flag, stray, pass, charges, clocks,
                 causes, bounds>>

EvalSha(q) ==
  /\ server = "up" /\ Pending(q) /\ req[q].pc = "eval"
  /\ RunScript(q)
  /\ req' = [req EXCEPT ![q].reply = Decision]
  /\ UNCHANGED <<registered, stray, pass, clocks, causes, bounds>>

\* Nobody waits for the reply any more.
EvalStray(q) ==
  /\ server = "up" /\ q \in stray
  /\ RunScript(q)
  /\ stray' = stray \ {q}
  /\ UNCHANGED <<req, registered, pass, clocks, causes, bounds>>

\* The connection is refused.
Refuse(q) ==
  /\ server = "down" /\ Pending(q)
  /\ req' = [req EXCEPT ![q].reply = "error"]
  /\ UNCHANGED <<registered, redis, stray, pass, charges, clocks, causes, bounds>>

\* Redis answers with an error instead.  It runs no command that it refuses, and the
\* script's first write is refused before anything is charged.
Reject(q) ==
  /\ server = "up"
  /\ Pending(q) \/ q \in stray
  /\ Fault
  /\ req' = IF Pending(q) THEN [req EXCEPT ![q].reply = "error"] ELSE req
  /\ stray' = stray \ {q}
  /\ Meets(q, "command")
  /\ UNCHANGED <<registered, redis, pass, charges, clocks>>

OnTheirWay == {q \in Requests : Waiting(q)}

Stall ==
  /\ server = "up"
  /\ Fault
  /\ server' = "stalled"
  /\ disturbed' = disturbed \cup OnTheirWay
  /\ UNCHANGED <<req, registered, cached, used, flag, stray, pass, charges, clocks,
                 failures>>

\* Redis ends.  Its connections break, with or without the replies that are
\* under way.  What the scripts wrote is kept; the script cache is not.
Stop ==
  /\ server # "down"
  /\ Fault
  /\ server' = "down"
  /\ cached' = FALSE
  /\ stray' = {}
  /\ \E broken \in SUBSET {q \in Requests : OnRedis(q)} :
       /\ \A q \in Requests : Pending(q) => q \in broken
       /\ req' = [q \in Requests |->
                    IF q \in broken THEN [req[q] EXCEPT !.reply = "error"] ELSE req[q]]
  /\ disturbed' = disturbed \cup OnTheirWay
  /\ UNCHANGED <<registered, used, flag, pass, charges, clocks, failures>>

\* A stall ends, or a new Redis starts.
Start ==
  /\ server # "up"
  /\ server' = "up"
  /\ UNCHANGED <<req, registered, cached, used, flag, stray, pass, charges, clocks,
                 causes, bounds>>

-----------------------------------------------------------------------------
(* The process and time                                                    *)

\* The process ends, with every request on its way, and starts again.  load_all
\* may register the script if Redis is up; an error does not stop the start.
Restart ==
  /\ Fault
  /\ req' = [q \in Requests |-> IF Waiting(q) THEN Done("lost") ELSE req[q]]
  /\ stray' = stray \cup {q \in Requests : Left(q)}
  /\ registered' \in {FALSE, server = "up"}
  /\ cached' = (cached \/ registered')
  /\ pass' = 0
  /\ UNCHANGED <<server, used, flag, charges, clocks, causes>>

Due(q) == OnRedis(q) /\ (req[q].reply # NoReply \/ req[q].left = 0)

\* Nothing is due that takes no time.
Settled ==
  /\ LoopFree => \A q \in Requests : ~Due(q)
  /\ server = "up" => stray = {}
  /\ server # "stalled" => \A q \in Requests : ~Pending(q)

CountDown(n) == IF n > 0 THEN n - 1 ELSE n

\* bound: what a history counter counts to
MaxAge == 4 * Timeout + PassTicks * MaxPasses + 1
CountUp(n) == IF n < MaxAge THEN n + 1 ELSE n

Tick ==
  /\ Settled
  /\ ~LoopFree \/ \E q \in Requests : OnRedis(q)
  /\ req' = [q \in Requests |->
               IF OnRedis(q) THEN [req[q] EXCEPT !.left = CountDown(@)] ELSE req[q]]
  /\ pass' = CountDown(pass)
  /\ age' = [q \in Requests |-> IF OnRedis(q) THEN CountUp(age[q]) ELSE age[q]]
  /\ blocked' = [q \in Requests |->
                   IF OnRedis(q) /\ ~LoopFree THEN CountUp(blocked[q]) ELSE blocked[q]]
  /\ UNCHANGED <<registered, redis, stray, charges, causes, bounds>>

Init ==
  /\ req = [q \in Requests |-> Idle]
  /\ registered \in BOOLEAN
  /\ server = "up" /\ cached = registered
  /\ used = 0 /\ flag = FALSE
  /\ stray = {}
  /\ pass = 0
  /\ charges = [q \in Requests |-> 0]
  /\ age = [q \in Requests |-> 0]
  /\ blocked = [q \in Requests |-> 0]
  /\ disturbed = {} /\ failures = {}
  /\ passes = 0 /\ faults = 0

Next ==
  \/ \E q \in Requests : Arrive(q) \/ Handle(q) \/ Insert(q)
  \/ \E q \in Requests : LookupFails(q) \/ SourceFails(q)
  \/ \E q \in Requests : Load(q) \/ EvalSha(q) \/ EvalStray(q) \/ Refuse(q) \/ Reject(q)
  \/ Pass \/ Tick
  \/ Stall \/ Stop \/ Start \/ Restart

Spec == Init /\ [][Next]_vars

\* The loop resumes what is due, threads end, refused connections are reported
\* and time passes.  Nothing is asked of Redis: a stall may last for ever.
Fairness ==
  /\ \A q \in Requests : WF_vars(Handle(q)) /\ WF_vars(Insert(q)) /\ WF_vars(Refuse(q))
  /\ WF_vars(\E q \in Requests : Load(q) \/ EvalSha(q) \/ EvalStray(q))
  /\ WF_vars(Tick)

FairSpec == Spec /\ Fairness

-----------------------------------------------------------------------------
(* Properties                                                              *)

\* One EVALSHA, one decision: whatever is reloaded, retried, cut off or read late,
\* a request is charged at most once, and a decision tells whether it was.  An error
\* does not tell: the command may have run.
ChargedAsAnswered ==
  \A q \in Requests :
    /\ charges[q] <= 1
    /\ Answered(q, {"allowed"}) => charges[q] = 1
    /\ Answered(q, {"denied", "refused"}) => charges[q] = 0

\* A stalled Redis cannot hang a check: it waits for no more than four commands,
\* each for no longer than the timeout and what a scheduler pass adds.
WaitBounded == \A q \in Requests : age[q] <= 4 * Timeout + blocked[q]

Failed(q) == \E cause \in Causes : <<q, cause>> \in failures

\* What a 500 may come from: Redis stalled or stopped while the check was on its way,
\* or was away when it came; a scheduler pass kept it from its reply for the length
\* of the timeout; or one of the Causes is on record for it.  The lost scripts of a
\* restarted Redis, what befell another check, and the timer of an earlier command
\* are no reason.
ErrorsAreExplained ==
  \A q \in Requests :
    Answered(q, {"error"}) => q \in disturbed \/ Failed(q) \/ blocked[q] >= Timeout

\* Every check is answered, or ends with the process.
EveryCheckAnswered == \A q \in Requests : Waiting(q) ~> req[q].pc = "done"
=============================================================================
