---------------------------- MODULE CheckScript ----------------------------
(***************************************************************************)
(* The atomic admission script, app/lua/check.lua, for one API key.        *)
(*                                                                         *)
(* Redis runs a script serially, so a run of it is one step: Allow and     *)
(* Deny are the two outcomes of that step.  The other steps are the        *)
(* passing of time and a Redis clock that regresses across a failover,     *)
(* which the script guards against.                                        *)
(*                                                                         *)
(* Time is in ticks and tokens are in microtokens: UTOK ticks make a       *)
(* second and UTOK microtokens make a token, as in the source, where       *)
(* UTOK = 1000000.  A rate of r tokens per second is thus r microtokens    *)
(* per tick.                                                               *)
(***************************************************************************)
EXTENDS Integers, FiniteSets

CONSTANTS
  Resources,   \* the resources the key is checked against
  Costs,       \* the costs a request may ask for
  Plans,       \* the limits that may be in force, see PlanLimits
  UTOK,        \* ticks per second, microtokens per token
  KeyGrace,    \* the minute added to the TTL of buckets and windows, in ticks
  MonthGrace,  \* the 45 days added to the TTL of quota and flag keys, in ticks
  MonthLen,    \* ticks in a month
  MaxTime,     \* bound: ticks of real time explored
  MaxSkew      \* bound: how far the Redis clock may fall behind real time

\* The limits a request brings along, by name as in ResolvedKey; soft is the
\* absolute threshold and 0 when it is disabled.
PlanLimits == [cap : Nat \ {0}, rate : Nat \ {0}, limit : Nat \ {0},
               window : Nat \ {0}, hard : Nat \ {0}, soft : Nat]

ASSUME CostsAssumption == Costs \subseteq Nat \ {0}
ASSUME PlansAssumption == Plans \subseteq PlanLimits
ASSUME UnitsAssumption == UTOK \in Nat \ {0} /\ MonthLen \in Nat \ {0} /\ MonthLen % UTOK = 0
ASSUME GraceAssumption == KeyGrace \in Nat /\ MonthGrace \in Nat
ASSUME BoundsAssumption == MaxTime \in Nat /\ MaxSkew \in Nat

VARIABLES
  now,      \* what redis.call('TIME') returns
  bucket,   \* qg:b:{key}:{resource}: tokens t, refill time ts, expiry exp
  window,   \* qg:s:{key}:{resource}: the members, each an admitted request
  wexp,     \* when the window key expires
  quota,    \* qg:q:{key}:{month}: count n, expiry exp
  flag,     \* qg:f:{key}:{month}: its expiry when it is set
  reply,    \* what the last run of the script returned
  real,     \* history: time that has really passed
  log,      \* history: every admitted request, by resource
  granted,  \* history: total cost admitted, by resource
  spent,    \* history: total cost admitted, by month
  warned    \* history: how often soft_crossed was reported, by month

redis == <<bucket, window, wexp, quota, flag>>
history == <<log, granted, spent, warned>>
vars == <<now, redis, reply, real, history>>

-----------------------------------------------------------------------------
(* Arithmetic and keys                                                     *)

AtLeast0(n) == IF n < 0 THEN 0 ELSE n
CeilDiv(a, b) == (a + b - 1) \div b

Months == 0 .. (MaxTime \div MonthLen)
Month == now \div MonthLen
MonthEnd == (Month + 1) * MonthLen

Cap(p) == p.cap * UTOK
Win(p) == p.window * UTOK

\* An absent key is one whose expiry has passed; NoKey has always passed.
NoKey == -1
Live(exp, at) == exp >= at

\* Definitions named Slip... are slips a maintainer could make: each one, put in
\* place of the definition after it, breaks a property (see README.md).
SlipBucketTTL(p) == KeyGrace
BucketTTL(p) == CeilDiv(p.cap, p.rate) * UTOK + KeyGrace
SlipWindowTTL(p) == KeyGrace
WindowTTL(p) == Win(p) + KeyGrace
MonthTTL == MonthEnd + MonthGrace

-----------------------------------------------------------------------------
(* Reading the three layers, at clock reading `at`                         *)

\* The source divides and multiplies in doubles: the credited amount may fall
\* one microtoken short, or the time it is charged may be a microsecond long.
Roundings == {[short |-> 0, long |-> 0], [short |-> 1, long |-> 0],
              [short |-> 0, long |-> 1]}

FullBucket(p, at) == [t |-> Cap(p), ts |-> at]

\* TIME can regress: backwards time is never credited.
Elapsed(ts, at) == AtLeast0(at - ts)

SlipCreditKeepsTime(b, p, at, x) ==
  [t |-> IF b.t + Elapsed(b.ts, at) * p.rate >= Cap(p) THEN Cap(p)
         ELSE b.t + Elapsed(b.ts, at) * p.rate, ts |-> b.ts]

Credit(b, p, at, x) ==
  LET add == Elapsed(b.ts, at) * p.rate - x.short
  IN  IF add <= 0 THEN [t |-> b.t, ts |-> b.ts]
      ELSE IF b.t + add >= Cap(p) THEN FullBucket(p, at)
      ELSE [t |-> b.t + add, ts |-> b.ts + CeilDiv(add, p.rate) + x.long]

\* The values the bucket may have after its refill.
Refill(b, p, at) ==
  IF ~Live(b.exp, at) \/ Elapsed(b.ts, at) * p.rate >= Cap(p)
  THEN {FullBucket(p, at)}
  ELSE {Credit(b, p, at, x) : x \in Roundings}

\* Members older than the window are trimmed; one exactly as old stays.
InWindow(m, p, at) == m.score >= at - Win(p)
Trim(w, exp, p, at) ==
  IF Live(exp, at) THEN {m \in w : InWindow(m, p, at)} ELSE {}

Used(q, at) == IF Live(q.exp, at) THEN q.n ELSE 0

SlipBurstOk(b, c) == CeilDiv(b.t, UTOK) >= c
BurstOk(b, c) == b.t >= c * UTOK
SlipSustainedOk(w, p) == Cardinality(w) + 1 < p.limit
SustainedOk(w, p) == Cardinality(w) + 1 <= p.limit
SlipQuotaOk(used, c, p) == used <= p.hard
QuotaOk(used, c, p) == used + c <= p.hard

Allowed(b, w, used, c, p) ==
  BurstOk(b, c) /\ SustainedOk(w, p) /\ QuotaOk(used, c, p)

DenyLayer(b, w, c, p) ==
  IF ~BurstOk(b, c) THEN "burst"
  ELSE IF ~SustainedOk(w, p) THEN "sustained"
  ELSE "quota"

-----------------------------------------------------------------------------
(* The reported values                                                     *)

\* Seconds until the oldest member leaves the window.
SustainedReset(w, p, at) ==
  IF w = {} THEN 0
  ELSE LET oldest == CHOOSE m \in w : \A k \in w : m.score <= k.score
       IN  AtLeast0(CeilDiv(oldest.score + Win(p) - at, UTOK))

SlipQuotaReset(at) == MonthLen \div UTOK - (at \div UTOK)
QuotaReset(at) == (at \div MonthLen + 1) * (MonthLen \div UTOK) - at \div UTOK

SlipBurstRetry(b, c, p) == (c * UTOK - b.t) \div (p.rate * UTOK)
BurstRetry(b, c, p) == CeilDiv(c * UTOK - b.t, p.rate * UTOK)

Larger(a, b) == IF a > b THEN a ELSE b

\* The longest wait among the layers that deny, 0 when none does.
RetryAfter(b, w, used, c, p, at) ==
  Larger(IF BurstOk(b, c) THEN 0 ELSE BurstRetry(b, c, p),
         Larger(IF SustainedOk(w, p) THEN 0 ELSE SustainedReset(w, p, at),
                IF QuotaOk(used, c, p) THEN 0 ELSE QuotaReset(at)))

\* The returned tuple, with the request it answers; b, w and used are the
\* values after the decision.
Report(r, c, p, layer, b, w, used, crossed, retry) ==
  [res |-> r, cost |-> c, plan |-> p, deny_layer |-> layer,
   b_remaining |-> b.t \div UTOK,
   b_reset |-> CeilDiv(Cap(p) - b.t, p.rate * UTOK),
   s_remaining |-> AtLeast0(p.limit - Cardinality(w)),
   s_reset |-> SustainedReset(w, p, now),
   q_used |-> used, q_remaining |-> AtLeast0(p.hard - used),
   q_reset |-> QuotaReset(now), month |-> Month,
   soft_crossed |-> crossed, retry_after |-> retry]

NoReply == [deny_layer |-> "none"]
Admitted(x) == x.deny_layer = ""
Denied(x) == x.deny_layer \in {"burst", "sustained", "quota"}

-----------------------------------------------------------------------------
(* The steps                                                               *)

Init ==
  /\ now = 0 /\ real = 0
  /\ bucket = [r \in Resources |-> [t |-> 0, ts |-> 0, exp |-> NoKey]]
  /\ window = [r \in Resources |-> {}]
  /\ wexp = [r \in Resources |-> NoKey]
  /\ quota = [m \in Months |-> [n |-> 0, exp |-> NoKey]]
  /\ flag = [m \in Months |-> NoKey]
  /\ reply = NoReply
  /\ log = [r \in Resources |-> {}]
  /\ granted = [r \in Resources |-> 0]
  /\ spent = [m \in Months |-> 0]
  /\ warned = [m \in Months |-> 0]

SlipCrosses(used, c, p) ==
  p.soft > 0 /\ used < p.soft /\ used + c > p.soft /\ ~Live(flag[Month], now)
SlipCrossesAgain(used, c, p) == p.soft > 0 /\ used < p.soft /\ used + c >= p.soft

\* SETNX on the flag key, when this request is the one that crosses.
Crosses(used, c, p) ==
  /\ p.soft > 0 /\ used < p.soft /\ used + c >= p.soft
  /\ ~Live(flag[Month], now)

\* A first write that is taken for one only when it counts one.
SlipQuotaExpiry(used, c) == IF used + c = 1 THEN MonthTTL ELSE quota[Month].exp

\* The expiry of the quota key is set by the first write of the month.
QuotaExpiry(used, c) == IF used = 0 THEN MonthTTL ELSE quota[Month].exp

\* A request as the history keeps it.  The random request_id is the running
\* total, which no other request to the resource shares.
Entry(r, c, p) ==
  [score |-> now, request_id |-> granted[r] + c, cost |-> c, plan |-> p,
   at |-> real]

Allow(r, c, p) ==
  \E b \in Refill(bucket[r], p, now) :
    LET w == Trim(window[r], wexp[r], p, now)
        used == Used(quota[Month], now)
        left == [t |-> b.t - c * UTOK, ts |-> b.ts]
        members == w \cup {Entry(r, c, p)}
    IN  /\ Allowed(b, w, used, c, p)
        /\ bucket' = [bucket EXCEPT ![r] =
                        [t |-> left.t, ts |-> left.ts, exp |-> now + BucketTTL(p)]]
        /\ window' = [window EXCEPT ![r] = members]
        /\ wexp' = [wexp EXCEPT ![r] = now + WindowTTL(p)]
        /\ quota' = [quota EXCEPT ![Month] =
                       [n |-> used + c, exp |-> QuotaExpiry(used, c)]]
        /\ flag' = IF Crosses(used, c, p)
                   THEN [flag EXCEPT ![Month] = MonthTTL] ELSE flag
        /\ reply' = Report(r, c, p, "", left, members, used + c,
                           Crosses(used, c, p), 0)
        /\ log' = [log EXCEPT ![r] = @ \cup {Entry(r, c, p)}]
        /\ granted' = [granted EXCEPT ![r] = @ + c]
        /\ spent' = [spent EXCEPT ![Month] = @ + c]
        /\ warned' = IF Crosses(used, c, p)
                     THEN [warned EXCEPT ![Month] = @ + 1] ELSE warned
        /\ UNCHANGED <<now, real>>

\* A denied request that is recorded in the window all the same.
SlipDeny(r, c, p) ==
  \E b \in Refill(bucket[r], p, now) :
    LET w == Trim(window[r], wexp[r], p, now)
        used == Used(quota[Month], now)
        members == w \cup {Entry(r, c, p)}
    IN  /\ ~Allowed(b, w, used, c, p)
        /\ window' = [window EXCEPT ![r] = members]
        /\ reply' = Report(r, c, p, DenyLayer(b, w, c, p), b, members, used, FALSE,
                           RetryAfter(b, w, used, c, p, now))
        /\ UNCHANGED <<now, real, bucket, wexp, quota, flag, history>>

Deny(r, c, p) ==
  \E b \in Refill(bucket[r], p, now) :
    LET w == Trim(window[r], wexp[r], p, now)
        used == Used(quota[Month], now)
    IN  /\ ~Allowed(b, w, used, c, p)
        /\ window' = [window EXCEPT ![r] = w]
        /\ reply' = Report(r, c, p, DenyLayer(b, w, c, p), b, w, used, FALSE,
                           RetryAfter(b, w, used, c, p, now))
        /\ UNCHANGED <<now, real, bucket, wexp, quota, flag, history>>

Purge(b) == IF Live(b.exp, now) THEN b ELSE [b EXCEPT !.exp = NoKey]

Tick ==
  /\ real < MaxTime
  /\ real' = real + 1
  /\ now' = now + 1
  /\ reply' = NoReply
  /\ UNCHANGED <<redis, history>>

\* A failover to a node whose clock is behind.  Redis deletes expired keys in
\* the background; whether it has done so shows only when the clock goes back.
Regress(d, purged) ==
  /\ d <= now
  /\ real - (now - d) <= MaxSkew
  /\ now' = now - d
  /\ reply' = NoReply
  /\ IF purged
     THEN /\ bucket' = [r \in Resources |-> Purge(bucket[r])]
          /\ wexp' = [r \in Resources |->
                        IF Live(wexp[r], now) THEN wexp[r] ELSE NoKey]
     ELSE UNCHANGED <<bucket, wexp>>
  /\ UNCHANGED <<window, quota, flag, real, history>>

Check(r, c, p) == Allow(r, c, p) \/ Deny(r, c, p)

Next ==
  \/ \E r \in Resources, c \in Costs, p \in Plans : Check(r, c, p)
  \/ Tick
  \/ \E d \in 1 .. MaxSkew, purged \in BOOLEAN : Regress(d, purged)

Spec == Init /\ [][Next]_vars

-----------------------------------------------------------------------------
(* Properties                                                              *)

Expiry == Nat \cup {NoKey}
Entries == [score : Nat, request_id : Nat, cost : Costs, plan : Plans, at : Nat]

\* The shape of the state.  Tokens are never negative and never above the
\* largest capacity in force, and every window member is a request that was
\* admitted.
TypeOK ==
  /\ now \in Nat /\ real \in Nat /\ now <= real /\ real <= MaxTime
  /\ bucket \in [Resources -> [t : Nat, ts : Nat, exp : Expiry]]
  /\ \A r \in Resources :
       bucket[r].t = 0 \/ \E p \in Plans : bucket[r].t <= Cap(p)
  /\ log \in [Resources -> SUBSET Entries]
  /\ window \in [Resources -> SUBSET Entries]
  /\ \A r \in Resources : window[r] \subseteq log[r]
  /\ wexp \in [Resources -> Expiry]
  /\ granted \in [Resources -> Nat]
  /\ quota \in [Months -> [n : Nat, exp : Expiry]]
  /\ flag \in [Months -> Expiry]
  /\ spent \in [Months -> Nat]
  /\ warned \in [Months -> Nat]

\* What the next two properties ask of plans that alternate on one key: that
\* their windows are as long, and that the minute of grace in the TTL of a
\* bucket covers a refill of the largest capacity C at the highest rate R.
SameWindow == \A p, q \in Plans : p.window = q.window
Highest(C, R) == \A p \in Plans : Cap(p) <= C /\ p.rate <= R
GraceCovers(C, R) == \A p \in Plans : C <= R * (BucketTTL(p) + 1)

\* No over-admission by the window: counting back from any admitted request
\* over its window of real time, no more requests were admitted than its limit,
\* whatever the clock, the expiry of the key and other plans did in between.
WindowBound ==
  SameWindow =>
    \A r \in Resources : \A e \in log[r] :
      Cardinality({f \in log[r] : /\ f.request_id <= e.request_id
                                  /\ f.at >= e.at - Win(e.plan)}) <= e.plan.limit

\* No over-admission by the bucket: between any two admitted requests the total
\* cost is at most the largest capacity and what the highest rate adds in the
\* time that really passed, give or take a microsecond.  No rounding, expiry,
\* clock regression or change of plan credits more.
BurstConformance ==
  \A C \in {Cap(p) : p \in Plans}, R \in {p.rate : p \in Plans} :
    Highest(C, R) /\ GraceCovers(C, R) =>
      \A r \in Resources : \A e, f \in log[r] : e.request_id <= f.request_id =>
        UTOK * (f.request_id - e.request_id + e.cost) <= C + R * (f.at - e.at + 1)

\* No over-admission by the quota: the total cost really admitted in the month
\* the reply names never exceeds the quota of the plan that admitted it.
QuotaHeld ==
  Admitted(reply) => spent[reply.month] <= reply.plan.hard

\* At most one soft-threshold warning per month, even when the threshold moves.
SoftAtMostOnce == \A m \in Months : warned[m] <= 1

\* No counter or flag is left without its expiry, or with that of another month:
\* each outlives its own month by the grace and no longer, whichever cost was
\* the first of the month and wherever the clock went in between.
CountersExpire ==
  \A m \in Months :
    LET due == (m + 1) * MonthLen + MonthGrace
    IN  /\ quota[m].n > 0 => quota[m].exp = due
        /\ flag[m] # NoKey => flag[m] = due

\* With one plan the warning is also never missed: it is reported by exactly
\* one admitted request as soon as the month's spending reaches the threshold.
SoftWarnedExactly ==
  \A m \in Months, p \in Plans :
    warned[m] = IF p.soft > 0 /\ spent[m] >= p.soft THEN 1 ELSE 0

UsedAt(at) ==
  LET m == at \div MonthLen
  IN  IF m \in Months THEN Used(quota[m], at) ELSE 0

\* The decisions a check at time `at` could get if nothing happened until then.
Verdicts(r, c, p, at) ==
  LET w == Trim(window[r], wexp[r], p, at)
  IN  {Allowed(b, w, UsedAt(at), c, p) : b \in Refill(bucket[r], p, at)}

\* All-or-nothing: a denied check changes no later decision on any resource, at
\* any cost.  With plans that agree on the window.
DenyIsInvisible ==
  [][Denied(reply') =>
       \A r \in Resources, c \in Costs, p \in Plans :
         \A at \in now .. now + 2 * Win(p) :
           Verdicts(r, c, p, at)' = Verdicts(r, c, p, at)]_vars

\* Replies are about a clock that has not gone back.
Steady == real = now

\* A client that waits the reported retry_after (and two microseconds, for the
\* rounding and for the inclusive end of the window) is admitted if nobody else
\* comes; one that comes two seconds early is not.  Only costs the plan can
\* ever admit have an honest answer.
RetryAfterHonest ==
  Denied(reply) /\ Steady /\ reply.cost <= reply.plan.cap
                /\ reply.cost <= reply.plan.hard =>
    LET due == now + reply.retry_after * UTOK
    IN  /\ FALSE \notin Verdicts(reply.res, reply.cost, reply.plan, due + 2)
        /\ reply.retry_after >= 2 =>
             TRUE \notin Verdicts(reply.res, reply.cost, reply.plan, due - 2 * UTOK)

\* What a reply says remains can be spent: a cost within all three remaining
\* values is admitted in the next microsecond if nobody else comes.
RemainingIsSpendable ==
  Admitted(reply) \/ Denied(reply) =>
    \A c \in Costs :
      c <= reply.b_remaining /\ reply.s_remaining >= 1 /\ c <= reply.q_remaining
        => FALSE \notin Verdicts(reply.res, c, reply.plan, now + 1)

\* The reset values mean what the headers say: after b_reset seconds the bucket
\* is full, after s_reset the oldest member has left the window, and q_reset
\* ends in the next month.
ResetsAreHonest ==
  (Admitted(reply) \/ Denied(reply)) /\ Steady =>
    LET r == reply.res
        p == reply.plan
        oldestGone == now + reply.s_reset * UTOK + 1
    IN  /\ \A b \in Refill(bucket[r], p, now + reply.b_reset * UTOK + 2) :
             b.t = Cap(p)
        /\ window[r] # {} =>
             Cardinality(Trim(window[r], wexp[r], p, oldestGone))
               < Cardinality(window[r])
        /\ (now + reply.q_reset * UTOK) \div MonthLen = Month + 1
=============================================================================
