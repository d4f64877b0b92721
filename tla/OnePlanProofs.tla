--------------------------- MODULE OnePlanProofs ---------------------------
(***************************************************************************)
(* Proofs about the admission script that need checks to agree on their    *)
(* limits: one plan that does not change.  What the replies and the header *)
(* say is then true, and the script implements Admission.                  *)
(***************************************************************************)
EXTENDS CheckScriptRefinement, CheckResponse, CheckScriptProofs

USE CostsAssumption, PlansAssumption, UnitsAssumption, GraceAssumption,
    BoundsAssumption

\* All checks run under the same limits.
SamePlan == \A p, q \in Plans : p = q

\* An admission and a denial, seen from the refilled bucket that decided, with the reply
\* by field.
AllowFrom(b, r, c, p) ==
  LET w == Trim(window[r], wexp[r], p, now)
      used == Used(quota[Month], now)
      members == w \cup {Entry(r, c, p)}
  IN  /\ BurstOk(b, c) /\ SustainedOk(w, p) /\ QuotaOk(used, c, p)
      /\ bucket' = [bucket EXCEPT ![r] =
                      [t |-> b.t - c * UTOK, ts |-> b.ts, exp |-> now + BucketTTL(p)]]
      /\ window' = [window EXCEPT ![r] = members]
      /\ UNCHANGED <<now, real>>
      /\ reply'.res = r /\ reply'.cost = c /\ reply'.plan = p
      /\ reply'.deny_layer = "" /\ reply'.soft_crossed = Crosses(used, c, p)
      /\ reply'.b_remaining = (b.t - c * UTOK) \div UTOK
      /\ reply'.b_reset = CeilDiv(Cap(p) - (b.t - c * UTOK), p.rate * UTOK)
      /\ reply'.s_remaining = AtLeast0(p.limit - Cardinality(members))
      /\ reply'.s_reset = SustainedReset(members, p, now)
      /\ reply'.q_remaining = AtLeast0(p.hard - (used + c))
      /\ reply'.q_reset = QuotaReset(now)

DenyFrom(b, r, c, p) ==
  LET w == Trim(window[r], wexp[r], p, now)
      used == Used(quota[Month], now)
  IN  /\ ~(BurstOk(b, c) /\ SustainedOk(w, p) /\ QuotaOk(used, c, p))
      /\ window' = [window EXCEPT ![r] = w]
      /\ UNCHANGED <<now, real, bucket, wexp, quota, flag, log, granted, spent, warned>>
      /\ reply'.res = r /\ reply'.cost = c /\ reply'.plan = p
      /\ reply'.deny_layer = DenyLayer(b, w, c, p)
      /\ reply'.soft_crossed = FALSE
      /\ reply'.b_remaining = b.t \div UTOK
      /\ reply'.b_reset = CeilDiv(Cap(p) - b.t, p.rate * UTOK)
      /\ reply'.s_remaining = AtLeast0(p.limit - Cardinality(w))
      /\ reply'.s_reset = SustainedReset(w, p, now)
      /\ reply'.q_remaining = AtLeast0(p.hard - used)
      /\ reply'.q_reset = QuotaReset(now)
      /\ reply'.retry_after = RetryAfter(b, w, used, c, p, now)

\* An admission is one of AllowFrom for some refilled bucket.
LEMMA AllowParts ==
  ASSUME NEW r \in Resources, NEW c \in Costs, NEW p \in Plans, Allow(r, c, p)
  PROVE  \E b \in Refill(bucket[r], p, now) : AllowFrom(b, r, c, p)
<1> DEFINE w == Trim(window[r], wexp[r], p, now)
           used == Used(quota[Month], now)
           members == w \cup {Entry(r, c, p)}
<1>1. PICK b \in Refill(bucket[r], p, now) :
           /\ Allowed(b, w, used, c, p)
           /\ bucket' = [bucket EXCEPT ![r] =
                           [t |-> b.t - c * UTOK, ts |-> b.ts,
                            exp |-> now + BucketTTL(p)]]
           /\ window' = [window EXCEPT ![r] = members]
           /\ UNCHANGED <<now, real>>
           /\ reply' = Report(r, c, p, "", [t |-> b.t - c * UTOK, ts |-> b.ts], members,
                              used + c, Crosses(used, c, p), 0)
  BY DEF Allow
<1>2. /\ reply'.res = r /\ reply'.cost = c /\ reply'.plan = p
      /\ reply'.deny_layer = "" /\ reply'.soft_crossed = Crosses(used, c, p)
      /\ reply'.b_remaining = (b.t - c * UTOK) \div UTOK
      /\ reply'.b_reset = CeilDiv(Cap(p) - (b.t - c * UTOK), p.rate * UTOK)
      /\ reply'.s_remaining = AtLeast0(p.limit - Cardinality(members))
      /\ reply'.s_reset = SustainedReset(members, p, now)
      /\ reply'.q_remaining = AtLeast0(p.hard - (used + c))
      /\ reply'.q_reset = QuotaReset(now)
  <2> HIDE DEF members, used
  <2> QED
    BY <1>1 DEF Report
<1> QED
  BY <1>1, <1>2 DEF Allowed, AllowFrom

\* A denial is one of DenyFrom for some refilled bucket.
LEMMA DenyParts ==
  ASSUME NEW r \in Resources, NEW c \in Costs, NEW p \in Plans, Deny(r, c, p)
  PROVE  \E b \in Refill(bucket[r], p, now) : DenyFrom(b, r, c, p)
<1> DEFINE w == Trim(window[r], wexp[r], p, now)
           used == Used(quota[Month], now)
<1>1. PICK b \in Refill(bucket[r], p, now) :
           /\ ~Allowed(b, w, used, c, p)
           /\ window' = [window EXCEPT ![r] = w]
           /\ reply' = Report(r, c, p, DenyLayer(b, w, c, p), b, w, used, FALSE,
                              RetryAfter(b, w, used, c, p, now))
           /\ UNCHANGED <<now, real, bucket, wexp, quota, flag, history>>
  BY DEF Deny
<1>2. /\ reply'.res = r /\ reply'.cost = c /\ reply'.plan = p
      /\ reply'.deny_layer = DenyLayer(b, w, c, p)
      /\ reply'.soft_crossed = FALSE
      /\ reply'.b_remaining = b.t \div UTOK
      /\ reply'.b_reset = CeilDiv(Cap(p) - b.t, p.rate * UTOK)
      /\ reply'.s_remaining = AtLeast0(p.limit - Cardinality(w))
      /\ reply'.s_reset = SustainedReset(w, p, now)
      /\ reply'.q_remaining = AtLeast0(p.hard - used)
      /\ reply'.q_reset = QuotaReset(now)
      /\ reply'.retry_after = RetryAfter(b, w, used, c, p, now)
  <2> HIDE DEF w, used
  <2> QED
    BY <1>1 DEF Report
<1> QED
  BY <1>1, <1>2 DEF Allowed, DenyFrom, history

\* A reply that admits comes from Allow, one that denies from Deny, and the clock
\* replies nothing.
LEMMA AllowReplies ==
  ASSUME NEW r \in Resources, NEW c \in Costs, NEW p \in Plans, Allow(r, c, p)
  PROVE  reply'.deny_layer = "" /\ Admitted(reply)' /\ ~Denied(reply)'
<1>1. reply'.deny_layer = ""
  BY AllowParts DEF AllowFrom
<1> QED
  BY <1>1 DEF Admitted, Denied

\* A denial is reported as one.
LEMMA DenyReplies ==
  ASSUME NEW r \in Resources, NEW c \in Costs, NEW p \in Plans, Deny(r, c, p)
  PROVE  Denied(reply)' /\ ~Admitted(reply)'
<1>1. PICK b \in Refill(bucket[r], p, now) : DenyFrom(b, r, c, p)
  BY DenyParts
<1>2. reply'.deny_layer = DenyLayer(b, Trim(window[r], wexp[r], p, now), c, p)
  BY <1>1 DEF DenyFrom
<1> QED
  BY <1>2 DEF Admitted, Denied, DenyLayer

\* When only the clock moves there is no reply.
LEMMA ClockRepliesNothing ==
  ASSUME Tick \/ \E d \in 1 .. MaxSkew, purged \in BOOLEAN : Regress(d, purged)
  PROVE  reply' = NoReply /\ ~Denied(reply)' /\ ~Admitted(reply)'
<1>1. reply' = NoReply
  BY DEF Tick, Regress
<1> QED
  BY <1>1 DEF NoReply, Admitted, Denied

-----------------------------------------------------------------------------
(* The warning                                                             *)

\* What makes the warning exact: a month's flag is set when the month was warned
\* about, and only then.
FlagSetInv == \A m \in Months : warned[m] = 0 => flag[m] = NoKey

\* A check reads the truth, so the one that takes the spending to the threshold
\* finds no flag and warns.
LEMMA SoftAllow ==
  ASSUME SamePlan, TypeOK, QuotaInv, SoftInv, FlagSetInv, SoftWarnedExactly,
         NEW r \in Resources, NEW c \in Costs, NEW p \in Plans, Allow(r, c, p)
  PROVE  FlagSetInv' /\ SoftWarnedExactly'
<1> DEFINE used == Used(quota[Month], now)
           crossing == Crosses(used, c, p)
<1>1. /\ quota \in [Months -> [n : Nat, exp : Expiry]] /\ flag \in [Months -> Expiry]
      /\ spent \in [Months -> Nat] /\ warned \in [Months -> Nat] /\ now \in Nat
      /\ c \in Nat \ {0} /\ p.soft \in Nat
      /\ Month \in Months /\ now < MonthEnd /\ MonthEnd \in Nat
  <2>1. p.soft \in Nat
    BY PlanFacts
  <2>2. c \in Nat \ {0}
    OBVIOUS
  <2> QED
    BY <2>1, <2>2, MonthFacts DEF TypeOK
<1>2. used = spent[Month]
  BY UsedIsSpent
<1>3. /\ flag' = IF crossing THEN [flag EXCEPT ![Month] = MonthTTL] ELSE flag
      /\ spent' = [spent EXCEPT ![Month] = @ + c]
      /\ warned' = IF crossing THEN [warned EXCEPT ![Month] = @ + 1] ELSE warned
  BY DEF Allow
<1>4. \A q \in Plans : q = p
  BY DEF SamePlan
<1>5. warned[Month] = IF p.soft > 0 /\ spent[Month] >= p.soft THEN 1 ELSE 0
  BY <1>1 DEF SoftWarnedExactly
<1>6. EndOf(Month) = MonthEnd
  BY DEF EndOf, MonthEnd
<1>7. warned[Month] = 1 => Live(flag[Month], now)
  BY <1>1, <1>6 DEF SoftInv, Live, Expiry, NoKey
<1>8. warned[Month] = 0 => ~Live(flag[Month], now)
  BY <1>1 DEF FlagSetInv, Live, NoKey
<1>9. crossing <=> p.soft > 0 /\ spent[Month] < p.soft /\ spent[Month] + c >= p.soft
  BY <1>1, <1>2, <1>5, <1>8 DEF Crosses
<1> HIDE DEF crossing
<1>10. warned'[Month] = IF p.soft > 0 /\ spent'[Month] >= p.soft THEN 1 ELSE 0
  BY <1>1, <1>3, <1>5, <1>9
<1>11. \A m \in Months : m # Month =>
         warned'[m] = warned[m] /\ spent'[m] = spent[m] /\ flag'[m] = flag[m]
  BY <1>1, <1>3
<1>12. SoftWarnedExactly'
  <2> SUFFICES ASSUME NEW m \in Months
               PROVE  warned'[m] = IF p.soft > 0 /\ spent'[m] >= p.soft THEN 1 ELSE 0
    BY <1>4 DEF SoftWarnedExactly
  <2> QED
    BY <1>10, <1>11 DEF SoftWarnedExactly
<1>13. FlagSetInv'
  <2> SUFFICES ASSUME NEW m \in Months, warned'[m] = 0
               PROVE  flag'[m] = NoKey
    BY DEF FlagSetInv
  <2>1. CASE m # Month
    BY <1>11, <2>1 DEF FlagSetInv
  <2>2. CASE m = Month
    BY <1>1, <1>3, <2>2 DEF FlagSetInv
  <2> QED
    BY <2>1, <2>2
<1> QED
  BY <1>12, <1>13

\* Nothing but an admitted check touches the spending, the flags and the warnings.
LEMMA OthersKeepSpending ==
  ASSUME [Next]_vars,
         \A r \in Resources, c \in Costs, p \in Plans : ~Allow(r, c, p)
  PROVE  UNCHANGED <<quota, flag, log, granted, spent, warned>>
<1>1. ASSUME NEW r \in Resources, NEW c \in Costs, NEW p \in Plans, Deny(r, c, p)
      PROVE  UNCHANGED <<quota, flag, log, granted, spent, warned>>
  BY <1>1 DEF Deny, history
<1>2. Tick => UNCHANGED <<quota, flag, log, granted, spent, warned>>
  BY DEF Tick, redis, history
<1>3. ASSUME NEW d \in 1 .. MaxSkew, NEW purged \in BOOLEAN, Regress(d, purged)
      PROVE  UNCHANGED <<quota, flag, log, granted, spent, warned>>
  BY <1>3 DEF Regress, history
<1>4. UNCHANGED vars => UNCHANGED <<quota, flag, log, granted, spent, warned>>
  BY DEF vars, redis, history
<1> QED
  BY <1>1, <1>2, <1>3, <1>4 DEF Next, Check

\* The warnings and flags agree in every behaviour under one plan.
LEMMA WarningInvariant ==
  ASSUME SamePlan
  PROVE  Spec => [](FlagSetInv /\ SoftWarnedExactly)
<1>1. Init => FlagSetInv /\ SoftWarnedExactly
  BY PlanFacts DEF Init, FlagSetInv, SoftWarnedExactly
<1>2. TypeOK /\ QuotaInv /\ SoftInv /\ FlagSetInv /\ SoftWarnedExactly /\ [Next]_vars
        => FlagSetInv' /\ SoftWarnedExactly'
  <2> SUFFICES ASSUME TypeOK, QuotaInv, SoftInv, FlagSetInv, SoftWarnedExactly, [Next]_vars
               PROVE  FlagSetInv' /\ SoftWarnedExactly'
    OBVIOUS
  <2>1. CASE \E r \in Resources, c \in Costs, p \in Plans : Allow(r, c, p)
    BY <2>1, SoftAllow
  <2>2. CASE \A r \in Resources, c \in Costs, p \in Plans : ~Allow(r, c, p)
    BY <2>2, OthersKeepSpending DEF FlagSetInv, SoftWarnedExactly
  <2> QED
    BY <2>1, <2>2
<1> QED
  BY <1>1, <1>2, TypeCorrect, MonthInvariant, PTL DEF Spec

\* Under one plan a month is warned about exactly when its spending has reached the
\* threshold, though the clock may go back and keys expire.
THEOREM WarningIsExact ==
  ASSUME SamePlan
  PROVE  Spec => []SoftWarnedExactly
  BY WarningInvariant, PTL

-----------------------------------------------------------------------------
(* Denials                                                                 *)

\* What a denial trims from the window, no later check would have counted.
LEMMA TrimTwice ==
  ASSUME NEW w, \A m \in w : m.score \in Nat, NEW p \in Plans, NEW q \in Plans,
         Win(p) = Win(q), NEW exp \in Expiry, NEW at \in Nat, NEW later \in Nat,
         at <= later
  PROVE  Trim(Trim(w, exp, p, at), exp, q, later) = Trim(w, exp, q, later)
<1>1. Win(q) \in Nat
  BY PlanFacts
<1>2. CASE Live(exp, at)
  <2>1. \A m \in w : InWindow(m, q, later) => InWindow(m, p, at)
    BY <1>1 DEF InWindow
  <2>2. Trim(w, exp, p, at) = {m \in w : InWindow(m, p, at)}
    BY <1>2 DEF Trim
  <2> QED
    BY <2>1, <2>2 DEF Trim
<1>3. CASE ~Live(exp, at)
  <2>1. ~Live(exp, later)
    BY <1>3 DEF Live, Expiry, NoKey
  <2> QED
    BY <1>3, <2>1 DEF Trim
<1> QED
  BY <1>2, <1>3

\* Under plans that agree on the window, a denied check changes no later decision on
\* any resource at any cost, wherever the clock has been.
THEOREM DenialsLeaveNoTrace ==
  ASSUME SameWindow
  PROVE  Spec => DenyIsInvisible
<1> DEFINE Same == \A r \in Resources, c \in Costs, p \in Plans :
                     \A at \in now .. now + 2 * Win(p) :
                       Verdicts(r, c, p, at)' = Verdicts(r, c, p, at)
<1>1. ASSUME TypeOK, NEW r \in Resources, NEW c \in Costs, NEW p \in Plans, Deny(r, c, p)
      PROVE  Same
  <2> SUFFICES ASSUME NEW x \in Resources, NEW k \in Costs, NEW q \in Plans,
                      NEW at \in now .. now + 2 * Win(q)
               PROVE  Verdicts(x, k, q, at)' = Verdicts(x, k, q, at)
    OBVIOUS
  <2>1. /\ now \in Nat /\ Win(q) \in Nat /\ Win(p) = Win(q) /\ window[r] \in SUBSET Entries
        /\ window \in [Resources -> SUBSET Entries] /\ wexp[r] \in Expiry
    BY <1>1, PlanFacts DEF TypeOK, SameWindow, Win
  <2>2. UNCHANGED <<bucket, wexp, quota, flag>>
        /\ window' = [window EXCEPT ![r] = Trim(window[r], wexp[r], p, now)]
    BY <1>1 DEF Deny
  <2>3. \A m \in window[r] : m.score \in Nat
    BY <2>1 DEF Entries
  <2>4. Trim(window'[x], wexp'[x], q, at) = Trim(window[x], wexp[x], q, at)
    <3>1. CASE x = r
      <4>1. at \in Nat /\ now <= at
        BY <2>1
      <4>2. window'[r] = Trim(window[r], wexp[r], p, now)
        BY <2>1, <2>2
      <4> QED
        BY <2>1, <2>2, <2>3, <3>1, <4>1, <4>2, TrimTwice
    <3>2. CASE x # r
      BY <2>1, <2>2, <3>2
    <3> QED
      BY <3>1, <3>2
  <2>5. UsedAt(at)' = UsedAt(at)
    BY <2>2 DEF UsedAt
  <2>6. Verdicts(x, k, q, at)'
        = {Allowed(b, Trim(window'[x], wexp'[x], q, at), UsedAt(at)', k, q) :
             b \in Refill(bucket'[x], q, at)}
    BY DEF Verdicts
  <2> QED
    BY <2>2, <2>4, <2>5, <2>6 DEF Verdicts
<1>2. ASSUME TypeOK, [Next]_vars
      PROVE  [Denied(reply') =>
                \A r \in Resources, c \in Costs, p \in Plans :
                  \A at \in now .. now + 2 * Win(p) :
                    Verdicts(r, c, p, at)' = Verdicts(r, c, p, at)]_vars
  <2> SUFFICES ASSUME Next, Denied(reply')
               PROVE  Same
    BY <1>2
  <2>1. PICK r \in Resources, c \in Costs, p \in Plans : Allow(r, c, p) \/ Deny(r, c, p)
    BY <1>2, ClockRepliesNothing DEF Next, Check
  <2> QED
    BY <1>1, <1>2, <2>1, AllowReplies
<1> QED
  BY <1>2, TypeCorrect, PTL DEF Spec, DenyIsInvisible

-----------------------------------------------------------------------------
(* Rounding                                                                *)

\* A whole number of units is not rounded, and rounding makes up for one microtoken
\* when a unit is larger than that.
LEMMA CeilDivExact ==
  ASSUME NEW b \in Nat \ {0}, NEW n \in Nat
  PROVE  CeilDiv(b * n, b) = n
<1>1. b * n \in Nat
  OBVIOUS
<1> DEFINE k == CeilDiv(b * n, b)
<1>2. k \in Nat /\ b * n <= b * k /\ b * k < b * n + b
  BY <1>1, CeilDivCovers, CeilDivNat
<1> HIDE DEF k
<1>3. k >= n
  <2>1. ASSUME k + 1 <= n PROVE FALSE
    <3>1. b * (k + 1) <= b * n
      BY <1>2, <2>1, TimesMonotonic
    <3> QED
      BY <1>2, <3>1
  <2> QED
    BY <1>2, <2>1
<1>4. k <= n
  <2>1. ASSUME n + 1 <= k PROVE FALSE
    <3>1. b * (n + 1) <= b * k
      BY <1>2, <2>1, TimesMonotonic
    <3> QED
      BY <1>2, <3>1
  <2> QED
    BY <1>2, <2>1
<1> QED
  BY <1>2, <1>3, <1>4 DEF k

\* A quotient rounded up is the least that covers.
LEMMA CeilDivBelow ==
  ASSUME NEW b \in Nat, b > 1, NEW n \in Nat \ {0}
  PROVE  CeilDiv(b * n - 1, b) = n
<1>1. b * n - 1 \in Nat /\ b * n \in Nat
  OBVIOUS
<1> DEFINE k == CeilDiv(b * n - 1, b)
<1>2. k \in Nat /\ b * n - 1 <= b * k /\ b * k < b * n - 1 + b
  BY <1>1, CeilDivCovers, CeilDivNat
<1> HIDE DEF k
<1>3. k >= n
  <2>1. ASSUME k + 1 <= n PROVE FALSE
    <3>1. b * (k + 1) <= b * n
      BY <1>2, <2>1, TimesMonotonic
    <3> QED
      BY <1>2, <3>1
  <2> QED
    BY <1>2, <2>1
<1>4. k <= n
  <2>1. ASSUME n + 1 <= k PROVE FALSE
    <3>1. b * (n + 1) <= b * k
      BY <1>2, <2>1, TimesMonotonic
    <3> QED
      BY <1>2, <3>1
  <2> QED
    BY <1>2, <2>1
<1> QED
  BY <1>2, <1>3, <1>4 DEF k

-----------------------------------------------------------------------------
(* What a bucket is worth                                                  *)

\* A bucket that was written under plan p with a steady clock: it is not full, and by
\* the time its key expires it would be.
BucketOK(b, p) ==
  /\ b.t \in Nat /\ b.ts \in Nat /\ b.exp \in Expiry
  /\ b.exp # NoKey => /\ b.t < Cap(p) /\ b.ts <= b.exp
                      /\ Cap(p) <= p.rate * (b.exp + 1 - b.ts)

\* The tokens it is worth at a time, without the rounding of refills and whether its key
\* has expired or not.
Worth(b, p, at) ==
  IF b.exp = NoKey THEN Cap(p) ELSE Smaller(Cap(p), b.t + p.rate * Elapsed(b.ts, at))

\* An expired bucket is worth a full one, so that its expiry changes nothing.
LEMMA ExpiredIsFull ==
  ASSUME NEW p \in Plans, NEW b, BucketOK(b, p), NEW at \in Nat, ~Live(b.exp, at)
  PROVE  Worth(b, p, at) = Cap(p)
<1>1. p.rate \in Nat /\ Cap(p) \in Nat
  BY PlanFacts
<1>2. CASE b.exp = NoKey
  BY <1>2 DEF Worth
<1>3. CASE b.exp # NoKey
  <2>1. /\ b.t \in Nat /\ b.ts \in Nat /\ b.exp \in Nat /\ b.ts <= b.exp /\ b.exp < at
        /\ Cap(p) <= p.rate * (b.exp + 1 - b.ts)
    BY <1>3 DEF BucketOK, Expiry, Live
  <2>2. Elapsed(b.ts, at) = at - b.ts /\ b.exp + 1 - b.ts <= at - b.ts
    BY <2>1 DEF Elapsed, AtLeast0
  <2>3. p.rate * (b.exp + 1 - b.ts) <= p.rate * (at - b.ts) /\ p.rate * (at - b.ts) \in Int
        /\ p.rate * (b.exp + 1 - b.ts) \in Int
    BY <1>1, <2>1, <2>2, TimesMonotonic
  <2>4. Cap(p) <= b.t + p.rate * Elapsed(b.ts, at)
    BY <1>1, <2>1, <2>2, <2>3
  <2>5. b.t + p.rate * Elapsed(b.ts, at) \in Int
    BY <2>1, <2>2, <2>3
  <2> QED
    BY <1>1, <1>3, <2>4, <2>5 DEF Worth, Smaller
<1> QED
  BY <1>2, <1>3

\* A refill gives what the bucket is worth, but for one microtoken that it may hold
\* back; with what its refill time still has to be credited, the bucket is worth what it was
\* or one microtoken less.
LEMMA RefillWorth ==
  ASSUME NEW p \in Plans, NEW old, BucketOK(old, p), NEW at \in Nat, old.ts <= at + 1,
         NEW b \in Refill(old, p, at)
  PROVE  /\ Worth(old, p, at) \in Nat /\ Worth(old, p, at) <= Cap(p)
         /\ b.t \in Nat /\ b.t <= Worth(old, p, at) /\ Worth(old, p, at) <= b.t + 1
         /\ b.ts \in Nat /\ b.ts <= at + 1 /\ at <= b.ts + 1
         /\ p.rate * Elapsed(b.ts, at) \in Nat
         /\ b.t + p.rate * Elapsed(b.ts, at) <= Worth(old, p, at)
         /\ Worth(old, p, at) <= b.t + p.rate * Elapsed(b.ts, at) + 1
<1> DEFINE V == Worth(old, p, at)
           e == Elapsed(old.ts, at)
<1>1. p.rate \in Nat \ {0} /\ Cap(p) \in Nat
  BY PlanFacts
<1>2. old.t \in Nat /\ old.ts \in Nat /\ old.exp \in Expiry
  BY DEF BucketOK
<1>3. e \in Nat /\ (e > 0 => e = at - old.ts) /\ (e = 0 => at <= old.ts)
  BY <1>2 DEF Elapsed, AtLeast0
<1> DEFINE x == p.rate * e
<1>4. x \in Nat /\ e * p.rate = x /\ e <= x /\ (e = 0 => x = 0)
  BY <1>1, <1>3
<1>5. CASE b = FullBucket(p, at) /\ V = Cap(p)
  <2>1. b.t = Cap(p) /\ b.ts = at
    BY <1>5 DEF FullBucket
  <2>2. Elapsed(b.ts, at) = 0
    BY <2>1 DEF Elapsed, AtLeast0
  <2> QED
    BY <1>1, <1>5, <2>1, <2>2
<1>6. CASE ~Live(old.exp, at)
  <2>1. b = FullBucket(p, at)
    BY <1>6 DEF Refill
  <2> QED
    BY <1>5, <1>6, <2>1, ExpiredIsFull
<1>7. CASE Live(old.exp, at)
  <2>1. old.exp # NoKey /\ old.t < Cap(p)
    BY <1>7 DEF Live, NoKey, BucketOK
  <2>2. V = IF Cap(p) < old.t + x THEN Cap(p) ELSE old.t + x
    BY <2>1 DEF Worth, Smaller
  <2>3. V \in Nat /\ V <= Cap(p)
    BY <1>1, <1>2, <1>4, <2>2
  <2>4. CASE x >= Cap(p)
    <3>1. b = FullBucket(p, at)
      BY <1>4, <2>4 DEF Refill
    <3>2. V = Cap(p)
      BY <1>1, <1>2, <1>4, <2>2, <2>4
    <3> QED
      BY <1>5, <3>1, <3>2
  <2>5. CASE x < Cap(p)
    <3>1. ~(~Live(old.exp, at) \/ e * p.rate >= Cap(p))
      BY <1>1, <1>4, <1>7, <2>5
    <3>2. PICK y \in Roundings : b = Credit(old, p, at, y)
      BY <3>1 DEF Refill
    <3>3. /\ y.short \in {0, 1} /\ y.long \in {0, 1}
          /\ y.short = 1 => y.long = 0
      BY DEF Roundings
    <3> DEFINE add == x - y.short
    <3>4. add \in Int
      BY <1>4, <3>3
    <3>5. b = IF add <= 0 THEN [t |-> old.t, ts |-> old.ts]
              ELSE IF old.t + add >= Cap(p) THEN FullBucket(p, at)
              ELSE [t |-> old.t + add, ts |-> old.ts + CeilDiv(add, p.rate) + y.long]
      BY <1>4, <3>2 DEF Credit
    <3>6. CASE add <= 0
      <4>1. b.t = old.t /\ b.ts = old.ts
        BY <3>5, <3>6
      <4>2. x = 0 \/ (x = 1 /\ e = 1)
        BY <1>1, <1>3, <1>4, <3>3, <3>6
      <4>3. V = old.t + x
        BY <1>1, <1>2, <2>1, <2>2, <4>2
      <4>4. e = 0 => at <= old.ts
        BY <1>3
      <4> HIDE DEF add
      <4> QED
        BY <1>1, <1>2, <1>3, <1>4, <2>3, <4>1, <4>2, <4>3
    <3>7. CASE add > 0 /\ old.t + add >= Cap(p)
      <4>1. b = FullBucket(p, at)
        BY <3>4, <3>5, <3>7
      <4>2. V = Cap(p)
        BY <1>1, <1>2, <1>4, <2>2, <3>3, <3>7
      <4> QED
        BY <1>5, <4>1, <4>2
    <3>8. CASE add > 0 /\ old.t + add < Cap(p)
      <4>1. b.t = old.t + add /\ b.ts = old.ts + CeilDiv(add, p.rate) + y.long
        BY <1>1, <1>2, <3>4, <3>5, <3>8
      <4>2. V = old.t + x
        BY <1>1, <1>2, <1>4, <2>2, <3>3, <3>8
      <4>3. e > 0 /\ e = at - old.ts
        BY <1>1, <1>3, <1>4, <3>3, <3>8
      <4>4. CASE y.short = 0
        <5>1. CeilDiv(add, p.rate) = e
          <6>1. add = p.rate * e
            BY <1>4, <4>4
          <6> QED
            BY <1>1, <1>3, <6>1, CeilDivExact
        <5>2. b.ts = at + y.long /\ b.t = V
          BY <1>2, <3>3, <4>1, <4>2, <4>3, <4>4, <5>1, <1>4
        <5>3. Elapsed(b.ts, at) = 0
          BY <3>3, <5>2 DEF Elapsed, AtLeast0
        <5> QED
          BY <1>1, <2>3, <3>3, <5>2, <5>3
      <4>5. CASE y.short = 1 /\ p.rate = 1
        <5>1. CeilDiv(add, p.rate) = e - 1
          BY <1>3, <1>4, <3>4, <4>3, <4>5 DEF CeilDiv
        <5>2. b.ts = at - 1 /\ b.t = V - 1
          BY <1>2, <1>4, <3>3, <4>1, <4>2, <4>3, <4>5, <5>1
        <5>3. Elapsed(b.ts, at) = 1 /\ b.ts \in Nat
          BY <1>2, <1>3, <4>3, <5>2 DEF Elapsed, AtLeast0
        <5>4. b.t \in Nat
          BY <1>2, <1>4, <3>4, <3>8, <4>1
        <5> QED
          BY <2>3, <4>5, <5>2, <5>3, <5>4
      <4>6. CASE y.short = 1 /\ p.rate > 1
        <5>1. CeilDiv(add, p.rate) = e
          BY <1>1, <1>3, <3>4, <4>3, <4>6, CeilDivBelow
        <5>2. b.ts = at /\ b.t = V - 1
          BY <1>2, <1>4, <3>3, <4>1, <4>2, <4>3, <4>6, <5>1
        <5>3. Elapsed(b.ts, at) = 0
          BY <5>2 DEF Elapsed, AtLeast0
        <5>4. b.t \in Nat
          BY <1>2, <1>4, <3>4, <3>8, <4>1
        <5> QED
          BY <1>1, <2>3, <5>2, <5>3, <5>4
      <4> QED
        BY <1>1, <3>3, <4>4, <4>5, <4>6
    <3> QED
      BY <1>1, <1>2, <3>4, <3>6, <3>7, <3>8
  <2> QED
    BY <1>1, <1>4, <2>4, <2>5
<1> QED
  BY <1>6, <1>7

-----------------------------------------------------------------------------
(* A clock that has not gone back                                          *)

\* What holds of the keys in Redis while the clock is right: buckets are as they were
\* written, windows are no larger than the limit, entries carry the time they were made,
\* and no month that is still to come has been charged.
SteadyInv ==
  Steady =>
    /\ \A r \in Resources, p \in Plans :
         /\ BucketOK(bucket[r], p) /\ bucket[r].ts <= now + 1
         /\ IsFiniteSet(window[r]) /\ Cardinality(window[r]) <= p.limit
    /\ \A r \in Resources : \A e \in log[r] : e.score = e.at
    /\ \A m \in Months : m > Month => spent[m] = 0

\* What an admitted request leaves is a bucket as it should be: its TTL covers a refill.
LEMMA ConsumedOK ==
  ASSUME NEW p \in Plans, NEW old, BucketOK(old, p), NEW at \in Nat, old.ts <= at + 1,
         NEW b \in Refill(old, p, at), NEW x \in Nat \ {0}, x <= b.t,
         NEW left, left.t = b.t - x, left.ts = b.ts, left.exp = at + BucketTTL(p)
  PROVE  BucketOK(left, p) /\ left.ts <= at + 1
<1>1. /\ b.t \in Nat /\ b.t <= Cap(p) /\ b.ts \in Nat /\ b.ts <= at + 1
  <2>1. Worth(old, p, at) \in Nat /\ Worth(old, p, at) <= Cap(p) /\ Cap(p) \in Nat
        /\ b.t \in Nat /\ b.t <= Worth(old, p, at) /\ b.ts \in Nat /\ b.ts <= at + 1
    BY RefillWorth, PlanFacts
  <2> QED
    BY <2>1
<1>2. p.rate \in Nat \ {0} /\ p.cap \in Nat \ {0} /\ BucketTTL(p) \in Nat /\ Cap(p) \in Nat
  BY PlanFacts
<1> DEFINE full == CeilDiv(p.cap, p.rate)
<1>3. full \in Nat /\ p.cap <= p.rate * full
  BY <1>2, CeilDivCovers, CeilDivNat
<1>4. BucketTTL(p) = full * UTOK + KeyGrace
  BY DEF BucketTTL
<1> HIDE DEF full
<1>5. full >= 1
  BY <1>2, <1>3
<1>6. full * UTOK \in Nat /\ full * UTOK >= 1 /\ BucketTTL(p) >= full * UTOK
  BY <1>3, <1>4, <1>5
<1>7. Cap(p) <= p.rate * (full * UTOK)
  <2>1. UTOK * p.cap <= UTOK * (p.rate * full)
    BY <1>2, <1>3, TimesMonotonic
  <2>2. UTOK * (p.rate * full) = p.rate * (full * UTOK)
    BY <1>2, <1>3
  <2> QED
    BY <1>2, <2>1, <2>2 DEF Cap
<1>8. full * UTOK <= left.exp + 1 - left.ts /\ left.exp \in Nat /\ left.ts <= left.exp
  BY <1>1, <1>2, <1>6
<1>9. p.rate * (full * UTOK) <= p.rate * (left.exp + 1 - left.ts)
      /\ p.rate * (left.exp + 1 - left.ts) \in Int /\ p.rate * (full * UTOK) \in Int
  BY <1>1, <1>2, <1>6, <1>8, TimesMonotonic
<1>10. Cap(p) <= p.rate * (left.exp + 1 - left.ts)
  BY <1>2, <1>7, <1>9
<1> QED
  BY <1>1, <1>2, <1>8, <1>10 DEF BucketOK, Expiry

\* The conjuncts of SteadyInv about one resource.
SteadyAt(r) ==
  \A p \in Plans :
    /\ BucketOK(bucket[r], p) /\ bucket[r].ts <= now + 1
    /\ IsFiniteSet(window[r]) /\ Cardinality(window[r]) <= p.limit

\* A trim takes members away and adds none.
LEMMA TrimIsSmaller ==
  ASSUME NEW w, IsFiniteSet(w), NEW p, NEW exp, NEW at
  PROVE  /\ Trim(w, exp, p, at) \subseteq w
         /\ IsFiniteSet(Trim(w, exp, p, at))
         /\ Cardinality(Trim(w, exp, p, at)) \in Nat
         /\ Cardinality(Trim(w, exp, p, at)) <= Cardinality(w)
<1>1. Trim(w, exp, p, at) \subseteq w
  BY DEF Trim
<1> QED
  BY <1>1, FS_Subset, FS_CardinalityType

\* An admission keeps SteadyInv.
LEMMA SteadyAllow ==
  ASSUME SamePlan, TypeOK, TypeOK', SteadyInv, Steady,
         NEW r \in Resources, NEW c \in Costs, NEW p \in Plans, Allow(r, c, p)
  PROVE  SteadyInv'
<1>1. PICK b \in Refill(bucket[r], p, now) : AllowFrom(b, r, c, p)
  BY AllowParts
<1>2. now \in Nat /\ c \in Nat \ {0} /\ UTOK \in Nat \ {0} /\ now' = now /\ real' = real
      /\ bucket \in [Resources -> [t : Nat, ts : Nat, exp : Expiry]]
      /\ window \in [Resources -> SUBSET Entries] /\ window' \in [Resources -> SUBSET Entries]
  BY <1>1 DEF TypeOK, AllowFrom
<1>3. \A q \in Plans : q = p
  BY DEF SamePlan
<1>4. \A x \in Resources : SteadyAt(x)
  BY DEF SteadyInv, SteadyAt
<1>5. ASSUME NEW x \in Resources, x # r
      PROVE  SteadyAt(x)'
  <2>1. bucket'[x] = bucket[x] /\ window'[x] = window[x]
    BY <1>1, <1>2, <1>5 DEF AllowFrom
  <2> QED
    BY <1>2, <1>4, <2>1 DEF SteadyAt
<1>6. SteadyAt(r)'
  <2>1. BucketOK(bucket[r], p) /\ bucket[r].ts <= now + 1
    BY <1>4 DEF SteadyAt
  <2>2. bucket'[r] = [t |-> b.t - c * UTOK, ts |-> b.ts, exp |-> now + BucketTTL(p)]
    BY <1>1, <1>2 DEF AllowFrom
  <2>3. c * UTOK \in Nat \ {0} /\ c * UTOK <= b.t
    <3>1. c * UTOK \in Nat \ {0}
      BY <1>2
    <3>2. b.t >= c * UTOK /\ b.t \in Nat
      BY <1>1, <1>2, <2>1, RefillWorth DEF AllowFrom, BurstOk
    <3> QED
      BY <3>1, <3>2
  <2>4. BucketOK(bucket'[r], p) /\ bucket'[r].ts <= now + 1
    <3>1. /\ bucket'[r].t = b.t - c * UTOK /\ bucket'[r].ts = b.ts
          /\ bucket'[r].exp = now + BucketTTL(p)
      BY <2>2
    <3> QED
      BY <1>2, <2>1, <2>3, <3>1, ConsumedOK
  <2> DEFINE w == Trim(window[r], wexp[r], p, now)
  <2>5. IsFiniteSet(w) /\ Cardinality(w) \in Nat
    BY <1>4, TrimIsSmaller DEF SteadyAt
  <2>6. Cardinality(w) + 1 <= p.limit /\ window'[r] = w \cup {Entry(r, c, p)}
    BY <1>1, <1>2 DEF AllowFrom, SustainedOk
  <2>7. p.limit \in Nat
    BY PlanFacts
  <2> HIDE DEF w
  <2>8. IsFiniteSet(window'[r]) /\ Cardinality(window'[r]) <= p.limit
    <3>1. PICK e : window'[r] = w \cup {e}
      BY <2>6
    <3>2. /\ IsFiniteSet(w \cup {e})
          /\ Cardinality(w \cup {e}) = IF e \in w THEN Cardinality(w) ELSE Cardinality(w) + 1
      BY <2>5, FS_AddElement
    <3>3. Cardinality(w \cup {e}) <= p.limit
      BY <2>5, <2>6, <2>7, <3>2
    <3> QED
      BY <3>1, <3>2, <3>3
  <2> QED
    BY <1>2, <1>3, <2>4, <2>8 DEF SteadyAt
<1>7. \A x \in Resources : \A e \in log'[x] : e.score = e.at
  <2>1. log' = [log EXCEPT ![r] = @ \cup {Entry(r, c, p)}] /\ log \in [Resources -> SUBSET Entries]
    BY DEF Allow, TypeOK
  <2>2. Entry(r, c, p).score = Entry(r, c, p).at
    BY DEF Entry, Steady
  <2> QED
    BY <2>1, <2>2 DEF SteadyInv
<1>8. \A m \in Months : m > Month => spent'[m] = 0
  <2>1. spent' = [spent EXCEPT ![Month] = @ + c] /\ spent \in [Months -> Nat]
    BY DEF Allow, TypeOK
  <2>2. Month \in Int
    BY <1>2 DEF Month
  <2> QED
    BY <2>1, <2>2 DEF SteadyInv
<1>9. Month' = Month
  BY <1>2 DEF Month
<1> QED
  BY <1>5, <1>6, <1>7, <1>8, <1>9 DEF SteadyInv, SteadyAt

\* The clock is right after a step only if it was right before.
LEMMA StaysSteady ==
  ASSUME TypeOK, [Next]_vars, Steady'
  PROVE  Steady
<1>1. now \in Nat /\ real \in Nat /\ now <= real
  BY DEF TypeOK
<1>2. ASSUME NEW r \in Resources, NEW c \in Costs, NEW p \in Plans,
             Allow(r, c, p) \/ Deny(r, c, p)
      PROVE  UNCHANGED <<now, real>>
  BY <1>2 DEF Allow, Deny
<1>3. ASSUME Tick PROVE Steady
  <2>1. real' = real + 1 /\ now' = now + 1
    BY <1>3 DEF Tick
  <2>2. real' = now'
    BY DEF Steady
  <2>3. real = now
    BY <1>1, <2>1, <2>2
  <2> QED
    BY <2>3 DEF Steady
<1>4. ASSUME NEW d \in 1 .. MaxSkew, NEW purged \in BOOLEAN
      PROVE  ~Regress(d, purged)
  BY <1>1 DEF Regress, Steady
<1> QED
  BY <1>2, <1>3, <1>4 DEF Next, Check, Steady, vars

\* A denial keeps SteadyInv.
LEMMA SteadyDeny ==
  ASSUME TypeOK, SteadyInv, Steady,
         NEW r \in Resources, NEW c \in Costs, NEW p \in Plans, Deny(r, c, p)
  PROVE  SteadyInv'
<1>1. PICK b \in Refill(bucket[r], p, now) : DenyFrom(b, r, c, p)
  BY DenyParts
<1>2. /\ UNCHANGED <<now, real, bucket, log, spent>>
      /\ window' = [window EXCEPT ![r] = Trim(window[r], wexp[r], p, now)]
      /\ window \in [Resources -> SUBSET Entries]
  BY <1>1 DEF DenyFrom, TypeOK
<1>3. ASSUME NEW x \in Resources, NEW q \in Plans
      PROVE  IsFiniteSet(window'[x]) /\ Cardinality(window'[x]) <= q.limit
  <2>1. /\ IsFiniteSet(window[x]) /\ Cardinality(window[x]) <= q.limit
        /\ Cardinality(window[x]) \in Nat /\ q.limit \in Nat
    BY FS_CardinalityType, PlanFacts DEF SteadyInv
  <2>2. CASE x # r
    BY <1>2, <2>1, <2>2
  <2>3. CASE x = r
    <3>1. window'[r] = Trim(window[r], wexp[r], p, now)
      BY <1>2
    <3>2. /\ IsFiniteSet(Trim(window[r], wexp[r], p, now))
          /\ Cardinality(Trim(window[r], wexp[r], p, now)) \in Nat
          /\ Cardinality(Trim(window[r], wexp[r], p, now)) <= Cardinality(window[r])
      BY <2>1, <2>3, TrimIsSmaller
    <3> QED
      BY <2>1, <2>3, <3>1, <3>2
  <2> QED
    BY <2>2, <2>3
<1>4. Month' = Month
  BY <1>2 DEF Month
<1> QED
  BY <1>2, <1>3, <1>4 DEF SteadyInv

\* A tick keeps SteadyInv: a month that begins has not been charged.
LEMMA SteadyTick ==
  ASSUME TypeOK, SteadyInv, Steady, Tick
  PROVE  SteadyInv'
<1>1. /\ now' = now + 1 /\ now \in Nat /\ MonthLen \in Nat \ {0}
      /\ UNCHANGED <<bucket, window, log, spent>>
      /\ bucket \in [Resources -> [t : Nat, ts : Nat, exp : Expiry]]
  BY DEF Tick, TypeOK, redis, history
<1>2. Month <= Month' /\ Month \in Nat /\ Month' \in Nat
  BY <1>1 DEF Month
<1>3. \A m \in Months : m > Month' => spent'[m] = 0
  BY <1>1, <1>2 DEF SteadyInv, Months
<1>4. \A r \in Resources, p \in Plans :
         /\ BucketOK(bucket[r], p) /\ bucket[r].ts <= now' + 1
         /\ IsFiniteSet(window[r]) /\ Cardinality(window[r]) <= p.limit
  BY <1>1 DEF SteadyInv
<1> QED
  BY <1>1, <1>3, <1>4 DEF SteadyInv

\* SteadyInv holds in every behaviour under one plan.
LEMMA SteadyInvariant ==
  ASSUME SamePlan
  PROVE  Spec => []SteadyInv
<1>1. Init => SteadyInv
  <2> SUFFICES ASSUME Init PROVE SteadyInv
    OBVIOUS
  <2>1. ASSUME NEW r \in Resources, NEW p \in Plans
        PROVE  /\ BucketOK(bucket[r], p) /\ bucket[r].ts <= now + 1
               /\ IsFiniteSet(window[r]) /\ Cardinality(window[r]) <= p.limit
    BY PlanFacts, FS_EmptySet DEF Init, BucketOK, Expiry
  <2> QED
    BY <2>1 DEF Init, SteadyInv
<1>2. TypeOK /\ TypeOK' /\ SteadyInv /\ [Next]_vars => SteadyInv'
  <2> SUFFICES ASSUME TypeOK, TypeOK', SteadyInv, [Next]_vars, Steady'
               PROVE  SteadyInv'
    BY DEF SteadyInv
  <2>1. Steady
    BY StaysSteady
  <2>2. ASSUME NEW r \in Resources, NEW c \in Costs, NEW p \in Plans, Check(r, c, p)
        PROVE  SteadyInv'
    BY <2>1, <2>2, SteadyAllow, SteadyDeny DEF Check
  <2>3. ASSUME NEW d \in 1 .. MaxSkew, NEW purged \in BOOLEAN
        PROVE  ~Regress(d, purged)
    BY <2>1 DEF Regress, Steady, TypeOK
  <2>4. CASE UNCHANGED vars
    BY <2>4 DEF vars, redis, history, SteadyInv, Steady, Month
  <2> QED
    BY <2>1, <2>2, <2>3, <2>4, SteadyTick DEF Next
<1> QED
  BY <1>1, <1>2, TypeCorrect, PTL DEF Spec

-----------------------------------------------------------------------------
(* What a reply is about                                                   *)

\* Consuming x microtokens takes them from what the bucket is worth, and one more
\* at most.
LEMMA ConsumedWorth ==
  ASSUME NEW p \in Plans, NEW old, BucketOK(old, p), NEW at \in Nat, old.ts <= at + 1,
         NEW b \in Refill(old, p, at), NEW x \in Nat \ {0}, x <= b.t,
         NEW left, left.t = b.t - x, left.ts = b.ts, left.exp = at + BucketTTL(p)
  PROVE  /\ left.t \in Nat
         /\ left.t <= Worth(left, p, at) /\ Worth(left, p, at) <= left.t + 1
         /\ Worth(left, p, at) = Worth(old, p, at) - x
            \/ Worth(left, p, at) = Worth(old, p, at) - x - 1
<1> DEFINE V == Worth(old, p, at)
           g == p.rate * Elapsed(b.ts, at)
<1>1. /\ V \in Nat /\ V <= Cap(p) /\ b.t \in Nat /\ b.t <= V /\ V <= b.t + 1
      /\ g \in Nat /\ b.t + g <= V /\ V <= b.t + g + 1
  BY RefillWorth
<1>2. Cap(p) \in Nat /\ BucketTTL(p) \in Nat
  BY PlanFacts
<1>3. left.exp # NoKey
  BY <1>2 DEF NoKey
<1>4. Worth(left, p, at) = Smaller(Cap(p), (b.t - x) + g)
  BY <1>3 DEF Worth
<1> HIDE DEF V, g
<1>5. Smaller(Cap(p), (b.t - x) + g) = (b.t - x) + g
  BY <1>1, <1>2 DEF Smaller
<1>6. /\ left.t \in Nat /\ left.t <= Worth(left, p, at) /\ Worth(left, p, at) <= left.t + 1
      /\ Worth(left, p, at) = V - x \/ Worth(left, p, at) = V - x - 1
  BY <1>1, <1>4, <1>5
<1> QED
  BY <1>6 DEF V

\* A reply reports the window as it was left, the spending, and a bucket b that holds what
\* the stored one is worth, or a microtoken less.
ReplyFor(r, p, c) ==
  LET w == window[r]
      worth == Worth(bucket[r], p, now)
  IN  /\ Trim(w, wexp[r], p, now) = w
      /\ reply.s_remaining = AtLeast0(p.limit - Cardinality(w))
      /\ reply.s_reset = SustainedReset(w, p, now)
      /\ reply.q_remaining = AtLeast0(p.hard - spent[Month])
      /\ reply.q_reset = QuotaReset(now)
      /\ \E b : /\ b.t \in Nat /\ b.t <= worth /\ worth <= b.t + 1
                /\ reply.b_remaining = b.t \div UTOK
                /\ reply.b_reset = CeilDiv(Cap(p) - b.t, p.rate * UTOK)
                /\ Denied(reply) =>
                     /\ ~(BurstOk(b, c) /\ SustainedOk(w, p) /\ QuotaOk(spent[Month], c, p))
                     /\ reply.deny_layer = DenyLayer(b, w, c, p)
                     /\ reply.retry_after = RetryAfter(b, w, spent[Month], c, p, now)

\* A reply, as long as it is the last thing that happened, describes the state it left.
ReplyInv ==
  Steady /\ (Admitted(reply) \/ Denied(reply)) =>
    \E r \in Resources, p \in Plans, c \in Costs :
      reply.res = r /\ reply.plan = p /\ reply.cost = c /\ ReplyFor(r, p, c)

\* An admission replies so.
LEMMA ReplyAllow ==
  ASSUME TypeOK, SteadyInv, QuotaInv, Steady,
         NEW r \in Resources, NEW c \in Costs, NEW p \in Plans, Allow(r, c, p)
  PROVE  ReplyInv'
<1>1. PICK b \in Refill(bucket[r], p, now) : AllowFrom(b, r, c, p)
  BY AllowParts
<1>2. now \in Nat /\ c \in Nat \ {0} /\ UTOK \in Nat \ {0} /\ now' = now /\ real' = real
      /\ bucket \in [Resources -> [t : Nat, ts : Nat, exp : Expiry]]
      /\ window \in [Resources -> SUBSET Entries] /\ wexp \in [Resources -> Expiry]
      /\ spent \in [Months -> Nat] /\ Month \in Months
  BY <1>1, MonthFacts DEF TypeOK, AllowFrom
<1>3. BucketOK(bucket[r], p) /\ bucket[r].ts <= now + 1
  BY DEF SteadyInv
<1>4. bucket'[r] = [t |-> b.t - c * UTOK, ts |-> b.ts, exp |-> now + BucketTTL(p)]
  BY <1>1, <1>2 DEF AllowFrom
<1>5. c * UTOK \in Nat \ {0} /\ c * UTOK <= b.t
  <2>1. c * UTOK \in Nat \ {0}
    BY <1>2
  <2>2. b.t >= c * UTOK /\ b.t \in Nat
    BY <1>1, <1>2, <1>3, RefillWorth DEF AllowFrom, BurstOk
  <2> QED
    BY <2>1, <2>2
<1>6. PICK left : left = [t |-> b.t - c * UTOK, ts |-> b.ts, exp |-> now + BucketTTL(p)]
  OBVIOUS
<1>7. left.t \in Nat /\ left.t <= Worth(left, p, now) /\ Worth(left, p, now) <= left.t + 1
  <2>1. left.t = b.t - c * UTOK /\ left.ts = b.ts /\ left.exp = now + BucketTTL(p)
    BY <1>6
  <2> QED
    BY <1>2, <1>3, <1>5, <2>1, ConsumedWorth
<1>8. Worth(bucket[r], p, now)' = Worth(left, p, now)
  BY <1>2, <1>4, <1>6 DEF Worth
<1>9. Month' = Month /\ spent'[Month] = Used(quota[Month], now) + c
  BY <1>2, UsedIsSpent DEF Month, Allow
<1> DEFINE w == Trim(window[r], wexp[r], p, now)
           members == w \cup {Entry(r, c, p)}
<1>10. window'[r] = members
  BY <1>1, <1>2 DEF AllowFrom
<1>11. Trim(window[r], wexp[r], p, now)' = members
  <2>1. wexp'[r] = now + WindowTTL(p)
    BY <1>2 DEF Allow
  <2>2. Live(wexp'[r], now)
    BY <1>2, <2>1, PlanFacts DEF Live
  <2>3. \A m \in w : InWindow(m, p, now)
    BY DEF Trim
  <2>4. InWindow(Entry(r, c, p), p, now)
    BY <1>2, PlanFacts DEF InWindow, Entry
  <2>5. \A m \in members : InWindow(m, p, now)
    BY <2>3, <2>4
  <2> HIDE DEF members
  <2> QED
    BY <1>2, <1>10, <2>2, <2>5 DEF Trim
<1>12. ~Denied(reply')
  BY AllowReplies
<1>13. /\ reply'.res = r /\ reply'.cost = c /\ reply'.plan = p
       /\ reply'.b_remaining = left.t \div UTOK
       /\ reply'.b_reset = CeilDiv(Cap(p) - left.t, p.rate * UTOK)
       /\ reply'.s_remaining = AtLeast0(p.limit - Cardinality(members))
       /\ reply'.s_reset = SustainedReset(members, p, now)
       /\ reply'.q_remaining = AtLeast0(p.hard - spent'[Month])
       /\ reply'.q_reset = QuotaReset(now)
  BY <1>1, <1>6, <1>9 DEF AllowFrom
<1> HIDE DEF members
<1>14. ReplyFor(r, p, c)'
  BY <1>2, <1>7, <1>8, <1>9, <1>10, <1>11, <1>12, <1>13 DEF ReplyFor
<1> QED
  BY <1>13, <1>14 DEF ReplyInv

\* A denial replies so.
LEMMA ReplyDeny ==
  ASSUME TypeOK, SteadyInv, QuotaInv, Steady,
         NEW r \in Resources, NEW c \in Costs, NEW p \in Plans, Deny(r, c, p)
  PROVE  ReplyInv'
<1>1. PICK b \in Refill(bucket[r], p, now) : DenyFrom(b, r, c, p)
  BY DenyParts
<1>2. /\ now \in Nat /\ now' = now /\ UNCHANGED <<bucket, wexp, spent>>
      /\ window \in [Resources -> SUBSET Entries] /\ wexp \in [Resources -> Expiry]
      /\ Month' = Month
  BY <1>1 DEF TypeOK, DenyFrom, Month
<1>3. BucketOK(bucket[r], p) /\ bucket[r].ts <= now + 1
  BY DEF SteadyInv
<1>4. b.t \in Nat /\ b.t <= Worth(bucket[r], p, now) /\ Worth(bucket[r], p, now) <= b.t + 1
  BY <1>2, <1>3, RefillWorth
<1>5. Worth(bucket[r], p, now)' = Worth(bucket[r], p, now)
  BY <1>2
<1>6. Used(quota[Month], now) = spent[Month]
  BY UsedIsSpent
<1> DEFINE w == Trim(window[r], wexp[r], p, now)
<1>7. window'[r] = w
  BY <1>1, <1>2 DEF DenyFrom
<1>8. Trim(window[r], wexp[r], p, now)' = w
  <2>1. Trim(w, wexp[r], p, now) = w
    <3>1. \A m \in window[r] : m.score \in Nat
      BY <1>2 DEF Entries
    <3> QED
      BY <1>2, <3>1, TrimTwice
  <2> QED
    BY <1>2, <1>7, <2>1
<1>9. /\ reply'.res = r /\ reply'.cost = c /\ reply'.plan = p
      /\ ~(BurstOk(b, c) /\ SustainedOk(w, p) /\ QuotaOk(spent[Month], c, p))
      /\ reply'.deny_layer = DenyLayer(b, w, c, p)
      /\ reply'.b_remaining = b.t \div UTOK
      /\ reply'.b_reset = CeilDiv(Cap(p) - b.t, p.rate * UTOK)
      /\ reply'.s_remaining = AtLeast0(p.limit - Cardinality(w))
      /\ reply'.s_reset = SustainedReset(w, p, now)
      /\ reply'.q_remaining = AtLeast0(p.hard - spent[Month])
      /\ reply'.q_reset = QuotaReset(now)
      /\ reply'.retry_after = RetryAfter(b, w, spent[Month], c, p, now)
  BY <1>1, <1>6 DEF DenyFrom
<1> HIDE DEF w
<1>10. ReplyFor(r, p, c)'
  BY <1>2, <1>4, <1>5, <1>7, <1>8, <1>9 DEF ReplyFor
<1> QED
  BY <1>9, <1>10 DEF ReplyInv

\* ReplyInv holds in every behaviour under one plan.
LEMMA ReplyInvariant ==
  ASSUME SamePlan
  PROVE  Spec => []ReplyInv
<1>1. Init => ReplyInv
  BY DEF Init, ReplyInv, NoReply, Admitted, Denied
<1>2. TypeOK /\ SteadyInv /\ QuotaInv /\ ReplyInv /\ [Next]_vars => ReplyInv'
  <2> SUFFICES ASSUME TypeOK, SteadyInv, QuotaInv, ReplyInv, [Next]_vars, Steady',
                      ~(~Denied(reply)' /\ ~Admitted(reply)')
               PROVE  ReplyInv'
    BY DEF ReplyInv
  <2>1. Steady
    BY StaysSteady
  <2>2. ASSUME NEW r \in Resources, NEW c \in Costs, NEW p \in Plans, Check(r, c, p)
        PROVE  ReplyInv'
    BY <2>1, <2>2, ReplyAllow, ReplyDeny DEF Check
  <2>3. ~(Tick \/ \E d \in 1 .. MaxSkew, purged \in BOOLEAN : Regress(d, purged))
    BY ClockRepliesNothing
  <2>4. ASSUME UNCHANGED vars
        PROVE  ReplyInv'
    <3>1. UNCHANGED <<now, bucket, window, wexp, spent, reply>>
      BY <2>4 DEF vars, redis, history
    <3>2. ASSUME NEW r \in Resources, NEW p \in Plans, NEW c \in Costs, ReplyFor(r, p, c)
          PROVE  ReplyFor(r, p, c)'
      BY <3>1, <3>2 DEF ReplyFor, Month
    <3>3. Admitted(reply) \/ Denied(reply)
      BY <3>1
    <3> QED
      BY <2>1, <3>1, <3>2, <3>3 DEF ReplyInv
  <2> QED
    BY <2>2, <2>3, <2>4 DEF Next
<1> QED
  BY <1>1, <1>2, TypeCorrect, MonthInvariant, SteadyInvariant, PTL DEF Spec

-----------------------------------------------------------------------------
(* What a check would find later                                           *)

\* A refill reaches what the tokens and the elapsed time come to, but for the microtoken
\* that rounding holds back.
LEMMA RefillReaches ==
  ASSUME NEW p \in Plans, NEW old, BucketOK(old, p), NEW at \in Nat,
         NEW goal \in Nat, goal <= Cap(p),
         ~Live(old.exp, at) \/ goal + 1 <= old.t + p.rate * Elapsed(old.ts, at),
         NEW b \in Refill(old, p, at)
  PROVE  b.t \in Nat /\ goal <= b.t
<1>1. p.rate \in Nat \ {0} /\ Cap(p) \in Nat
  BY PlanFacts
<1>2. old.t \in Nat /\ old.ts \in Nat
  BY DEF BucketOK
<1>3. CASE b = FullBucket(p, at)
  BY <1>1, <1>3 DEF FullBucket
<1>4. CASE b # FullBucket(p, at)
  <2> DEFINE x == p.rate * Elapsed(old.ts, at)
  <2>1. x \in Nat /\ Elapsed(old.ts, at) * p.rate = x
    BY <1>1, <1>2 DEF Elapsed, AtLeast0
  <2>2. Live(old.exp, at)
    BY <1>4 DEF Refill
  <2>3. PICK y \in Roundings : b = Credit(old, p, at, y)
    BY <1>4 DEF Refill
  <2>4. y.short \in {0, 1}
    BY DEF Roundings
  <2> DEFINE add == x - y.short
  <2>5. b.t = IF add <= 0 THEN old.t ELSE old.t + add
    BY <1>4, <2>1, <2>3 DEF Credit
  <2>6. goal + 1 <= old.t + x
    BY <2>2
  <2> HIDE DEF x
  <2> QED
    BY <1>2, <2>1, <2>4, <2>5, <2>6
<1> QED
  BY <1>3, <1>4

\* In k ticks a bucket gains what the rate brings, less a tick at most for a refill
\* time that is ahead.
LEMMA WorthGrows ==
  ASSUME NEW p \in Plans, NEW old, BucketOK(old, p), NEW at \in Nat, old.ts <= at + 1,
         NEW k \in Nat \ {0}
  PROVE  /\ Worth(old, p, at) \in Nat /\ Worth(old, p, at) <= Cap(p)
         /\ Worth(old, p, at + k) \in Nat
         /\ Worth(old, p, at + k) <= Worth(old, p, at) + p.rate * k
         /\ old.exp = NoKey
            \/ Worth(old, p, at) + p.rate * (k - 1) <= old.t + p.rate * Elapsed(old.ts, at + k)
<1>1. p.rate \in Nat \ {0} /\ Cap(p) \in Nat /\ p.rate * k \in Nat /\ p.rate * (k - 1) \in Nat
      /\ p.rate * k = p.rate * (k - 1) + p.rate
  BY PlanFacts
<1>2. old.t \in Nat /\ old.ts \in Nat
  BY DEF BucketOK
<1>3. CASE old.exp = NoKey
  BY <1>1, <1>3 DEF Worth
<1>4. CASE old.exp # NoKey
  <2> DEFINE e == Elapsed(old.ts, at)
             f == Elapsed(old.ts, at + k)
  <2>1. e \in Nat /\ f \in Nat /\ f <= e + k /\ e + (k - 1) <= f
    BY <1>2 DEF Elapsed, AtLeast0
  <2> HIDE DEF e, f
  <2>2. p.rate * f <= p.rate * (e + k) /\ p.rate * (e + (k - 1)) <= p.rate * f
    BY <1>1, <2>1, TimesMonotonic
  <2>3. p.rate * (e + k) = p.rate * e + p.rate * k
        /\ p.rate * (e + (k - 1)) = p.rate * e + p.rate * (k - 1)
        /\ p.rate * e \in Nat /\ p.rate * f \in Nat
    BY <1>1, <2>1
  <2>4. /\ Worth(old, p, at) = Smaller(Cap(p), old.t + p.rate * e)
        /\ Worth(old, p, at + k) = Smaller(Cap(p), old.t + p.rate * f)
    BY <1>4 DEF Worth, e, f
  <2>5. /\ Worth(old, p, at) \in Nat /\ Worth(old, p, at) <= Cap(p)
        /\ Worth(old, p, at) <= old.t + p.rate * e
        /\ Worth(old, p, at + k) \in Nat
        /\ Worth(old, p, at + k) <= Cap(p)
        /\ Worth(old, p, at + k) <= old.t + p.rate * f
        /\ Worth(old, p, at) = Cap(p) \/ Worth(old, p, at) = old.t + p.rate * e
    BY <1>1, <1>2, <2>3, <2>4 DEF Smaller
  <2>6. Worth(old, p, at + k) <= Worth(old, p, at) + p.rate * k
    BY <1>1, <1>2, <2>2, <2>3, <2>5
  <2>7. Worth(old, p, at) + p.rate * (k - 1) <= old.t + p.rate * f
    BY <1>1, <1>2, <2>2, <2>3, <2>5
  <2> QED
    BY <2>5, <2>6, <2>7 DEF f
<1> QED
  BY <1>3, <1>4

\* What any refill finds k ticks from now.
LEMMA LaterReaches ==
  ASSUME NEW p \in Plans, NEW old, BucketOK(old, p), NEW at \in Nat, old.ts <= at + 1,
         NEW k \in Nat \ {0}, NEW goal \in Nat, goal <= Cap(p),
         goal + 1 <= Worth(old, p, at) + p.rate * (k - 1),
         NEW b \in Refill(old, p, at + k)
  PROVE  b.t \in Nat /\ goal <= b.t
<1>1. at + k \in Nat /\ p.rate \in Nat \ {0}
  BY PlanFacts
<1>2. CASE old.exp = NoKey
  <2>1. ~Live(old.exp, at + k)
    BY <1>1, <1>2 DEF Live, NoKey
  <2> QED
    BY <1>1, <2>1, RefillReaches
<1>3. CASE old.exp # NoKey
  <2>1. /\ Worth(old, p, at) + p.rate * (k - 1) <= old.t + p.rate * Elapsed(old.ts, at + k)
        /\ Worth(old, p, at) \in Nat
    BY <1>3, WorthGrows
  <2>2. /\ p.rate * (k - 1) \in Int /\ old.t \in Nat
        /\ Elapsed(old.ts, at + k) \in Nat
    BY <1>1 DEF BucketOK, Elapsed, AtLeast0
  <2>3. p.rate * Elapsed(old.ts, at + k) \in Nat
    BY <1>1, <2>2
  <2>4. goal + 1 <= old.t + p.rate * Elapsed(old.ts, at + k)
    BY <2>1, <2>2, <2>3
  <2> QED
    BY <1>1, <2>4, RefillReaches
<1> QED
  BY <1>2, <1>3

\* No refill k ticks from now finds more than the rate can have added.
LEMMA LaterIsBelow ==
  ASSUME NEW p \in Plans, NEW old, BucketOK(old, p), NEW at \in Nat, old.ts <= at + 1,
         NEW k \in Nat \ {0}, NEW b \in Refill(old, p, at + k)
  PROVE  b.t \in Nat /\ b.t <= Worth(old, p, at) + p.rate * k
<1>1. at + k \in Nat /\ old.ts <= (at + k) + 1 /\ old.ts \in Nat
  BY DEF BucketOK
<1>2. b.t \in Nat /\ b.t <= Worth(old, p, at + k) /\ Worth(old, p, at + k) \in Nat
  BY <1>1, RefillWorth
<1>3. Worth(old, p, at + k) <= Worth(old, p, at) + p.rate * k /\ Worth(old, p, at) \in Nat
  BY WorthGrows
<1>4. p.rate * k \in Nat
  BY PlanFacts
<1> QED
  BY <1>2, <1>3, <1>4

\* A tick later no refill finds less than what the bucket is worth now.
LEMMA NextReaches ==
  ASSUME NEW p \in Plans, NEW old, BucketOK(old, p), NEW at \in Nat, old.ts <= at + 1,
         NEW b \in Refill(old, p, at + 1)
  PROVE  b.t \in Nat /\ Worth(old, p, at) <= b.t
<1>1. p.rate \in Nat \ {0} /\ Cap(p) \in Nat /\ old.t \in Nat /\ old.ts \in Nat
  BY PlanFacts DEF BucketOK
<1>2. Worth(old, p, at) \in Nat /\ Worth(old, p, at) <= Cap(p)
  BY WorthGrows
<1>3. CASE b = FullBucket(p, at + 1)
  BY <1>1, <1>2, <1>3 DEF FullBucket
<1>4. CASE b # FullBucket(p, at + 1) /\ old.ts = at + 1
  <2>1. Elapsed(old.ts, at) = 0 /\ Elapsed(old.ts, at + 1) = 0
    BY <1>4 DEF Elapsed, AtLeast0
  <2>2. Live(old.exp, at + 1)
    BY <1>4 DEF Refill
  <2>3. old.exp # NoKey /\ old.t < Cap(p)
    BY <2>2 DEF Live, NoKey, BucketOK
  <2>4. Worth(old, p, at) = old.t
    BY <1>1, <2>1, <2>3 DEF Worth, Smaller
  <2>5. PICK y \in Roundings : b = Credit(old, p, at + 1, y)
    BY <1>4 DEF Refill
  <2>6. y.short \in {0, 1}
    BY DEF Roundings
  <2>7. 0 * p.rate - y.short <= 0
    BY <1>1, <2>6
  <2>8. b.t = old.t
    BY <2>1, <2>5, <2>7 DEF Credit
  <2> QED
    BY <1>1, <2>4, <2>8
<1>5. CASE old.ts <= at
  <2>1. Elapsed(old.ts, at + 1) = Elapsed(old.ts, at) + 1 /\ Elapsed(old.ts, at) \in Nat
    BY <1>1, <1>5 DEF Elapsed, AtLeast0
  <2>2. p.rate * (Elapsed(old.ts, at) + 1) = p.rate * Elapsed(old.ts, at) + p.rate
        /\ p.rate * Elapsed(old.ts, at) \in Nat
    BY <1>1, <2>1
  <2>3. old.exp # NoKey => Worth(old, p, at) <= old.t + p.rate * Elapsed(old.ts, at)
    BY <1>1, <2>2 DEF Worth, Smaller
  <2>4. ~Live(old.exp, at + 1)
        \/ Worth(old, p, at) + 1 <= old.t + p.rate * Elapsed(old.ts, at + 1)
    BY <1>1, <1>2, <2>1, <2>2, <2>3 DEF Live, NoKey
  <2> QED
    BY <1>2, <2>4, RefillReaches
<1> QED
  BY <1>1, <1>3, <1>4, <1>5

\* A quotient is what its bounds say.
LEMMA QuotientIs ==
  ASSUME NEW n \in Nat, NEW d \in Nat \ {0}, NEW q \in Nat, d * q <= n, n < d * (q + 1)
  PROVE  n \div d = q
<1>1. PICK k : k = n \div d
  OBVIOUS
<1>2. k \in Nat /\ d * k <= n /\ n < d * k + d
  <2>1. n = d * (n \div d) + (n % d) /\ n % d \in 0 .. d - 1 /\ n \div d \in Nat
    OBVIOUS
  <2> QED
    BY <1>1, <2>1
<1>3. d * k + d = d * (k + 1)
  BY <1>2
<1>4. ~(k + 1 <= q)
  <2> SUFFICES ASSUME k + 1 <= q PROVE FALSE
    OBVIOUS
  <2>1. d * (k + 1) <= d * q
    BY <1>2, TimesMonotonic
  <2> QED
    BY <1>2, <1>3, <2>1
<1>5. ~(q + 1 <= k)
  <2> SUFFICES ASSUME q + 1 <= k PROVE FALSE
    OBVIOUS
  <2>1. d * (q + 1) <= d * k
    BY <1>2, TimesMonotonic
  <2> QED
    BY <1>2, <2>1
<1> QED
  BY <1>1, <1>2, <1>4, <1>5

\* Until the month ends a check reads what was spent in it, and after that nothing.
LEMMA LaterUsed ==
  ASSUME TypeOK, QuotaInv, SteadyInv, Steady, NEW at \in Nat, now <= at
  PROVE  /\ at < MonthEnd => UsedAt(at) = spent[Month]
         /\ at >= MonthEnd => UsedAt(at) = 0
         /\ UsedAt(at) \in Nat /\ UsedAt(at) <= spent[Month]
<1>1. /\ now \in Nat /\ MonthLen \in Nat \ {0} /\ Month \in Months /\ MonthEnd \in Nat
      /\ quota \in [Months -> [n : Nat, exp : Expiry]] /\ spent \in [Months -> Nat]
      /\ Months \subseteq Nat
  BY MonthFacts DEF TypeOK, Months
<1>2. MonthEnd = MonthLen * (Month + 1) /\ MonthLen * Month <= now
  <2>1. now = MonthLen * (now \div MonthLen) + (now % MonthLen) /\ now % MonthLen \in Nat
        /\ now \div MonthLen \in Nat
    BY <1>1
  <2> QED
    BY <1>1, <2>1 DEF MonthEnd, Month
<1>3. ASSUME at < MonthEnd
      PROVE  UsedAt(at) = spent[Month]
  <2>1. at \div MonthLen = Month
    BY <1>1, <1>2, <1>3, QuotientIs
  <2>2. /\ quota[Month].n = spent[Month]
        /\ spent[Month] > 0 => quota[Month].exp >= MonthEnd
    BY <1>1 DEF QuotaInv, EndOf, MonthEnd
  <2>3. quota[Month].exp \in Int
    BY <1>1 DEF Expiry, NoKey
  <2>4. Used(quota[Month], at) = spent[Month]
    BY <1>1, <1>3, <2>2, <2>3 DEF Used, Live
  <2> QED
    BY <1>1, <2>1, <2>4 DEF UsedAt
<1>4. ASSUME at >= MonthEnd
      PROVE  UsedAt(at) = 0
  <2>1. PICK m : m = at \div MonthLen
    OBVIOUS
  <2>2. m \in Nat /\ at < MonthLen * (m + 1)
    BY <1>1, <2>1
  <2>3. m > Month
    <3> SUFFICES ASSUME m + 1 <= Month + 1 PROVE FALSE
      BY <1>1, <2>2
    <3>1. MonthLen * (m + 1) <= MonthLen * (Month + 1)
      BY <1>1, <2>2, TimesMonotonic
    <3> QED
      BY <1>1, <1>2, <1>4, <2>2, <3>1
  <2>4. m \in Months => quota[m].n = 0
    BY <2>3 DEF SteadyInv, QuotaInv
  <2> QED
    BY <2>1, <2>4 DEF UsedAt, Used
<1> QED
  BY <1>1, <1>3, <1>4

\* The seconds of q_reset end with the month.
LEMMA QuotaResetEnds ==
  ASSUME TypeOK
  PROVE  /\ QuotaReset(now) \in Nat
         /\ MonthEnd <= now + QuotaReset(now) * UTOK
         /\ now + QuotaReset(now) * UTOK < MonthEnd + UTOK
         /\ UTOK <= MonthLen
<1>1. now \in Nat /\ UTOK \in Nat \ {0} /\ MonthLen \in Nat \ {0} /\ MonthLen % UTOK = 0
      /\ Month \in Nat /\ MonthEnd \in Nat /\ now < MonthEnd
  BY MonthFacts DEF TypeOK, Months
<1>2. PICK K, s, x : K = MonthLen \div UTOK /\ s = now \div UTOK /\ x = now % UTOK
  OBVIOUS
<1>3. /\ K \in Nat /\ MonthLen = UTOK * K
      /\ s \in Nat /\ now = UTOK * s + x /\ x \in 0 .. UTOK - 1
  BY <1>1, <1>2
<1>4. K >= 1
  BY <1>1, <1>3
<1>5. UTOK <= MonthLen
  <2>1. UTOK * 1 <= UTOK * K
    BY <1>1, <1>3, <1>4, TimesMonotonic
  <2> QED
    BY <1>1, <1>3, <2>1
<1>6. QuotaReset(now) = (Month + 1) * K - s
  BY <1>2 DEF QuotaReset, Month
<1>7. PICK y : y = (Month + 1) * K
  OBVIOUS
<1>8. y \in Nat /\ MonthEnd = UTOK * y
  BY <1>1, <1>3, <1>7 DEF MonthEnd
<1>9. y > s
  <2> SUFFICES ASSUME y <= s PROVE FALSE
    BY <1>3, <1>8
  <2>1. UTOK * y <= UTOK * s
    BY <1>1, <1>3, <1>8, TimesMonotonic
  <2> QED
    BY <1>1, <1>3, <1>8, <2>1
<1>10. QuotaReset(now) = y - s /\ QuotaReset(now) \in Nat
  BY <1>3, <1>6, <1>7, <1>8, <1>9
<1>11. (y - s) * UTOK = UTOK * y - UTOK * s
  BY <1>1, <1>3, <1>8
<1>12. now + QuotaReset(now) * UTOK = MonthEnd + x
  BY <1>1, <1>3, <1>8, <1>10, <1>11
<1> QED
  BY <1>1, <1>3, <1>5, <1>10, <1>12

\* Among finitely many members one is the oldest.
LEMMA OldestExists ==
  ASSUME NEW w, w # {}, \A m \in w : m.score \in Nat
  PROVE  \E m \in w : \A k \in w : m.score <= k.score
<1> DEFINE S == {m.score : m \in w}
<1>1. PICK x \in S : \A y \in S : x <= y
  <2>1. S \subseteq Nat /\ S # {}
    OBVIOUS
  <2> HIDE DEF S
  <2>2. PICK R : R = OpToRel(<, Nat)
    OBVIOUS
  <2>3. IsWellFoundedOn(R, Nat)
    BY <2>2, NatLessThanWellFounded
  <2>4. PICK x \in S : \A y \in S : <<y, x>> \notin R
    BY <2>1, <2>3, WFMin
  <2>5. \A n, m \in Nat : n < m => <<n, m>> \in R
    BY <2>2 DEF OpToRel
  <2>6. \A y \in S : x \in Nat /\ y \in Nat /\ ~(y < x)
    BY <2>1, <2>4, <2>5
  <2> QED
    BY <2>6
<1>2. PICK m \in w : x = m.score
  BY <1>1
<1>3. \A k \in w : k.score \in S /\ k.score \in Nat
  OBVIOUS
<1> QED
  BY <1>1, <1>2, <1>3

\* What a later trim leaves of a window that has just been trimmed.
LEMMA LaterWindow ==
  ASSUME TypeOK, WindowInv, SteadyInv, Steady, NEW r \in Resources, NEW p \in Plans,
         Trim(window[r], wexp[r], p, now) = window[r], NEW at \in Nat, now <= at
  PROVE  LET w == window[r]
             later == Trim(w, wexp[r], p, at)
         IN  /\ IsFiniteSet(w) /\ Cardinality(w) \in Nat /\ Cardinality(w) <= p.limit
             /\ later \subseteq w /\ Cardinality(later) \in Nat
             /\ Cardinality(later) <= Cardinality(w)
             /\ \A e \in w : /\ e.score \in Nat /\ now <= e.score + Win(p)
                             /\ e.score + Win(p) < at => Cardinality(later) < Cardinality(w)
                             /\ (\A k \in w : e.score <= k.score) /\ at <= e.score + Win(p)
                                  => later = w
<1> DEFINE w == window[r]
           later == Trim(w, wexp[r], p, at)
<1>1. /\ now \in Nat /\ w \subseteq log[r] /\ w \subseteq Entries /\ wexp[r] \in Expiry
      /\ Win(p) \in Nat /\ real = now
  BY PlanFacts DEF TypeOK, Steady
<1>2. IsFiniteSet(w) /\ Cardinality(w) \in Nat /\ Cardinality(w) <= p.limit
  BY FS_CardinalityType DEF SteadyInv
<1>3. later \subseteq w /\ Cardinality(later) \in Nat /\ Cardinality(later) <= Cardinality(w)
  BY <1>2, TrimIsSmaller
<1>4. ASSUME NEW e \in w
      PROVE  /\ e.score \in Nat /\ now <= e.score + Win(p) /\ e.score + Win(p) <= wexp[r]
  <2>1. e.score \in Nat /\ e \in Trim(w, wexp[r], p, now) /\ e \in log[r]
    BY <1>1 DEF Entries
  <2>2. InWindow(e, p, now)
    BY <2>1 DEF Trim
  <2>3. now <= e.score + Win(p)
    BY <1>1, <2>1, <2>2 DEF InWindow
  <2>4. e.at = e.score
    BY <2>1 DEF SteadyInv
  <2>5. wexp[r] - now >= e.at + Win(p) - real
    BY <1>1, <2>1, <2>3, <2>4 DEF WindowInv
  <2> QED
    BY <1>1, <2>1, <2>3, <2>4, <2>5 DEF Expiry, NoKey
<1>5. ASSUME NEW e \in w, e.score + Win(p) < at
      PROVE  Cardinality(later) < Cardinality(w)
  <2>1. e \notin later
    BY <1>1, <1>4, <1>5 DEF Trim, InWindow
  <2>2. later # w
    BY <2>1
  <2> HIDE DEF later, w
  <2> QED
    BY <1>2, <1>3, <2>2, FS_Subset
<1>6. ASSUME NEW e \in w, \A k \in w : e.score <= k.score, at <= e.score + Win(p)
      PROVE  later = w
  <2>1. wexp[r] \in Int
    BY <1>1 DEF Expiry, NoKey
  <2>2. Live(wexp[r], at)
    BY <1>1, <1>4, <1>6, <2>1 DEF Live
  <2>3. \A k \in w : InWindow(k, p, at)
    BY <1>1, <1>4, <1>6 DEF InWindow
  <2> HIDE DEF w
  <2> QED
    BY <2>2, <2>3 DEF Trim
<1> HIDE DEF w, later
<1>7. \A e \in w : /\ e.score \in Nat /\ now <= e.score + Win(p)
                   /\ e.score + Win(p) < at => Cardinality(later) < Cardinality(w)
                   /\ (\A k \in w : e.score <= k.score) /\ at <= e.score + Win(p)
                        => later = w
  BY <1>4, <1>5, <1>6
<1> QED
  BY <1>2, <1>3, <1>7 DEF w, later

\* The reset of the window is when its oldest member leaves, rounded up.
LEMMA SustainedResetIs ==
  ASSUME NEW w, w # {}, NEW p \in Plans, NEW at \in Nat,
         \A m \in w : m.score \in Nat /\ at <= m.score + Win(p)
  PROVE  \E m \in w : LET s == SustainedReset(w, p, at)
                      IN  /\ \A k \in w : m.score <= k.score
                          /\ s \in Nat
                          /\ m.score + Win(p) <= at + s * UTOK
                          /\ at + s * UTOK < m.score + Win(p) + UTOK
<1>1. PICK m : m = CHOOSE e \in w : \A k \in w : e.score <= k.score
  OBVIOUS
<1>2. m \in w /\ \A k \in w : m.score <= k.score
  BY <1>1, OldestExists
<1>3. Win(p) \in Nat /\ UTOK \in Nat \ {0}
  BY PlanFacts
<1>4. PICK n : n = m.score + Win(p) - at
  OBVIOUS
<1>5. n \in Nat
  BY <1>2, <1>3, <1>4
<1>6. CeilDiv(n, UTOK) \in Nat /\ n <= UTOK * CeilDiv(n, UTOK) /\ UTOK * CeilDiv(n, UTOK) < n + UTOK
  BY <1>3, <1>5, CeilDivCovers, CeilDivNat
<1>7. SustainedReset(w, p, at) = AtLeast0(CeilDiv(n, UTOK))
  BY <1>1, <1>4 DEF SustainedReset
<1>8. SustainedReset(w, p, at) = CeilDiv(n, UTOK)
  BY <1>6, <1>7 DEF AtLeast0
<1>9. PICK s : s = CeilDiv(n, UTOK)
  OBVIOUS
<1>10. s \in Nat /\ n <= s * UTOK /\ s * UTOK < n + UTOK /\ s * UTOK \in Nat
  BY <1>3, <1>6, <1>9
<1>11. m.score + Win(p) <= at + s * UTOK /\ at + s * UTOK < m.score + Win(p) + UTOK
  BY <1>2, <1>3, <1>4, <1>10
<1> QED
  BY <1>2, <1>8, <1>9, <1>10, <1>11

\* A cost within the three remaining values is admitted in the next tick.
LEMMA Spendable ==
  ASSUME TypeOK, QuotaInv, WindowInv, SteadyInv, Steady,
         NEW r \in Resources, NEW p \in Plans, NEW k, ReplyFor(r, p, k),
         NEW c \in Nat \ {0}, c <= reply.b_remaining, reply.s_remaining >= 1,
         c <= reply.q_remaining
  PROVE  FALSE \notin Verdicts(r, c, p, now + 1)
<1>1. /\ now \in Nat /\ now + 1 \in Nat /\ Month \in Months /\ spent[Month] \in Nat
      /\ p.hard \in Nat /\ p.limit \in Nat /\ UTOK \in Nat \ {0}
      /\ BucketOK(bucket[r], p) /\ bucket[r].ts <= now + 1
  BY MonthFacts, PlanFacts DEF TypeOK, SteadyInv
<1> DEFINE w == Trim(window[r], wexp[r], p, now + 1)
<1>2. SustainedOk(w, p)
  <2>1. Cardinality(w) \in Nat /\ Cardinality(w) <= Cardinality(window[r])
        /\ Cardinality(window[r]) \in Nat
    BY <1>1, LaterWindow DEF ReplyFor
  <2>2. AtLeast0(p.limit - Cardinality(window[r])) >= 1
    BY DEF ReplyFor
  <2> QED
    BY <1>1, <2>1, <2>2 DEF AtLeast0, SustainedOk
<1>3. QuotaOk(UsedAt(now + 1), c, p)
  <2>1. UsedAt(now + 1) \in Nat /\ UsedAt(now + 1) <= spent[Month]
    BY <1>1, LaterUsed
  <2>2. c <= AtLeast0(p.hard - spent[Month])
    BY DEF ReplyFor
  <2> QED
    BY <1>1, <2>1, <2>2 DEF AtLeast0, QuotaOk
<1>4. ASSUME NEW b \in Refill(bucket[r], p, now + 1)
      PROVE  BurstOk(b, c)
  <2>1. PICK h : /\ h.t \in Nat /\ h.t <= Worth(bucket[r], p, now)
                 /\ c <= h.t \div UTOK
    BY DEF ReplyFor
  <2>2. h.t \div UTOK \in Nat /\ UTOK * (h.t \div UTOK) <= h.t
    BY <1>1, <2>1
  <2>3. UTOK * c <= UTOK * (h.t \div UTOK)
    BY <1>1, <2>1, <2>2, TimesMonotonic
  <2>4. b.t \in Nat /\ Worth(bucket[r], p, now) <= b.t
    BY <1>1, NextReaches
  <2>5. Worth(bucket[r], p, now) \in Nat
    <3>1. 1 \in Nat \ {0}
      OBVIOUS
    <3> QED
      BY <1>1, <3>1, WorthGrows
  <2>6. UTOK * c = c * UTOK /\ c * UTOK \in Nat
    BY <1>1
  <2>7. UTOK * (h.t \div UTOK) \in Nat
    BY <1>1, <2>2
  <2> QED
    BY <2>1, <2>2, <2>3, <2>4, <2>5, <2>6, <2>7 DEF BurstOk
<1> QED
  BY <1>2, <1>3, <1>4 DEF Verdicts, Allowed

\* With a clock that does not go back the clock is right.
LEMMA AlwaysSteady ==
  ASSUME MaxSkew = 0
  PROVE  Spec => []Steady
<1>1. Init => Steady
  BY DEF Init, Steady
<1>2. Steady /\ [Next]_vars => Steady'
  <2> SUFFICES ASSUME Steady, [Next]_vars PROVE Steady'
    OBVIOUS
  <2>1. ASSUME NEW r \in Resources, NEW c \in Costs, NEW p \in Plans,
               Allow(r, c, p) \/ Deny(r, c, p)
        PROVE  UNCHANGED <<now, real>>
    BY <2>1 DEF Allow, Deny
  <2>2. 1 .. MaxSkew = {}
    OBVIOUS
  <2>3. CASE Tick
    BY <2>3 DEF Tick, Steady
  <2> QED
    BY <2>1, <2>2, <2>3 DEF Next, Check, Steady, vars
<1> QED
  BY <1>1, <1>2, PTL DEF Spec

\* The windows of one plan are as long.
LEMMA SamePlanSameWindow == SamePlan => SameWindow
  BY DEF SamePlan, SameWindow

\* What a reply says remains can be spent in the next microsecond, on every layer at
\* once, by the expiry of keys, the rounding of refills and the end of the month, until
\* the clock goes back.
THEOREM RemainingUntilRegress ==
  ASSUME SamePlan
  PROVE  Spec => [](Steady => RemainingIsSpendable)
<1>1. TypeOK /\ QuotaInv /\ WindowInv /\ SteadyInv /\ Steady /\ ReplyInv => RemainingIsSpendable
  <2> SUFFICES ASSUME TypeOK, QuotaInv, WindowInv, SteadyInv, Steady, ReplyInv,
                      Admitted(reply) \/ Denied(reply), NEW c \in Costs,
                      c <= reply.b_remaining, reply.s_remaining >= 1, c <= reply.q_remaining
               PROVE  FALSE \notin Verdicts(reply.res, c, reply.plan, now + 1)
    BY DEF RemainingIsSpendable
  <2>1. PICK r \in Resources, p \in Plans, k \in Costs :
          reply.res = r /\ reply.plan = p /\ ReplyFor(r, p, k)
    BY DEF ReplyInv
  <2>2. c \in Nat \ {0}
    OBVIOUS
  <2> QED
    BY <2>1, <2>2, Spendable
<1> QED
  BY <1>1, SamePlanSameWindow, TypeCorrect, MonthInvariant, WindowInvariant, SteadyInvariant,
     ReplyInvariant, PTL

\* With a clock that never goes back it can always be spent.
THEOREM RemainingIsTrue ==
  ASSUME SamePlan, MaxSkew = 0
  PROVE  Spec => []RemainingIsSpendable
BY RemainingUntilRegress, AlwaysSteady, PTL

\* The seconds of a reset or a retry of the bucket bring what was missing, and no more
\* than one second too much.
LEMMA BurstWait ==
  ASSUME NEW p \in Plans, NEW n \in Nat, NEW s, s = CeilDiv(n, p.rate * UTOK)
  PROVE  /\ s \in Nat /\ p.rate * (s * UTOK) \in Nat /\ p.rate * UTOK \in Nat \ {0}
         /\ n <= p.rate * (s * UTOK)
         /\ p.rate * (s * UTOK) < n + p.rate * UTOK
<1>1. p.rate \in Nat \ {0} /\ UTOK \in Nat \ {0}
  BY PlanFacts
<1>2. PICK d : d = p.rate * UTOK
  OBVIOUS
<1>3. d \in Nat \ {0}
  BY <1>1, <1>2
<1>4. s \in Nat /\ n <= d * s /\ d * s < n + d
  BY <1>2, <1>3, CeilDivCovers, CeilDivNat
<1>5. d * s = p.rate * (s * UTOK)
  BY <1>1, <1>2, <1>4
<1>6. d * s \in Nat
  BY <1>3, <1>4
<1> QED
  BY <1>2, <1>3, <1>4, <1>5, <1>6

\* Two microseconds after as many seconds as bring the missing tokens, a refill finds them.
LEMMA BurstAfter ==
  ASSUME NEW p \in Plans, NEW old, BucketOK(old, p), NEW at \in Nat, old.ts <= at + 1,
         NEW h \in Nat, h <= Worth(old, p, at), NEW s \in Nat,
         NEW goal \in Nat, goal <= Cap(p), goal <= h + p.rate * (s * UTOK),
         NEW b \in Refill(old, p, at + s * UTOK + 2)
  PROVE  b.t \in Nat /\ goal <= b.t
<1>1. p.rate \in Nat \ {0} /\ UTOK \in Nat \ {0}
  BY PlanFacts
<1>2. PICK u : u = s * UTOK
  OBVIOUS
<1>3. u \in Nat /\ u + 2 \in Nat \ {0} /\ p.rate * u \in Nat
  BY <1>1, <1>2
<1>4. p.rate * ((u + 2) - 1) = p.rate * u + p.rate
  BY <1>1, <1>3
<1>5. Worth(old, p, at) \in Nat
  BY <1>3, WorthGrows
<1>6. goal + 1 <= Worth(old, p, at) + p.rate * ((u + 2) - 1)
  BY <1>1, <1>2, <1>3, <1>4, <1>5
<1>7. at + s * UTOK + 2 = at + (u + 2)
  BY <1>2, <1>3
<1> QED
  BY <1>3, <1>6, <1>7, LaterReaches

\* More seconds bring more.
LEMMA LongerWait ==
  ASSUME NEW p \in Plans, NEW s \in Nat, NEW t \in Nat, s <= t
  PROVE  /\ s * UTOK \in Nat /\ t * UTOK \in Nat /\ s * UTOK <= t * UTOK
         /\ p.rate * (s * UTOK) \in Nat /\ p.rate * (t * UTOK) \in Nat
         /\ p.rate * (s * UTOK) <= p.rate * (t * UTOK)
<1>1. p.rate \in Nat \ {0} /\ UTOK \in Nat \ {0}
  BY PlanFacts
<1>2. UTOK * s <= UTOK * t /\ UTOK * s = s * UTOK /\ UTOK * t = t * UTOK
      /\ s * UTOK \in Nat /\ t * UTOK \in Nat
  BY <1>1, TimesMonotonic
<1>3. p.rate * (s * UTOK) <= p.rate * (t * UTOK)
  BY <1>1, <1>2, TimesMonotonic
<1> QED
  BY <1>1, <1>2, <1>3

\* The bucket is full when b_reset says so.
LEMMA FullAfterReset ==
  ASSUME TypeOK, SteadyInv, Steady, NEW r \in Resources, NEW p \in Plans, NEW c,
         ReplyFor(r, p, c), NEW b \in Refill(bucket[r], p, now + reply.b_reset * UTOK + 2)
  PROVE  b.t \in Nat /\ b.t = Cap(p)
<1>1. now \in Nat /\ BucketOK(bucket[r], p) /\ bucket[r].ts <= now + 1
  BY DEF TypeOK, SteadyInv
<1>2. PICK h : /\ h.t \in Nat /\ h.t <= Worth(bucket[r], p, now)
               /\ reply.b_reset = CeilDiv(Cap(p) - h.t, p.rate * UTOK)
  BY DEF ReplyFor
<1>3. PICK s : s = CeilDiv(Cap(p) - h.t, p.rate * UTOK)
  OBVIOUS
<1>4. Worth(bucket[r], p, now) \in Nat /\ Worth(bucket[r], p, now) <= Cap(p) /\ Cap(p) \in Nat
  <2>1. 1 \in Nat \ {0}
    OBVIOUS
  <2> QED
    BY <1>1, <2>1, WorthGrows, PlanFacts
<1>5. Cap(p) - h.t \in Nat
  BY <1>2, <1>4
<1>6. s \in Nat /\ p.rate * (s * UTOK) \in Nat /\ Cap(p) - h.t <= p.rate * (s * UTOK)
  BY <1>3, <1>5, BurstWait
<1>7. Cap(p) <= h.t + p.rate * (s * UTOK)
  BY <1>2, <1>4, <1>6
<1>8. b \in Refill(bucket[r], p, now + s * UTOK + 2)
  BY <1>2, <1>3
<1>9. b.t \in Nat /\ Cap(p) <= b.t
  <2>1. PICK g, n : g = Cap(p) /\ n = h.t
    OBVIOUS
  <2>2. g \in Nat /\ n \in Nat /\ g <= Cap(p) /\ n <= Worth(bucket[r], p, now)
        /\ g <= n + p.rate * (s * UTOK)
    BY <1>2, <1>4, <1>7, <2>1
  <2>3. b.t \in Nat /\ g <= b.t
    BY <1>1, <1>6, <1>8, <2>2, BurstAfter
  <2> QED
    BY <2>1, <2>3
<1>10. b.t <= Cap(p)
  <2>1. s * UTOK \in Nat
    BY <1>6
  <2>2. now + s * UTOK + 2 \in Nat /\ bucket[r].ts <= (now + s * UTOK + 2) + 1
        /\ bucket[r].ts \in Nat
    BY <1>1, <2>1 DEF BucketOK
  <2>3. b.t <= Worth(bucket[r], p, now + s * UTOK + 2)
        /\ Worth(bucket[r], p, now + s * UTOK + 2) <= Cap(p)
        /\ Worth(bucket[r], p, now + s * UTOK + 2) \in Nat
    BY <1>1, <1>8, <2>2, RefillWorth
  <2> QED
    BY <1>4, <1>9, <2>3
<1> QED
  BY <1>4, <1>9, <1>10

\* The reported resets: the bucket is full, the oldest member of the window has left it
\* and the month is over when they say so.
THEOREM ResetsAreTrue ==
  ASSUME SamePlan
  PROVE  Spec => []ResetsAreHonest
<1>1. TypeOK /\ QuotaInv /\ WindowInv /\ SteadyInv /\ ReplyInv => ResetsAreHonest
  <2> SUFFICES ASSUME TypeOK, QuotaInv, WindowInv, SteadyInv, ReplyInv,
                      Admitted(reply) \/ Denied(reply), Steady
               PROVE  /\ \A b \in Refill(bucket[reply.res], reply.plan,
                                         now + reply.b_reset * UTOK + 2) :
                           b.t = Cap(reply.plan)
                      /\ window[reply.res] # {} =>
                           Cardinality(Trim(window[reply.res], wexp[reply.res], reply.plan,
                                            now + reply.s_reset * UTOK + 1))
                             < Cardinality(window[reply.res])
                      /\ (now + reply.q_reset * UTOK) \div MonthLen = Month + 1
    BY DEF ResetsAreHonest
  <2>1. PICK r \in Resources, p \in Plans, k \in Costs :
          reply.res = r /\ reply.plan = p /\ ReplyFor(r, p, k)
    BY DEF ReplyInv
  <2>2. \A b \in Refill(bucket[r], p, now + reply.b_reset * UTOK + 2) : b.t = Cap(p)
    BY <2>1, FullAfterReset
  <2>3. now \in Nat /\ UTOK \in Nat \ {0} /\ MonthLen \in Nat \ {0} /\ Month \in Nat
    BY MonthFacts DEF TypeOK, Months
  <2>4. ASSUME window[r] # {}
        PROVE  Cardinality(Trim(window[r], wexp[r], p, now + reply.s_reset * UTOK + 1))
                 < Cardinality(window[r])
    <3>1. Trim(window[r], wexp[r], p, now) = window[r]
          /\ reply.s_reset = SustainedReset(window[r], p, now)
      BY <2>1 DEF ReplyFor
    <3>2. \A m \in window[r] : m.score \in Nat /\ now <= m.score + Win(p)
      BY <2>3, <3>1, LaterWindow
    <3>3. PICK m \in window[r] : /\ reply.s_reset \in Nat
                                 /\ m.score + Win(p) <= now + reply.s_reset * UTOK
      BY <2>3, <2>4, <3>1, <3>2, SustainedResetIs
    <3>4. PICK at : at = now + reply.s_reset * UTOK + 1
      OBVIOUS
    <3>5. at \in Nat /\ now <= at /\ m.score + Win(p) < at
      <4>1. reply.s_reset * UTOK \in Nat /\ m.score \in Nat /\ Win(p) \in Nat
        BY <2>3, <3>2, <3>3, PlanFacts
      <4> QED
        BY <2>3, <3>3, <3>4, <4>1
    <3> QED
      BY <3>1, <3>4, <3>5, LaterWindow
  <2>5. (now + reply.q_reset * UTOK) \div MonthLen = Month + 1
    <3>1. PICK n : n = now + QuotaReset(now) * UTOK
      OBVIOUS
    <3>2. QuotaReset(now) \in Nat /\ MonthEnd <= n /\ n < MonthEnd + UTOK /\ UTOK <= MonthLen
      BY <3>1, QuotaResetEnds
    <3>3. n \in Nat
      BY <2>3, <3>1, <3>2
    <3>4. MonthEnd = MonthLen * (Month + 1)
          /\ MonthLen * ((Month + 1) + 1) = MonthLen * (Month + 1) + MonthLen
      BY <2>3 DEF MonthEnd
    <3>5. MonthLen * (Month + 1) <= n /\ n < MonthLen * ((Month + 1) + 1)
          /\ Month + 1 \in Nat
      BY <2>3, <3>2, <3>3, <3>4
    <3>6. n \div MonthLen = Month + 1
      BY <2>3, <3>3, <3>5, QuotientIs
    <3>7. reply.q_reset = QuotaReset(now)
      BY <2>1 DEF ReplyFor
    <3> QED
      BY <3>1, <3>6, <3>7
  <2> QED
    BY <2>1, <2>2, <2>4, <2>5
<1> QED
  BY <1>1, SamePlanSameWindow, TypeCorrect, MonthInvariant, WindowInvariant, SteadyInvariant,
     ReplyInvariant, PTL

-----------------------------------------------------------------------------
(* Denied clients                                                          *)

\* A layer of requests that is full is not empty.
LEMMA FullWindow ==
  ASSUME NEW w, NEW p \in Plans, ~SustainedOk(w, p)
  PROVE  w # {}
<1> SUFFICES ASSUME w = {} PROVE FALSE
  OBVIOUS
<1>1. Cardinality(w) = 0
  BY FS_EmptySet
<1>2. p.limit \in Nat \ {0}
  BY PlanFacts
<1> QED
  BY <1>1, <1>2 DEF SustainedOk

\* A denial by layer: what the three waits are, and that the reported one is the
\* longest.
LEMMA DenialParts ==
  ASSUME TypeOK, WindowInv, SteadyInv, Steady, NEW r \in Resources, NEW p \in Plans,
         NEW c \in Costs, ReplyFor(r, p, c), Denied(reply)
  PROVE  \E h \in Nat : \E bw, sw, qw \in Nat :
           LET w == window[r]
           IN  /\ h <= Worth(bucket[r], p, now) /\ Worth(bucket[r], p, now) <= h + 1
               /\ reply.deny_layer = "burst" <=> h < c * UTOK
               /\ reply.deny_layer = "sustained" <=> h >= c * UTOK /\ ~SustainedOk(w, p)
               /\ reply.deny_layer = "quota" =>
                    SustainedOk(w, p) /\ ~QuotaOk(spent[Month], c, p)
               /\ bw = IF h >= c * UTOK THEN 0 ELSE CeilDiv(c * UTOK - h, p.rate * UTOK)
               /\ sw = IF SustainedOk(w, p) THEN 0 ELSE reply.s_reset
               /\ qw = IF QuotaOk(spent[Month], c, p) THEN 0 ELSE reply.q_reset
               /\ bw <= reply.retry_after /\ sw <= reply.retry_after
               /\ qw <= reply.retry_after /\ reply.retry_after \in {bw, sw, qw}
<1> DEFINE w == window[r]
<1>1. PICK b : /\ b.t \in Nat /\ b.t <= Worth(bucket[r], p, now)
               /\ Worth(bucket[r], p, now) <= b.t + 1
               /\ ~(BurstOk(b, c) /\ SustainedOk(w, p) /\ QuotaOk(spent[Month], c, p))
               /\ reply.deny_layer = DenyLayer(b, w, c, p)
               /\ reply.retry_after = RetryAfter(b, w, spent[Month], c, p, now)
  BY DEF ReplyFor
<1>2. /\ Trim(w, wexp[r], p, now) = w /\ reply.s_reset = SustainedReset(w, p, now)
      /\ reply.q_reset = QuotaReset(now)
  BY DEF ReplyFor
<1>3. now \in Nat /\ c \in Nat \ {0} /\ UTOK \in Nat \ {0} /\ c * UTOK \in Nat
      /\ p.limit \in Nat \ {0}
  BY PlanFacts DEF TypeOK
<1> DEFINE bw == IF BurstOk(b, c) THEN 0 ELSE BurstRetry(b, c, p)
           sw == IF SustainedOk(w, p) THEN 0 ELSE SustainedReset(w, p, now)
           qw == IF QuotaOk(spent[Month], c, p) THEN 0 ELSE QuotaReset(now)
<1>4. reply.retry_after = Larger(bw, Larger(sw, qw))
  BY <1>1 DEF RetryAfter
<1>5. BurstOk(b, c) <=> b.t >= c * UTOK
  BY DEF BurstOk
<1>6. bw \in Nat
  <2>1. CASE BurstOk(b, c)
    BY <2>1
  <2>2. CASE ~BurstOk(b, c)
    <3>1. c * UTOK - b.t \in Nat
      BY <1>1, <1>3, <1>5, <2>2
    <3>2. CeilDiv(c * UTOK - b.t, p.rate * UTOK) \in Nat
      BY <3>1, BurstWait
    <3> QED
      BY <2>2, <3>2 DEF BurstRetry
  <2> QED
    BY <2>1, <2>2
<1>7. sw \in Nat
  <2>1. CASE SustainedOk(w, p)
    BY <2>1
  <2>2. CASE ~SustainedOk(w, p)
    <3>1. Cardinality(w) \in Nat /\ \A m \in w : m.score \in Nat /\ now <= m.score + Win(p)
      BY <1>2, <1>3, LaterWindow
    <3>2. w # {}
      BY <2>2, FullWindow
    <3> HIDE DEF w
    <3>3. SustainedReset(w, p, now) \in Nat
      BY <1>3, <3>1, <3>2, SustainedResetIs
    <3> QED
      BY <2>2, <3>3
  <2> QED
    BY <2>1, <2>2
<1>8. qw \in Nat
  BY QuotaResetEnds
<1>9. /\ reply.deny_layer = "burst" <=> b.t < c * UTOK
      /\ reply.deny_layer = "sustained" <=> b.t >= c * UTOK /\ ~SustainedOk(w, p)
      /\ reply.deny_layer = "quota" =>
           SustainedOk(w, p) /\ ~QuotaOk(spent[Month], c, p)
  BY <1>1, <1>3, <1>5 DEF DenyLayer
<1>10. /\ bw = IF b.t >= c * UTOK THEN 0 ELSE CeilDiv(c * UTOK - b.t, p.rate * UTOK)
       /\ sw = IF SustainedOk(w, p) THEN 0 ELSE reply.s_reset
       /\ qw = IF QuotaOk(spent[Month], c, p) THEN 0 ELSE reply.q_reset
  BY <1>2, <1>5 DEF BurstRetry
<1> HIDE DEF bw, sw, qw, w
<1>11. /\ bw <= reply.retry_after /\ sw <= reply.retry_after
       /\ qw <= reply.retry_after /\ reply.retry_after \in {bw, sw, qw}
  BY <1>4, <1>6, <1>7, <1>8 DEF Larger
<1>12. PICK h, x, y, z : h = b.t /\ x = bw /\ y = sw /\ z = qw
  OBVIOUS
<1> QED
  BY <1>1, <1>6, <1>7, <1>8, <1>9, <1>10, <1>11, <1>12 DEF w

\* After the wait the window has room, and the quota a new month.
LEMMA SustainedAfter ==
  ASSUME TypeOK, WindowInv, SteadyInv, Steady, NEW r \in Resources, NEW p \in Plans,
         NEW c, ReplyFor(r, p, c), NEW s \in Nat,
         SustainedOk(window[r], p) \/ reply.s_reset <= s
  PROVE  SustainedOk(Trim(window[r], wexp[r], p, now + s * UTOK + 2), p)
<1>1. PICK at : at = now + s * UTOK + 2
  OBVIOUS
<1>2. /\ now \in Nat /\ UTOK \in Nat \ {0} /\ p.limit \in Nat \ {0}
      /\ s * UTOK \in Nat /\ at \in Nat /\ now <= at
  <2>1. now \in Nat /\ UTOK \in Nat \ {0} /\ p.limit \in Nat \ {0}
    BY PlanFacts DEF TypeOK
  <2>2. s * UTOK \in Nat
    BY <2>1
  <2> QED
    BY <1>1, <2>1, <2>2
<1> DEFINE later == Trim(window[r], wexp[r], p, at)
<1>3. Trim(window[r], wexp[r], p, now) = window[r]
      /\ reply.s_reset = SustainedReset(window[r], p, now)
  BY DEF ReplyFor
<1>4. /\ Cardinality(window[r]) \in Nat /\ Cardinality(window[r]) <= p.limit
      /\ Cardinality(later) \in Nat /\ Cardinality(later) <= Cardinality(window[r])
      /\ \A m \in window[r] :
           /\ m.score \in Nat /\ now <= m.score + Win(p)
           /\ m.score + Win(p) < at => Cardinality(later) < Cardinality(window[r])
  BY <1>2, <1>3, LaterWindow
<1> HIDE DEF later
<1>5. SustainedOk(later, p)
  <2>1. CASE SustainedOk(window[r], p)
    BY <1>2, <1>4, <2>1 DEF SustainedOk
  <2>2. CASE ~SustainedOk(window[r], p)
    <3>1. window[r] # {}
      BY <2>2, FullWindow
    <3>2. PICK m \in window[r] :
            /\ m.score + Win(p) <= now + SustainedReset(window[r], p, now) * UTOK
            /\ SustainedReset(window[r], p, now) \in Nat
      BY <1>2, <1>4, <3>1, SustainedResetIs
    <3>3. reply.s_reset \in Nat /\ reply.s_reset <= s
      BY <1>3, <2>2, <3>2
    <3>4. reply.s_reset * UTOK \in Nat /\ reply.s_reset * UTOK <= s * UTOK
      BY <3>3, LongerWait
    <3>5. m.score + Win(p) < at
      <4>1. m.score \in Nat /\ Win(p) \in Nat
        BY <1>4, PlanFacts
      <4>2. m.score + Win(p) <= now + reply.s_reset * UTOK
        BY <1>3, <3>2
      <4> QED
        BY <1>1, <1>2, <3>4, <4>1, <4>2
    <3>6. Cardinality(later) < Cardinality(window[r])
      BY <1>4, <3>5
    <3> QED
      BY <1>2, <1>4, <3>6 DEF SustainedOk
  <2> QED
    BY <2>1, <2>2
<1> QED
  BY <1>1, <1>5 DEF later

\* After the wait the quota has room, in this month or in the next.
LEMMA QuotaAfter ==
  ASSUME TypeOK, QuotaInv, SteadyInv, Steady, NEW r, NEW p \in Plans, NEW k,
         ReplyFor(r, p, k), NEW c \in Nat, NEW s \in Nat, c <= p.hard,
         QuotaOk(spent[Month], c, p) \/ reply.q_reset <= s
  PROVE  QuotaOk(UsedAt(now + s * UTOK + 2), c, p)
<1>1. PICK at : at = now + s * UTOK + 2
  OBVIOUS
<1>2. /\ now \in Nat /\ UTOK \in Nat \ {0} /\ p.hard \in Nat /\ s * UTOK \in Nat
      /\ at \in Nat /\ now <= at /\ spent[Month] \in Nat
  <2>1. now \in Nat /\ UTOK \in Nat \ {0} /\ p.hard \in Nat /\ spent[Month] \in Nat
    BY PlanFacts, MonthFacts DEF TypeOK
  <2>2. s * UTOK \in Nat
    BY <2>1
  <2> QED
    BY <1>1, <2>1, <2>2
<1>3. /\ UsedAt(at) \in Nat /\ UsedAt(at) <= spent[Month]
      /\ at >= MonthEnd => UsedAt(at) = 0
  BY <1>2, LaterUsed
<1>4. CASE QuotaOk(spent[Month], c, p)
  BY <1>1, <1>2, <1>3, <1>4 DEF QuotaOk
<1>5. CASE reply.q_reset <= s
  <2>1. reply.q_reset = QuotaReset(now)
    BY DEF ReplyFor
  <2>2. /\ MonthEnd <= now + reply.q_reset * UTOK /\ MonthEnd \in Nat
        /\ reply.q_reset \in Nat
    BY <2>1, QuotaResetEnds, MonthFacts
  <2>3. reply.q_reset * UTOK \in Nat /\ reply.q_reset * UTOK <= s * UTOK
    BY <1>5, <2>2, LongerWait
  <2>4. at >= MonthEnd
    BY <1>1, <1>2, <2>2, <2>3
  <2> QED
    BY <1>1, <1>2, <1>3, <2>4 DEF QuotaOk
<1> QED
  BY <1>4, <1>5

\* A client that waits as it was told is admitted if nobody else comes.
LEMMA WaitIsEnough ==
  ASSUME TypeOK, QuotaInv, WindowInv, SteadyInv, Steady,
         NEW r \in Resources, NEW p \in Plans, NEW c \in Costs, ReplyFor(r, p, c),
         Denied(reply), c <= p.cap, c <= p.hard
  PROVE  FALSE \notin Verdicts(r, c, p, now + reply.retry_after * UTOK + 2)
<1>1. PICK h \in Nat, bw \in Nat, sw \in Nat, qw \in Nat :
        /\ h <= Worth(bucket[r], p, now)
        /\ bw = IF h >= c * UTOK THEN 0 ELSE CeilDiv(c * UTOK - h, p.rate * UTOK)
        /\ sw = IF SustainedOk(window[r], p) THEN 0 ELSE reply.s_reset
        /\ qw = IF QuotaOk(spent[Month], c, p) THEN 0 ELSE reply.q_reset
        /\ bw <= reply.retry_after /\ sw <= reply.retry_after
        /\ qw <= reply.retry_after /\ reply.retry_after \in {bw, sw, qw}
  BY DenialParts
<1>2. PICK s : s = reply.retry_after
  OBVIOUS
<1>3. PICK at : at = now + s * UTOK + 2
  OBVIOUS
<1>4. /\ now \in Nat /\ c \in Nat \ {0} /\ UTOK \in Nat \ {0} /\ c * UTOK \in Nat
      /\ s \in Nat /\ s * UTOK \in Nat /\ at \in Nat /\ now <= at
      /\ p.hard \in Nat /\ p.limit \in Nat \ {0} /\ Month \in Months /\ spent[Month] \in Nat
      /\ BucketOK(bucket[r], p) /\ bucket[r].ts <= now + 1
  <2>1. now \in Nat /\ c \in Nat \ {0} /\ UTOK \in Nat \ {0} /\ s \in Nat
    BY <1>1, <1>2 DEF TypeOK
  <2>2. c * UTOK \in Nat /\ s * UTOK \in Nat
    BY <2>1
  <2>3. at \in Nat /\ now <= at
    BY <1>3, <2>1, <2>2
  <2>4. Month \in Months /\ spent[Month] \in Nat
    BY MonthFacts DEF TypeOK
  <2> QED
    BY <2>1, <2>2, <2>3, <2>4, PlanFacts DEF SteadyInv
<1>5. ASSUME NEW b \in Refill(bucket[r], p, at)
      PROVE  BurstOk(b, c)
  <2>1. c * UTOK <= Cap(p) /\ Cap(p) \in Nat
    <3>1. UTOK * c <= UTOK * p.cap /\ UTOK * c = c * UTOK
      BY <1>4, PlanFacts, TimesMonotonic
    <3>2. p.cap \in Nat
      BY PlanFacts
    <3> QED
      BY <1>4, <3>1, <3>2 DEF Cap
  <2>2. c * UTOK <= h + p.rate * (s * UTOK)
    <3>1. bw * UTOK \in Nat /\ p.rate * (bw * UTOK) \in Nat /\ p.rate * (s * UTOK) \in Nat
          /\ p.rate * (bw * UTOK) <= p.rate * (s * UTOK)
      BY <1>1, <1>2, <1>4, LongerWait
    <3>2. CASE h >= c * UTOK
      BY <1>1, <1>4, <3>1, <3>2
    <3>3. CASE h < c * UTOK
      <4>1. c * UTOK - h \in Nat
        BY <1>1, <1>4, <3>3
      <4>2. c * UTOK - h <= p.rate * (bw * UTOK)
        BY <1>1, <1>4, <3>3, <4>1, BurstWait
      <4> QED
        BY <1>1, <1>4, <3>1, <4>2
    <3> QED
      BY <1>1, <1>4, <3>2, <3>3
  <2>3. PICK goal : goal = c * UTOK
    OBVIOUS
  <2>4. b.t \in Nat /\ goal <= b.t
    BY <1>1, <1>3, <1>4, <1>5, <2>1, <2>2, <2>3, BurstAfter
  <2> QED
    BY <2>3, <2>4 DEF BurstOk
<1>6. SustainedOk(Trim(window[r], wexp[r], p, at), p)
  BY <1>1, <1>2, <1>3, <1>4, SustainedAfter
<1>7. QuotaOk(UsedAt(at), c, p)
  BY <1>1, <1>2, <1>3, <1>4, QuotaAfter
<1>8. FALSE \notin Verdicts(r, c, p, at)
  BY <1>5, <1>6, <1>7 DEF Verdicts, Allowed
<1> QED
  BY <1>2, <1>3, <1>8

\* A client that comes two seconds early is not.
LEMMA WaitIsNeeded ==
  ASSUME TypeOK, QuotaInv, WindowInv, SteadyInv, Steady,
         NEW r \in Resources, NEW p \in Plans, NEW c \in Costs, ReplyFor(r, p, c),
         Denied(reply), reply.retry_after >= 2
  PROVE  TRUE \notin Verdicts(r, c, p, (now + reply.retry_after * UTOK) - 2 * UTOK)
<1>1. PICK h \in Nat, bw \in Nat, sw \in Nat, qw \in Nat :
        /\ h <= Worth(bucket[r], p, now) /\ Worth(bucket[r], p, now) <= h + 1
        /\ bw = IF h >= c * UTOK THEN 0 ELSE CeilDiv(c * UTOK - h, p.rate * UTOK)
        /\ sw = IF SustainedOk(window[r], p) THEN 0 ELSE reply.s_reset
        /\ qw = IF QuotaOk(spent[Month], c, p) THEN 0 ELSE reply.q_reset
        /\ reply.retry_after \in {bw, sw, qw}
  BY DenialParts
<1>2. PICK s : s = reply.retry_after
  OBVIOUS
<1>3. PICK k : k = s * UTOK - 2 * UTOK
  OBVIOUS
<1>4. PICK at : at = now + k
  OBVIOUS
<1>5. /\ now \in Nat /\ c \in Nat \ {0} /\ UTOK \in Nat \ {0} /\ c * UTOK \in Nat
      /\ s \in Nat /\ s >= 2 /\ s * UTOK \in Nat /\ k \in Nat
      /\ at \in Nat /\ now <= at
      /\ BucketOK(bucket[r], p) /\ bucket[r].ts <= now + 1
  <2>1. now \in Nat /\ c \in Nat \ {0} /\ UTOK \in Nat \ {0} /\ s \in Nat /\ s >= 2
    BY <1>1, <1>2 DEF TypeOK
  <2>2. c * UTOK \in Nat /\ s * UTOK \in Nat
    BY <2>1
  <2>3. UTOK * 2 <= UTOK * s /\ UTOK * s = s * UTOK
    BY <2>1, TimesMonotonic
  <2>4. k \in Nat
    BY <1>3, <2>1, <2>2, <2>3
  <2>5. at \in Nat /\ now <= at
    BY <1>4, <2>1, <2>4
  <2> QED
    BY <2>1, <2>2, <2>4, <2>5 DEF SteadyInv
<1>6. ASSUME s = bw, NEW b \in Refill(bucket[r], p, at)
      PROVE  ~BurstOk(b, c)
  <2>1. h < c * UTOK /\ bw = CeilDiv(c * UTOK - h, p.rate * UTOK)
    BY <1>1, <1>5, <1>6
  <2>2. c * UTOK - h \in Nat
    BY <1>1, <1>5, <2>1
  <2>3. /\ p.rate * (s * UTOK) \in Nat /\ p.rate * UTOK \in Nat \ {0}
        /\ p.rate * (s * UTOK) < c * UTOK - h + p.rate * UTOK
    BY <1>6, <2>1, <2>2, BurstWait
  <2>4. p.rate * k = p.rate * (s * UTOK) - 2 * (p.rate * UTOK)
    <3>1. PICK x : x = s * UTOK
      OBVIOUS
    <3>2. p.rate \in Nat /\ x \in Nat /\ k = x - 2 * UTOK
      BY <1>3, <1>5, <3>1, PlanFacts
    <3>3. p.rate * (x - 2 * UTOK) = p.rate * x - 2 * (p.rate * UTOK)
      BY <1>5, <3>2
    <3> QED
      BY <3>1, <3>2, <3>3
  <2>5. b.t \in Nat /\ b.t <= Worth(bucket[r], p, now) + p.rate * k
        /\ Worth(bucket[r], p, now) \in Nat
    <3>1. CASE k = 0
      <4>1. at = now
        BY <1>4, <1>5, <3>1
      <4>2. /\ b.t \in Nat /\ b.t <= Worth(bucket[r], p, now)
            /\ Worth(bucket[r], p, now) \in Nat
        BY <1>5, <1>6, <4>1, RefillWorth
      <4>3. p.rate * k = 0
        BY <3>1, PlanFacts
      <4> QED
        BY <4>2, <4>3
    <3>2. CASE k # 0
      <4>1. k \in Nat \ {0} /\ b \in Refill(bucket[r], p, now + k)
        BY <1>4, <1>5, <1>6, <3>2
      <4>2. b.t \in Nat /\ b.t <= Worth(bucket[r], p, now) + p.rate * k
        BY <1>5, <4>1, LaterIsBelow
      <4>3. Worth(bucket[r], p, now) \in Nat
        BY <1>5, <4>1, WorthGrows
      <4> QED
        BY <4>2, <4>3
    <3> QED
      BY <3>1, <3>2
  <2>6. PICK worth, x, y, z : /\ worth = Worth(bucket[r], p, now) /\ x = p.rate * (s * UTOK)
                              /\ y = p.rate * UTOK /\ z = c * UTOK
    OBVIOUS
  <2>7. b.t < z
    <3>1. /\ b.t \in Nat /\ worth \in Nat /\ x \in Nat /\ y \in Nat \ {0} /\ z \in Nat
          /\ b.t <= worth + (x - 2 * y) /\ worth <= h + 1 /\ x < z - h + y
      BY <1>1, <1>5, <2>3, <2>4, <2>5, <2>6
    <3> QED
      BY <3>1
  <2> QED
    BY <1>5, <2>5, <2>6, <2>7 DEF BurstOk
<1>7. ASSUME s = sw
      PROVE  ~SustainedOk(Trim(window[r], wexp[r], p, at), p)
  <2> DEFINE w == window[r]
  <2>1. ~SustainedOk(w, p) /\ sw = reply.s_reset
    BY <1>1, <1>5, <1>7
  <2>2. Trim(w, wexp[r], p, now) = w /\ reply.s_reset = SustainedReset(w, p, now)
    BY DEF ReplyFor
  <2>3. \A m \in w : /\ m.score \in Nat /\ now <= m.score + Win(p)
                     /\ (\A j \in w : m.score <= j.score) /\ at <= m.score + Win(p)
                          => Trim(w, wexp[r], p, at) = w
    BY <1>5, <2>2, LaterWindow
  <2>4. w # {}
    BY <2>1, FullWindow
  <2> HIDE DEF w
  <2>5. PICK m \in w : /\ \A j \in w : m.score <= j.score
                       /\ now + SustainedReset(w, p, now) * UTOK < m.score + Win(p) + UTOK
    BY <1>5, <2>3, <2>4, SustainedResetIs
  <2>6. now + s * UTOK < m.score + Win(p) + UTOK
    BY <1>7, <2>1, <2>2, <2>5
  <2>7. at <= m.score + Win(p)
    <3>1. m.score \in Nat /\ Win(p) \in Nat
      BY <2>3, PlanFacts
    <3> QED
      BY <1>3, <1>4, <1>5, <2>6, <3>1
  <2>8. Trim(w, wexp[r], p, at) = w
    BY <2>3, <2>5, <2>7
  <2> QED
    BY <2>1, <2>8 DEF w
<1>8. ASSUME s = qw
      PROVE  ~QuotaOk(UsedAt(at), c, p)
  <2>1. ~QuotaOk(spent[Month], c, p) /\ qw = reply.q_reset
    BY <1>1, <1>5, <1>8
  <2>2. qw = QuotaReset(now)
    BY <2>1 DEF ReplyFor
  <2>3. now + qw * UTOK < MonthEnd + UTOK /\ MonthEnd \in Nat
    BY <2>2, QuotaResetEnds, MonthFacts
  <2>4. now + s * UTOK < MonthEnd + UTOK
    BY <1>8, <2>3
  <2>5. at < MonthEnd
    BY <1>3, <1>4, <1>5, <2>3, <2>4
  <2>6. UsedAt(at) = spent[Month]
    BY <1>5, <2>5, LaterUsed
  <2> QED
    BY <2>1, <2>6
<1>9. TRUE \notin Verdicts(r, c, p, at)
  <2>1. s = bw \/ s = sw \/ s = qw
    BY <1>1, <1>2
  <2> QED
    BY <2>1, <1>6, <1>7, <1>8 DEF Verdicts, Allowed
<1>10. at = (now + reply.retry_after * UTOK) - 2 * UTOK
  BY <1>2, <1>3, <1>4, <1>5
<1> QED
  BY <1>9, <1>10

\* The wait that a denial reports is long enough and, to two seconds, not longer
\* than that, for all three layers (retry_after in check.lua).
THEOREM RetryIsTrue ==
  ASSUME SamePlan
  PROVE  Spec => []RetryAfterHonest
<1>1. ASSUME TypeOK, QuotaInv, WindowInv, SteadyInv, ReplyInv
      PROVE  RetryAfterHonest
  <2> DEFINE due == now + reply.retry_after * UTOK
  <2> SUFFICES ASSUME Denied(reply), Steady, reply.cost <= reply.plan.cap,
                      reply.cost <= reply.plan.hard
               PROVE  /\ FALSE \notin Verdicts(reply.res, reply.cost, reply.plan, due + 2)
                      /\ reply.retry_after >= 2 =>
                           TRUE \notin Verdicts(reply.res, reply.cost, reply.plan,
                                                due - 2 * UTOK)
    BY Zenon DEF RetryAfterHonest
  <2>1. PICK r \in Resources, p \in Plans, c \in Costs :
          reply.res = r /\ reply.plan = p /\ reply.cost = c /\ ReplyFor(r, p, c)
    BY <1>1 DEF ReplyInv
  <2>2. FALSE \notin Verdicts(r, c, p, due + 2)
    BY <1>1, <2>1, WaitIsEnough
  <2>3. reply.retry_after >= 2 => TRUE \notin Verdicts(r, c, p, due - 2 * UTOK)
    BY <1>1, <2>1, WaitIsNeeded
  <2> HIDE DEF due
  <2> QED
    BY <2>1, <2>2, <2>3
<1> QED
  BY <1>1, TypeCorrect, MonthInvariant, SamePlanSameWindow, WindowInvariant,
     SteadyInvariant, ReplyInvariant, PTL

\* The resets of the window and the quota are whole seconds.
LEMMA WaitsAreNat ==
  ASSUME TypeOK, WindowInv, SteadyInv, Steady, NEW r \in Resources, NEW p \in Plans,
         NEW c, ReplyFor(r, p, c)
  PROVE  reply.s_reset \in Nat /\ reply.q_reset \in Nat
<1>1. now \in Nat
  BY DEF TypeOK
<1>2. /\ Trim(window[r], wexp[r], p, now) = window[r]
      /\ reply.s_reset = SustainedReset(window[r], p, now)
      /\ reply.q_reset = QuotaReset(now)
  BY DEF ReplyFor
<1>3. \A m \in window[r] : m.score \in Nat /\ now <= m.score + Win(p)
  BY <1>1, <1>2, LaterWindow
<1>4. reply.s_reset \in Nat
  <2>1. CASE window[r] = {}
    BY <1>2, <2>1 DEF SustainedReset
  <2>2. CASE window[r] # {}
    BY <1>1, <1>2, <1>3, <2>2, SustainedResetIs
  <2> QED
    BY <2>1, <2>2
<1> QED
  BY <1>2, <1>4, QuotaResetEnds

\* The header of a denial speaks for the layer that denied.
LEMMA HeaderOfDenial ==
  ASSUME NEW x, Denied(x)
  PROVE  /\ x.deny_layer = "burst" =>
              to_out(x).limit = x.plan.cap /\ to_out(x).reset = x.b_reset
         /\ x.deny_layer = "sustained" =>
              to_out(x).limit = x.plan.limit /\ to_out(x).reset = x.s_reset
         /\ x.deny_layer = "quota" =>
              to_out(x).limit = x.plan.hard /\ to_out(x).reset = x.q_reset
<1>1. selected_policy(x) = Layers(x)[x.deny_layer]
  BY DEF selected_policy
<1>2. /\ Layers(x)["burst"].limit = x.plan.cap /\ Layers(x)["burst"].reset = x.b_reset
      /\ Layers(x)["sustained"].limit = x.plan.limit
      /\ Layers(x)["sustained"].reset = x.s_reset
      /\ Layers(x)["quota"].limit = x.plan.hard /\ Layers(x)["quota"].reset = x.q_reset
  BY DEF Layers
<1>3. to_out(x).limit = selected_policy(x).limit /\ to_out(x).reset = selected_policy(x).reset
  BY DEF to_out
<1> QED
  BY <1>1, <1>2, <1>3

\* The layer that refused a request has reset when it says so (services/checker.py).
THEOREM DenialClears ==
  ASSUME SamePlan
  PROVE  Spec => []ResetClearsTheDenial
<1>1. ASSUME TypeOK, QuotaInv, WindowInv, SteadyInv, ReplyInv
      PROVE  ResetClearsTheDenial
  <2> DEFINE at == now + to_out(reply).reset * UTOK + 2
             w == Trim(window[reply.res], wexp[reply.res], reply.plan, at)
  <2> SUFFICES ASSUME Denied(reply), Steady, reply.cost <= to_out(reply).limit,
                      NEW b \in Refill(bucket[reply.res], reply.plan, at)
               PROVE  CASE reply.deny_layer = "burst" -> BurstOk(b, reply.cost)
                        [] reply.deny_layer = "sustained" -> SustainedOk(w, reply.plan)
                        [] reply.deny_layer = "quota" ->
                             QuotaOk(UsedAt(at), reply.cost, reply.plan)
    BY Zenon DEF ResetClearsTheDenial
  <2>1. PICK r \in Resources, p \in Plans, c \in Costs :
          reply.res = r /\ reply.plan = p /\ reply.cost = c /\ ReplyFor(r, p, c)
    BY <1>1 DEF ReplyInv
  <2>2. c \in Nat \ {0} /\ UTOK \in Nat \ {0} /\ p.cap \in Nat
    BY PlanFacts
  <2>3. CASE reply.deny_layer = "burst"
    <3>1. to_out(reply).reset = reply.b_reset /\ c <= p.cap
      BY <2>1, <2>3, HeaderOfDenial
    <3>2. b \in Refill(bucket[r], p, now + reply.b_reset * UTOK + 2)
      BY <2>1, <3>1
    <3>3. b.t = Cap(p)
      BY <1>1, <2>1, <3>2, FullAfterReset
    <3>4. UTOK * c <= UTOK * p.cap /\ UTOK * c = c * UTOK /\ UTOK * p.cap = Cap(p)
      <4>1. UTOK * c <= UTOK * p.cap
        BY <2>2, <3>1, TimesMonotonic
      <4> QED
        BY <2>2, <4>1 DEF Cap
    <3>5. Cap(p) >= c * UTOK
      <4>1. c * UTOK \in Nat /\ p.cap * UTOK \in Nat /\ Cap(p) \in Nat
        BY <2>2 DEF Cap
      <4> QED
        BY <3>4, <4>1
    <3>6. BurstOk(b, reply.cost)
      BY <2>1, <3>3, <3>5 DEF BurstOk
    <3> HIDE DEF at, w
    <3> QED
      BY <2>3, <3>6
  <2>4. CASE reply.deny_layer = "sustained"
    <3>1. to_out(reply).reset = reply.s_reset /\ reply.s_reset \in Nat
      BY <1>1, <2>1, <2>4, HeaderOfDenial, WaitsAreNat
    <3>2. reply.s_reset <= reply.s_reset
      BY <3>1
    <3>3. SustainedOk(Trim(window[r], wexp[r], p, now + reply.s_reset * UTOK + 2), p)
      BY <1>1, <2>1, <3>1, <3>2, SustainedAfter
    <3>4. SustainedOk(w, reply.plan)
      BY <2>1, <3>1, <3>3
    <3> HIDE DEF at, w
    <3> QED
      BY <2>4, <3>4
  <2>5. CASE reply.deny_layer = "quota"
    <3>1. /\ to_out(reply).reset = reply.q_reset /\ c <= p.hard
          /\ reply.q_reset \in Nat
      BY <1>1, <2>1, <2>5, HeaderOfDenial, WaitsAreNat
    <3>2. reply.q_reset <= reply.q_reset
      BY <3>1
    <3>3. QuotaOk(UsedAt(now + reply.q_reset * UTOK + 2), c, p)
      BY <1>1, <2>1, <2>2, <3>1, <3>2, QuotaAfter
    <3>4. QuotaOk(UsedAt(at), reply.cost, reply.plan)
      BY <2>1, <3>1, <3>3
    <3> HIDE DEF at, w
    <3> QED
      BY <2>5, <3>4
  <2>6. reply.deny_layer \in {"burst", "sustained", "quota"}
    BY DEF Denied
  <2> HIDE DEF at, w
  <2> QED
    BY <2>3, <2>4, <2>5, <2>6
<1> QED
  BY <1>1, TypeCorrect, MonthInvariant, SamePlanSameWindow, WindowInvariant,
     SteadyInvariant, ReplyInvariant, PTL

\* A layer as the header compares it.
LayerOK(a) == a.limit \in Nat \ {0} /\ a.remaining \in Nat /\ a.window \in Nat

\* Ratios compared by cross multiplication are ordered.
LEMMA RatioTransitive ==
  ASSUME NEW x \in Nat, NEW y \in Nat, NEW z \in Nat,
         NEW k \in Nat \ {0}, NEW l \in Nat \ {0}, NEW m \in Nat \ {0},
         x * l <= y * k, y * m <= z * l
  PROVE  /\ x * m <= z * k
         /\ x * l < y * k \/ y * m < z * l => x * m < z * k
<1>1. /\ x * l \in Nat /\ y * k \in Nat /\ y * m \in Nat /\ z * l \in Nat
      /\ x * m \in Nat /\ z * k \in Nat
  OBVIOUS
<1>2. m * (x * l) = l * (x * m) /\ m * (y * k) = k * (y * m) /\ k * (z * l) = l * (z * k)
  OBVIOUS
<1>3. m * (x * l) <= m * (y * k) /\ k * (y * m) <= k * (z * l)
  BY <1>1, TimesMonotonic
<1>4. l * (x * m) <= l * (z * k)
  <2>1. PICK a, b, c, d, e, f :
          /\ a = m * (x * l) /\ b = m * (y * k) /\ c = k * (y * m) /\ d = k * (z * l)
          /\ e = l * (x * m) /\ f = l * (z * k)
    OBVIOUS
  <2>2. /\ a \in Nat /\ b \in Nat /\ c \in Nat /\ d \in Nat /\ e \in Nat /\ f \in Nat
        /\ a = e /\ b = c /\ d = f /\ a <= b /\ c <= d
    BY <1>1, <1>2, <1>3, <2>1
  <2> QED
    BY <2>1, <2>2
<1>5. x * m <= z * k
  <2> SUFFICES ASSUME z * k + 1 <= x * m PROVE FALSE
    BY <1>1
  <2>1. l * (z * k + 1) <= l * (x * m) /\ l * (z * k + 1) = l * (z * k) + l
    BY <1>1, TimesMonotonic
  <2>2. l * (z * k) \in Nat /\ l * (x * m) \in Nat
    BY <1>1
  <2> QED
    BY <1>4, <2>1, <2>2
<1>6. ASSUME x * l + 1 <= y * k
      PROVE  x * m < z * k
  <2> SUFFICES ASSUME z * k <= x * m PROVE FALSE
    BY <1>1
  <2>1. m * (x * l + 1) <= m * (y * k) /\ m * (x * l + 1) = m * (x * l) + m
    BY <1>1, <1>6, TimesMonotonic
  <2>2. l * (z * k) <= l * (x * m)
    BY <1>1, TimesMonotonic
  <2>3. PICK a, b, c, d, e, f :
          /\ a = m * (x * l) /\ b = m * (y * k) /\ c = k * (y * m) /\ d = k * (z * l)
          /\ e = l * (x * m) /\ f = l * (z * k)
    OBVIOUS
  <2>4. /\ a \in Nat /\ b \in Nat /\ c \in Nat /\ d \in Nat /\ e \in Nat /\ f \in Nat
        /\ a = e /\ b = c /\ d = f /\ a + m <= b /\ c <= d /\ f <= e
    BY <1>1, <1>2, <1>3, <2>1, <2>2, <2>3
  <2> QED
    BY <2>4
<1>7. ASSUME y * m + 1 <= z * l
      PROVE  x * m < z * k
  <2> SUFFICES ASSUME z * k <= x * m PROVE FALSE
    BY <1>1
  <2>1. k * (y * m + 1) <= k * (z * l) /\ k * (y * m + 1) = k * (y * m) + k
    BY <1>1, <1>7, TimesMonotonic
  <2>2. l * (z * k) <= l * (x * m)
    BY <1>1, TimesMonotonic
  <2>3. PICK a, b, c, d, e, f :
          /\ a = m * (x * l) /\ b = m * (y * k) /\ c = k * (y * m) /\ d = k * (z * l)
          /\ e = l * (x * m) /\ f = l * (z * k)
    OBVIOUS
  <2>4. /\ a \in Nat /\ b \in Nat /\ c \in Nat /\ d \in Nat /\ e \in Nat /\ f \in Nat
        /\ a = e /\ b = c /\ d = f /\ a <= b /\ c + k <= d /\ f <= e
    BY <1>1, <1>2, <1>3, <2>1, <2>2, <2>3
  <2> QED
    BY <2>4
<1> QED
  BY <1>1, <1>5, <1>6, <1>7

\* So no three layers are tighter than one another in a circle.
LEMMA TighterOrder ==
  ASSUME NEW a, NEW b, NEW c, LayerOK(a), LayerOK(b), LayerOK(c)
  PROVE  /\ ~Tighter(a, a)
         /\ ~Tighter(a, b) \/ ~Tighter(b, a)
         /\ ~Tighter(b, a) /\ ~Tighter(c, b) => ~Tighter(c, a)
<1>1. /\ a.remaining * b.limit \in Nat /\ b.remaining * a.limit \in Nat
      /\ b.remaining * c.limit \in Nat /\ c.remaining * b.limit \in Nat
      /\ a.remaining * c.limit \in Nat /\ c.remaining * a.limit \in Nat
      /\ a.remaining * a.limit \in Nat
      /\ a.window \in Nat /\ b.window \in Nat /\ c.window \in Nat
  BY DEF LayerOK
<1>2. ~Tighter(a, a)
  BY <1>1 DEF Tighter
<1>3. ~Tighter(a, b) \/ ~Tighter(b, a)
  BY <1>1 DEF Tighter
<1>4. ASSUME ~Tighter(b, a), ~Tighter(c, b)
      PROVE  ~Tighter(c, a)
  <2>1. /\ a.remaining * b.limit <= b.remaining * a.limit
        /\ b.remaining * c.limit <= c.remaining * b.limit
        /\ a.remaining * b.limit = b.remaining * a.limit => a.window <= b.window
        /\ b.remaining * c.limit = c.remaining * b.limit => b.window <= c.window
    BY <1>1, <1>4 DEF Tighter
  <2>2. /\ a.remaining * c.limit <= c.remaining * a.limit
        /\ \/ a.remaining * b.limit < b.remaining * a.limit
           \/ b.remaining * c.limit < c.remaining * b.limit
           => a.remaining * c.limit < c.remaining * a.limit
    <3>1. PICK x, y, z, k, l, m :
            /\ x = a.remaining /\ y = b.remaining /\ z = c.remaining
            /\ k = a.limit /\ l = b.limit /\ m = c.limit
      OBVIOUS
    <3>2. /\ x \in Nat /\ y \in Nat /\ z \in Nat
          /\ k \in Nat \ {0} /\ l \in Nat \ {0} /\ m \in Nat \ {0}
          /\ x * l <= y * k /\ y * m <= z * l
      BY <2>1, <3>1 DEF LayerOK
    <3>3. x * m <= z * k /\ (x * l < y * k \/ y * m < z * l => x * m < z * k)
      BY <3>2, RatioTransitive
    <3> QED
      BY <3>1, <3>3
  <2> QED
    BY <1>1, <2>1, <2>2 DEF Tighter
<1> QED
  BY <1>2, <1>3, <1>4

\* The tightest layer is one of the three, and none is tighter.
LEMMA TightestIs ==
  ASSUME NEW layers, \A i \in {"burst", "sustained", "quota"} : LayerOK(layers[i])
  PROVE  \E i \in {"burst", "sustained", "quota"} :
           /\ Tightest(layers) = layers[i]
           /\ \A j \in {"burst", "sustained", "quota"} : ~Tighter(layers[j], layers[i])
<1> DEFINE A == layers["burst"]
           B == layers["sustained"]
           C == layers["quota"]
           least == {i \in DOMAIN Order :
                       \A j \in DOMAIN Order : ~Tighter(layers[Order[j]], layers[Order[i]])}
<1>1. /\ DOMAIN Order = {1, 2, 3}
      /\ Order[1] = "burst" /\ Order[2] = "sustained" /\ Order[3] = "quota"
  BY DEF Order
<1>2. LayerOK(A) /\ LayerOK(B) /\ LayerOK(C)
  OBVIOUS
<1> HIDE DEF A, B, C
<1>3. /\ ~Tighter(A, A) /\ ~Tighter(B, B) /\ ~Tighter(C, C)
      /\ ~Tighter(A, B) \/ ~Tighter(B, A)
      /\ ~Tighter(B, C) \/ ~Tighter(C, B)
      /\ ~Tighter(A, C) \/ ~Tighter(C, A)
  BY <1>2, TighterOrder
<1>4. /\ ~Tighter(B, A) /\ ~Tighter(C, B) => ~Tighter(C, A)
      /\ ~Tighter(C, A) /\ ~Tighter(B, C) => ~Tighter(B, A)
      /\ ~Tighter(A, B) /\ ~Tighter(C, A) => ~Tighter(C, B)
      /\ ~Tighter(C, B) /\ ~Tighter(A, C) => ~Tighter(A, B)
      /\ ~Tighter(A, C) /\ ~Tighter(B, A) => ~Tighter(B, C)
      /\ ~Tighter(B, C) /\ ~Tighter(A, B) => ~Tighter(A, C)
  BY <1>2, TighterOrder
<1>5. \/ ~Tighter(B, A) /\ ~Tighter(C, A)
      \/ ~Tighter(A, B) /\ ~Tighter(C, B)
      \/ ~Tighter(A, C) /\ ~Tighter(B, C)
  BY <1>3, <1>4
<1>6. least \subseteq {1, 2, 3} /\ least # {}
  <2>1. 1 \in least \/ 2 \in least \/ 3 \in least
    BY <1>1, <1>3, <1>5 DEF A, B, C
  <2> QED
    BY <1>1, <2>1
<1> HIDE DEF least
<1>7. \E i \in least : \A j \in least : i <= j
  <2>1. CASE 1 \in least
    <3>1. \A j \in least : 1 <= j
      BY <1>6
    <3> QED
      BY <2>1, <3>1
  <2>2. CASE 1 \notin least /\ 2 \in least
    <3>1. \A j \in least : 2 <= j
      BY <1>6, <2>2
    <3> QED
      BY <2>2, <3>1
  <2>3. CASE 1 \notin least /\ 2 \notin least
    <3>1. least = {3}
      BY <1>6, <2>3
    <3> QED
      BY <3>1
  <2> QED
    BY <2>1, <2>2, <2>3
<1>8. PICK i : i = CHOOSE k \in least : \A j \in least : k <= j
  OBVIOUS
<1>9. i \in least
  BY <1>7, <1>8
<1>10. Tightest(layers) = layers[Order[i]]
  BY <1>8 DEF Tightest, least
<1>11. i \in {1, 2, 3} /\ \A j \in {1, 2, 3} : ~Tighter(layers[Order[j]], layers[Order[i]])
  BY <1>1, <1>9 DEF least
<1>12. Order[i] \in {"burst", "sustained", "quota"}
  BY <1>1, <1>11
<1>13. \A j \in {"burst", "sustained", "quota"} : ~Tighter(layers[j], layers[Order[i]])
  BY <1>1, <1>11
<1> QED
  BY <1>10, <1>12, <1>13

\* A zero anywhere shows.
LEMMA HeaderOfAdmission ==
  ASSUME NEW layers, \A i \in {"burst", "sustained", "quota"} : LayerOK(layers[i])
  PROVE  /\ Tightest(layers).remaining \in Nat
         /\ Tightest(layers).remaining > 0 =>
              \A i \in {"burst", "sustained", "quota"} : layers[i].remaining >= 1
         /\ Tightest(layers).remaining = 0 =>
              \E i \in {"burst", "sustained", "quota"} : layers[i].remaining = 0
<1>1. PICK i \in {"burst", "sustained", "quota"} :
        /\ Tightest(layers) = layers[i]
        /\ \A j \in {"burst", "sustained", "quota"} : ~Tighter(layers[j], layers[i])
  BY TightestIs
<1>2. layers[i].remaining \in Nat
  BY DEF LayerOK
<1>3. ASSUME layers[i].remaining > 0, NEW j \in {"burst", "sustained", "quota"}
      PROVE  layers[j].remaining >= 1
  <2>1. PICK x, y, k, l : /\ x = layers[i].remaining /\ y = layers[j].remaining
                          /\ k = layers[i].limit /\ l = layers[j].limit
    OBVIOUS
  <2>2. x \in Nat \ {0} /\ y \in Nat /\ k \in Nat \ {0} /\ l \in Nat \ {0}
    BY <1>3, <2>1 DEF LayerOK
  <2>3. ~(y * k < x * l)
    BY <1>1, <1>3, <2>1 DEF Tighter
  <2>4. y # 0
    <3> SUFFICES ASSUME y = 0 PROVE FALSE
      OBVIOUS
    <3>1. y * k = 0
      BY <2>2
    <3>2. x * l \in Nat \ {0}
      BY <2>2
    <3> QED
      BY <2>3, <3>1, <3>2
  <2> QED
    BY <2>1, <2>2, <2>4
<1> QED
  BY <1>1, <1>2, <1>3

\* The layers of a reply are such layers.
LEMMA ReplyLayers ==
  ASSUME TypeOK, WindowInv, SteadyInv, Steady, NEW r \in Resources, NEW p \in Plans,
         NEW c, ReplyFor(r, p, c), reply.plan = p
  PROVE  \A i \in {"burst", "sustained", "quota"} : LayerOK(Layers(reply)[i])
<1>1. /\ p.cap \in Nat \ {0} /\ p.rate \in Nat \ {0} /\ p.limit \in Nat \ {0}
      /\ p.hard \in Nat \ {0} /\ p.window \in Nat
      /\ UTOK \in Nat \ {0} /\ MonthLen \in Nat
      /\ Month \in Months /\ spent[Month] \in Nat /\ now \in Nat
  BY PlanFacts, MonthFacts DEF PlanLimits, TypeOK
<1>2. PICK h : h \in Nat /\ reply.b_remaining = h \div UTOK
  BY DEF ReplyFor
<1>3. Cardinality(window[r]) \in Nat
  BY <1>1, LaterWindow DEF ReplyFor
<1>4. reply.b_remaining \in Nat
  BY <1>1, <1>2
<1>5. reply.s_remaining \in Nat /\ reply.q_remaining \in Nat
  BY <1>1, <1>3 DEF ReplyFor, AtLeast0
<1>6. burst_window_seconds(p) \in Nat /\ month_window_seconds \in Nat
  <2>1. CeilDiv(p.cap, p.rate) \in Nat
    BY <1>1, CeilDivNat
  <2>2. MonthLen \div UTOK \in Nat
    BY <1>1
  <2> QED
    BY <2>1, <2>2 DEF burst_window_seconds, month_window_seconds
<1>7. /\ Layers(reply)["burst"].limit = p.cap
      /\ Layers(reply)["burst"].remaining = reply.b_remaining
      /\ Layers(reply)["burst"].window = burst_window_seconds(p)
      /\ Layers(reply)["sustained"].limit = p.limit
      /\ Layers(reply)["sustained"].remaining = reply.s_remaining
      /\ Layers(reply)["sustained"].window = p.window
      /\ Layers(reply)["quota"].limit = p.hard
      /\ Layers(reply)["quota"].remaining = reply.q_remaining
      /\ Layers(reply)["quota"].window = month_window_seconds
  BY DEF Layers
<1> QED
  BY <1>1, <1>4, <1>5, <1>6, <1>7 DEF LayerOK

\* A reply that shows no remainder comes before a refusal.
LEMMA NothingLeft ==
  ASSUME TypeOK, QuotaInv, WindowInv, SteadyInv, Steady, NEW r \in Resources,
         NEW p \in Plans, NEW c, ReplyFor(r, p, c), NEW b \in Refill(bucket[r], p, now),
         Allowed(b, Trim(window[r], wexp[r], p, now), UsedAt(now), 1, p)
  PROVE  /\ reply.s_remaining # 0 /\ reply.q_remaining # 0
         /\ reply.b_remaining = 0 => b.t = UTOK
<1>1. /\ p.limit \in Nat \ {0} /\ p.hard \in Nat \ {0} /\ UTOK \in Nat \ {0}
      /\ Month \in Months /\ spent[Month] \in Nat /\ now \in Nat /\ now < MonthEnd
  BY PlanFacts, MonthFacts DEF TypeOK
<1>2. Cardinality(window[r]) \in Nat
  BY <1>1, LaterWindow DEF ReplyFor
<1>3. UsedAt(now) = spent[Month]
  BY <1>1, LaterUsed
<1>4. b.t >= 1 * UTOK /\ Cardinality(window[r]) + 1 <= p.limit /\ spent[Month] + 1 <= p.hard
  BY <1>3 DEF ReplyFor, Allowed, BurstOk, SustainedOk, QuotaOk
<1>5. reply.s_remaining # 0 /\ reply.q_remaining # 0
  BY <1>1, <1>2, <1>4 DEF ReplyFor, AtLeast0
<1>6. ASSUME reply.b_remaining = 0
      PROVE  b.t = UTOK
  <2>1. PICK h : /\ h \in Nat /\ Worth(bucket[r], p, now) <= h + 1
                 /\ reply.b_remaining = h \div UTOK
    BY DEF ReplyFor
  <2>2. h < UTOK
    BY <1>1, <1>6, <2>1
  <2>3. BucketOK(bucket[r], p) /\ bucket[r].ts <= now + 1
    BY DEF SteadyInv
  <2>4. /\ b.t \in Nat /\ b.t <= Worth(bucket[r], p, now)
        /\ Worth(bucket[r], p, now) \in Nat
    BY <1>1, <2>3, RefillWorth
  <2> QED
    BY <1>1, <1>4, <2>1, <2>2, <2>4
<1> QED
  BY <1>5, <1>6

\* The one `remaining` of an admission speaks for all three layers (to_out in
\* services/checker.py), until the clock goes back.
THEOREM HeaderUntilRegress ==
  ASSUME SamePlan
  PROVE  Spec => [](Steady => HeaderIsTrue)
<1>1. ASSUME TypeOK, QuotaInv, WindowInv, SteadyInv, ReplyInv, Steady
      PROVE  HeaderIsTrue
  <2> DEFINE w == Trim(window[reply.res], wexp[reply.res], reply.plan, now)
  <2> SUFFICES ASSUME Admitted(reply)
               PROVE  IF to_out(reply).remaining > 0
                      THEN FALSE \notin Verdicts(reply.res, 1, reply.plan, now + 1)
                      ELSE \A b \in Refill(bucket[reply.res], reply.plan, now) :
                             Allowed(b, w, UsedAt(now), 1, reply.plan) => b.t = UTOK
    BY Zenon DEF HeaderIsTrue
  <2>1. PICK r \in Resources, p \in Plans, c \in Costs :
          reply.res = r /\ reply.plan = p /\ reply.cost = c /\ ReplyFor(r, p, c)
    BY <1>1 DEF ReplyInv
  <2>2. \A i \in {"burst", "sustained", "quota"} : LayerOK(Layers(reply)[i])
    BY <1>1, <2>1, ReplyLayers
  <2>3. to_out(reply).remaining = Tightest(Layers(reply)).remaining
    <3>1. ~Denied(reply)
      BY DEF Admitted, Denied
    <3>2. selected_policy(reply) = Tightest(Layers(reply))
      BY <3>1 DEF selected_policy
    <3> QED
      BY <3>2 DEF to_out
  <2>4. PICK n : n = to_out(reply).remaining
    OBVIOUS
  <2>5. /\ Layers(reply)["burst"].remaining = reply.b_remaining
        /\ Layers(reply)["sustained"].remaining = reply.s_remaining
        /\ Layers(reply)["quota"].remaining = reply.q_remaining
    BY DEF Layers
  <2>6. /\ n \in Nat
        /\ n > 0 => /\ reply.b_remaining >= 1 /\ reply.s_remaining >= 1
                    /\ reply.q_remaining >= 1
        /\ n = 0 => \/ reply.b_remaining = 0 \/ reply.s_remaining = 0
                    \/ reply.q_remaining = 0
    BY <2>2, <2>3, <2>4, <2>5, HeaderOfAdmission
  <2>7. CASE n > 0
    <3>1. 1 <= reply.b_remaining /\ reply.s_remaining >= 1 /\ 1 <= reply.q_remaining
      <4>1. reply.b_remaining \in Nat /\ reply.q_remaining \in Nat
        BY <2>2, <2>5 DEF LayerOK
      <4> QED
        BY <2>6, <2>7, <4>1
    <3>2. FALSE \notin Verdicts(r, 1, p, now + 1)
      <4>1. PICK one : one = 1
        OBVIOUS
      <4>2. one \in Nat \ {0} /\ one <= reply.b_remaining /\ one <= reply.q_remaining
        BY <3>1, <4>1
      <4>3. FALSE \notin Verdicts(r, one, p, now + 1)
        BY <1>1, <2>1, <3>1, <4>2, Spendable
      <4> QED
        BY <4>1, <4>3
    <3> QED
      BY <2>1, <2>4, <2>7, <3>2
  <2>8. CASE ~(n > 0)
    <3>1. n = 0
      BY <2>6, <2>8
    <3>2. ASSUME NEW b \in Refill(bucket[r], p, now),
                 Allowed(b, Trim(window[r], wexp[r], p, now), UsedAt(now), 1, p)
          PROVE  b.t = UTOK
      BY <1>1, <2>1, <2>6, <3>1, <3>2, NothingLeft
    <3>3. \A b \in Refill(bucket[reply.res], reply.plan, now) :
            Allowed(b, w, UsedAt(now), 1, reply.plan) => b.t = UTOK
      BY <2>1, <3>2
    <3> HIDE DEF w
    <3> QED
      BY <2>4, <2>8, <3>3
  <2> QED
    BY <2>7, <2>8
<1> QED
  BY <1>1, TypeCorrect, MonthInvariant, SamePlanSameWindow, WindowInvariant,
     SteadyInvariant, ReplyInvariant, PTL

\* With a clock that never goes back it always does.
THEOREM HeaderSpeaksForAll ==
  ASSUME SamePlan, MaxSkew = 0
  PROVE  Spec => []HeaderIsTrue
BY HeaderUntilRegress, AlwaysSteady, PTL

\* No two requests to a resource share their request_id.
UniqueInv ==
  \A r \in Resources : \A e, f \in log[r] : e.request_id = f.request_id => e = f

\* UniqueInv holds in every behaviour.
LEMMA UniqueInvariant == Spec => []UniqueInv
<1>1. Init => UniqueInv
  BY DEF Init, UniqueInv
<1>2. ASSUME TypeOK, LogInv, UniqueInv, [Next]_vars
      PROVE  UniqueInv'
  <2>1. CASE \E r \in Resources, c \in Costs, p \in Plans : Allow(r, c, p)
    <3>1. PICK r \in Resources, c \in Costs, p \in Plans : Allow(r, c, p)
      BY <2>1
    <3>2. log' = [log EXCEPT ![r] = @ \cup {Entry(r, c, p)}]
      BY <3>1 DEF Allow
    <3>3. Entry(r, c, p).request_id = granted[r] + c
      BY DEF Entry
    <3>4. granted[r] \in Nat /\ c \in Nat \ {0}
          /\ \A e \in log[r] : e.request_id \in Nat /\ e.request_id <= granted[r]
      BY <1>2 DEF TypeOK, Entries, LogInv
    <3>5. \A e \in log[r] : e.request_id # Entry(r, c, p).request_id
      BY <3>3, <3>4
    <3> QED
      BY <1>2, <3>2, <3>5 DEF TypeOK, UniqueInv
  <2>2. CASE \A r \in Resources, c \in Costs, p \in Plans : ~Allow(r, c, p)
    <3>1. log' = log
      BY <1>2, <2>2, OthersKeepSpending
    <3> QED
      BY <1>2, <3>1 DEF UniqueInv
  <2> QED
    BY <2>1, <2>2
<1> QED
  BY <1>1, <1>2, TypeCorrect, LogInvariant, PTL DEF Spec

\* The level of Admission is what the stored bucket is worth.
LevelInv ==
  \A r \in Resources :
    Level(r) = Worth(bucket[r], Plan, now) /\ Ahead(r) \in {0, 1}

\* LevelInv follows from what a bucket under one plan is.
LEMMA LevelIsWorth ==
  ASSUME TypeOK, SteadyInv, Steady, Plan \in Plans
  PROVE  LevelInv
<1> SUFFICES ASSUME NEW r \in Resources
             PROVE  Level(r) = Worth(bucket[r], Plan, now) /\ Ahead(r) \in {0, 1}
  BY DEF LevelInv
<1>1. PICK p : p = Plan
  OBVIOUS
<1>2. p \in Plans /\ now \in Nat /\ BucketOK(bucket[r], p) /\ bucket[r].ts <= now + 1
  BY <1>1 DEF SteadyInv, TypeOK
<1>3. bucket[r].ts \in Nat
  BY <1>2 DEF BucketOK
<1>4. Ahead(r) \in {0, 1}
  BY <1>2, <1>3 DEF Ahead, AtLeast0
<1>5. CASE Live(bucket[r].exp, now)
  <2>1. bucket[r].exp # NoKey
    BY <1>2, <1>5 DEF Live, NoKey
  <2>2. Elapsed(bucket[r].ts, now) * p.rate = p.rate * Elapsed(bucket[r].ts, now)
    <3>1. Elapsed(bucket[r].ts, now) \in Nat /\ p.rate \in Nat
      BY <1>2, <1>3, PlanFacts DEF Elapsed, AtLeast0
    <3> QED
      BY <3>1
  <2> QED
    BY <1>1, <1>4, <1>5, <2>1, <2>2 DEF Level, Worth
<1>6. CASE ~Live(bucket[r].exp, now)
  <2>1. Worth(bucket[r], p, now) = Cap(p)
    BY <1>2, <1>6, ExpiredIsFull
  <2> QED
    BY <1>1, <1>4, <1>6, <2>1 DEF Level
<1> QED
  BY <1>5, <1>6

\* A tick adds the rate to it, up to the capacity, unless the refill time is ahead.
LEMMA TickWorth ==
  ASSUME NEW p \in Plans, NEW b, BucketOK(b, p), NEW at \in Nat, b.ts <= at + 1,
         NEW late, late = IF Live(b.exp, at) THEN AtLeast0(b.ts - at) ELSE 0
  PROVE  /\ Worth(b, p, at + 1) = IF late = 1 THEN Worth(b, p, at)
                                  ELSE Smaller(Cap(p), Worth(b, p, at) + p.rate)
         /\ Live(b.exp, at + 1) => AtLeast0(b.ts - (at + 1)) = 0
<1>1. /\ b.t \in Nat /\ b.ts \in Nat /\ b.exp \in Expiry
      /\ p.rate \in Nat \ {0} /\ Cap(p) \in Nat
  BY PlanFacts DEF BucketOK
<1>2. Live(b.exp, at + 1) => AtLeast0(b.ts - (at + 1)) = 0
  BY <1>1 DEF AtLeast0
<1>3. CASE b.exp = NoKey
  <2>1. late = 0
    BY <1>3 DEF Live, NoKey
  <2>2. Worth(b, p, at) = Cap(p) /\ Worth(b, p, at + 1) = Cap(p)
    BY <1>3 DEF Worth
  <2>3. Smaller(Cap(p), Cap(p) + p.rate) = Cap(p)
    BY <1>1 DEF Smaller
  <2> QED
    BY <1>2, <2>1, <2>2, <2>3
<1>4. CASE ~Live(b.exp, at)
  <2>1. ~Live(b.exp, at + 1)
    BY <1>1, <1>4 DEF Live, Expiry, NoKey
  <2>2. at + 1 \in Nat
    OBVIOUS
  <2>3. Worth(b, p, at) = Cap(p)
    BY <1>4, ExpiredIsFull
  <2>4. Worth(b, p, at + 1) = Cap(p)
    BY <2>1, <2>2, ExpiredIsFull
  <2>5. Smaller(Cap(p), Cap(p) + p.rate) = Cap(p)
    BY <1>1 DEF Smaller
  <2> QED
    BY <1>2, <1>4, <2>3, <2>4, <2>5
<1>5. CASE Live(b.exp, at) /\ b.exp # NoKey /\ b.ts = at + 1
  <2>1. late = 1
    BY <1>1, <1>5 DEF AtLeast0
  <2>2. Elapsed(b.ts, at) = 0 /\ Elapsed(b.ts, at + 1) = 0
    BY <1>1, <1>5 DEF Elapsed, AtLeast0
  <2>3. Worth(b, p, at + 1) = Worth(b, p, at)
    BY <2>2 DEF Worth
  <2> QED
    BY <1>2, <2>1, <2>3
<1>6. CASE Live(b.exp, at) /\ b.exp # NoKey /\ b.ts <= at
  <2>1. late = 0
    BY <1>1, <1>6 DEF AtLeast0
  <2>2. Elapsed(b.ts, at) \in Nat /\ Elapsed(b.ts, at + 1) = Elapsed(b.ts, at) + 1
    BY <1>1, <1>6 DEF Elapsed, AtLeast0
  <2>3. PICK e : e = Elapsed(b.ts, at)
    OBVIOUS
  <2>4. p.rate * (e + 1) = p.rate * e + p.rate /\ p.rate * e \in Nat
    BY <1>1, <2>2, <2>3
  <2>5. PICK x : x = p.rate * e
    OBVIOUS
  <2>6. /\ Worth(b, p, at) = Smaller(Cap(p), b.t + x)
        /\ Worth(b, p, at + 1) = Smaller(Cap(p), b.t + (x + p.rate))
    BY <1>6, <2>2, <2>3, <2>4, <2>5 DEF Worth
  <2>7. Smaller(Cap(p), b.t + (x + p.rate))
          = Smaller(Cap(p), Smaller(Cap(p), b.t + x) + p.rate)
    BY <1>1, <2>4, <2>5 DEF Smaller
  <2> QED
    BY <1>2, <2>1, <2>6, <2>7
<1> QED
  BY <1>1, <1>3, <1>4, <1>5, <1>6

\* What the script counts in the window is what Admission does.
LEMMA RecentIsCounted ==
  ASSUME TypeOK, LogInv, WindowInv, SteadyInv, UniqueInv, Steady, Plan \in Plans,
         NEW r \in Resources
  PROVE  Abstract!Recent(r) = Cardinality(Trim(window[r], wexp[r], Plan, now))
<1>1. PICK p : p = Plan
  OBVIOUS
<1> DEFINE W == Trim(window[r], wexp[r], p, now)
           S == {e \in log[r] : e.at >= now - Win(p)}
           f == [e \in S |-> [at |-> e.at, upto |-> e.request_id]]
           T == {e \in {[at |-> e.at, upto |-> e.request_id] : e \in log[r]} :
                   e.at >= now - Win(p)}
<1>2. p \in Plans /\ now \in Nat /\ now = real /\ Win(p) \in Nat
  BY <1>1, PlanFacts DEF TypeOK, Steady
<1>3. \A e \in log[r] : e.at \in Nat /\ e.score = e.at /\ e.request_id \in Nat
  BY DEF TypeOK, Entries, SteadyInv
<1>4. IsFiniteSet(window[r]) /\ window[r] \subseteq log[r]
  BY DEF WindowInv, TypeOK
<1>5. W = S
  <2>1. W \subseteq S
    BY <1>2, <1>3, <1>4 DEF Trim, InWindow
  <2>2. S \subseteq W
    <3> SUFFICES ASSUME NEW e \in S PROVE e \in W
      OBVIOUS
    <3>1. e \in log[r] /\ e.at + Win(p) >= real
      BY <1>2, <1>3
    <3> QED
      BY <1>2, <3>1, TrimKeepsRecent
  <2> QED
    BY <2>1, <2>2
<1>6. IsFiniteSet(S)
  <2>1. IsFiniteSet(W)
    BY <1>4, TrimIsSmaller
  <2> HIDE DEF W, S
  <2> QED
    BY <1>5, <2>1
<1>7. f \in Bijection(S, T)
  <2>1. f \in [S -> T]
    OBVIOUS
  <2>2. \A t \in T : \E e \in S : f[e] = t
    OBVIOUS
  <2>3. \A e, g \in S : f[e] = f[g] => e = g
    BY DEF UniqueInv
  <2> QED
    BY <2>1, <2>2, <2>3 DEF Bijection, Injection, Surjection, IsInjective
<1>8. Cardinality(T) = Cardinality(S)
  BY <1>6, <1>7, FS_Bijection DEF ExistsBijection
<1>9. Abstract!Recent(r) = Cardinality(T)
  <2>1. Abstract!Recent(r) = Abstract!Cardinality(T)
    BY <1>1 DEF Abstract!Recent
  <2> HIDE DEF T
  <2> QED
    BY <2>1 DEF Abstract!Cardinality, Cardinality
<1> QED
  BY <1>1, <1>5, <1>8, <1>9

\* What the steps of the refinement rest on.
RefineInv ==
  /\ TypeOK /\ QuotaInv /\ SoftInv /\ FlagSetInv /\ SoftWarnedExactly /\ LogInv
  /\ WindowInv /\ SteadyInv /\ UniqueInv /\ Steady /\ LevelInv

\* The initial states are initial states of Admission.
LEMMA RefineInit ==
  ASSUME Init
  PROVE  Abstract!Init
<1>1. [r \in Resources |-> Level(r)] = [r \in Resources |-> Cap(Plan)]
  BY DEF Init, Level, Live, NoKey
<1>2. [r \in Resources |-> Ahead(r)] = [r \in Resources |-> 0]
  BY DEF Init, Ahead, Live, NoKey
<1>3. [r \in Resources |-> {[at |-> e.at, upto |-> e.request_id] : e \in log[r]}]
        = [r \in Resources |-> {}]
  <2>1. \A r \in Resources : log[r] = {}
    BY DEF Init
  <2> QED
    BY <2>1
<1>4. Verdict = [deny_layer |-> "none"]
  BY DEF Init, Verdict, NoReply
<1>5. spent = [m \in Abstract!Months |-> 0]
  BY DEF Init, Months, Abstract!Months
<1> QED
  BY <1>1, <1>2, <1>3, <1>4, <1>5 DEF Init, Abstract!Init

\* An admission takes its cost from the level and joins the log.
LEMMA RefineAllow ==
  ASSUME RefineInv, RefineInv', SamePlan,
         NEW r \in Resources, NEW c \in Costs, NEW p \in Plans, Allow(r, c, p)
  PROVE  Abstract!Admit(r, c)
<1>1. Plan = p
  BY DEF Plan, SamePlan
<1>2. PICK b \in Refill(bucket[r], p, now) : AllowFrom(b, r, c, p)
  BY AllowParts
<1>3. /\ TypeOK /\ QuotaInv /\ SteadyInv /\ Steady /\ LevelInv /\ LevelInv'
      /\ FlagSetInv /\ SoftWarnedExactly
  BY DEF RefineInv
<1>4. /\ now \in Nat /\ now = real /\ c \in Nat \ {0} /\ UTOK \in Nat \ {0}
      /\ c * UTOK \in Nat \ {0} /\ p.limit \in Nat \ {0}
      /\ BucketOK(bucket[r], p) /\ bucket[r].ts <= now + 1
      /\ Month \in Months /\ spent[Month] \in Nat
      /\ bucket[r] \in [t : Nat, ts : Nat, exp : Expiry]
  <2>1. now \in Nat /\ c \in Nat \ {0} /\ UTOK \in Nat \ {0}
    BY <1>3 DEF TypeOK
  <2>2. c * UTOK \in Nat \ {0}
    BY <2>1
  <2>3. BucketOK(bucket[r], p) /\ bucket[r].ts <= now + 1
    BY <1>3 DEF SteadyInv
  <2>4. Month \in Months /\ spent[Month] \in Nat
    BY <1>3, MonthFacts DEF TypeOK
  <2> QED
    BY <1>3, <2>1, <2>2, <2>3, <2>4, PlanFacts DEF TypeOK, Steady
<1>5. /\ Worth(bucket[r], p, now) \in Nat /\ b.t \in Nat
      /\ b.t <= Worth(bucket[r], p, now)
  BY <1>4, RefillWorth
<1>6. c * UTOK <= b.t
  BY <1>2, <1>4, <1>5 DEF AllowFrom, BurstOk
<1>7. /\ now' = now
      /\ bucket' = [bucket EXCEPT ![r] =
                      [t |-> b.t - c * UTOK, ts |-> b.ts, exp |-> now + BucketTTL(p)]]
  BY <1>2 DEF AllowFrom
<1>8. \A q \in Resources : q # r => Level(q)' = Level(q) /\ Ahead(q)' = Ahead(q)
  BY <1>3, <1>7 DEF Level, Ahead, TypeOK
<1>9. \/ Level(r)' = Level(r) - c * UTOK - 0
      \/ Level(r)' = Level(r) - c * UTOK - 1
  <2> DEFINE left == bucket'[r]
  <2>1. left = [t |-> b.t - c * UTOK, ts |-> b.ts, exp |-> now + BucketTTL(p)]
    BY <1>3, <1>7 DEF TypeOK
  <2>2. left.t = b.t - c * UTOK /\ left.ts = b.ts /\ left.exp = now + BucketTTL(p)
    BY <2>1
  <2> HIDE DEF left
  <2>3. \/ Worth(left, p, now) = Worth(bucket[r], p, now) - c * UTOK
        \/ Worth(left, p, now) = Worth(bucket[r], p, now) - c * UTOK - 1
    <3>1. PICK x : x = c * UTOK
      OBVIOUS
    <3>2. x \in Nat \ {0} /\ x <= b.t /\ left.t = b.t - x
      BY <1>4, <1>6, <2>2, <3>1
    <3>3. \/ Worth(left, p, now) = Worth(bucket[r], p, now) - x
          \/ Worth(left, p, now) = Worth(bucket[r], p, now) - x - 1
      BY <1>4, <2>2, <3>2, ConsumedWorth
    <3> QED
      BY <3>1, <3>3
  <2>4. Level(r) = Worth(bucket[r], p, now)
    BY <1>1, <1>3 DEF LevelInv
  <2>5. Level(r)' = Worth(left, p, now)
    BY <1>1, <1>3, <1>7 DEF LevelInv, left
  <2> QED
    BY <1>4, <1>5, <2>3, <2>4, <2>5
<1>10. Ahead(r)' \in {0, 1}
  BY <1>3 DEF LevelInv
<1>11. PICK lost \in {0, 1} : Level(r)' = Level(r) - c * UTOK - lost
  BY <1>9
<1>12. PICK behind \in {0, 1} : behind = Ahead(r)'
  BY <1>10
<1>13. [q \in Resources |-> Level(q)']
         = [[q \in Resources |-> Level(q)] EXCEPT ![r] = @ - c * UTOK - lost]
  BY <1>8, <1>11
<1>14. [q \in Resources |-> Ahead(q)'] = [[q \in Resources |-> Ahead(q)] EXCEPT ![r] = behind]
  BY <1>8, <1>12
<1>15. Level(r) >= c * UTOK
  BY <1>1, <1>3, <1>4, <1>5, <1>6 DEF LevelInv
<1>16. Abstract!Recent(r) < p.limit
  <2>1. Abstract!Recent(r) = Cardinality(Trim(window[r], wexp[r], p, now))
    BY <1>1, RecentIsCounted DEF RefineInv
  <2>2. Cardinality(Trim(window[r], wexp[r], p, now)) \in Nat
    BY TrimIsSmaller DEF RefineInv, WindowInv
  <2>3. Cardinality(Trim(window[r], wexp[r], p, now)) + 1 <= p.limit
    BY <1>2 DEF AllowFrom, SustainedOk
  <2> QED
    BY <1>4, <2>1, <2>2, <2>3
<1>17. Abstract!Month = Month
  BY DEF Abstract!Month, Month
<1>18. Used(quota[Month], now) = spent[Month]
  BY <1>3, UsedIsSpent
<1>19. spent[Month] + c <= p.hard
  BY <1>2, <1>18 DEF AllowFrom, QuotaOk
<1>20. /\ log' = [log EXCEPT ![r] = @ \cup {Entry(r, c, p)}]
       /\ granted' = [granted EXCEPT ![r] = @ + c]
       /\ spent' = [spent EXCEPT ![Month] = @ + c]
  BY DEF Allow
<1> DEFINE Seen(q) == {[at |-> e.at, upto |-> e.request_id] : e \in log[q]}
<1>21. [q \in Resources |-> Seen(q)']
         = [[q \in Resources |-> Seen(q)] EXCEPT
              ![r] = @ \cup {[at |-> now, upto |-> granted[r] + c]}]
  <2>1. log'[r] = log[r] \cup {Entry(r, c, p)} /\ \A q \in Resources : q # r => log'[q] = log[q]
    BY <1>3, <1>20 DEF TypeOK
  <2>2. Entry(r, c, p).at = now /\ Entry(r, c, p).request_id = granted[r] + c
    BY <1>4 DEF Entry
  <2>3. Seen(r)' = Seen(r) \cup {[at |-> now, upto |-> granted[r] + c]}
    BY <2>1, <2>2
  <2>4. \A q \in Resources : q # r => Seen(q)' = Seen(q)
    BY <2>1
  <2> HIDE DEF Seen
  <2> QED
    BY <2>3, <2>4
<1>22. Crosses(spent[Month], c, p) = Abstract!Crosses(c)
  <2>1. spent[Month] < p.soft => ~Live(flag[Month], now)
    <3> SUFFICES ASSUME spent[Month] < p.soft PROVE ~Live(flag[Month], now)
      OBVIOUS
    <3>1. warned[Month] = 0
      BY <1>3, <1>4, PlanFacts DEF SoftWarnedExactly
    <3>2. flag[Month] = NoKey
      BY <1>3, <1>4, <3>1 DEF FlagSetInv
    <3> QED
      BY <1>4, <3>2 DEF Live, NoKey
  <2> QED
    BY <1>1, <1>17, <2>1 DEF Crosses, Abstract!Crosses
<1>23. Verdict' = [deny_layer |-> "", soft_crossed |-> Abstract!Crosses(c)]
  <2>1. reply'.deny_layer = "" /\ reply'.soft_crossed = Abstract!Crosses(c)
    BY <1>2, <1>18, <1>22 DEF AllowFrom
  <2>2. reply' # NoReply
    <3>1. NoReply.deny_layer = "none"
      BY DEF NoReply
    <3>2. reply'.deny_layer # "none"
      BY <2>1
    <3> QED
      BY <3>1, <3>2
  <2> QED
    BY <2>1, <2>2 DEF Verdict
<1> QED
  BY <1>1, <1>7, <1>13, <1>14, <1>15, <1>16, <1>17, <1>19, <1>20, <1>21, <1>23
     DEF Abstract!Admit

\* A denial names a layer that Admission finds short too.
LEMMA RefineDeny ==
  ASSUME RefineInv, SamePlan,
         NEW r \in Resources, NEW c \in Costs, NEW p \in Plans, Deny(r, c, p)
  PROVE  Abstract!Refuse(r, c)
<1>1. Plan = p
  BY DEF Plan, SamePlan
<1>2. PICK b \in Refill(bucket[r], p, now) : DenyFrom(b, r, c, p)
  BY DenyParts
<1>3. TypeOK /\ QuotaInv /\ SteadyInv /\ Steady /\ LevelInv
  BY DEF RefineInv
<1>4. /\ now \in Nat /\ c \in Nat \ {0} /\ UTOK \in Nat \ {0} /\ c * UTOK \in Nat
      /\ p.limit \in Nat /\ p.hard \in Nat
      /\ BucketOK(bucket[r], p) /\ bucket[r].ts <= now + 1
      /\ Month \in Months /\ spent[Month] \in Nat
  <2>1. now \in Nat /\ c \in Nat \ {0} /\ UTOK \in Nat \ {0}
    BY <1>3 DEF TypeOK
  <2>2. c * UTOK \in Nat
    BY <2>1
  <2>3. BucketOK(bucket[r], p) /\ bucket[r].ts <= now + 1
    BY <1>3 DEF SteadyInv
  <2>4. Month \in Months /\ spent[Month] \in Nat
    BY <1>3, MonthFacts DEF TypeOK
  <2> QED
    BY <2>1, <2>2, <2>3, <2>4, PlanFacts
<1>5. /\ Worth(bucket[r], p, now) \in Nat /\ b.t \in Nat
      /\ b.t <= Worth(bucket[r], p, now) /\ Worth(bucket[r], p, now) <= b.t + 1
  BY <1>4, RefillWorth
<1> DEFINE w == Trim(window[r], wexp[r], p, now)
<1>6. Level(r) = Worth(bucket[r], p, now)
  BY <1>1, <1>3 DEF LevelInv
<1>7. Abstract!Recent(r) = Cardinality(w)
  BY <1>1, RecentIsCounted DEF RefineInv
<1>8. Cardinality(w) \in Nat
  BY TrimIsSmaller DEF RefineInv, WindowInv
<1>9. Abstract!Month = Month
  BY DEF Abstract!Month, Month
<1>10. Used(quota[Month], now) = spent[Month]
  BY <1>3, UsedIsSpent
<1>11. /\ ~(BurstOk(b, c) /\ SustainedOk(w, p) /\ QuotaOk(spent[Month], c, p))
       /\ reply'.deny_layer = DenyLayer(b, w, c, p) /\ reply'.soft_crossed = FALSE
       /\ UNCHANGED <<now, real, bucket, log, granted, spent>>
  BY <1>2, <1>10 DEF DenyFrom
<1> HIDE DEF w
<1>12. PICK layer : layer = DenyLayer(b, w, c, p)
  OBVIOUS
<1>13. layer \in {"burst", "sustained", "quota"}
  BY <1>12 DEF DenyLayer
<1>14. /\ layer = "burst" => Level(r) - 1 < c * UTOK
       /\ layer # "burst" => Level(r) >= c * UTOK
  <2>1. layer = "burst" <=> ~BurstOk(b, c)
    BY <1>12 DEF DenyLayer
  <2> QED
    BY <1>4, <1>5, <1>6, <2>1 DEF BurstOk
<1>15. layer = "sustained" => Abstract!Recent(r) >= p.limit
  <2>1. layer = "sustained" => ~SustainedOk(w, p)
    BY <1>12 DEF DenyLayer
  <2> QED
    BY <1>4, <1>7, <1>8, <2>1 DEF SustainedOk
<1>16. layer = "quota" => Abstract!Recent(r) < p.limit /\ spent[Month] + c > p.hard
  <2>1. layer = "quota" => SustainedOk(w, p) /\ ~QuotaOk(spent[Month], c, p)
    BY <1>11, <1>12 DEF DenyLayer
  <2> QED
    BY <1>4, <1>7, <1>8, <2>1 DEF SustainedOk, QuotaOk
<1>17. Verdict' = [deny_layer |-> layer, soft_crossed |-> FALSE]
  <2>1. NoReply.deny_layer = "none"
    BY DEF NoReply
  <2>2. reply'.deny_layer = layer /\ reply'.deny_layer # "none"
    BY <1>11, <1>12, <1>13
  <2>3. reply' # NoReply
    BY <2>1, <2>2
  <2> QED
    BY <1>11, <2>2, <2>3 DEF Verdict
<1>18. \A q \in Resources : Level(q)' = Level(q) /\ Ahead(q)' = Ahead(q)
  BY <1>11 DEF Level, Ahead
<1> QED
  BY <1>1, <1>9, <1>11, <1>13, <1>14, <1>15, <1>16, <1>17, <1>18 DEF Abstract!Refuse

\* A tick fills the buckets.
LEMMA RefineTick ==
  ASSUME RefineInv, RefineInv', Plan \in Plans, Tick
  PROVE  Abstract!Pass
<1>1. /\ TypeOK /\ SteadyInv /\ Steady /\ LevelInv /\ LevelInv'
      /\ real < MaxTime /\ now' = now + 1 /\ reply' = NoReply
      /\ UNCHANGED <<bucket, log, granted, spent>>
  BY DEF RefineInv, Tick, redis, history
<1>2. now < MaxTime /\ now \in Nat
  BY <1>1 DEF Steady, TypeOK
<1>3. ASSUME NEW r \in Resources
      PROVE  /\ Level(r)' = IF Ahead(r) = 1 THEN Level(r)
                            ELSE Abstract!Least(Cap(Plan), Level(r) + Plan.rate)
             /\ Ahead(r)' = 0
  <2>1. BucketOK(bucket[r], Plan) /\ bucket[r].ts <= now + 1
    BY <1>1 DEF SteadyInv
  <2>2. Ahead(r) = IF Live(bucket[r].exp, now) THEN AtLeast0(bucket[r].ts - now) ELSE 0
    BY DEF Ahead
  <2>3. PICK late : late = Ahead(r)
    OBVIOUS
  <2>4. /\ Worth(bucket[r], Plan, now + 1)
             = IF late = 1 THEN Worth(bucket[r], Plan, now)
               ELSE Smaller(Cap(Plan), Worth(bucket[r], Plan, now) + Plan.rate)
        /\ Live(bucket[r].exp, now + 1) => AtLeast0(bucket[r].ts - (now + 1)) = 0
    BY <1>2, <2>1, <2>2, <2>3, TickWorth
  <2>5. Level(r) = Worth(bucket[r], Plan, now)
    BY <1>1 DEF LevelInv
  <2>6. Level(r)' = Worth(bucket[r], Plan, now + 1)
    BY <1>1 DEF LevelInv
  <2>7. Ahead(r)' = 0
    BY <1>1, <2>4 DEF Ahead
  <2> QED
    BY <2>3, <2>4, <2>5, <2>6, <2>7 DEF Smaller, Abstract!Least
<1>4. Verdict' = [deny_layer |-> "none"]
  BY <1>1 DEF Verdict, NoReply
<1> QED
  BY <1>1, <1>2, <1>3, <1>4 DEF Abstract!Pass

\* Every behaviour of check.lua under one plan and a clock that never goes back is
\* one of the bucket, log and spending of Admission: no refill, expiry, trimming or
\* flag changes a decision.
THEOREM ScriptImplementsAdmission ==
  ASSUME SamePlan, Plans # {}, MaxSkew = 0
  PROVE  Spec => ImplementsAdmission
<1>1. Plan \in Plans
  BY DEF Plan
<1>2. ASSUME RefineInv, RefineInv', [Next]_vars
      PROVE  [Abstract!Next]_(Abstract!vars)
  <2>1. ASSUME NEW r \in Resources, NEW c \in Costs, NEW p \in Plans, Allow(r, c, p)
        PROVE  Abstract!Next
    BY <1>2, <2>1, RefineAllow DEF Abstract!Next
  <2>2. ASSUME NEW r \in Resources, NEW c \in Costs, NEW p \in Plans, Deny(r, c, p)
        PROVE  Abstract!Next
    BY <1>2, <2>2, RefineDeny DEF Abstract!Next
  <2>3. CASE Tick
    BY <1>1, <1>2, <2>3, RefineTick DEF Abstract!Next
  <2>4. CASE \E d \in 1 .. MaxSkew, purged \in BOOLEAN : Regress(d, purged)
    BY <2>4
  <2>5. CASE UNCHANGED vars
    <3>1. UNCHANGED <<now, bucket, log, granted, spent, reply>>
      BY <2>5 DEF vars, redis, history
    <3>2. \A q \in Resources : Level(q)' = Level(q) /\ Ahead(q)' = Ahead(q)
      BY <3>1 DEF Level, Ahead
    <3>3. Verdict' = Verdict
      BY <3>1 DEF Verdict
    <3> QED
      BY <3>1, <3>2, <3>3 DEF Abstract!vars
  <2> QED
    BY <1>2, <2>1, <2>2, <2>3, <2>4, <2>5 DEF Next, Check
<1>3. ASSUME TypeOK, SteadyInv, Steady
      PROVE  LevelInv
  BY <1>1, <1>3, LevelIsWorth
<1>4. Spec => []RefineInv
  <2>1. TypeOK /\ QuotaInv /\ SoftInv /\ FlagSetInv /\ SoftWarnedExactly /\ LogInv
          /\ WindowInv /\ SteadyInv /\ UniqueInv /\ Steady => RefineInv
    BY <1>3 DEF RefineInv
  <2> QED
    BY <2>1, TypeCorrect, MonthInvariant, WarningInvariant, LogInvariant,
       SamePlanSameWindow, WindowInvariant, SteadyInvariant, UniqueInvariant,
       AlwaysSteady, PTL
<1>5. Init => Abstract!Init
  BY RefineInit
<1> QED
  BY <1>2, <1>4, <1>5, PTL DEF Spec, ImplementsAdmission, Abstract!Spec
=============================================================================
