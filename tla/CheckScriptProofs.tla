------------------------- MODULE CheckScriptProofs -------------------------
(***************************************************************************)
(* Proofs about the admission script that hold for every set of plans,     *)
(* resources and costs, every TTL grace and every bound.                   *)
(***************************************************************************)
EXTENDS CheckScript, FiniteSetTheorems, TLAPS

USE CostsAssumption, PlansAssumption, UnitsAssumption, GraceAssumption,
    BoundsAssumption

-----------------------------------------------------------------------------
(* Arithmetic of the helpers                                               *)

\* Rounding up is a natural number, and at least one when there is something
\* to round.
LEMMA CeilDivNat ==
  ASSUME NEW a \in Nat, NEW b \in Nat \ {0}
  PROVE  CeilDiv(a, b) \in Nat
  BY DEF CeilDiv

\* A product grows with its factor.
LEMMA TimesMonotonic ==
  ASSUME NEW R \in Nat, NEW a \in Int, NEW b \in Int, a <= b
  PROVE  R * a <= R * b /\ R * a \in Int /\ R * b \in Int
  OBVIOUS

\* Rounding up covers what it rounds, and no whole unit more.
LEMMA CeilDivCovers ==
  ASSUME NEW a \in Nat, NEW b \in Nat \ {0}
  PROVE  a <= b * CeilDiv(a, b) /\ b * CeilDiv(a, b) < a + b
<1>1. a + b - 1 = b * ((a + b - 1) \div b) + ((a + b - 1) % b)
      /\ (a + b - 1) % b \in 0 .. b - 1
  OBVIOUS
<1> QED
  BY <1>1, CeilDivNat DEF CeilDiv

\* The month of the clock is in range, and ends after the clock.
LEMMA MonthFacts ==
  ASSUME TypeOK
  PROVE  Month \in Months /\ now < MonthEnd /\ MonthEnd \in Nat
<1>1. now \in Nat /\ MonthLen \in Nat \ {0} /\ now <= MaxTime
  BY DEF TypeOK
<1>2. Month \in Nat /\ now = MonthLen * Month + (now % MonthLen)
      /\ now % MonthLen \in 0 .. MonthLen - 1
  BY <1>1 DEF Month
<1> QED
  BY <1>1, <1>2 DEF Months, Month, MonthEnd

\* The limits of a plan in the units of the script.
LEMMA PlanFacts ==
  ASSUME NEW p \in Plans
  PROVE  /\ p.cap \in Nat \ {0} /\ p.rate \in Nat \ {0} /\ p.limit \in Nat \ {0}
         /\ p.hard \in Nat \ {0} /\ p.soft \in Nat
         /\ Cap(p) \in Nat /\ Win(p) \in Nat
         /\ BucketTTL(p) \in Nat /\ WindowTTL(p) \in Nat
<1>1. p \in PlanLimits
  OBVIOUS
<1>2. /\ p.cap \in Nat \ {0} /\ p.rate \in Nat \ {0} /\ p.limit \in Nat \ {0}
      /\ p.window \in Nat \ {0} /\ p.hard \in Nat \ {0} /\ p.soft \in Nat
  BY <1>1 DEF PlanLimits
<1>3. CeilDiv(p.cap, p.rate) \in Nat
  BY <1>2, CeilDivNat
<1> QED
  BY <1>2, <1>3 DEF Cap, Win, BucketTTL, WindowTTL

-----------------------------------------------------------------------------
(* The refill                                                              *)

\* A refill leaves whole tokens, and never more than the largest capacity.
LEMMA RefillFacts ==
  ASSUME TypeOK, NEW r \in Resources, NEW p \in Plans,
         NEW b \in Refill(bucket[r], p, now)
  PROVE  /\ b.t \in Nat /\ b.ts \in Nat
         /\ b.t = 0 \/ \E q \in Plans : b.t <= Cap(q)
<1> DEFINE old == bucket[r]
<1>1. old.t \in Nat /\ old.ts \in Nat /\ now \in Nat
      /\ (old.t = 0 \/ \E q \in Plans : old.t <= Cap(q))
  BY DEF TypeOK
<1>2. Cap(p) \in Nat /\ p.rate \in Nat \ {0}
  BY PlanFacts
<1>3. CASE b = FullBucket(p, now)
  BY <1>1, <1>2, <1>3 DEF FullBucket
<1>4. CASE b # FullBucket(p, now)
  <2>1. PICK x \in Roundings : b = Credit(old, p, now, x)
    BY <1>4 DEF Refill
  <2>2. x.short \in {0, 1} /\ x.long \in {0, 1}
    BY DEF Roundings
  <2> DEFINE e == Elapsed(old.ts, now)
  <2>3. e \in Nat
    BY <1>1 DEF Elapsed, AtLeast0
  <2> HIDE DEF e
  <2> DEFINE credited == e * p.rate
  <2>4. credited \in Nat
    BY <2>3, <1>2
  <2> HIDE DEF credited
  <2> DEFINE add == credited - x.short
  <2>5. b = IF add <= 0 THEN [t |-> old.t, ts |-> old.ts]
            ELSE IF old.t + add >= Cap(p) THEN FullBucket(p, now)
            ELSE [t |-> old.t + add, ts |-> old.ts + CeilDiv(add, p.rate) + x.long]
    BY <2>1 DEF Credit, credited, e
  <2>6. CASE add <= 0
    BY <2>5, <2>6, <1>1
  <2>7. CASE add > 0
    <3>1. add \in Nat
      BY <2>2, <2>4, <2>7
    <3>2. CeilDiv(add, p.rate) \in Nat
      BY <3>1, <1>2, CeilDivNat
    <3> HIDE DEF add
    <3>3. old.t + add < Cap(p)
          /\ b = [t |-> old.t + add, ts |-> old.ts + CeilDiv(add, p.rate) + x.long]
      BY <2>5, <2>7, <1>4, <3>1, <1>1, <1>2
    <3> QED
      BY <3>1, <3>2, <3>3, <1>1, <1>2, <2>2
  <2> QED
    BY <2>6, <2>7, <2>4, <2>2
<1> QED
  BY <1>3, <1>4

-----------------------------------------------------------------------------
(* Type correctness                                                        *)

\* The initial state is of the types.
LEMMA TypeInit == Init => TypeOK
  BY DEF Init, TypeOK, Expiry, NoKey, Entries

\* An admission leaves every variable of its type.
LEMMA TypeAllow ==
  ASSUME TypeOK, NEW r \in Resources, NEW c \in Costs, NEW p \in Plans,
         Allow(r, c, p)
  PROVE  TypeOK'
<1>1. PICK b \in Refill(bucket[r], p, now) :
        LET w == Trim(window[r], wexp[r], p, now)
            used == Used(quota[Month], now)
        IN  /\ Allowed(b, w, used, c, p)
            /\ bucket' = [bucket EXCEPT ![r] =
                 [t |-> b.t - c * UTOK, ts |-> b.ts, exp |-> now + BucketTTL(p)]]
            /\ window' = [window EXCEPT ![r] = w \cup {Entry(r, c, p)}]
            /\ wexp' = [wexp EXCEPT ![r] = now + WindowTTL(p)]
            /\ quota' = [quota EXCEPT ![Month] =
                 [n |-> used + c, exp |-> QuotaExpiry(used, c)]]
            /\ flag' = IF Crosses(used, c, p)
                       THEN [flag EXCEPT ![Month] = MonthTTL] ELSE flag
            /\ log' = [log EXCEPT ![r] = @ \cup {Entry(r, c, p)}]
            /\ granted' = [granted EXCEPT ![r] = @ + c]
            /\ spent' = [spent EXCEPT ![Month] = @ + c]
            /\ warned' = IF Crosses(used, c, p)
                         THEN [warned EXCEPT ![Month] = @ + 1] ELSE warned
            /\ UNCHANGED <<now, real>>
  BY DEF Allow
<1> DEFINE w == Trim(window[r], wexp[r], p, now)
           used == Used(quota[Month], now)
<1>2. /\ Cap(p) \in Nat /\ BucketTTL(p) \in Nat /\ WindowTTL(p) \in Nat
  BY PlanFacts
<1>3. c \in Nat \ {0} /\ c * UTOK \in Nat
  OBVIOUS
<1>4. Month \in Months /\ MonthTTL \in Nat
  BY MonthFacts DEF MonthTTL
<1>5. now \in Nat /\ real \in Nat /\ granted[r] \in Nat
  BY DEF TypeOK
<1>6. used \in Nat
  BY <1>4 DEF TypeOK, Used
<1>7. Entry(r, c, p) \in Entries
  BY <1>3, <1>5 DEF Entry, Entries
<1>8. w \subseteq window[r]
  BY DEF Trim
<1> HIDE DEF w, used
<1>9. b.t \in Nat /\ b.ts \in Nat /\ (b.t = 0 \/ \E q \in Plans : b.t <= Cap(q))
  BY RefillFacts
<1>10. b.t >= c * UTOK
  BY <1>1 DEF Allowed, BurstOk
<1>11. /\ bucket' \in [Resources -> [t : Nat, ts : Nat, exp : Expiry]]
       /\ \A x \in Resources :
            bucket'[x].t = 0 \/ \E q \in Plans : bucket'[x].t <= Cap(q)
  <2>1. b.t - c * UTOK \in Nat /\ now + BucketTTL(p) \in Expiry
    BY <1>2, <1>3, <1>5, <1>9, <1>10 DEF Expiry
  <2>2. b.t - c * UTOK = 0 \/ \E q \in Plans : b.t - c * UTOK <= Cap(q)
    <3>1. CASE b.t = 0
      BY <3>1, <2>1, <1>3
    <3>2. CASE \E q \in Plans : b.t <= Cap(q)
      <4>1. PICK q \in Plans : b.t <= Cap(q)
        BY <3>2
      <4>2. Cap(q) \in Nat
        BY PlanFacts
      <4> QED
        BY <4>1, <4>2, <1>3, <1>9
    <3> QED
      BY <3>1, <3>2, <1>9
  <2>3. bucket \in [Resources -> [t : Nat, ts : Nat, exp : Expiry]]
        /\ \A x \in Resources :
             bucket[x].t = 0 \/ \E q \in Plans : bucket[x].t <= Cap(q)
    BY DEF TypeOK
  <2>4. bucket' = [bucket EXCEPT ![r] =
          [t |-> b.t - c * UTOK, ts |-> b.ts, exp |-> now + BucketTTL(p)]]
    BY <1>1
  <2> HIDE DEF Cap, BucketTTL
  <2>5. \A x \in Resources \ {r} : bucket'[x] = bucket[x]
    BY <2>3, <2>4
  <2>6. bucket'[r] = [t |-> b.t - c * UTOK, ts |-> b.ts, exp |-> now + BucketTTL(p)]
    BY <2>3, <2>4
  <2>7. bucket' \in [Resources -> [t : Nat, ts : Nat, exp : Expiry]]
    BY <2>1, <2>3, <2>4, <1>9
  <2> QED
    BY <2>2, <2>3, <2>5, <2>6, <2>7
<1>12. /\ log' \in [Resources -> SUBSET Entries]
       /\ window' \in [Resources -> SUBSET Entries]
       /\ \A x \in Resources : window'[x] \subseteq log'[x]
  BY <1>1, <1>7, <1>8 DEF TypeOK, w
<1>13. /\ wexp' \in [Resources -> Expiry]
       /\ granted' \in [Resources -> Nat]
  BY <1>1, <1>2, <1>3, <1>5 DEF TypeOK, Expiry
<1>14. quota' \in [Months -> [n : Nat, exp : Expiry]]
  <2>1. QuotaExpiry(used, c) \in Expiry
    BY <1>4 DEF QuotaExpiry, TypeOK, Expiry
  <2> QED
    BY <1>1, <1>3, <1>4, <1>6, <2>1 DEF TypeOK, used
<1>15. /\ flag' \in [Months -> Expiry]
       /\ spent' \in [Months -> Nat]
       /\ warned' \in [Months -> Nat]
  BY <1>1, <1>3, <1>4 DEF TypeOK, Expiry
<1> QED
  BY <1>1, <1>11, <1>12, <1>13, <1>14, <1>15 DEF TypeOK, Months

\* The script and the clock keep the state well formed: no sequence of checks,
\* failovers and waits makes a stored token count negative or larger than a
\* bucket, or puts a request into the window that was not admitted.
THEOREM TypeCorrect == Spec => []TypeOK
<1>1. TypeOK /\ [Next]_vars => TypeOK'
  <2> SUFFICES ASSUME TypeOK, [Next]_vars PROVE TypeOK'
    OBVIOUS
  <2>1. ASSUME NEW r \in Resources, NEW c \in Costs, NEW p \in Plans, Allow(r, c, p)
        PROVE  TypeOK'
    BY <2>1, TypeAllow
  <2>2. ASSUME NEW r \in Resources, NEW c \in Costs, NEW p \in Plans, Deny(r, c, p)
        PROVE  TypeOK'
    <3>1. /\ window' = [window EXCEPT ![r] = Trim(window[r], wexp[r], p, now)]
          /\ UNCHANGED <<now, real, bucket, wexp, quota, flag, log, granted, spent, warned>>
      BY <2>2 DEF Deny, history
    <3>2. Trim(window[r], wexp[r], p, now) \subseteq window[r]
      BY DEF Trim
    <3> QED
      BY <3>1, <3>2 DEF TypeOK, Months
  <2>3. CASE Tick
    BY <2>3 DEF Tick, TypeOK, redis, history, Months
  <2>4. ASSUME NEW d \in 1 .. MaxSkew, NEW purged \in BOOLEAN, Regress(d, purged)
        PROVE  TypeOK'
    <3>1. now' \in Nat /\ now' <= real' /\ UNCHANGED <<window, quota, flag, real, history>>
      BY <2>4 DEF Regress, TypeOK
    <3>2. CASE ~purged
      BY <2>4, <3>1, <3>2 DEF Regress, TypeOK, history, Months
    <3>3. CASE purged
      <4>1. /\ bucket' = [x \in Resources |-> Purge(bucket[x])]
            /\ wexp' = [x \in Resources |->
                          IF Live(wexp[x], now) THEN wexp[x] ELSE NoKey]
        BY <2>4, <3>3 DEF Regress
      <4>2. \A x \in Resources : /\ Purge(bucket[x]) \in [t : Nat, ts : Nat, exp : Expiry]
                                 /\ Purge(bucket[x]).t = bucket[x].t
        BY DEF TypeOK, Purge, Expiry, NoKey
      <4>3. bucket' \in [Resources -> [t : Nat, ts : Nat, exp : Expiry]]
            /\ \A x \in Resources : bucket'[x].t = bucket[x].t
        BY <4>1, <4>2
      <4>4. wexp' \in [Resources -> Expiry]
        BY <4>1 DEF TypeOK, Expiry
      <4> QED
        BY <3>1, <4>3, <4>4 DEF TypeOK, history, Months
    <3> QED
      BY <3>2, <3>3
  <2>5. CASE UNCHANGED vars
    BY <2>5 DEF vars, redis, history, TypeOK, Months
  <2> QED
    BY <2>1, <2>2, <2>3, <2>4, <2>5 DEF Next, Check
<1> QED
  BY <1>1, TypeInit, PTL DEF Spec

-----------------------------------------------------------------------------
(* The month: quota and soft threshold                                     *)

\* The end of month m.
EndOf(m) == (m + 1) * MonthLen

\* What makes the quota safe: the counter is the month's spending, and its key
\* outlives the month.
QuotaInv ==
  \A m \in Months : /\ quota[m].n = spent[m]
                    /\ spent[m] > 0 => quota[m].exp >= EndOf(m)

\* What makes the warning unique: a month that was warned about has its flag
\* until the month is over.
SoftInv ==
  \A m \in Months : /\ warned[m] \in {0, 1}
                    /\ warned[m] = 1 => flag[m] >= EndOf(m)

\* In the current month the counter that the script reads is the spending.
LEMMA UsedIsSpent ==
  ASSUME TypeOK, QuotaInv
  PROVE  Used(quota[Month], now) = spent[Month]
<1>1. Month \in Months /\ now < EndOf(Month) /\ EndOf(Month) \in Nat
  BY MonthFacts DEF MonthEnd, EndOf
<1>2. /\ quota[Month].n = spent[Month] /\ spent[Month] \in Nat
      /\ spent[Month] > 0 => quota[Month].exp >= EndOf(Month)
      /\ quota[Month].exp \in Expiry /\ now \in Nat
  BY <1>1 DEF QuotaInv, TypeOK
<1>3. CASE spent[Month] > 0
  BY <1>1, <1>2, <1>3 DEF Used, Live, Expiry, NoKey
<1>4. CASE spent[Month] = 0
  BY <1>2, <1>4 DEF Used
<1> QED
  BY <1>2, <1>3, <1>4

\* An admission keeps counter, flag and warning of the month in step.
LEMMA MonthAllow ==
  ASSUME TypeOK, QuotaInv, SoftInv,
         NEW r \in Resources, NEW c \in Costs, NEW p \in Plans, Allow(r, c, p)
  PROVE  QuotaInv' /\ SoftInv' /\ QuotaHeld'
<1> DEFINE used == Used(quota[Month], now)
<1>1. /\ used + c <= p.hard
      /\ quota' = [quota EXCEPT ![Month] =
                     [n |-> used + c, exp |-> QuotaExpiry(used, c)]]
      /\ flag' = IF Crosses(used, c, p)
                 THEN [flag EXCEPT ![Month] = MonthTTL] ELSE flag
      /\ spent' = [spent EXCEPT ![Month] = @ + c]
      /\ warned' = IF Crosses(used, c, p)
                   THEN [warned EXCEPT ![Month] = @ + 1] ELSE warned
      /\ reply'.month = Month /\ reply'.plan = p
  <2>1. PICK b \in Refill(bucket[r], p, now) :
          /\ Allowed(b, Trim(window[r], wexp[r], p, now), used, c, p)
          /\ quota' = [quota EXCEPT ![Month] =
                         [n |-> used + c, exp |-> QuotaExpiry(used, c)]]
          /\ flag' = IF Crosses(used, c, p)
                     THEN [flag EXCEPT ![Month] = MonthTTL] ELSE flag
          /\ reply' = Report(r, c, p, "", [t |-> b.t - c * UTOK, ts |-> b.ts],
                             Trim(window[r], wexp[r], p, now) \cup {Entry(r, c, p)},
                             used + c, Crosses(used, c, p), 0)
          /\ spent' = [spent EXCEPT ![Month] = @ + c]
          /\ warned' = IF Crosses(used, c, p)
                       THEN [warned EXCEPT ![Month] = @ + 1] ELSE warned
    BY DEF Allow
  <2> HIDE DEF used
  <2>2. used + c <= p.hard
    BY <2>1 DEF Allowed, QuotaOk
  <2>3. reply'.month = Month /\ reply'.plan = p
    BY <2>1 DEF Report
  <2> QED
    BY <2>1, <2>2, <2>3
<1>2. used = spent[Month]
  BY UsedIsSpent
<1> HIDE DEF used
<1>3. /\ Month \in Months /\ now < EndOf(Month) /\ EndOf(Month) \in Nat
      /\ MonthTTL \in Nat /\ MonthTTL >= EndOf(Month)
  BY MonthFacts DEF MonthEnd, EndOf, MonthTTL
<1>4. c \in Nat \ {0}
  OBVIOUS
<1>5. QuotaInv'
  <2> SUFFICES ASSUME NEW m \in Months
               PROVE  /\ quota'[m].n = spent'[m]
                      /\ spent'[m] > 0 => quota'[m].exp >= EndOf(m)
    BY DEF QuotaInv, EndOf, Months
  <2>1. CASE m = Month
    <3>1. quota'[m] = [n |-> used + c, exp |-> QuotaExpiry(used, c)]
          /\ spent'[m] = spent[m] + c
      BY <1>1, <1>3, <2>1 DEF TypeOK
    <3>2. QuotaExpiry(used, c) >= EndOf(m)
      <4>1. spent[m] \in Nat
        BY DEF TypeOK
      <4> QED
        BY <1>2, <1>3, <2>1, <4>1 DEF QuotaExpiry, QuotaInv
    <3> QED
      BY <3>1, <3>2, <1>2, <2>1
  <2>2. CASE m # Month
    BY <1>1, <2>2 DEF QuotaInv, TypeOK
  <2> QED
    BY <2>1, <2>2
<1>6. SoftInv'
  <2> SUFFICES ASSUME NEW m \in Months
               PROVE  /\ warned'[m] \in {0, 1}
                      /\ warned'[m] = 1 => flag'[m] >= EndOf(m)
    BY DEF SoftInv, EndOf, Months
  <2>1. CASE m = Month /\ Crosses(used, c, p)
    <3>1. warned[m] = 0
      <4>1. ~(flag[m] >= now)
        BY <2>1 DEF Crosses, Live
      <4>2. flag[m] \in Int /\ now \in Nat
        BY DEF TypeOK, Expiry, NoKey
      <4> QED
        BY <4>1, <4>2, <1>3, <2>1 DEF SoftInv
    <3>2. warned'[m] = 1 /\ flag'[m] = MonthTTL
      BY <1>1, <2>1, <3>1 DEF TypeOK
    <3> QED
      BY <3>2, <1>3, <2>1
  <2>2. CASE ~(m = Month /\ Crosses(used, c, p))
    <3>1. warned'[m] = warned[m] /\ flag'[m] = flag[m]
      BY <1>1, <2>2 DEF TypeOK
    <3> QED
      BY <3>1 DEF SoftInv
  <2> QED
    BY <2>1, <2>2
<1>7. QuotaHeld'
  BY <1>1, <1>2, <1>3 DEF QuotaHeld, TypeOK
<1> QED
  BY <1>5, <1>6, <1>7

\* Only an admitted request touches the month, and every other step clears or
\* denies.
LEMMA MonthOther ==
  ASSUME TypeOK, QuotaInv, SoftInv, QuotaHeld, [Next]_vars,
         \A r \in Resources, c \in Costs, p \in Plans : ~Allow(r, c, p)
  PROVE  QuotaInv' /\ SoftInv' /\ QuotaHeld'
<1>1. UNCHANGED <<quota, flag, spent, warned>>
  BY DEF Next, Check, Deny, Tick, Regress, vars, redis, history
<1>2. ~Admitted(reply') \/ reply' = reply
  <2>1. ASSUME NEW r \in Resources, NEW c \in Costs, NEW p \in Plans, Deny(r, c, p)
        PROVE  ~Admitted(reply')
    BY <2>1 DEF Deny, Report, Admitted, DenyLayer
  <2>2. ASSUME reply' = NoReply PROVE ~Admitted(reply')
    BY <2>2 DEF NoReply, Admitted
  <2> QED
    BY <2>1, <2>2 DEF Next, Check, Tick, Regress, vars
<1> QED
  BY <1>1, <1>2 DEF QuotaInv, SoftInv, QuotaHeld, EndOf, Months

\* The invariants of the month hold in every behaviour.
LEMMA MonthInvariant == Spec => [](QuotaInv /\ SoftInv /\ QuotaHeld)
<1> DEFINE Inv == QuotaInv /\ SoftInv /\ QuotaHeld
<1>1. Init => Inv
  <2> SUFFICES ASSUME Init PROVE Inv
    OBVIOUS
  <2>1. QuotaInv /\ SoftInv
    BY DEF Init, QuotaInv, SoftInv
  <2>2. QuotaHeld
    BY DEF Init, QuotaHeld, NoReply, Admitted
  <2> QED
    BY <2>1, <2>2
<1>2. TypeOK /\ Inv /\ [Next]_vars => Inv'
  BY MonthAllow, MonthOther
<1> QED
  BY <1>1, <1>2, TypeCorrect, PTL DEF Spec

\* Whatever plans are in force and however they alternate, an admitted request
\* never takes the month's real spending above the quota of its plan, and the
\* soft threshold is reported at most once a month: the quota and flag keys
\* never expire in their month, so the script reads the truth.
THEOREM MonthSafe == Spec => [](QuotaHeld /\ SoftAtMostOnce)
<1>1. QuotaInv /\ SoftInv /\ QuotaHeld => QuotaHeld /\ SoftAtMostOnce
  BY DEF SoftInv, SoftAtMostOnce
<1> QED
  BY <1>1, MonthInvariant, PTL

\* Every counter and every flag that is written expires the grace after its month:
\* the script takes a write for the first of the month exactly when no write was
\* made, since what it reads is what was spent.
THEOREM ExpirySafe == Spec => []CountersExpire
<1>1. Init => CountersExpire
  BY DEF Init, CountersExpire, NoKey
<1>2. TypeOK /\ QuotaInv /\ CountersExpire /\ [Next]_vars => CountersExpire'
  <2> SUFFICES ASSUME TypeOK, QuotaInv, CountersExpire, [Next]_vars
               PROVE  CountersExpire'
    OBVIOUS
  <2>1. ASSUME NEW r \in Resources, NEW c \in Costs, NEW p \in Plans, Allow(r, c, p)
        PROVE  CountersExpire'
    <3> DEFINE used == Used(quota[Month], now)
    <3>1. /\ quota' = [quota EXCEPT ![Month] =
                          [n |-> used + c, exp |-> QuotaExpiry(used, c)]]
          /\ flag' \in {flag, [flag EXCEPT ![Month] = MonthTTL]}
      BY <2>1 DEF Allow
    <3>2. used = spent[Month]
      BY UsedIsSpent
    <3>3. Month \in Months /\ MonthTTL = (Month + 1) * MonthLen + MonthGrace
      BY MonthFacts DEF MonthTTL, MonthEnd
    <3> HIDE DEF used
    <3>4. QuotaExpiry(used, c) = MonthTTL
      <4>1. quota[Month].n = spent[Month] /\ spent[Month] \in Nat
        BY <3>3 DEF QuotaInv, TypeOK
      <4>2. quota[Month].n > 0 => quota[Month].exp = MonthTTL
        BY <3>3 DEF CountersExpire
      <4> QED
        BY <4>1, <4>2, <3>2 DEF QuotaExpiry
    <3> SUFFICES ASSUME NEW m \in Months
                 PROVE  /\ quota'[m].n > 0 =>
                             quota'[m].exp = (m + 1) * MonthLen + MonthGrace
                        /\ flag'[m] # NoKey =>
                             flag'[m] = (m + 1) * MonthLen + MonthGrace
      BY DEF CountersExpire, Months
    <3>5. CASE m = Month
      BY <3>1, <3>3, <3>4, <3>5 DEF CountersExpire, TypeOK
    <3>6. CASE m # Month
      BY <3>1, <3>6 DEF CountersExpire, TypeOK
    <3> QED
      BY <3>5, <3>6
  <2>2. ASSUME \A r \in Resources, c \in Costs, p \in Plans : ~Allow(r, c, p)
        PROVE  CountersExpire'
    <3>1. UNCHANGED <<quota, flag>>
      BY <2>2 DEF Next, Check, Deny, Tick, Regress, vars, redis, history
    <3> QED
      BY <3>1 DEF CountersExpire, Months
  <2> QED
    BY <2>1, <2>2
<1> QED
  BY <1>1, <1>2, TypeCorrect, MonthInvariant, PTL DEF Spec

-----------------------------------------------------------------------------
(* The log                                                                 *)

\* Every logged request is within the running total and in the past, and the
\* clock never makes it look older than it is.
LogInv ==
  \A r \in Resources : \A e \in log[r] :
    /\ e.request_id <= granted[r]
    /\ e.at <= real
    /\ now - e.score <= real - e.at

\* LogInv holds in every behaviour.
LEMMA LogInvariant == Spec => []LogInv
<1>1. Init => LogInv
  BY DEF Init, LogInv
<1>2. TypeOK /\ TypeOK' /\ LogInv /\ [Next]_vars => LogInv'
  <2> SUFFICES ASSUME TypeOK, TypeOK', LogInv, [Next]_vars,
                      NEW x \in Resources, NEW e \in log'[x]
               PROVE  /\ e.request_id <= granted'[x] /\ e.at <= real'
                      /\ now' - e.score <= real' - e.at
    BY DEF LogInv
  <2>1. /\ now \in Nat /\ real \in Nat /\ granted \in [Resources -> Nat]
        /\ log \in [Resources -> SUBSET Entries]
        /\ e.request_id \in Nat /\ e.at \in Nat /\ e.score \in Nat
        /\ now' \in Nat /\ real' \in Nat
    <3>1. e \in Entries
      BY DEF TypeOK
    <3> QED
      BY <3>1 DEF TypeOK, Entries
  <2>2. ASSUME NEW r \in Resources, NEW c \in Costs, NEW p \in Plans, Allow(r, c, p),
               x = r, e = Entry(r, c, p)
        PROVE  /\ e.request_id <= granted'[x] /\ e.at <= real'
               /\ now' - e.score <= real' - e.at
    <3>1. granted'[r] = granted[r] + c /\ UNCHANGED <<now, real>>
      BY <2>1, <2>2 DEF Allow
    <3>2. e.request_id = granted[r] + c /\ e.at = real /\ e.score = now
      BY <2>2 DEF Entry
    <3> QED
      BY <3>1, <3>2, <2>1, <2>2
  <2>3. ASSUME e \in log[x], granted[x] <= granted'[x], granted'[x] \in Nat,
               NEW d \in Nat, real' = real + d, now' <= now + d
        PROVE  /\ e.request_id <= granted'[x] /\ e.at <= real'
               /\ now' - e.score <= real' - e.at
    BY <2>1, <2>3 DEF LogInv
  <2>4. 0 \in Nat /\ 1 \in Nat /\ (now' = now => now' <= now + 0)
        /\ (real' = real => real' = real + 0)
    BY <2>1
  <2>5. ASSUME NEW r \in Resources, NEW c \in Costs, NEW p \in Plans, Allow(r, c, p),
               ~(x = r /\ e = Entry(r, c, p))
        PROVE  /\ e.request_id <= granted'[x] /\ e.at <= real'
               /\ now' - e.score <= real' - e.at
    <3>1. /\ log' = [log EXCEPT ![r] = @ \cup {Entry(r, c, p)}]
          /\ granted' = [granted EXCEPT ![r] = @ + c]
          /\ UNCHANGED <<now, real>>
      BY <2>5 DEF Allow
    <3>2. e \in log[x] /\ granted[x] <= granted'[x] /\ granted'[x] \in Nat
      BY <3>1, <2>1, <2>5
    <3> QED
      BY <3>1, <3>2, <2>3, <2>4
  <2>6. ASSUME UNCHANGED <<log, granted>>, NEW d \in Nat, real' = real + d, now' <= now + d
        PROVE  /\ e.request_id <= granted'[x] /\ e.at <= real'
               /\ now' - e.score <= real' - e.at
    BY <2>1, <2>3, <2>6
  <2>7. ASSUME NEW r \in Resources, NEW c \in Costs, NEW p \in Plans, Deny(r, c, p)
        PROVE  UNCHANGED <<log, granted, now, real>>
    BY <2>7 DEF Deny, history
  <2>8. CASE Tick
    <3>1. UNCHANGED <<log, granted>> /\ real' = real + 1 /\ now' <= now + 1
      BY <2>1, <2>8 DEF Tick, history
    <3> QED
      BY <3>1, <2>4, <2>6
  <2>9. ASSUME NEW d \in 1 .. MaxSkew, NEW purged \in BOOLEAN, Regress(d, purged)
        PROVE  UNCHANGED <<log, granted>> /\ real' = real + 0 /\ now' <= now + 0
    BY <2>1, <2>9 DEF Regress, history
  <2>10. CASE UNCHANGED vars
    BY <2>4, <2>6, <2>10 DEF vars, history
  <2> QED
    BY <2>2, <2>4, <2>5, <2>6, <2>7, <2>8, <2>9, <2>10 DEF Next, Check
<1> QED
  BY <1>1, <1>2, TypeCorrect, PTL DEF Spec

-----------------------------------------------------------------------------
(* The sliding window                                                      *)

\* What makes the window safe: it holds every request that is recent in real
\* time, and its key is not due before the last of them.
WindowInv ==
  \A r \in Resources :
    /\ IsFiniteSet(window[r])
    /\ \A e \in log[r], p \in Plans : e.at + Win(p) >= real =>
         /\ e \in window[r]
         /\ wexp[r] - now >= e.at + Win(p) - real

\* The part of WindowBound about one resource.
WindowBoundAt(r) ==
  \A e \in log[r] :
    Cardinality({f \in log[r] : /\ f.request_id <= e.request_id
                                /\ f.at >= e.at - Win(e.plan)}) <= e.plan.limit

\* Every request that is recent in real time survives the trim.
LEMMA TrimKeepsRecent ==
  ASSUME TypeOK, LogInv, WindowInv, NEW r \in Resources, NEW p \in Plans,
         NEW e \in log[r], e.at + Win(p) >= real
  PROVE  e \in Trim(window[r], wexp[r], p, now)
<1>1. /\ e \in window[r] /\ wexp[r] - now >= e.at + Win(p) - real
      /\ now - e.score <= real - e.at
  BY DEF WindowInv, LogInv
<1>2. /\ e.at \in Nat /\ e.score \in Nat /\ real \in Nat /\ now \in Nat
      /\ wexp[r] \in Int
  BY DEF TypeOK, Entries, Expiry, NoKey
<1>3. Win(p) \in Nat
  BY PlanFacts
<1> HIDE DEF Win
<1>4. wexp[r] >= now /\ e.score >= now - Win(p)
  BY <1>1, <1>2, <1>3
<1> QED
  BY <1>1, <1>4 DEF Trim, Live, InWindow

\* An admission keeps the window and its bound.
LEMMA WindowAllow ==
  ASSUME SameWindow, TypeOK, TypeOK', LogInv, WindowInv, \A x \in Resources : WindowBoundAt(x),
         NEW r \in Resources, NEW c \in Costs, NEW p \in Plans, Allow(r, c, p)
  PROVE  WindowInv' /\ \A x \in Resources : WindowBoundAt(x)'
<1> DEFINE w == Trim(window[r], wexp[r], p, now)
           new == Entry(r, c, p)
<1>1. /\ SustainedOk(w, p)
      /\ window' = [window EXCEPT ![r] = w \cup {new}]
      /\ wexp' = [wexp EXCEPT ![r] = now + WindowTTL(p)]
      /\ log' = [log EXCEPT ![r] = @ \cup {new}]
      /\ granted' = [granted EXCEPT ![r] = @ + c]
      /\ UNCHANGED <<now, real>>
  <2>1. PICK b \in Refill(bucket[r], p, now) :
          /\ Allowed(b, w, Used(quota[Month], now), c, p)
          /\ window' = [window EXCEPT ![r] = w \cup {new}]
          /\ wexp' = [wexp EXCEPT ![r] = now + WindowTTL(p)]
          /\ log' = [log EXCEPT ![r] = @ \cup {new}]
          /\ granted' = [granted EXCEPT ![r] = @ + c]
          /\ UNCHANGED <<now, real>>
    BY DEF Allow
  <2> QED
    BY <2>1 DEF Allowed
<1>2. /\ new.request_id = granted[r] + c /\ new.at = real /\ new.score = now
      /\ new.plan = p
  BY DEF Entry
<1>3. w \subseteq window[r] /\ IsFiniteSet(w) /\ IsFiniteSet(w \cup {new})
  <2>1. w \subseteq window[r]
    BY DEF Trim
  <2>2. IsFiniteSet(window[r])
    BY DEF WindowInv
  <2>3. IsFiniteSet(w)
    BY <2>1, <2>2, FS_Subset
  <2> QED
    BY <2>1, <2>3, FS_AddElement
<1>4. \A e \in log[r] : \A q \in Plans : e.at + Win(q) >= real => e \in w
  <2> SUFFICES ASSUME NEW e \in log[r], NEW q \in Plans, e.at + Win(q) >= real
               PROVE  e \in w
    OBVIOUS
  <2>1. Win(q) = Win(p)
    BY DEF SameWindow, Win
  <2> QED
    BY <2>1, TrimKeepsRecent
<1>5. /\ now \in Nat /\ real \in Nat /\ granted[r] \in Nat /\ c \in Nat \ {0}
      /\ log \in [Resources -> SUBSET Entries] /\ granted \in [Resources -> Nat]
      /\ window \in [Resources -> SUBSET Entries] /\ wexp \in [Resources -> Expiry]
  BY DEF TypeOK
<1> HIDE DEF w, new
<1>6. WindowInv'
  <2> SUFFICES ASSUME NEW x \in Resources
               PROVE  /\ IsFiniteSet(window'[x])
                      /\ \A e \in log'[x], q \in Plans : e.at + Win(q) >= real' =>
                           /\ e \in window'[x]
                           /\ wexp'[x] - now' >= e.at + Win(q) - real'
    BY DEF WindowInv
  <2>1. CASE x # r
    <3>1. /\ window'[x] = window[x] /\ log'[x] = log[x]
          /\ granted'[x] = granted[x] /\ wexp'[x] = wexp[x]
      BY <1>1, <1>5, <2>1
    <3> QED
      BY <3>1, <1>1 DEF WindowInv
  <2>2. CASE x = r
    <3>1. /\ window'[r] = w \cup {new} /\ log'[r] = log[r] \cup {new}
          /\ granted'[r] = granted[r] + c /\ wexp'[r] = now + WindowTTL(p)
      BY <1>1, <1>5
    <3>2. \A e \in log[r] : e.at <= real
      BY DEF LogInv
    <3>3. ASSUME NEW e \in log[r] \cup {new}, NEW q \in Plans,
                 e.at + Win(q) >= real
          PROVE  (now + WindowTTL(p)) - now >= e.at + Win(q) - real
      <4>1. Win(q) = Win(p) /\ Win(q) \in Nat /\ WindowTTL(p) >= Win(q)
        BY PlanFacts DEF SameWindow, Win, WindowTTL
      <4>2. e.at \in Nat /\ e.at <= real
        BY <3>2, <1>2, <1>5 DEF Entries
      <4>3. WindowTTL(p) \in Nat
        BY PlanFacts
      <4> HIDE DEF Win, WindowTTL
      <4> QED
        BY <4>1, <4>2, <4>3, <1>5
    <3>4. IsFiniteSet(window'[x])
      BY <2>2, <3>1, <1>3
    <3>6. ASSUME NEW e \in log[r] \cup {new}, NEW q \in Plans,
                 e.at + Win(q) >= real
          PROVE  e \in w \cup {new}
      BY <3>6, <1>4
    <3>7. /\ log'[x] = log[r] \cup {new} /\ granted'[x] = granted[r] + c
          /\ window'[x] = w \cup {new} /\ wexp'[x] = now + WindowTTL(p)
          /\ now' = now /\ real' = real
      BY <2>2, <3>1, <1>1
    <3> HIDE DEF Win, WindowTTL
    <3>8. ASSUME NEW e \in log'[x], NEW q \in Plans, e.at + Win(q) >= real'
          PROVE  /\ e \in window'[x]
                 /\ wexp'[x] - now' >= e.at + Win(q) - real'
      BY <3>3, <3>6, <3>7, <3>8
    <3> QED
      BY <3>4, <3>8
  <2> QED
    BY <2>1, <2>2
<1>7. \A x \in Resources : WindowBoundAt(x)'
  <2> SUFFICES ASSUME NEW x \in Resources, NEW e \in log'[x]
               PROVE  Cardinality({f \in log'[x] :
                                     /\ f.request_id <= e.request_id
                                     /\ f.at >= e.at - Win(e.plan)}) <= e.plan.limit
    BY DEF WindowBoundAt, Win
  <2>1. CASE x # r
    <3>1. log'[x] = log[x]
      BY <1>1, <1>5, <2>1
    <3> QED
      BY <3>1 DEF WindowBoundAt
  <2>2. CASE x = r /\ e # new
    <3>1. log'[r] = log[r] \cup {new} /\ e \in log[r]
      BY <1>1, <1>5, <2>2
    <3>2. ~(new.request_id <= e.request_id)
      <4>1. e.request_id \in Nat /\ e.request_id <= granted[r]
        BY <3>1, <1>5 DEF LogInv, Entries
      <4> QED
        BY <4>1, <1>2, <1>5
    <3>3. {f \in log'[r] : /\ f.request_id <= e.request_id
                           /\ f.at >= e.at - Win(e.plan)}
          = {f \in log[r] : /\ f.request_id <= e.request_id
                            /\ f.at >= e.at - Win(e.plan)}
      BY <3>1, <3>2
    <3> QED
      BY <3>1, <3>3, <2>2 DEF WindowBoundAt
  <2>3. CASE x = r /\ e = new
    <3> DEFINE S == {f \in log'[r] : /\ f.request_id <= e.request_id
                                     /\ f.at >= e.at - Win(e.plan)}
    <3>1. log'[r] = log[r] \cup {new}
      BY <1>1, <1>5
    <3>2. S \subseteq w \cup {new}
      <4> SUFFICES ASSUME NEW f \in log[r], f.at >= real - Win(p)
                   PROVE  f \in w
        BY <3>1, <2>3, <1>2
      <4>1. f.at \in Nat /\ Win(p) \in Nat
        BY <1>5, PlanFacts DEF Entries
      <4> HIDE DEF Win
      <4>2. f.at + Win(p) >= real
        BY <4>1, <1>5
      <4> QED
        BY <4>2, <1>4
    <3>3. Cardinality(S) <= Cardinality(w \cup {new})
      BY <3>2, <1>3, FS_Subset
    <3>4. Cardinality(w \cup {new}) <= Cardinality(w) + 1
      BY <1>3, FS_AddElement, FS_CardinalityType
    <3>5. Cardinality(w) + 1 <= p.limit
      BY <1>1 DEF SustainedOk
    <3>6. /\ Cardinality(w) \in Nat /\ Cardinality(w \cup {new}) \in Nat
          /\ p.limit \in Nat
      BY <1>3, FS_CardinalityType, PlanFacts
    <3>7. Cardinality(S) \in Nat
      BY <3>2, <1>3, FS_Subset, FS_CardinalityType
    <3> HIDE DEF S
    <3>8. Cardinality(S) <= p.limit
      BY <3>3, <3>4, <3>5, <3>6, <3>7
    <3> QED
      BY <3>8, <2>3, <1>2 DEF S
  <2> QED
    BY <2>1, <2>2, <2>3
<1> QED
  BY <1>6, <1>7

\* Denials only trim, and time and failovers never make a request look older.
LEMMA WindowOther ==
  ASSUME SameWindow, TypeOK, TypeOK', LogInv, WindowInv, \A x \in Resources : WindowBoundAt(x),
         [Next]_vars,
         \A r \in Resources, c \in Costs, p \in Plans : ~Allow(r, c, p)
  PROVE  WindowInv' /\ \A x \in Resources : WindowBoundAt(x)'
<1>1. log' = log /\ granted' = granted
  BY DEF Next, Check, Deny, Tick, Regress, vars, history
<1>2. \A x \in Resources : WindowBoundAt(x)'
  BY <1>1 DEF WindowBoundAt, Win
<1>3. ASSUME NEW r \in Resources, NEW c \in Costs, NEW p \in Plans, Deny(r, c, p)
      PROVE  WindowInv'
  <2>1. /\ window' = [window EXCEPT ![r] = Trim(window[r], wexp[r], p, now)]
        /\ UNCHANGED <<now, real, wexp>>
    BY <1>3 DEF Deny
  <2> SUFFICES ASSUME NEW x \in Resources
               PROVE  /\ IsFiniteSet(window'[x])
                      /\ \A e \in log[x], q \in Plans :
                           e.at + Win(q) >= real => e \in window'[x]
    BY <1>1, <2>1 DEF WindowInv, Win
  <2>2. CASE x # r
    BY <2>1, <2>2 DEF WindowInv, TypeOK
  <2>3. CASE x = r
    <3>1. window'[x] = Trim(window[x], wexp[x], p, now)
      BY <2>1, <2>3 DEF TypeOK
    <3>2. IsFiniteSet(window'[x])
      <4>1. Trim(window[x], wexp[x], p, now) \subseteq window[x]
        BY DEF Trim
      <4>2. IsFiniteSet(window[x])
        BY DEF WindowInv
      <4> QED
        BY <3>1, <4>1, <4>2, FS_Subset
    <3>3. ASSUME NEW e \in log[x], NEW q \in Plans, e.at + Win(q) >= real
          PROVE  e \in Trim(window[x], wexp[x], p, now)
      <4>1. Win(q) = Win(p)
        BY DEF SameWindow, Win
      <4> QED
        BY <3>3, <4>1, TrimKeepsRecent
    <3> QED
      BY <3>1, <3>2, <3>3
  <2> QED
    BY <2>2, <2>3
<1>4. ASSUME UNCHANGED window,
             \E d \in Nat : now' <= now + d /\ real' = real + d,
             \A r \in Resources : \/ wexp'[r] = wexp[r]
                                  \/ (wexp'[r] = NoKey /\ wexp[r] < now)
      PROVE  WindowInv'
  <2>1. PICK d \in Nat : now' <= now + d /\ real' = real + d
    BY <1>4
  <2> SUFFICES ASSUME NEW x \in Resources, NEW e \in log[x]
               PROVE  \A p \in Plans : e.at + Win(p) >= real' =>
                        /\ e \in window[x]
                        /\ wexp'[x] - now' >= e.at + Win(p) - real'
    BY <1>1, <1>4 DEF WindowInv, Win
  <2>2. /\ now \in Nat /\ real \in Nat /\ now' \in Nat /\ real' \in Nat
        /\ e.at \in Nat /\ e.score \in Nat /\ wexp[x] \in Int
    BY DEF TypeOK, Entries, Expiry, NoKey
  <2>4. ASSUME NEW p \in Plans, e.at + Win(p) >= real'
        PROVE  e \in window[x] /\ wexp'[x] - now' >= e.at + Win(p) - real'
    <3>1. Win(p) \in Nat
      BY PlanFacts
    <3> HIDE DEF Win
    <3>2. e.at + Win(p) >= real
      BY <2>1, <2>2, <2>4, <3>1
    <3>3. e \in window[x] /\ wexp[x] - now >= e.at + Win(p) - real
      BY <3>2 DEF WindowInv
    <3>4. wexp'[x] = wexp[x]
      BY <1>4, <3>2, <3>3, <2>2, <3>1
    <3> QED
      BY <2>1, <2>2, <3>1, <3>3, <3>4
  <2> QED
    BY <2>4
<1>5. ASSUME Tick PROVE WindowInv'
  <2>1. UNCHANGED <<window, wexp>> /\ now' = now + 1 /\ real' = real + 1
    BY <1>5 DEF Tick, redis
  <2>2. now' <= now + 1 /\ real' = real + 1 /\ 1 \in Nat
    BY <2>1 DEF TypeOK
  <2> QED
    BY <2>1, <2>2, <1>4
<1>6. ASSUME NEW d \in 1 .. MaxSkew, NEW purged \in BOOLEAN, Regress(d, purged)
      PROVE  WindowInv'
  <2>1. UNCHANGED <<window, real>> /\ now' = now - d
    BY <1>6 DEF Regress
  <2>2. now' <= now + 0 /\ real' = real + 0 /\ 0 \in Nat
    BY <2>1 DEF TypeOK
  <2>3. ASSUME NEW r \in Resources
        PROVE  wexp'[r] = wexp[r] \/ (wexp'[r] = NoKey /\ wexp[r] < now)
    <3>1. wexp[r] \in Int /\ now \in Nat
      BY DEF TypeOK, Expiry, NoKey
    <3> QED
      BY <1>6, <3>1 DEF Regress, Live
  <2> QED
    BY <2>1, <2>2, <2>3, <1>4
<1>7. ASSUME UNCHANGED vars PROVE WindowInv'
  <2>1. UNCHANGED <<window, wexp, now, real>>
    BY <1>7 DEF vars, redis
  <2>2. now' <= now + 0 /\ real' = real + 0 /\ 0 \in Nat
    BY <2>1 DEF TypeOK
  <2> QED
    BY <2>1, <2>2, <1>4
<1>8. WindowInv'
  BY <1>3, <1>5, <1>6, <1>7 DEF Next, Check
<1> QED
  BY <1>2, <1>8

\* Plans that agree on the window keep it.
LEMMA WindowInvariant ==
  ASSUME SameWindow
  PROVE  Spec => [](WindowInv /\ \A x \in Resources : WindowBoundAt(x))
<1> DEFINE Bounded == \A x \in Resources : WindowBoundAt(x)
<1>1. Init => WindowInv /\ Bounded
  <2> SUFFICES ASSUME Init PROVE WindowInv /\ Bounded
    OBVIOUS
  <2> QED
    BY FS_EmptySet DEF Init, WindowInv, WindowBoundAt
<1>2. TypeOK /\ TypeOK' /\ LogInv /\ WindowInv /\ Bounded /\ [Next]_vars
        => WindowInv' /\ Bounded'
  BY WindowAllow, WindowOther
<1> QED
  BY <1>1, <1>2, TypeCorrect, LogInvariant, PTL DEF Spec

\* The sliding window admits at most its limit in every window of real time,
\* for all plans that agree on its length, through trims, key expiry and clock
\* regressions.
THEOREM WindowSafe == Spec => []WindowBound
<1>1. CASE SameWindow
  <2>1. (\A x \in Resources : WindowBoundAt(x)) => WindowBound
    BY DEF WindowBound, WindowBoundAt
  <2> QED
    BY <1>1, <2>1, WindowInvariant, PTL
<1>2. CASE ~SameWindow
  <2>1. WindowBound
    BY <1>2 DEF WindowBound
  <2> QED
    BY <2>1, PTL
<1> QED
  BY <1>1, <1>2

-----------------------------------------------------------------------------
(* The bucket                                                              *)

\* Microtokens granted on r since the admitted request e, itself included.
Granted(r, e) == UTOK * (granted[r] - e.request_id + e.cost)

\* What makes the bucket safe, for a largest capacity C and a highest rate R.
\* What was granted since e and what is left were in the bucket at e or were
\* credited since, up to the refill time ts and up to now; and by the time the
\* bucket expires, a full one is no more than the rate would have brought.
BurstInvAt(C, R, r) ==
  \A e \in log[r] :
    /\ Granted(r, e) + bucket[r].t <= C + R * (real - now + bucket[r].ts - e.at + 1)
    /\ Granted(r, e) + bucket[r].t <= C + R * (real - e.at + 1)
    /\ Granted(r, e) <= R * (real - e.at + 1 + AtLeast0(bucket[r].exp - now + 1))

\* What a refill adds is covered by the time it is charged, and by the time
\* that passed since the refill before: G is the cost granted since a request,
\* k the time since then.
LEMMA CreditCovered ==
  ASSUME NEW C \in Nat, NEW R \in Nat, NEW rate \in Nat, rate <= R,
         NEW G \in Int, NEW k \in Int, NEW t \in Nat, NEW lag \in Nat,
         NEW add \in Nat, NEW n \in Nat, NEW long \in Nat,
         G + t <= C + R * (k - lag),
         add <= rate * n, add <= rate * lag
  PROVE  /\ G + (t + add) <= C + R * (k - lag + n + long)
         /\ G + (t + add) <= C + R * k
<1>1. add <= R * n /\ add <= R * lag
  <2>1. rate * n <= R * n /\ rate * lag <= R * lag
    BY TimesMonotonic
  <2> QED
    BY <2>1
<1>2. R * (k - lag + n) <= R * (k - lag + n + long)
  BY TimesMonotonic
<1>3. R * (k - lag + n) = R * (k - lag) + R * n
  OBVIOUS
<1>4. R * k = R * (k - lag) + R * lag
  OBVIOUS
<1>5. /\ R * n \in Int /\ R * lag \in Int /\ R * (k - lag) \in Int /\ R * k \in Int
      /\ R * (k - lag + n + long) \in Int /\ R * (k - lag + n) \in Int
  OBVIOUS
<1> HIDE DEF CeilDiv
<1>6. G + (t + add) <= C + R * (k - lag + n + long)
  BY <1>1, <1>2, <1>3, <1>5
<1>7. G + (t + add) <= C + R * k
  BY <1>1, <1>4, <1>5
<1> QED
  BY <1>6, <1>7

\* The three ways a refill can go: the bucket is full; nothing is added; or add
\* microtokens are, charged as n ticks and perhaps one more.
LEMMA RefillCases ==
  ASSUME TypeOK, NEW r \in Resources, NEW p \in Plans,
         NEW b \in Refill(bucket[r], p, now)
  PROVE  LET old == bucket[r]
             lag == AtLeast0(now - old.ts)
         IN  \/ /\ b = FullBucket(p, now)
                /\ ~Live(old.exp, now) \/ Cap(p) <= old.t + p.rate * lag
             \/ b.t = old.t /\ b.ts = old.ts /\ lag <= 1
             \/ \E add, n \in Nat : \E long \in {0, 1} :
                  /\ b.t = old.t + add /\ b.ts = old.ts + n + long
                  /\ add <= p.rate * n /\ add <= p.rate * lag
                  /\ n <= lag /\ lag <= n + 1
                  /\ lag = now - old.ts
<1> DEFINE old == bucket[r]
           lag == AtLeast0(now - old.ts)
<1>1. old.t \in Nat /\ old.ts \in Nat /\ now \in Nat /\ lag \in Nat
      /\ Cap(p) \in Nat /\ p.rate \in Nat \ {0}
  BY PlanFacts DEF TypeOK, AtLeast0
<1>2. CASE ~Live(old.exp, now) \/ lag * p.rate >= Cap(p)
  <2>1. b = FullBucket(p, now)
    BY <1>2 DEF Refill, Elapsed
  <2>2. lag * p.rate = p.rate * lag /\ p.rate * lag \in Nat
    BY <1>1
  <2> HIDE DEF lag
  <2>3. ~Live(old.exp, now) \/ Cap(p) <= old.t + p.rate * lag
    BY <1>1, <1>2, <2>2
  <2> QED
    BY <2>1, <2>3 DEF lag
<1>3. CASE ~(~Live(old.exp, now) \/ lag * p.rate >= Cap(p))
  <2>1. PICK x \in Roundings : b = Credit(old, p, now, x)
    BY <1>3 DEF Refill, Elapsed
  <2>2. x.short \in {0, 1} /\ x.long \in {0, 1}
    BY DEF Roundings
  <2> DEFINE add == lag * p.rate - x.short
             n == CeilDiv(add, p.rate)
  <2>3. b = IF add <= 0 THEN [t |-> old.t, ts |-> old.ts]
            ELSE IF old.t + add >= Cap(p) THEN FullBucket(p, now)
            ELSE [t |-> old.t + add, ts |-> old.ts + n + x.long]
    BY <2>1 DEF Credit, Elapsed
  <2>4. lag * p.rate = p.rate * lag /\ p.rate * lag \in Nat /\ p.rate * lag >= lag
    BY <1>1
  <2>5. CASE add <= 0
    <3>1. lag <= 1
      BY <2>2, <2>4, <2>5, <1>1
    <3>2. b.t = old.t /\ b.ts = old.ts
      BY <2>3, <2>5
    <3> QED
      BY <3>1, <3>2
  <2>6. CASE add > 0
    <3>1. add \in Nat /\ add <= p.rate * lag /\ p.rate * lag <= add + 1
      BY <2>2, <2>4, <2>6
    <3>2. n \in Nat /\ add <= p.rate * n /\ p.rate * n < add + p.rate
      BY <3>1, <1>1, CeilDivNat, CeilDivCovers
    <3>3. n <= lag /\ lag <= n + 1
      <4> HIDE DEF n, add, lag
      <4>1. p.rate * n < p.rate * lag + p.rate /\ p.rate * lag <= p.rate * n + 1
        BY <3>1, <3>2, <2>4, <1>1
      <4>2. p.rate * n < p.rate * (lag + 1) /\ p.rate * (lag - n) <= 1
        BY <4>1, <3>2, <1>1
      <4>3. ~(n >= lag + 1) /\ ~(lag - n >= 2)
        <5>1. ASSUME n >= lag + 1 PROVE p.rate * (lag + 1) <= p.rate * n
          BY <5>1, <3>2, <1>1, TimesMonotonic
        <5>2. ASSUME lag - n >= 2 PROVE p.rate * 2 <= p.rate * (lag - n)
          BY <5>2, <3>2, <1>1, TimesMonotonic
        <5> QED
          BY <5>1, <5>2, <4>2, <3>2, <1>1
      <4> QED
        BY <4>3, <3>2, <1>1
    <3>4. lag = now - old.ts
      BY <2>2, <2>6, <1>1 DEF AtLeast0
    <3> HIDE DEF n, add, lag
    <3>5. CASE old.t + add >= Cap(p)
      <4>1. b = FullBucket(p, now)
        BY <2>3, <2>6, <3>1, <3>5
      <4>2. Cap(p) <= old.t + p.rate * lag
        BY <3>1, <3>5, <2>4, <1>1
      <4> QED
        BY <4>1, <4>2 DEF lag
    <3>6. CASE ~(old.t + add >= Cap(p))
      <4>1. b.t = old.t + add /\ b.ts = old.ts + n + x.long
        BY <2>3, <2>6, <3>1, <3>6
      <4> QED
        BY <4>1, <3>1, <3>2, <3>3, <3>4, <2>2 DEF lag
    <3> QED
      BY <3>5, <3>6
  <2> QED
    BY <2>5, <2>6, <2>2, <2>4
<1> QED
  BY <1>2, <1>3

\* The refilled bucket satisfies the bounds as the stored one does, whichever
\* plan refills it.
LEMMA RefillBurst ==
  ASSUME TypeOK, LogInv, NEW C \in Nat, NEW R \in Nat, Highest(C, R),
         NEW r \in Resources, BurstInvAt(C, R, r),
         NEW p \in Plans, NEW b \in Refill(bucket[r], p, now)
  PROVE  /\ b.t \in Nat /\ b.ts \in Nat /\ b.t <= C /\ now <= b.ts + 1
         /\ \A e \in log[r] :
              /\ Granted(r, e) + b.t <= C + R * (real - now + b.ts - e.at + 1)
              /\ Granted(r, e) + b.t <= C + R * (real - e.at + 1)
<1> DEFINE old == bucket[r]
           lag == AtLeast0(now - old.ts)
<1>1. /\ old.t \in Nat /\ old.ts \in Nat /\ old.exp \in Int /\ now \in Nat /\ real \in Nat
      /\ lag \in Nat /\ now - old.ts <= lag /\ (lag = 0 \/ lag = now - old.ts)
  BY DEF TypeOK, AtLeast0, Expiry, NoKey
<1>2. /\ Cap(p) \in Nat /\ Cap(p) <= C /\ p.rate \in Nat /\ p.rate <= R
  BY PlanFacts DEF Highest
<1>3. \A q \in Plans : Cap(q) \in Nat /\ Cap(q) <= C
  BY PlanFacts DEF Highest
<1>4. b.t \in Nat /\ b.ts \in Nat /\ (b.t = 0 \/ \E q \in Plans : b.t <= Cap(q))
  BY RefillFacts
<1>5. b.t <= C
  BY <1>3, <1>4
<1>6. ASSUME NEW e \in log[r]
      PROVE  /\ Granted(r, e) \in Int
             /\ e.at \in Nat /\ real - e.at + 1 \in Nat
             /\ Granted(r, e) + old.t <= C + R * (real - now + old.ts - e.at + 1)
             /\ Granted(r, e) + old.t <= C + R * (real - e.at + 1)
             /\ ~Live(old.exp, now) => Granted(r, e) <= R * (real - e.at + 1)
  <2>1. /\ granted[r] \in Nat /\ e.request_id \in Nat /\ e.cost \in Nat /\ e.at \in Nat
        /\ e.at <= real /\ UTOK \in Nat
    <3>1. e \in Entries /\ e.at <= real /\ granted[r] \in Nat
      BY DEF TypeOK, LogInv
    <3> QED
      BY <3>1 DEF Entries
  <2>2. ~Live(old.exp, now) => AtLeast0(old.exp - now + 1) = 0
    BY <1>1 DEF Live, AtLeast0
  <2>3. real - e.at + 1 + 0 = real - e.at + 1
    BY <2>1, <1>1
  <2> QED
    BY <2>1, <2>2, <2>3, <1>1 DEF BurstInvAt, Granted
<1> HIDE DEF lag, old
<1>7. CASE b = FullBucket(p, now) /\ (~Live(old.exp, now) \/ Cap(p) <= old.t + p.rate * lag)
  <2>1. b.t = Cap(p) /\ b.ts = now
    BY <1>7 DEF FullBucket
  <2> SUFFICES ASSUME NEW e \in log[r]
               PROVE  Granted(r, e) + Cap(p) <= C + R * (real - e.at + 1)
    <3>1. ASSUME NEW e \in log[r]
          PROVE  real - now + now - e.at + 1 = real - e.at + 1
      BY <1>1, <1>6
    <3> QED
      BY <2>1, <3>1, <1>1, <1>4, <1>5
  <2>2. CASE ~Live(old.exp, now)
    <3>1. R * (real - e.at + 1) \in Int
      BY <1>6
    <3> QED
      BY <2>2, <3>1, <1>2, <1>6
  <2>3. CASE Live(old.exp, now)
    <3> DEFINE G == Granted(r, e)
               k == real - e.at + 1
    <3>1. G \in Int /\ k \in Nat /\ G + old.t <= C + R * k
      BY <1>6
    <3>2. CASE lag = 0
      <4>1. p.rate * lag = 0 /\ R * k \in Int
        BY <3>1, <3>2, <1>2
      <4> QED
        BY <4>1, <3>1, <2>3, <1>7, <1>1, <1>2
    <3>3. CASE lag = now - old.ts
      <4>1. real - now + old.ts - e.at + 1 = k - lag
        BY <3>3, <1>1, <1>6
      <4>2. G + old.t <= C + R * (k - lag)
        BY <4>1, <1>6
      <4> DEFINE add == p.rate * lag
      <4>3. add \in Nat
        BY <1>1, <1>2
      <4> HIDE DEF G, k
      <4>4. G + (old.t + add) <= C + R * k
        BY <4>2, <4>3, <3>1, <1>1, <1>2, CreditCovered
      <4>5. Cap(p) <= old.t + add /\ R * k \in Int
        BY <2>3, <1>7, <3>1
      <4> HIDE DEF add
      <4>6. G + Cap(p) <= C + R * k
        BY <4>3, <4>4, <4>5, <3>1, <1>1, <1>2
      <4> QED
        BY <4>6 DEF G, k
    <3> QED
      BY <3>2, <3>3, <1>1
  <2> QED
    BY <2>2, <2>3
<1>8. CASE b.t = old.t /\ b.ts = old.ts /\ lag <= 1
  <2>1. now <= b.ts + 1
    BY <1>1, <1>8
  <2> QED
    BY <2>1, <1>4, <1>5, <1>6, <1>8
<1>9. CASE \E add, n \in Nat : \E long \in {0, 1} :
             /\ b.t = old.t + add /\ b.ts = old.ts + n + long
             /\ add <= p.rate * n /\ add <= p.rate * lag
             /\ n <= lag /\ lag <= n + 1
             /\ lag = now - old.ts
  <2>1. PICK add \in Nat, n \in Nat, long \in {0, 1} :
             /\ b.t = old.t + add /\ b.ts = old.ts + n + long
             /\ add <= p.rate * n /\ add <= p.rate * lag
             /\ n <= lag /\ lag <= n + 1
             /\ lag = now - old.ts
    BY <1>9
  <2>2. now <= b.ts + 1
    BY <2>1, <1>1
  <2>3. ASSUME NEW e \in log[r]
        PROVE  /\ Granted(r, e) + b.t <= C + R * (real - now + b.ts - e.at + 1)
               /\ Granted(r, e) + b.t <= C + R * (real - e.at + 1)
    <3> DEFINE G == Granted(r, e)
               k == real - e.at + 1
    <3>1. /\ k \in Int /\ G \in Int /\ long \in Nat
          /\ real - now + old.ts - e.at + 1 = k - lag
          /\ real - now + b.ts - e.at + 1 = k - lag + n + long
      BY <2>1, <1>1, <1>6
    <3>2. G + old.t <= C + R * (k - lag)
      BY <3>1, <1>6
    <3> HIDE DEF G, k
    <3>3. /\ G + (old.t + add) <= C + R * (k - lag + n + long)
          /\ G + (old.t + add) <= C + R * k
      BY <3>1, <3>2, <2>1, <1>1, <1>2, CreditCovered
    <3> QED
      BY <3>1, <3>3, <2>1 DEF k, G
  <2> QED
    BY <2>2, <2>3, <1>4, <1>5
<1> QED
  BY <1>7, <1>8, <1>9, RefillCases DEF lag, old

\* An admitted request takes from the refilled bucket what is added to the
\* total, starts with less than a full bucket before it, and renews the expiry.
LEMMA BurstAllow ==
  ASSUME TypeOK, TypeOK', LogInv,
         NEW C \in Nat, NEW R \in Nat, Highest(C, R), GraceCovers(C, R),
         \A x \in Resources : BurstInvAt(C, R, x),
         NEW r \in Resources, NEW c \in Costs, NEW p \in Plans, Allow(r, c, p)
  PROVE  \A x \in Resources : BurstInvAt(C, R, x)'
<1>1. PICK b \in Refill(bucket[r], p, now) :
        /\ BurstOk(b, c)
        /\ bucket' = [bucket EXCEPT ![r] =
             [t |-> b.t - c * UTOK, ts |-> b.ts, exp |-> now + BucketTTL(p)]]
        /\ log' = [log EXCEPT ![r] = @ \cup {Entry(r, c, p)}]
        /\ granted' = [granted EXCEPT ![r] = @ + c]
        /\ UNCHANGED <<now, real>>
  BY DEF Allow, Allowed
<1>2. /\ now \in Nat /\ real \in Nat /\ granted[r] \in Nat /\ c \in Nat /\ UTOK \in Nat
      /\ BucketTTL(p) \in Nat
      /\ bucket \in [Resources -> [t : Nat, ts : Nat, exp : Expiry]]
      /\ log \in [Resources -> SUBSET Entries] /\ granted \in [Resources -> Nat]
  BY PlanFacts DEF TypeOK
<1>3. /\ b.t \in Nat /\ b.ts \in Nat /\ b.t <= C /\ now <= b.ts + 1
      /\ \A e \in log[r] :
           /\ Granted(r, e) + b.t <= C + R * (real - now + b.ts - e.at + 1)
           /\ Granted(r, e) + b.t <= C + R * (real - e.at + 1)
  BY RefillBurst
<1> DEFINE new == Entry(r, c, p)
           cost == c * UTOK
<1>4. cost \in Nat /\ cost <= b.t
  BY <1>1, <1>2 DEF BurstOk
<1> HIDE DEF cost
<1>5. /\ new.request_id = granted[r] + c /\ new.at = real /\ new.cost = c
  BY DEF Entry
<1>6. ASSUME NEW x \in Resources \ {r} PROVE BurstInvAt(C, R, x)'
  <2>1. /\ bucket'[x] = bucket[x] /\ log'[x] = log[x] /\ granted'[x] = granted[x]
        /\ now' = now /\ real' = real
    BY <1>1, <1>2
  <2> QED
    BY <2>1 DEF BurstInvAt, Granted
<1>7. /\ bucket'[r] = [t |-> b.t - cost, ts |-> b.ts, exp |-> now + BucketTTL(p)]
      /\ log'[r] = log[r] \cup {new} /\ granted'[r] = granted[r] + c
      /\ now' = now /\ real' = real
  BY <1>1, <1>2 DEF cost
<1>8. ASSUME NEW e \in log'[r]
      PROVE  LET G == Granted(r, e)'
             IN  /\ G \in Int /\ e.at \in Nat /\ e.at <= real
                 /\ G + (b.t - cost) <= C + R * (real - now + b.ts - e.at + 1)
                 /\ G + (b.t - cost) <= C + R * (real - e.at + 1)
  <2> DEFINE G == Granted(r, e)'
  <2>1. CASE e = new
    <3>1. G = cost
      <4>1. Granted(r, e)' = UTOK * (granted'[r] - e.request_id + e.cost)
        BY DEF Granted
      <4>2. granted'[r] - e.request_id + e.cost = c
        BY <2>1, <1>2, <1>5, <1>7
      <4> QED
        BY <4>1, <4>2, <1>2 DEF cost
    <3>2. /\ real - now + b.ts - e.at + 1 \in Nat /\ real - e.at + 1 \in Nat
      BY <2>1, <1>2, <1>3, <1>5
    <3>3. /\ R * (real - now + b.ts - e.at + 1) \in Nat /\ R * (real - e.at + 1) \in Nat
      BY <3>2
    <3> QED
      BY <3>1, <3>3, <2>1, <1>2, <1>3, <1>4, <1>5
  <2>2. CASE e # new
    <3>1. e \in log[r] /\ e \in Entries
      BY <2>2, <1>2, <1>7
    <3>2. /\ e.at \in Nat /\ e.request_id \in Nat /\ e.cost \in Nat /\ e.at <= real
      BY <3>1 DEF Entries, LogInv
    <3>3. G = Granted(r, e) + cost /\ Granted(r, e) \in Int
      <4>1. G = UTOK * (granted'[r] - e.request_id + e.cost)
        BY DEF Granted
      <4>2. granted'[r] - e.request_id + e.cost = (granted[r] - e.request_id + e.cost) + c
        BY <3>2, <1>2, <1>7
      <4> QED
        BY <4>1, <4>2, <3>2, <1>2 DEF Granted, cost
    <3>4. G + (b.t - cost) = Granted(r, e) + b.t
      BY <3>3, <1>3, <1>4
    <3> HIDE DEF G
    <3> QED
      BY <3>1, <3>2, <3>3, <3>4, <1>3, <1>4 DEF G
  <2> QED
    BY <2>1, <2>2
<1>9. BurstInvAt(C, R, r)'
  <2> SUFFICES ASSUME NEW e \in log'[r]
               PROVE  /\ Granted(r, e)' + (b.t - cost)
                           <= C + R * (real - now + b.ts - e.at + 1)
                      /\ Granted(r, e)' + (b.t - cost) <= C + R * (real - e.at + 1)
                      /\ Granted(r, e)' <= R * (real - e.at + 1
                           + AtLeast0((now + BucketTTL(p)) - now + 1))
    BY <1>7 DEF BurstInvAt
  <2> DEFINE G == Granted(r, e)'
             k == real - e.at + 1
             ttl == BucketTTL(p) + 1
  <2>1. /\ G \in Int /\ k \in Nat /\ G + (b.t - cost) <= C + R * k
        /\ G + (b.t - cost) <= C + R * (real - now + b.ts - e.at + 1)
    BY <1>8, <1>2
  <2>2. ttl \in Nat /\ AtLeast0((now + BucketTTL(p)) - now + 1) = ttl
    BY <1>2 DEF AtLeast0
  <2>3. C <= R * ttl
    BY DEF GraceCovers
  <2> HIDE DEF G, k, ttl
  <2>4. R * (k + ttl) = R * k + R * ttl /\ R * k \in Int /\ R * ttl \in Int
    BY <2>1, <2>2
  <2>5. G <= R * (k + ttl)
    BY <2>1, <2>3, <2>4, <1>3, <1>4
  <2> QED
    BY <2>1, <2>2, <2>5 DEF G, k
<1> QED
  BY <1>6, <1>9

\* Time that passes, and a clock that goes back, only loosen the bounds; a key
\* is deleted only once it has expired.
LEMMA BurstElapse ==
  ASSUME TypeOK, TypeOK', LogInv, NEW C \in Nat, NEW R \in Nat, NEW r \in Resources,
         BurstInvAt(C, R, r), UNCHANGED <<log, granted>>,
         NEW d \in Nat, real' = real + d, now' <= now + d,
         bucket'[r].t = bucket[r].t, bucket'[r].ts = bucket[r].ts,
         \/ bucket'[r].exp = bucket[r].exp
         \/ bucket'[r].exp = NoKey /\ bucket[r].exp < now
  PROVE  BurstInvAt(C, R, r)'
<1> SUFFICES ASSUME NEW e \in log[r]
             PROVE  /\ Granted(r, e) + bucket[r].t
                         <= C + R * (real' - now' + bucket[r].ts - e.at + 1)
                    /\ Granted(r, e) + bucket[r].t <= C + R * (real' - e.at + 1)
                    /\ Granted(r, e)
                         <= R * (real' - e.at + 1 + AtLeast0(bucket'[r].exp - now' + 1))
  BY DEF BurstInvAt, Granted
<1> DEFINE G == Granted(r, e)
           t == bucket[r].t
           a == real - now + bucket[r].ts - e.at + 1
           a2 == real' - now' + bucket[r].ts - e.at + 1
           b == real - e.at + 1
           b2 == real' - e.at + 1
           x == b + AtLeast0(bucket[r].exp - now + 1)
           x2 == b2 + AtLeast0(bucket'[r].exp - now' + 1)
<1>1. /\ e \in Entries /\ granted[r] \in Nat /\ now \in Nat /\ now' \in Nat /\ real \in Nat
      /\ t \in Nat /\ bucket[r].ts \in Nat /\ bucket[r].exp \in Int /\ bucket'[r].exp \in Int
  BY DEF TypeOK, Expiry, NoKey
<1>2. e.at \in Nat /\ e.request_id \in Nat /\ e.cost \in Nat /\ UTOK \in Nat
  BY <1>1 DEF Entries
<1>3. G \in Int
  BY <1>1, <1>2 DEF Granted
<1>4. a \in Int /\ a2 \in Int /\ a <= a2 /\ b \in Int /\ b2 \in Int /\ b <= b2
  BY <1>1, <1>2
<1>5. x \in Int /\ x2 \in Int /\ x <= x2
  BY <1>1, <1>2 DEF AtLeast0, NoKey
<1>6. G + t <= C + R * a /\ G + t <= C + R * b /\ G <= R * x
  BY DEF BurstInvAt
<1> HIDE DEF G, t, a, a2, b, b2, x, x2
<1>7. /\ R * a <= R * a2 /\ R * b <= R * b2 /\ R * x <= R * x2
      /\ R * a \in Int /\ R * a2 \in Int /\ R * b \in Int /\ R * b2 \in Int
      /\ R * x \in Int /\ R * x2 \in Int
  BY <1>4, <1>5, TimesMonotonic
<1>8. G + t <= C + R * a2 /\ G + t <= C + R * b2 /\ G <= R * x2
  BY <1>1, <1>3, <1>6, <1>7
<1> QED
  BY <1>8 DEF G, t, a2, b2, x2

\* The sharp bound between any two admitted requests of one resource.
BurstBoundAt(C, R, r) ==
  \A e, f \in log[r] : e.request_id <= f.request_id =>
    UTOK * (f.request_id - e.request_id + e.cost) <= C + R * (f.at - e.at + 1)

\* The pairs that an admitted request completes are bounded by what was in the
\* bucket: it ends the pair, since its running total is the highest.
LEMMA BurstPairs ==
  ASSUME TypeOK, TypeOK', LogInv, NEW C \in Nat, NEW R \in Nat,
         NEW r \in Resources, NEW c \in Costs, NEW p \in Plans, Allow(r, c, p),
         NEW x \in Resources, BurstInvAt(C, R, x)', BurstBoundAt(C, R, x)
  PROVE  BurstBoundAt(C, R, x)'
<1> DEFINE new == Entry(r, c, p)
<1>1. /\ log' = [log EXCEPT ![r] = @ \cup {new}]
      /\ granted' = [granted EXCEPT ![r] = @ + c]
      /\ real' = real
  BY DEF Allow
<1>2. /\ new.request_id = granted[r] + c /\ new.at = real
      /\ log \in [Resources -> SUBSET Entries] /\ granted \in [Resources -> Nat]
      /\ c \in Nat \ {0} /\ real \in Nat
  BY DEF Entry, TypeOK
<1> HIDE DEF new
<1> SUFFICES ASSUME NEW e \in log'[x], NEW f \in log'[x], e.request_id <= f.request_id
             PROVE  UTOK * (f.request_id - e.request_id + e.cost) <= C + R * (f.at - e.at + 1)
  BY DEF BurstBoundAt
<1>3. CASE x = r /\ f = new
  <2>1. f.request_id = granted'[x] /\ f.at = real'
    BY <1>1, <1>2, <1>3
  <2> DEFINE G == Granted(x, e)'
             k == real' - e.at + 1
             t == bucket'[x].t
  <2>2. G + t <= C + R * k
    BY DEF BurstInvAt
  <2>3. /\ e \in Entries /\ t \in Nat /\ granted'[x] \in Nat /\ real' \in Nat
    BY DEF TypeOK
  <2>4. e.at \in Nat /\ e.request_id \in Nat /\ e.cost \in Nat /\ UTOK \in Nat
    BY <2>3 DEF Entries
  <2>5. G = UTOK * (f.request_id - e.request_id + e.cost) /\ G \in Int /\ k \in Int
    BY <2>1, <2>3, <2>4 DEF Granted
  <2>6. k = f.at - e.at + 1
    BY <2>1
  <2> HIDE DEF G, t, k
  <2>7. R * k \in Int
    BY <2>5
  <2>8. G <= C + R * k
    BY <2>2, <2>3, <2>5, <2>7
  <2> QED
    BY <2>5, <2>6, <2>8
<1>4. CASE ~(x = r /\ f = new)
  <2>1. f \in log[x]
    BY <1>1, <1>2, <1>4
  <2>2. e \in log[x]
    <3> SUFFICES ASSUME x = r, e = new PROVE FALSE
      BY <1>1, <1>2
    <3>1. f.request_id \in Nat /\ f.request_id <= granted[r]
      BY <2>1, <1>2 DEF LogInv, Entries
    <3> QED
      BY <3>1, <1>2
  <2> QED
    BY <2>1, <2>2 DEF BurstBoundAt
<1> QED
  BY <1>3, <1>4

\* Between any two admitted requests the cost granted is at most what the largest
\* bucket holds and the highest rate brings in the time that really passed: refills,
\* rounding, expiry, clock regressions and alternating plans create no tokens.
THEOREM BurstSafe == Spec => []BurstConformance
<1> DEFINE Caps == {Cap(p) : p \in Plans}
           Rates == {p.rate : p \in Plans}
           Safe(C, R) == \A r \in Resources : BurstInvAt(C, R, r) /\ BurstBoundAt(C, R, r)
           Inv == \A C \in Caps, R \in Rates :
                    Highest(C, R) /\ GraceCovers(C, R) => Safe(C, R)
<1>1. Init => Inv
  BY DEF Init, BurstInvAt, BurstBoundAt
<1>2. TypeOK /\ TypeOK' /\ LogInv /\ Inv /\ [Next]_vars => Inv'
  <2> SUFFICES ASSUME TypeOK, TypeOK', LogInv, Inv, [Next]_vars,
                      NEW C \in Caps, NEW R \in Rates, Highest(C, R), GraceCovers(C, R)
               PROVE  Safe(C, R)'
    BY DEF Highest, GraceCovers, Cap, BucketTTL
  <2>1. C \in Nat /\ R \in Nat /\ Safe(C, R)
    BY PlanFacts
  <2>2. ASSUME NEW r \in Resources, NEW c \in Costs, NEW p \in Plans, Allow(r, c, p)
        PROVE  Safe(C, R)'
    <3>1. \A x \in Resources : BurstInvAt(C, R, x)'
      BY <2>1, <2>2, BurstAllow
    <3>2. \A x \in Resources : BurstBoundAt(C, R, x)'
      BY <2>1, <2>2, <3>1, BurstPairs
    <3> QED
      BY <3>1, <3>2
  <2>3. ASSUME UNCHANGED <<log, granted>>,
               NEW d \in Nat, real' = real + d, now' <= now + d,
               \A r \in Resources :
                 /\ bucket'[r].t = bucket[r].t /\ bucket'[r].ts = bucket[r].ts
                 /\ \/ bucket'[r].exp = bucket[r].exp
                    \/ bucket'[r].exp = NoKey /\ bucket[r].exp < now
        PROVE  Safe(C, R)'
    <3> SUFFICES ASSUME NEW r \in Resources
                 PROVE  BurstInvAt(C, R, r)' /\ BurstBoundAt(C, R, r)'
      OBVIOUS
    <3>1. BurstInvAt(C, R, r)'
      BY <2>1, <2>3, BurstElapse
    <3>2. BurstBoundAt(C, R, r)'
      BY <2>1, <2>3 DEF BurstBoundAt
    <3> QED
      BY <3>1, <3>2
  <2>4. /\ now \in Nat /\ real \in Nat
        /\ bucket \in [Resources -> [t : Nat, ts : Nat, exp : Expiry]]
    BY DEF TypeOK
  <2>5. ASSUME NEW r \in Resources, NEW c \in Costs, NEW p \in Plans, Deny(r, c, p)
        PROVE  Safe(C, R)'
    <3>1. UNCHANGED <<now, real, bucket, log, granted>>
      BY <2>5 DEF Deny, history
    <3> QED
      BY <3>1, <2>1 DEF BurstInvAt, BurstBoundAt, Granted
  <2>6. CASE Tick
    <3>1. /\ UNCHANGED <<log, granted, bucket>> /\ 1 \in Nat
          /\ real' = real + 1 /\ now' <= now + 1
      BY <2>4, <2>6 DEF Tick, redis, history
    <3> QED
      BY <3>1, <2>3
  <2>7. ASSUME NEW d \in 1 .. MaxSkew, NEW purged \in BOOLEAN, Regress(d, purged)
        PROVE  Safe(C, R)'
    <3>1. UNCHANGED <<real, log, granted>> /\ now' = now - d
      BY <2>7 DEF Regress, history
    <3>2. 0 \in Nat /\ real' = real + 0 /\ now' <= now + 0
      BY <3>1, <2>4
    <3>3. ASSUME NEW r \in Resources
          PROVE  /\ bucket'[r].t = bucket[r].t /\ bucket'[r].ts = bucket[r].ts
                 /\ \/ bucket'[r].exp = bucket[r].exp
                    \/ bucket'[r].exp = NoKey /\ bucket[r].exp < now
      <4>1. bucket'[r] = bucket[r] \/ bucket'[r] = Purge(bucket[r])
        BY <2>7, <2>4 DEF Regress
      <4>2. bucket[r] \in [t : Nat, ts : Nat, exp : Expiry]
        BY <2>4
      <4>3. bucket[r].exp \in Int
        BY <4>2 DEF Expiry, NoKey
      <4> QED
        BY <4>1, <4>2, <4>3, <2>4 DEF Purge, Live
    <3> QED
      BY <3>1, <3>2, <3>3, <2>3
  <2>8. CASE UNCHANGED vars
    <3>1. UNCHANGED <<now, real, bucket, log, granted>>
      BY <2>8 DEF vars, redis, history
    <3> QED
      BY <3>1, <2>1 DEF BurstInvAt, BurstBoundAt, Granted
  <2> QED
    BY <2>2, <2>5, <2>6, <2>7, <2>8 DEF Next, Check
<1>3. Inv => BurstConformance
  BY DEF BurstConformance, BurstBoundAt
<1> HIDE DEF Inv
<1> QED
  BY <1>1, <1>2, <1>3, TypeCorrect, LogInvariant, PTL DEF Spec
=============================================================================
