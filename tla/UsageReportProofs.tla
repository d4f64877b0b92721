------------------------- MODULE UsageReportProofs -------------------------
(***************************************************************************)
(* Proofs about the usage report that hold for any number of months, every *)
(* threshold, any traffic, and any number of losses of Redis's data.       *)
(***************************************************************************)
EXTENDS UsageReport, FiniteSetTheorems, SequenceTheorems, TLAPS

\* The entries of a report.
Entry == [month : Months, used : Nat, crossed : BOOLEAN, source : {"live", "rollup"}]

Report == [pc : {"none", "count", "flag", "history", "done", "partial"},
           months : Nat \ {0}, list : Seq(Entry), month : Months, used : Nat,
           turned : BOOLEAN, asked : Months, final : SUBSET Months]

\* Counters, rows and report are of their types.
TypeInv ==
  /\ month \in Months
  /\ counter \in [Months -> Nat] /\ admitted \in [Months -> 0 .. MaxUsed]
  /\ flag \subseteq Months /\ lost \subseteq Months /\ final \subseteq Months
  /\ rows \in [Months -> Nat \cup {NoRow}]
  /\ crossed \in [Months -> Nat]
  /\ rolled \in BOOLEAN
  /\ report \in Report

-----------------------------------------------------------------------------
(* The page of rows that the report ends with                              *)

\* The months that have a row, those on the page of the history, and the one at a place.
Rows == {m \in Months : rows[m] # NoRow}
Page == {m \in Rows : Rank(m) <= Places}
RowAt(i) == CHOOSE m \in Page : Rank(m) = i

\* The rows that come before that of m on the page.
Later(m) == {k \in Rows : k > m}

\* A month is a natural number.
LEMMA MonthsAreIntegers ==
  /\ Months \subseteq Int /\ IsFiniteSet(Months) /\ IsFiniteSet(Rows)
  /\ \A m \in Months : IsFiniteSet(Later(m)) /\ Cardinality(Later(m)) \in Nat
<1>1. Months \subseteq Int /\ IsFiniteSet(Months)
  BY UsageBounds, FS_Interval DEF Months
<1>2. IsFiniteSet(Rows)
  BY <1>1, FS_Subset DEF Rows
<1>3. ASSUME NEW m \in Months
      PROVE  IsFiniteSet(Later(m)) /\ Cardinality(Later(m)) \in Nat
  BY <1>2, FS_Subset, FS_CardinalityType DEF Later
<1> QED
  BY <1>1, <1>2, <1>3

\* The place of a month is one more than the rows that are later.
LEMMA RankIs == \A m \in Months : Rank(m) = Cardinality(Later(m)) + 1
<1>1. \A m \in Months : {k \in Months : rows[k] # NoRow /\ Precedes(k, m)} = Later(m)
  BY DEF Later, Rows, Precedes
<1> QED
  BY <1>1 DEF Rank

\* A later row has a lower rank.
LEMMA LaterRanksLower ==
  ASSUME NEW m \in Rows, NEW k \in Rows, m > k
  PROVE  Rank(m) < Rank(k)
<1>1. m \in Months /\ k \in Months /\ Rows \subseteq Int
  BY MonthsAreIntegers DEF Rows
<1>2. Later(m) \cup {m} \in SUBSET Later(k) /\ m \notin Later(m)
  <2>1. m \in Int /\ k \in Int /\ \A x \in Rows : x \in Int
    BY <1>1
  <2>2. \A x \in Later(m) : x \in Later(k) /\ x # m
    BY <2>1 DEF Later
  <2>3. m \in Later(k)
    BY DEF Later
  <2> QED
    BY <2>2, <2>3
<1>3. Cardinality(Later(m) \cup {m}) = Cardinality(Later(m)) + 1
  BY <1>1, <1>2, MonthsAreIntegers, FS_AddElement
<1>4. Cardinality(Later(m) \cup {m}) <= Cardinality(Later(k))
  BY <1>1, <1>2, MonthsAreIntegers, FS_Subset
<1> QED
  BY <1>1, <1>3, <1>4, RankIs, MonthsAreIntegers

\* No two rows have the same place.
LEMMA RanksDiffer ==
  ASSUME NEW m \in Rows, NEW k \in Rows
  PROVE  /\ Rank(m) = Rank(k) => m = k
         /\ Rank(m) < Rank(k) => m > k
<1>1. m \in Int /\ k \in Int /\ Rank(m) \in Int /\ Rank(k) \in Int
  BY RankIs, MonthsAreIntegers DEF Rows
<1>2. (m > k => Rank(m) < Rank(k)) /\ (k > m => Rank(k) < Rank(m))
  BY LaterRanksLower
<1> QED
  BY <1>1, <1>2

\* A row and those that rank before it are as many as its rank.
LEMMA RankCounts ==
  ASSUME NEW m \in Rows, NEW S \in SUBSET Rows, m \in S, Later(m) \subseteq S
  PROVE  Rank(m) \in 1 .. Cardinality(S)
<1>1. m \in Months /\ m \notin Later(m)
  BY MonthsAreIntegers DEF Rows, Later
<1>2. IsFiniteSet(S) /\ Cardinality(S) \in Nat
  BY MonthsAreIntegers, FS_Subset, FS_CardinalityType
<1>3. Cardinality(Later(m) \cup {m}) = Cardinality(Later(m)) + 1
  BY <1>1, MonthsAreIntegers, FS_AddElement
<1>4. Cardinality(Later(m) \cup {m}) <= Cardinality(S)
  BY <1>2, FS_Subset
<1> QED
  BY <1>1, <1>2, <1>3, <1>4, RankIs, MonthsAreIntegers

\* Every rank up to the number of rows is taken.
LEMMA RanksAreTaken ==
  \A i \in 1 .. Cardinality(Rows) : \E m \in Rows : Rank(m) = i
<1> DEFINE n == Cardinality(Rows)
           f == [m \in Rows |-> Rank(m)]
<1>1. n \in Nat
  BY MonthsAreIntegers, FS_CardinalityType
<1>2. \A m \in Rows : Rank(m) \in 1 .. n
  BY RankCounts DEF Later
<1>3. f \in Injection(Rows, 1 .. n)
  BY <1>2, RanksDiffer DEF Injection, IsInjective
<1>4. IsFiniteSet(1 .. n) /\ Cardinality(1 .. n) = n
  BY <1>1, FS_Interval
<1>5. f \in Surjection(Rows, 1 .. n)
  BY <1>3, <1>4, FS_Injection
<1> QED
  BY <1>5 DEF Surjection

\* The page holds the rows with the first ranks, and no more than there are places.
LEMMA PageSize ==
  ASSUME TypeInv
  PROVE  /\ Cardinality(Page) \in Nat
         /\ Cardinality(Page) <= Cardinality(Rows) /\ Cardinality(Page) <= Places
         /\ Places \in Nat
<1> DEFINE f == [m \in Page |-> Rank(m)]
<1>1. Places \in Nat
  BY DEF Places, TypeInv, Report
<1>2. IsFiniteSet(Page) /\ Cardinality(Page) <= Cardinality(Rows)
  BY MonthsAreIntegers, FS_Subset DEF Page
<1>3. Cardinality(Page) \in Nat
  BY <1>2, FS_CardinalityType
<1>4. \A m \in Page : Rank(m) \in 1 .. Places
  BY <1>1, RankIs, MonthsAreIntegers DEF Page, Rows
<1>5. f \in Injection(Page, 1 .. Places)
  BY <1>4, RanksDiffer DEF Injection, IsInjective, Page
<1>6. IsFiniteSet(1 .. Places) /\ Cardinality(1 .. Places) = Places
  BY <1>1, FS_Interval
<1>7. Cardinality(Page) <= Places
  BY <1>5, <1>6, FS_Injection
<1> QED
  BY <1>1, <1>2, <1>3, <1>7

\* Each place of the page, without a gap, has a row of it.
LEMMA PageIsRanked ==
  ASSUME TypeInv
  PROVE  \A i \in 1 .. Cardinality(Page) : RowAt(i) \in Page
<1> SUFFICES ASSUME NEW i \in 1 .. Cardinality(Page)
             PROVE  RowAt(i) \in Page
  OBVIOUS
<1>1. i \in 1 .. Cardinality(Rows) /\ i <= Places
  BY PageSize, MonthsAreIntegers, FS_CardinalityType
<1>2. PICK m \in Rows : Rank(m) = i
  BY <1>1, RanksAreTaken
<1>3. m \in Page
  BY <1>1, <1>2 DEF Page
<1> QED
  BY <1>2, <1>3 DEF RowAt

RowEntry(m) == [month |-> m, used |-> rows[m], crossed |-> FALSE, source |-> "rollup"]

\* What a report gets from SQLite.
LEMMA HistoryIs ==
  ASSUME TypeInv
  PROVE  /\ History \in Seq(Entry)
         /\ DOMAIN History = 1 .. Cardinality(Page) /\ Len(History) = Cardinality(Page)
         /\ \A i \in 1 .. Cardinality(Page) :
              RowAt(i) \in Page /\ History[i] = RowEntry(RowAt(i))
<1>1. Page = {m \in Months : rows[m] # NoRow /\ Rank(m) <= Places}
  BY DEF Page, Rows
<1>2. History = [i \in 1 .. Cardinality(Page) |-> RowEntry(RowAt(i))]
  BY <1>1 DEF History, RowEntry, RowAt
<1>3. \A m \in Page : RowEntry(m) \in Entry
  BY DEF Page, Rows, RowEntry, Entry, TypeInv
<1>4. \A i \in 1 .. Cardinality(Page) : RowAt(i) \in Page
  BY PageIsRanked
<1>5. History \in Seq(Entry) /\ Len(History) = Cardinality(Page)
  BY <1>2, <1>3, <1>4, PageSize
<1> QED
  BY <1>2, <1>4, <1>5

-----------------------------------------------------------------------------
(* The state and its type                                                  *)

\* Every step leaves the variables of their types.
LEMMA TypeStep ==
  ASSUME TypeInv, [Next]_vars
  PROVE  TypeInv'
<1> USE DEF NoRow
<1> USE DEF TypeInv, redis, history
<1>1. CASE Check
  BY <1>1, UsageBounds DEF Check
<1>2. CASE Rollup
  BY <1>2 DEF Rollup
<1>3. CASE Turn
  <2>1. month' \in Months
    BY <1>3, UsageBounds DEF Turn, Months
  <2>2. counter' \in [Months -> Nat] /\ flag' \subseteq Months
    BY <1>3 DEF Turn, Without
  <2>3. report' \in Report
    BY <1>3 DEF Turn, Report
  <2> QED
    BY <1>3, <2>1, <2>2, <2>3 DEF Turn
<1>4. CASE Lose
  <2>1. 0 .. month \subseteq Months
    BY UsageBounds DEF Months
  <2>2. counter' \in [Months -> Nat] /\ flag' \subseteq Months
    BY <1>4 DEF Lose, Without
  <2> QED
    BY <1>4, <2>1, <2>2 DEF Lose
<1>5. ASSUME NEW n \in Asked, Ask(n)
      PROVE  TypeInv'
  BY <1>5, AskedAssumption DEF Ask, Report
<1>6. CASE ReadCount
  BY <1>6 DEF ReadCount, Report
<1>7. CASE ReadFlag
  <2>1. Live(FlagMonth \in flag) \in Entry
    BY DEF Live, Entry, Report
  <2>2. <<Live(FlagMonth \in flag)>> \in Seq(Entry)
    BY <2>1
  <2> QED
    BY <1>7, <2>2 DEF ReadFlag, Report
<1>8. CASE RedisFails
  BY <1>8 DEF RedisFails, Report
<1>9. CASE ReadHistory
  <2>1. report.list \o History \in Seq(Entry)
    BY HistoryIs, ConcatProperties DEF Report
  <2> QED
    BY <1>9, <2>1 DEF ReadHistory, Report
<1>10. CASE HistoryFails
  BY <1>10 DEF HistoryFails, Report
<1>11. CASE UNCHANGED vars
  BY <1>11 DEF vars
<1> QED
  BY <1>1, <1>2, <1>3, <1>4, <1>5, <1>6, <1>7, <1>8, <1>9, <1>10, <1>11 DEF Next

\* TypeInv holds in every behaviour.
LEMMA TypeInvariant == Spec => []TypeInv
<1>1. Init => TypeInv
  BY UsageBounds DEF Init, TypeInv, Report, Months, NotYet, NoRow
<1> QED
  BY <1>1, TypeStep, PTL DEF Spec

-----------------------------------------------------------------------------
(* The report that is being made                                           *)

\* It begins with the live month or with nothing, and names the month that runs unless
\* that has turned; it turns only once.
IsLive(e) == e.source = "live" /\ e.month = report.month

ShapeInv ==
  /\ report.pc \in {"none", "count", "flag"} => report.list = <<>>
  /\ report.pc = "history" =>
       /\ Len(report.list) \in {0, 1}
       /\ Len(report.list) = 1 => IsLive(report.list[1])
  /\ ~report.turned => report.month = month
  /\ Working => report.month \in {month, month - 1}

\* The rows of the page come after the live month.
LEMMA ReportEnds ==
  ASSUME TypeInv, ShapeInv, ReadHistory
  PROVE  \E n \in {0, 1} :
           /\ n = 1 => IsLive(report'.list[1]) /\ report'.list[1] \in Listed
           /\ DOMAIN report'.list = 1 .. n + Cardinality(Page)
           /\ \A i \in DOMAIN report'.list : i > n =>
                /\ i - n \in 1 .. Cardinality(Page)
                /\ report'.list[i] = RowEntry(RowAt(i - n)) /\ RowAt(i - n) \in Page
<1>1. PICK L, H, n : L = report.list /\ H = History /\ n = Len(L)
  OBVIOUS
<1>2. L \in Seq(Entry) /\ report'.list = L \o H
  BY <1>1 DEF TypeInv, Report, ReadHistory
<1>3. n \in {0, 1} /\ (n = 1 => IsLive(L[1]))
  BY <1>1 DEF ShapeInv, ReadHistory
<1>4. n = 1 => L[1] \in Listed
  <2>1. L \in Seq(Entry)
    BY <1>2
  <2>2. DOMAIN L = 1 .. n
    BY <1>1, <2>1
  <2> QED
    BY <1>1, <2>2 DEF Listed
<1>5. /\ Cardinality(Page) \in Nat
      /\ H \in Seq(Entry) /\ Len(H) = Cardinality(Page)
      /\ \A i \in 1 .. Cardinality(Page) :
           RowAt(i) \in Page /\ H[i] = RowEntry(RowAt(i))
  BY <1>1, HistoryIs, PageSize
<1>6. /\ L \o H \in Seq(Entry) /\ Len(L \o H) = n + Cardinality(Page)
      /\ \A i \in 1 .. n + Cardinality(Page) :
           (L \o H)[i] = IF i <= n THEN L[i] ELSE H[i - n]
  <2>1. /\ L \o H \in Seq(Entry) /\ Len(L \o H) = Len(L) + Len(H)
        /\ \A i \in 1 .. Len(L) + Len(H) :
             (L \o H)[i] = IF i <= Len(L) THEN L[i] ELSE H[i - Len(L)]
    BY <1>2, <1>5, ConcatProperties, Zenon
  <2> QED
    BY <1>1, <1>5, <2>1
<1>7. DOMAIN (L \o H) = 1 .. n + Cardinality(Page)
  BY <1>6
<1>8. n = 1 => (L \o H)[1] = L[1]
  BY <1>5, <1>6
<1>9. ASSUME NEW i \in 1 .. n + Cardinality(Page), i > n
      PROVE  /\ i - n \in 1 .. Cardinality(Page)
             /\ (L \o H)[i] = RowEntry(RowAt(i - n)) /\ RowAt(i - n) \in Page
  BY <1>3, <1>5, <1>6, <1>9
<1> QED
  BY <1>2, <1>3, <1>4, <1>7, <1>8, <1>9

\* The last read adds entries of the page only.
LEMMA ReportGains ==
  ASSUME TypeInv, ShapeInv, ReadHistory, NEW e \in Listed'
  PROVE  e \in Listed \/ \E m \in Page : e = RowEntry(m)
<1>1. PICK n \in {0, 1} :
        /\ n = 1 => IsLive(report'.list[1]) /\ report'.list[1] \in Listed
        /\ DOMAIN report'.list = 1 .. n + Cardinality(Page)
        /\ \A i \in DOMAIN report'.list : i > n =>
             /\ i - n \in 1 .. Cardinality(Page)
             /\ report'.list[i] = RowEntry(RowAt(i - n)) /\ RowAt(i - n) \in Page
  BY ReportEnds
<1>2. PICK i \in DOMAIN report'.list : e = report'.list[i]
  BY DEF Listed
<1>3. CASE i > n
  BY <1>1, <1>2, <1>3
<1>4. CASE ~(i > n)
  <2>1. i = 1 /\ n = 1
    BY <1>1, <1>4, PageSize
  <2> QED
    BY <1>1, <1>2, <2>1
<1> QED
  BY <1>3, <1>4

\* ShapeInv holds in every behaviour.
LEMMA ShapeInvariant == Spec => []ShapeInv
<1>1. Init => ShapeInv
  BY DEF Init, ShapeInv, Working
<1>2. TypeInv /\ ShapeInv /\ [Next]_vars => ShapeInv'
  <2> SUFFICES ASSUME TypeInv, ShapeInv, [Next]_vars
               PROVE  ShapeInv'
    OBVIOUS
  <2>t. report \in Report /\ month \in Int
    BY MonthsAreIntegers DEF TypeInv
  <2>1. CASE Check \/ Rollup \/ Lose \/ UNCHANGED vars
    <3>1. report' = report /\ month' = month
      BY <2>1 DEF Check, Rollup, Lose, vars
    <3> QED
      BY <3>1 DEF ShapeInv, Working, IsLive
  <2>2. CASE Turn
    <3>1. /\ report'.turned /\ report'.pc = report.pc /\ report'.list = report.list
          /\ report'.month = report.month /\ report'.used = report.used
      BY <2>2, <2>t DEF Turn, Report
    <3>2. Working => report.month = month
      BY <2>2 DEF Turn, ShapeInv
    <3>3. month' = month + 1
      BY <2>2 DEF Turn
    <3> QED
      BY <2>t, <3>1, <3>2, <3>3 DEF ShapeInv, Working, IsLive
  <2>3. ASSUME NEW n \in Asked, Ask(n)
        PROVE  ShapeInv'
    BY <2>3 DEF Ask, ShapeInv, Working
  <2>4. CASE ReadCount
    <3>1. /\ report'.pc \in {"flag", "history"} /\ report'.list = report.list
          /\ report'.month = month /\ report'.turned = report.turned
          /\ report'.asked = report.asked /\ month' = month
      BY <2>4, <2>t DEF ReadCount, Report
    <3>2. report.list = <<>>
      BY <2>4 DEF ReadCount, ShapeInv
    <3> QED
      BY <2>t, <3>1, <3>2 DEF ShapeInv, Working
  <2>5. CASE ReadFlag
    <3>1. PICK e : e = Live(FlagMonth \in flag)
      OBVIOUS
    <3>2. /\ report'.pc = "history" /\ report'.list = <<e>>
          /\ report'.month = report.month /\ report'.turned = report.turned
          /\ report'.asked = report.asked /\ month' = month
      BY <2>5, <2>t, <3>1 DEF ReadFlag, Report
    <3>3. Len(<<e>>) = 1 /\ <<e>>[1] = e /\ e.source = "live" /\ e.month = report.month
      BY <3>1 DEF Live
    <3>4. Working
      BY <2>5 DEF ReadFlag, Working
    <3> QED
      BY <3>2, <3>3, <3>4 DEF ShapeInv, IsLive
  <2>6. CASE RedisFails \/ ReadHistory \/ HistoryFails
    <3>1. /\ report'.month = report.month /\ report'.turned = report.turned
          /\ report'.asked = report.asked /\ month' = month
      BY <2>6, <2>t DEF RedisFails, ReadHistory, HistoryFails, Report
    <3>2. /\ \/ report'.pc \in {"done", "partial"}
             \/ report'.pc = "history" /\ report'.list = <<>>
          /\ Working
      BY <2>6, <2>t DEF RedisFails, ReadHistory, HistoryFails, Report, ShapeInv, Working
    <3> QED
      BY <3>1, <3>2 DEF ShapeInv, Working
  <2> QED
    BY <2>1, <2>2, <2>3, <2>4, <2>5, <2>6 DEF Next
<1> QED
  BY <1>1, <1>2, TypeInvariant, PTL DEF Spec

\* Whatever is listed is the live entry or one of the page.
LEMMA ListedAreEntries ==
  ASSUME TypeInv
  PROVE  Listed \subseteq Entry
<1>1. report.list \in Seq(Entry)
  BY DEF TypeInv, Report
<1> QED
  BY <1>1 DEF Listed

\* What a step can do to the list and to the counts it is made of.
LEMMA ListMoves ==
  ASSUME TypeInv, ShapeInv, [Next]_vars
  PROVE  /\ Listed' \subseteq Listed \/ ReadFlag \/ ReadHistory
         /\ ReadFlag => Listed' = {Live(FlagMonth \in flag)}
<1>1. report \in Report
  BY DEF TypeInv
<1>2. ASSUME Check \/ Rollup \/ Lose \/ UNCHANGED vars
      PROVE  Listed' \subseteq Listed
  <2>1. report' = report
    BY <1>2 DEF Check, Rollup, Lose, vars
  <2>2. Listed' = Listed
    BY <2>1 DEF Listed
  <2> QED
    BY <2>2
<1>3. ASSUME Turn \/ ReadCount \/ RedisFails \/ HistoryFails
      PROVE  Listed' \subseteq Listed
  <2>1. report'.list = report.list
    BY <1>1, <1>3 DEF Turn, ReadCount, RedisFails, HistoryFails, Report
  <2>2. Listed' = Listed
    BY <2>1 DEF Listed
  <2> QED
    BY <2>2
<1>4. ASSUME NEW n \in Asked, Ask(n)
      PROVE  Listed' = {}
  <2>1. report'.list = <<>>
    BY <1>4 DEF Ask
  <2> QED
    BY <2>1 DEF Listed
<1>5. ASSUME ReadFlag
      PROVE  Listed' = {Live(FlagMonth \in flag)}
  <2>1. PICK e : e = Live(FlagMonth \in flag)
    OBVIOUS
  <2>2. report'.list = <<e>>
    BY <1>1, <1>5, <2>1 DEF ReadFlag, Report
  <2>3. DOMAIN <<e>> = {1} /\ <<e>>[1] = e
    OBVIOUS
  <2>4. Listed' = {e}
    BY <2>2, <2>3 DEF Listed
  <2> QED
    BY <1>5, <2>1, <2>4
<1> QED
  BY <1>2, <1>3, <1>4, <1>5 DEF Next

-----------------------------------------------------------------------------
(* What was admitted                                                       *)

\* What is known of a month is within what was admitted in it.
CountOK(m) ==
  /\ counter[m] <= admitted[m]
  /\ rows[m] <= admitted[m]
  /\ rows[m] # NoRow => rows[m] > 0
  /\ m > month => admitted[m] = 0 /\ crossed[m] = NotYet

CountsInv ==
  /\ \A m \in Months : CountOK(m)
  /\ report.pc = "flag" => report.used <= admitted[report.month]
  /\ NothingInvented

\* Every step keeps rows and counters at or below what was admitted.
LEMMA CountsStep ==
  ASSUME TypeInv, \A m \in Months : CountOK(m), [Next]_vars, NEW m \in Months
  PROVE  CountOK(m)' /\ admitted[m] <= admitted'[m]
<1> USE DEF CountOK, NoRow
<1>1. /\ counter[m] \in Nat /\ admitted[m] \in 0 .. MaxUsed /\ rows[m] \in Nat \cup {-1}
      /\ month \in Months /\ month \in Int /\ m \in Int /\ MaxUsed \in Nat
  BY UsageBounds, MonthsAreIntegers DEF TypeInv
<1>2. CASE Check
  <2>1. CASE m = month
    BY <1>1, <1>2, <2>1 DEF Check, TypeInv
  <2>2. CASE m # month
    BY <1>1, <1>2, <2>2 DEF Check, TypeInv
  <2> QED
    BY <2>1, <2>2
<1>3. CASE Rollup
  BY <1>1, <1>3 DEF Rollup, redis
<1>4. CASE Turn
  <2>1. counter'[m] \in {0, counter[m]}
    BY <1>4 DEF Turn, Without, TypeInv
  <2>2. admitted' = admitted /\ rows' = rows /\ crossed' = crossed /\ month' = month + 1
    BY <1>4 DEF Turn, history
  <2> QED
    BY <1>1, <2>1, <2>2
<1>5. CASE Lose
  BY <1>1, <1>5 DEF Lose, Without
<1>6. CASE UNCHANGED <<month, redis, rows, history>>
  BY <1>1, <1>6 DEF redis, history
<1>7. ASSUME NEW n \in Asked, Ask(n)
      PROVE  UNCHANGED <<month, redis, rows, history>>
  BY <1>7 DEF Ask
<1> QED
  BY <1>2, <1>3, <1>4, <1>5, <1>6, <1>7
     DEF Next, ReadCount, ReadFlag, RedisFails, ReadHistory, HistoryFails, vars

\* Only the month that runs gains anything.
LEMMA AdmittedStep ==
  ASSUME TypeInv, [Next]_vars, NEW m \in Months, m # month
  PROVE  admitted'[m] = admitted[m] /\ crossed'[m] = crossed[m]
<1>1. CASE Check
  BY <1>1 DEF Check, TypeInv
<1>2. CASE UNCHANGED <<admitted, crossed>>
  BY <1>2
<1>3. ASSUME NEW n \in Asked, Ask(n)
      PROVE  UNCHANGED <<admitted, crossed>>
  BY <1>3 DEF Ask, history
<1> QED
  BY <1>1, <1>2, <1>3 DEF Next, Rollup, Turn, Lose, ReadCount, ReadFlag, RedisFails,
                          ReadHistory, HistoryFails, history, vars

\* CountsInv holds in every behaviour.
LEMMA CountsInvariant == Spec => []CountsInv
<1>1. Init => CountsInv
  <2> SUFFICES ASSUME Init PROVE CountsInv
    OBVIOUS
  <2>1. Listed = {} /\ report.pc = "none"
    BY DEF Init, Listed
  <2>2. \A m \in Months : CountOK(m)
    BY DEF Init, CountOK, NoRow
  <2> QED
    BY <2>1, <2>2 DEF CountsInv, NothingInvented
<1>2. TypeInv /\ ShapeInv /\ CountsInv /\ [Next]_vars => CountsInv'
  <2> SUFFICES ASSUME TypeInv, ShapeInv, CountsInv, [Next]_vars
               PROVE  CountsInv'
    OBVIOUS
  <2>1. \A m \in Months : CountOK(m)' /\ admitted[m] <= admitted'[m]
    BY CountsStep DEF CountsInv
  <2>2. /\ report \in Report /\ month \in Months
        /\ \A m \in Months : admitted[m] \in Int /\ counter[m] \in Int /\ rows[m] \in Int
        /\ \A m \in Months : admitted'[m] \in Int
    <3>1. TypeInv'
      BY TypeStep
    <3> QED
      BY <3>1, UsageBounds DEF TypeInv, NoRow
  <2>3. (report.pc = "flag" => report.used <= admitted[report.month])'
    <3>1. CASE report'.pc = "flag" /\ ~ReadCount
      <4>1. report.pc = "flag" /\ report'.used = report.used /\ report'.month = report.month
        <5>1. CASE Check \/ Rollup \/ Lose \/ UNCHANGED vars
          BY <3>1, <5>1 DEF Check, Rollup, Lose, vars
        <5>2. CASE Turn
          BY <2>2, <3>1, <5>2 DEF Turn, Report
        <5>3. ASSUME NEW n \in Asked, Ask(n)
              PROVE  FALSE
          BY <3>1, <5>3 DEF Ask
        <5>4. CASE ReadFlag \/ RedisFails \/ ReadHistory \/ HistoryFails
          BY <2>2, <3>1, <5>4 DEF ReadFlag, RedisFails, ReadHistory, HistoryFails, Report
        <5> QED
          BY <3>1, <5>1, <5>2, <5>3, <5>4 DEF Next
      <4>2. report.month \in Months /\ report.used \in Nat
        BY <2>2 DEF Report
      <4>3. report.used <= admitted[report.month]
        BY <4>1 DEF CountsInv
      <4> QED
        BY <2>1, <2>2, <4>1, <4>2, <4>3
    <3>2. CASE ReadCount
      <4>1. report'.used = counter[month] /\ report'.month = month /\ admitted' = admitted
        BY <2>2, <3>2 DEF ReadCount, Report, history
      <4>2. counter[month] <= admitted[month]
        BY <2>2 DEF CountsInv, CountOK
      <4> QED
        BY <4>1, <4>2
    <3> QED
      BY <3>1, <3>2
  <2>4. NothingInvented'
    <3> SUFFICES ASSUME NEW e \in Listed'
                 PROVE  e.used <= admitted'[e.month]
      BY DEF NothingInvented
    <3>1. CASE e \in Listed
      <4>1. e.month \in Months /\ e.used \in Nat
        BY <3>1, ListedAreEntries DEF Entry
      <4>2. e.used <= admitted[e.month]
        BY <3>1 DEF CountsInv, NothingInvented
      <4> QED
        BY <2>1, <2>2, <4>1, <4>2
    <3>2. CASE ReadFlag
      <4>1. e = Live(FlagMonth \in flag)
        BY <3>2, ListMoves
      <4>2. e.month = report.month /\ e.used = report.used
        BY <4>1 DEF Live
      <4>3. report.used <= admitted[report.month] /\ admitted' = admitted
        BY <3>2 DEF CountsInv, ReadFlag, history
      <4> QED
        BY <4>2, <4>3
    <3>3. CASE ReadHistory /\ e \notin Listed
      <4>1. PICK m \in Page : e = RowEntry(m)
        BY <3>3, ReportGains
      <4>2. m \in Months /\ admitted' = admitted
        BY <3>3 DEF Page, Rows, ReadHistory, history
      <4>3. rows[m] <= admitted[m]
        BY <4>2 DEF CountsInv, CountOK
      <4> QED
        BY <4>1, <4>2, <4>3 DEF RowEntry
    <3> QED
      BY <3>1, <3>2, <3>3, ListMoves
  <2> QED
    BY <2>1, <2>3, <2>4 DEF CountsInv
<1> QED
  BY <1>1, <1>2, TypeInvariant, ShapeInvariant, PTL DEF Spec

\* No month is reported with more than was admitted in it, though checks count, rollups
\* run and the month turns between the three reads of the report.
THEOREM ReportInventsNothing == Spec => []NothingInvented
<1>1. CountsInv => NothingInvented
  BY DEF CountsInv
<1> QED
  BY <1>1, CountsInvariant, PTL

-----------------------------------------------------------------------------
(* What a rollup has seen                                                  *)

\* The row of a month holds all that was admitted in it.
Complete(m) == rows[m] = admitted[m] \/ (admitted[m] = 0 /\ rows[m] = NoRow)

\* The counter of a month that Redis has not lost is there until a rollup has gone
\* through in the month after.
FinalOK(m) ==
  /\ m \notin lost /\ m >= month - 1 => counter[m] = admitted[m]
  /\ m \notin lost /\ m < month /\ (rolled \/ m < month - 1) => Complete(m)
  /\ m \in final => m < month /\ Complete(m)

FinalInv ==
  /\ \A m \in Months : FinalOK(m)
  /\ report.final \subseteq final
  /\ ClosedMonthsAreFinal

\* A step keeps closed months complete unless they were lost.
LEMMA FinalStep ==
  ASSUME TypeInv, CountsInv, \A m \in Months : FinalOK(m), [Next]_vars, NEW m \in Months
  PROVE  FinalOK(m)'
<1> USE DEF FinalOK, Complete
<1>1. /\ counter[m] \in Nat /\ admitted[m] \in Nat /\ rows[m] \in Nat \cup {-1}
      /\ month \in Months /\ month \in Int /\ m \in Int
  BY UsageBounds, MonthsAreIntegers DEF TypeInv, NoRow
<1>2. /\ counter[m] <= admitted[m] /\ rows[m] <= admitted[m]
      /\ m > month => admitted[m] = 0
  BY DEF CountsInv, CountOK
<1>3. CASE Check
  <2>1. CASE m = month
    BY <1>1, <1>3, <2>1 DEF Check, TypeInv
  <2>2. CASE m # month
    BY <1>1, <1>3, <2>2 DEF Check, TypeInv
  <2> QED
    BY <2>1, <2>2
<1>4. CASE Rollup
  <2>1. rows'[m] = IF counter[m] > 0 /\ counter[m] > rows[m] THEN counter[m] ELSE rows[m]
    BY <1>4 DEF Rollup
  <2>2. UNCHANGED <<month, counter, admitted, lost>> /\ rolled' = TRUE
    BY <1>4 DEF Rollup, redis
  <2>3. m \in final' => m \in final \/ (m < month /\ m \notin lost)
    BY <1>4 DEF Rollup
  <2>4. Complete(m) => Complete(m)'
    BY <1>1, <1>2, <2>1, <2>2 DEF NoRow
  <2>5. m \notin lost /\ m >= month - 1 => Complete(m)'
    BY <1>1, <1>2, <2>1, <2>2 DEF NoRow
  <2> HIDE DEF Complete
  <2> QED
    BY <1>1, <2>2, <2>3, <2>4, <2>5
<1>5. CASE Turn
  <2>1. m >= month => counter'[m] = counter[m]
    BY <1>1, <1>5 DEF Turn, Without, Outlives
  <2>2. UNCHANGED <<rows, admitted, lost, final>> /\ month' = month + 1
    BY <1>5 DEF Turn, history
  <2>3. rolled /\ rolled' = FALSE
    BY <1>5 DEF Turn
  <2> QED
    BY <1>1, <2>1, <2>2, <2>3
<1>6. CASE Lose
  <2>1. UNCHANGED <<month, rows, rolled, admitted, final>> /\ lost' = lost \cup 0 .. month
    BY <1>6 DEF Lose
  <2>2. counter'[m] = 0 /\ (m > month \/ m \in lost')
    BY <1>1, <1>6, <2>1 DEF Lose, Without, Months
  <2> QED
    BY <1>1, <1>2, <2>1, <2>2
<1>7. CASE UNCHANGED <<month, redis, rows, rolled, history>>
  BY <1>7 DEF redis, history
<1>8. ASSUME NEW n \in Asked, Ask(n)
      PROVE  UNCHANGED <<month, redis, rows, rolled, history>>
  BY <1>8 DEF Ask
<1> QED
  BY <1>3, <1>4, <1>5, <1>6, <1>7, <1>8
     DEF Next, ReadCount, ReadFlag, RedisFails, ReadHistory, HistoryFails, vars

\* The months a report has to show complete are those final when it was asked for.
LEMMA ReportFinalStep ==
  ASSUME TypeInv, [Next]_vars
  PROVE  /\ final \subseteq final'
         /\ \/ report'.final = report.final
            \/ \E n \in Asked : Ask(n) /\ report'.final = final
<1>1. report \in Report
  BY DEF TypeInv
<1>2. CASE Check \/ Rollup \/ Turn \/ Lose \/ UNCHANGED vars
  BY <1>1, <1>2 DEF Check, Rollup, Turn, Lose, vars, history, Report
<1>3. CASE ReadCount \/ ReadFlag \/ RedisFails \/ ReadHistory \/ HistoryFails
  BY <1>1, <1>3 DEF ReadCount, ReadFlag, RedisFails, ReadHistory, HistoryFails, history,
                    Report
<1>4. ASSUME NEW n \in Asked, Ask(n)
      PROVE  final' = final /\ report'.final = final
  BY <1>4 DEF Ask, history
<1> QED
  BY <1>2, <1>3, <1>4 DEF Next

\* FinalInv holds in every behaviour.
LEMMA FinalInvariant == Spec => []FinalInv
<1>1. Init => FinalInv
  <2> SUFFICES ASSUME Init PROVE FinalInv
    OBVIOUS
  <2>1. Listed = {} /\ report.final = {}
    BY DEF Init, Listed
  <2>2. \A m \in Months : FinalOK(m)
    BY MonthsAreIntegers DEF Init, FinalOK, Complete, Months
  <2> QED
    BY <2>1, <2>2 DEF FinalInv, ClosedMonthsAreFinal, FromRollup
<1>2. TypeInv /\ ShapeInv /\ CountsInv /\ FinalInv /\ [Next]_vars => FinalInv'
  <2> SUFFICES ASSUME TypeInv, ShapeInv, CountsInv, FinalInv, [Next]_vars
               PROVE  FinalInv'
    OBVIOUS
  <2>1. \A m \in Months : FinalOK(m) /\ FinalOK(m)'
    BY FinalStep DEF FinalInv
  <2>2. (report.final \subseteq final)'
    BY ReportFinalStep DEF FinalInv
  <2>3. ClosedMonthsAreFinal'
    <3> SUFFICES ASSUME NEW e \in Listed', e.source = "rollup", e.month \in report'.final
                 PROVE  e.used = admitted'[e.month]
      BY DEF ClosedMonthsAreFinal, FromRollup
    <3>1. report \in Report /\ month \in Months
      BY DEF TypeInv
    <3>2. CASE e \in Listed
      <4>1. CASE \E n \in Asked : Ask(n)
        <5>1. Listed' = {}
          BY <4>1 DEF Ask, Listed
        <5> QED
          BY <5>1
      <4>2. CASE report'.final = report.final
        <5>1. e.month \in Months
          BY <3>2, ListedAreEntries DEF Entry
        <5>2. e.month \in report.final /\ e.month \in final /\ e.month < month
          BY <2>1, <4>2, <5>1 DEF FinalInv, FinalOK
        <5>3. e.month # month
          BY <3>1, <5>1, <5>2, MonthsAreIntegers
        <5>4. admitted'[e.month] = admitted[e.month]
          BY <5>1, <5>3, AdmittedStep
        <5>5. e.used = admitted[e.month]
          BY <3>2, <5>2 DEF FinalInv, ClosedMonthsAreFinal, FromRollup
        <5> QED
          BY <5>4, <5>5
      <4> QED
        BY <4>1, <4>2, ReportFinalStep
    <3>3. CASE ReadFlag
      <4>1. e = Live(FlagMonth \in flag)
        BY <3>3, ListMoves
      <4> QED
        BY <4>1 DEF Live
    <3>4. CASE ReadHistory /\ e \notin Listed
      <4>1. PICK m \in Page : e = RowEntry(m)
        BY <3>4, ReportGains
      <4>2. m \in Months /\ rows[m] # NoRow /\ admitted' = admitted
        BY <3>4 DEF Page, Rows, ReadHistory, history
      <4>3. e.month = m /\ e.used = rows[m]
        BY <4>1 DEF RowEntry
      <4>4. report'.final = report.final
        BY <3>1, <3>4 DEF ReadHistory, Report
      <4>5. Complete(m)
        BY <2>1, <4>2, <4>3, <4>4 DEF FinalInv, FinalOK
      <4> QED
        BY <4>2, <4>3, <4>5 DEF Complete
    <3> QED
      BY <3>2, <3>3, <3>4, ListMoves
  <2> QED
    BY <2>1, <2>2, <2>3 DEF FinalInv
<1> QED
  BY <1>1, <1>2, TypeInvariant, ShapeInvariant, CountsInvariant, PTL DEF Spec

\* A month that is over is reported from its row with all that was admitted in it, once a
\* rollup has gone through and unless Redis lost the month first.
THEOREM ClosedMonthsAreWhole == Spec => []ClosedMonthsAreFinal
<1>1. FinalInv => ClosedMonthsAreFinal
  BY DEF FinalInv
<1> QED
  BY <1>1, FinalInvariant, PTL

-----------------------------------------------------------------------------
(* The flag                                                                *)

\* The flag of a month is there as long as a report may ask for it.
FlagOK(m) ==
  m \notin lost /\ m >= month - 1 /\ crossed[m] # NotYet => m \in flag

FlagInv ==
  /\ \A m \in Months : FlagOK(m)
  /\ FlagNotBehindCount

\* A step keeps the flag of a month that crossed its threshold.
LEMMA FlagStep ==
  ASSUME TypeInv, CountsInv, \A m \in Months : FlagOK(m), [Next]_vars, NEW m \in Months
  PROVE  FlagOK(m)'
<1> USE DEF FlagOK
<1>1. month \in Months /\ month \in Int /\ m \in Int
  BY MonthsAreIntegers DEF TypeInv
<1>2. m > month => crossed[m] = NotYet
  BY DEF CountsInv, CountOK
<1>3. CASE Check
  <2>1. CASE m = month
    BY <1>1, <1>3, <2>1 DEF Check, TypeInv, NotYet
  <2>2. CASE m # month
    BY <1>1, <1>3, <2>2 DEF Check, TypeInv, NotYet
  <2> QED
    BY <2>1, <2>2
<1>4. CASE Turn
  <2>1. m >= month /\ m \in flag => m \in flag'
    BY <1>1, <1>4 DEF Turn, Without, Outlives
  <2>2. UNCHANGED <<crossed, lost>> /\ month' = month + 1
    BY <1>4 DEF Turn, history
  <2> QED
    BY <1>1, <2>1, <2>2 DEF NotYet
<1>5. CASE Lose
  <2>1. UNCHANGED <<month, crossed>> /\ lost' = lost \cup 0 .. month
    BY <1>5 DEF Lose
  <2>2. m > month \/ m \in lost'
    BY <1>1, <2>1 DEF Months
  <2> QED
    BY <1>1, <1>2, <2>1, <2>2 DEF NotYet
<1>6. CASE UNCHANGED <<month, flag, crossed, lost>>
  BY <1>6 DEF NotYet
<1>7. ASSUME NEW n \in Asked, Ask(n)
      PROVE  UNCHANGED <<month, flag, crossed, lost>>
  BY <1>7 DEF Ask, redis, history
<1> QED
  BY <1>3, <1>4, <1>5, <1>6, <1>7
     DEF Next, Rollup, ReadCount, ReadFlag, RedisFails, ReadHistory, HistoryFails, redis,
         history, vars

\* Data once lost counts as lost.
LEMMA LostStep ==
  ASSUME TypeInv, [Next]_vars
  PROVE  lost \subseteq lost'
<1>1. CASE UNCHANGED lost
  BY <1>1
<1>2. CASE Lose
  BY <1>2 DEF Lose
<1>3. ASSUME NEW n \in Asked, Ask(n)
      PROVE  UNCHANGED lost
  BY <1>3 DEF Ask, history
<1> QED
  BY <1>1, <1>2, <1>3
     DEF Next, Check, Rollup, Turn, ReadCount, ReadFlag, RedisFails, ReadHistory,
         HistoryFails, history, vars

\* FlagInv holds in every behaviour.
LEMMA FlagInvariant == Spec => []FlagInv
<1>1. Init => FlagInv
  <2> SUFFICES ASSUME Init PROVE FlagInv
    OBVIOUS
  <2>1. Listed = {}
    BY DEF Init, Listed
  <2>2. \A m \in Months : FlagOK(m)
    BY DEF Init, FlagOK
  <2> QED
    BY <2>1, <2>2 DEF FlagInv, FlagNotBehindCount
<1>2. TypeInv /\ ShapeInv /\ CountsInv /\ FinalInv /\ FlagInv /\ [Next]_vars => FlagInv'
  <2> SUFFICES ASSUME TypeInv, ShapeInv, CountsInv, FinalInv, FlagInv, [Next]_vars
               PROVE  FlagInv'
    OBVIOUS
  <2>1. \A m \in Months : FlagOK(m)'
    BY FlagStep DEF FlagInv
  <2>2. FlagNotBehindCount'
    <3> SUFFICES ASSUME NEW e \in Listed', e.source = "live", e.month \notin lost',
                        e.used >= crossed'[e.month]
                 PROVE  e.crossed
      BY DEF FlagNotBehindCount
    <3>1. report \in Report /\ month \in Months /\ month \in Int
      BY MonthsAreIntegers DEF TypeInv
    <3>2. CASE e \in Listed
      <4>1. e.month \in Months /\ e.used \in Nat /\ e.month \notin lost
        BY <3>2, ListedAreEntries, LostStep DEF Entry
      <4>2. e.used >= crossed[e.month] => e.crossed
        BY <3>2, <4>1 DEF FlagInv, FlagNotBehindCount
      <4>3. CASE crossed'[e.month] = crossed[e.month]
        BY <4>2, <4>3
      <4>4. CASE crossed'[e.month] # crossed[e.month]
        <5>1. Check /\ e.month = month
          <6>1. e.month = month
            BY <4>1, <4>4, AdmittedStep
          <6>2. CASE crossed' = crossed
            BY <4>4, <6>2
          <6>3. ASSUME NEW n \in Asked, Ask(n)
                PROVE  crossed' = crossed
            BY <6>3 DEF Ask, history
          <6> QED
            BY <6>1, <6>2, <6>3
               DEF Next, Rollup, Turn, Lose, ReadCount, ReadFlag, RedisFails, ReadHistory,
                   HistoryFails, history, vars
        <5>2. crossed'[month] = counter[month] + 1
          BY <3>1, <4>4, <5>1 DEF Check, TypeInv
        <5>3. counter[month] = admitted[month]
          BY <3>1, <4>1, <5>1 DEF FinalInv, FinalOK
        <5>4. e.used <= admitted[month]
          BY <3>2, <5>1 DEF CountsInv, NothingInvented
        <5>5. counter[month] \in Nat
          BY <3>1 DEF TypeInv
        <5> QED
          BY <4>1, <5>1, <5>2, <5>3, <5>4, <5>5
      <4> QED
        BY <4>3, <4>4
    <3>3. CASE ReadFlag
      <4>1. e = Live(FlagMonth \in flag)
        BY <3>3, ListMoves
      <4>2. e.month = report.month /\ e.used = report.used /\ e.crossed = (report.month \in flag)
        BY <4>1 DEF Live, FlagMonth
      <4>3. UNCHANGED <<crossed, lost>>
        BY <3>3 DEF ReadFlag, history
      <4>4. report.month \in {month, month - 1} /\ report.month \in Months
        BY <3>1, <3>3 DEF ReadFlag, ShapeInv, Working, Report
      <4>5. report.used <= admitted[report.month] /\ report.used \in Nat
        BY <3>1, <3>3 DEF ReadFlag, CountsInv, Report
      <4>6. crossed[report.month] # NotYet
        <5>1. admitted[report.month] \in 0 .. MaxUsed
          BY <4>4 DEF TypeInv
        <5> QED
          BY <4>2, <4>3, <4>5, <5>1, UsageBounds DEF NotYet
      <4>7. report.month \in flag
        BY <2>1, <3>1, <4>2, <4>3, <4>4, <4>6 DEF FlagInv, FlagOK
      <4> QED
        BY <4>2, <4>7
    <3>4. CASE ReadHistory /\ e \notin Listed
      <4>1. PICK m \in Page : e = RowEntry(m)
        BY <3>4, ReportGains
      <4> QED
        BY <4>1 DEF RowEntry
    <3> QED
      BY <3>2, <3>3, <3>4, ListMoves
  <2> QED
    BY <2>1, <2>2 DEF FlagInv
<1> QED
  BY <1>1, <1>2, TypeInvariant, ShapeInvariant, CountsInvariant, FinalInvariant, PTL DEF Spec

\* The flag is read after the counter and of the same month: a live month whose count has
\* reached the crossing is never reported as not having crossed.
THEOREM FlagKeepsUp == Spec => []FlagNotBehindCount
<1>1. FlagInv => FlagNotBehindCount
  BY DEF FlagInv
<1> QED
  BY <1>1, FlagInvariant, PTL
=============================================================================
