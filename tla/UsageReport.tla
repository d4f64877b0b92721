---------------------------- MODULE UsageReport ----------------------------
(***************************************************************************)
(* The usage report of one key, services/usage.py: the month that runs,    *)
(* from the counter and the flag in Redis, and then the rollup rows in     *)
(* SQLite.                                                                 *)
(*                                                                         *)
(* The report is put together from three reads.  Between any two of them   *)
(* checks count, a rollup runs, and the month may turn.  A rollup is one   *)
(* step here; module Rollup takes it apart.                                *)
(***************************************************************************)
EXTENDS Integers, Sequences, FiniteSets

CONSTANTS
  Asked,      \* values of the parameter `months`
  Soft,       \* the key's absolute soft threshold
  LastMonth,  \* bound: months explored
  MaxUsed,    \* bound: checks admitted per month
  MaxLosses   \* bound: losses of Redis's data

ASSUME AskedAssumption == Asked \subseteq Nat \ {0} /\ Soft \in Nat \ {0}
ASSUME UsageBounds == LastMonth \in Nat /\ MaxUsed \in Nat /\ MaxLosses \in Nat

VARIABLES
  month,     \* the month that runs
  counter,   \* qg:q:{key}:{month}, 0 where it is absent
  flag,      \* the months whose qg:f:{key}:{month} is set
  rows,      \* rollups.used by month, or NoRow
  report,    \* the report that is being made, or the last one made
  rolled,    \* whether a rollup has run since the month turned
  admitted,  \* history: checks admitted, by month
  crossed,   \* history: the count with which the threshold was crossed, by month
  lost,      \* history: months whose keys Redis may have lost
  final,     \* history: months that a rollup has seen after they were over
  losses     \* bound: losses so far

redis == <<counter, flag>>
history == <<admitted, crossed, lost, final>>
vars == <<month, redis, rows, report, rolled, history, losses>>

Months == 0 .. LastMonth
NoRow == -1
NotYet == MaxUsed + 1

-----------------------------------------------------------------------------
(* Around the report                                                       *)

Working == report.pc \in {"count", "flag", "history"}

\* check.lua, in so far as it counts and flags.
Check ==
  /\ admitted[month] < MaxUsed
  /\ counter' = [counter EXCEPT ![month] = @ + 1]
  /\ admitted' = [admitted EXCEPT ![month] = @ + 1]
  /\ IF counter[month] + 1 = Soft /\ month \notin flag
     THEN /\ flag' = flag \cup {month}
          /\ crossed' = [crossed EXCEPT ![month] = counter[month] + 1]
     ELSE UNCHANGED <<flag, crossed>>
  /\ UNCHANGED <<month, rows, report, rolled, lost, final, losses>>

\* A run that goes through: every counter that is there raises its month's row.
Rollup ==
  /\ rows' = [m \in Months |->
                IF counter[m] > 0 /\ counter[m] > rows[m] THEN counter[m] ELSE rows[m]]
  /\ final' = final \cup {m \in Months : m < month /\ m \notin lost}
  /\ rolled' = TRUE
  /\ UNCHANGED <<month, redis, report, admitted, crossed, lost, losses>>

\* Counters that expire with their month.
SlipOutlives(m, now) == m >= now

\* The 45 days of a quota key reach through the month after its own.
Outlives(m, now) == m >= now - 1

Without(months) ==
  /\ counter' = [m \in Months |-> IF m \in months THEN 0 ELSE counter[m]]
  /\ flag' = flag \ months

\* The month turns.  Its rollups are no further apart than a day, so at least one
\* has gone through.  A key two months old expires as early as now; it is never
\* older than that.  A report takes less than a month.
Turn ==
  /\ month < LastMonth
  /\ rolled
  /\ Working => ~report.turned
  /\ month' = month + 1
  /\ rolled' = FALSE
  /\ \/ Without({m \in Months : ~Outlives(m, month + 1)})
     \/ Without({m \in Months : ~Outlives(m, month)})
  /\ report' = [report EXCEPT !.turned = TRUE]
  /\ UNCHANGED <<rows, history, losses>>

Lose ==
  /\ losses < MaxLosses
  /\ losses' = losses + 1
  /\ Without(Months)
  /\ lost' = lost \cup 0 .. month
  /\ UNCHANGED <<month, rows, report, rolled, admitted, crossed, final>>

-----------------------------------------------------------------------------
(* The report                                                              *)

\* get_usage_report, for a key that exists.
Ask(n) ==
  /\ ~Working
  /\ report' = [pc |-> "count", months |-> n, list |-> <<>>, month |-> month, used |-> 0,
                turned |-> FALSE, asked |-> month, final |-> final]
  /\ UNCHANGED <<month, redis, rows, rolled, history, losses>>

\* get_live_usage: the month is taken from the clock once.  Without a counter the
\* report has no live month.
ReadCount ==
  /\ report.pc = "count"
  /\ report' = [report EXCEPT !.month = month, !.used = counter[month],
                  !.pc = IF counter[month] > 0 THEN "flag" ELSE "history"]
  /\ UNCHANGED <<month, redis, rows, rolled, history, losses>>

\* The month is taken from the clock again.
SlipFlagMonth == month
FlagMonth == report.month

Live(crossing) ==
  [month |-> report.month, used |-> report.used, crossed |-> crossing, source |-> "live"]

\* A month that is named after the counter was read.
SlipReadFlag ==
  /\ report.pc = "flag"
  /\ report' = [report EXCEPT !.pc = "history",
                  !.list = <<[Live(FlagMonth \in flag) EXCEPT !.month = month]>>]
  /\ UNCHANGED <<month, redis, rows, rolled, history, losses>>

ReadFlag ==
  /\ report.pc = "flag"
  /\ report' = [report EXCEPT !.pc = "history", !.list = <<Live(FlagMonth \in flag)>>]
  /\ UNCHANGED <<month, redis, rows, rolled, history, losses>>

\* An error of Redis, even after the counter was read, leaves the live month out.
RedisFails ==
  /\ report.pc \in {"count", "flag"}
  /\ report' = [report EXCEPT !.pc = "history"]
  /\ UNCHANGED <<month, redis, rows, rolled, history, losses>>

\* The live month takes one of the places, and so may its row.
Places == report.months - 1

\* Most recent first.
Precedes(m, k) == m > k

Rank(m) == Cardinality({k \in Months : rows[k] # NoRow /\ Precedes(k, m)}) + 1

\* get_rollup_history: the most recent rows, as many as there are places.
History ==
  LET listed == {m \in Months : rows[m] # NoRow /\ Rank(m) <= Places}
      At(i) == CHOOSE m \in listed : Rank(m) = i
  IN  [i \in 1 .. Cardinality(listed) |->
         [month |-> At(i), used |-> rows[At(i)], crossed |-> FALSE, source |-> "rollup"]]

ReadHistory ==
  /\ report.pc = "history"
  /\ report' = [report EXCEPT !.pc = "done", !.list = @ \o History]
  /\ UNCHANGED <<month, redis, rows, rolled, history, losses>>

\* An error of SQLite leaves the history out.
HistoryFails ==
  /\ report.pc = "history"
  /\ report' = [report EXCEPT !.pc = "partial"]
  /\ UNCHANGED <<month, redis, rows, rolled, history, losses>>

-----------------------------------------------------------------------------

Init ==
  /\ month = 0
  /\ counter = [m \in Months |-> 0]
  /\ flag = {}
  /\ rows = [m \in Months |-> NoRow]
  /\ report = [pc |-> "none", months |-> 1, list |-> <<>>, month |-> 0, used |-> 0,
               turned |-> FALSE, asked |-> 0, final |-> {}]
  /\ rolled = FALSE
  /\ admitted = [m \in Months |-> 0]
  /\ crossed = [m \in Months |-> NotYet]
  /\ lost = {} /\ final = {}
  /\ losses = 0

Next ==
  \/ Check \/ Rollup \/ Turn \/ Lose
  \/ \E n \in Asked : Ask(n)
  \/ ReadCount \/ ReadFlag \/ RedisFails \/ ReadHistory \/ HistoryFails

Spec == Init /\ [][Next]_vars

-----------------------------------------------------------------------------
(* Properties                                                              *)

Listed == {report.list[i] : i \in DOMAIN report.list}
FromRollup == {e \in Listed : e.source = "rollup"}

\* No month is reported with more than was admitted in it, though the month may
\* turn between the reads.
NothingInvented == \A e \in Listed : e.used <= admitted[e.month]

\* A month that is over is reported with all that was admitted in it once a rollup
\* has gone through, unless Redis lost it first: its counter outlives it for
\* long enough, and the live figure of a month is never the last word.
ClosedMonthsAreFinal ==
  \A e \in FromRollup : e.month \in report.final => e.used = admitted[e.month]

\* The flag is read after the counter: a live month whose count has reached the
\* crossing is never reported as not having crossed.
FlagNotBehindCount ==
  \A e \in Listed :
    e.source = "live" /\ e.month \notin lost /\ e.used >= crossed[e.month] => e.crossed

\* The months asked for, before the one that runs.
Prior == report.asked - (report.months - 1) .. report.asked - 1

\* Asked for n months, the report gives one entry to each of the last n, the current one
\* live and the prior ones from rollups, most recent first: as long as the current month
\* is listed live and all the prior ones had traffic that a rollup has closed.
MonthsAsAsked ==
  /\ report.pc = "done" /\ ~report.turned
  /\ \E e \in Listed : e.source = "live"
  /\ \A m \in Prior : m \in report.final /\ admitted[m] > 0
  => /\ DOMAIN report.list = 1 .. report.months
     /\ \A i \in DOMAIN report.list :
          /\ report.list[i].month = report.asked - (i - 1)
          /\ report.list[i].source = IF i = 1 THEN "live" ELSE "rollup"
=============================================================================
