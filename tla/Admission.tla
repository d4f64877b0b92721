----------------------------- MODULE Admission -----------------------------
(***************************************************************************)
(* What the admission script promises, for one key on one plan: a bucket   *)
(* that fills by itself, the log of what was admitted, and the month's     *)
(* spending.  There is no Redis here: no keys, no expiry, no lazy refill,  *)
(* no trimming and no flag.  CheckScriptRefinement shows that the script   *)
(* implements it.                                                          *)
(***************************************************************************)
EXTENDS Integers, FiniteSets

CONSTANTS
  Resources, Costs,
  Unit,      \* microtokens in a token
  Full,      \* microtokens a full bucket holds
  Rate,      \* microtokens it gains per tick
  Limit,     \* requests admitted per window
  Window,    \* ticks in a window
  Hard,      \* the monthly quota
  Soft,      \* its soft threshold, 0 for none
  MonthLen,  \* ticks in a month
  MaxTime    \* bound: ticks explored

VARIABLES
  clock,     \* time
  level,     \* microtokens in the bucket of each resource
  late,      \* 1 when the next tick is not credited to the resource
  admitted,  \* the requests admitted on each resource: when, and the total then
  total,     \* the cost admitted on each resource
  spent,     \* the cost admitted in each month
  verdict    \* the last decision

vars == <<clock, level, late, admitted, total, spent, verdict>>

Months == 0 .. (MaxTime \div MonthLen)
Month == clock \div MonthLen

Least(a, b) == IF a < b THEN a ELSE b

\* The requests admitted in the window that ends now.
Recent(r) == Cardinality({e \in admitted[r] : e.at >= clock - Window})

Init ==
  /\ clock = 0
  /\ level = [r \in Resources |-> Full]
  /\ late = [r \in Resources |-> 0]
  /\ admitted = [r \in Resources |-> {}]
  /\ total = [r \in Resources |-> 0]
  /\ spent = [m \in Months |-> 0]
  /\ verdict = [deny_layer |-> "none"]

Crosses(c) == Soft > 0 /\ spent[Month] < Soft /\ spent[Month] + c >= Soft

\* All three layers agree.  Rounding may cost the client one microtoken and the
\* credit of one tick, never the other way.
Admit(r, c) ==
  /\ level[r] >= c * Unit
  /\ Recent(r) < Limit
  /\ spent[Month] + c <= Hard
  /\ \E lost \in {0, 1}, behind \in {0, 1} :
       /\ level' = [level EXCEPT ![r] = @ - c * Unit - lost]
       /\ late' = [late EXCEPT ![r] = behind]
  /\ admitted' = [admitted EXCEPT ![r] =
                    @ \cup {[at |-> clock, upto |-> total[r] + c]}]
  /\ total' = [total EXCEPT ![r] = @ + c]
  /\ spent' = [spent EXCEPT ![Month] = @ + c]
  /\ verdict' = [deny_layer |-> "", soft_crossed |-> Crosses(c)]
  /\ UNCHANGED clock

\* Some layer refuses, and the first one is named.  Nothing is consumed.
Refuse(r, c) ==
  /\ \E layer \in {"burst", "sustained", "quota"} :
       /\ layer = "burst" => level[r] - 1 < c * Unit
       /\ layer # "burst" => level[r] >= c * Unit
       /\ layer = "sustained" => Recent(r) >= Limit
       /\ layer = "quota" => Recent(r) < Limit /\ spent[Month] + c > Hard
       /\ verdict' = [deny_layer |-> layer, soft_crossed |-> FALSE]
  /\ UNCHANGED <<clock, level, late, admitted, total, spent>>

Pass ==
  /\ clock < MaxTime
  /\ clock' = clock + 1
  /\ level' = [r \in Resources |->
                 IF late[r] = 1 THEN level[r] ELSE Least(Full, level[r] + Rate)]
  /\ late' = [r \in Resources |-> 0]
  /\ verdict' = [deny_layer |-> "none"]
  /\ UNCHANGED <<admitted, total, spent>>

Next ==
  \/ \E r \in Resources, c \in Costs : Admit(r, c) \/ Refuse(r, c)
  \/ Pass

Spec == Init /\ [][Next]_vars
=============================================================================
