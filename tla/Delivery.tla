----------------------------- MODULE Delivery -----------------------------
(***************************************************************************)
(* Webhook delivery, app/services/webhooks.py, as the scheduler's loop     *)
(* runs it: one pass after another, each over a batch of due outbox rows.  *)
(* The process may end, or SQLite fail, between the POST and the commit    *)
(* that records it.                                                        *)
(*                                                                         *)
(* Time is in ticks.  A row keeps how long it has to wait instead of its   *)
(* next_attempt_at, so no clock needs a bound.                             *)
(***************************************************************************)
EXTENDS Integers, FiniteSets, FiniteSetsExt

CONSTANTS
  Rows,         \* ids of outbox rows
  Batch,        \* BATCH_SIZE
  MaxAttempts,  \* WEBHOOK_MAX_ATTEMPTS
  Base,         \* BASE_BACKOFF_SECONDS
  MaxBackoff,   \* MAX_BACKOFF_SECONDS
  MaxHookless,  \* bound: rows whose plan loses its webhook_url
  MaxFaults     \* bound: crashes and database errors

MAX_DOUBLINGS == 17

ASSUME RowsAssumption == Rows \subseteq Nat
ASSUME DeliveryAssumption ==
  /\ Batch \in Nat \ {0} /\ MaxAttempts \in Nat \ {0}
  /\ Base \in Nat \ {0} /\ MaxBackoff \in 1 .. Base * 2^MAX_DOUBLINGS
ASSUME DeliveryBounds == MaxHookless \in Nat /\ MaxFaults \in Nat

VARIABLES
  row,      \* the outbox
  hook,     \* whether the plan of the row's key has a webhook_url
  pass,     \* the pass under way: the rows it has left, and the one in hand
  posts,    \* history: POSTs made for a row
  acks,     \* history: POSTs the endpoint accepted
  since,    \* history: ticks since the row's last failure was recorded
  faults    \* bound: faults so far

vars == <<row, hook, pass, posts, acks, since, faults>>

Absent == [attempts |-> -1]
Exists(r) == row[r] # Absent
Settled(r) == Exists(r) /\ (row[r].delivered \/ row[r].attempts >= MaxAttempts)

Asleep == [pc |-> "asleep"]

-----------------------------------------------------------------------------
(* The backoff schedule                                                    *)

LeastOf(a, b) == IF a < b THEN a ELSE b

SlipBackoff(n) == LeastOf(Base * 2^(n - 1), MaxBackoff) - 1

\* compute_next_attempt without its jitter, after n attempts
Backoff(n) == LeastOf(Base * 2^LeastOf(n - 1, MAX_DOUBLINGS), MaxBackoff)

\* With a jitter factor between 0.8 and 1.2.
Jittered(b) == {d \in 0 .. 2 * b : 4 * b <= 5 * d /\ 5 * d <= 6 * b}

LongestWait == MaxBackoff

-----------------------------------------------------------------------------
(* The steps                                                               *)

Enqueue(r) ==
  /\ ~Exists(r)
  /\ row' = [row EXCEPT ![r] = [attempts |-> 0, wait |-> 0, delivered |-> FALSE]]
  /\ UNCHANGED <<hook, pass, posts, acks, since, faults>>

\* An admin sets quota_soft_pct to 0 and clears webhook_url.
Unhook(r) ==
  /\ hook[r]
  /\ Cardinality({s \in Rows : ~hook[s]}) < MaxHookless
  /\ hook' = [hook EXCEPT ![r] = FALSE]
  /\ UNCHANGED <<row, pass, posts, acks, since, faults>>

SlipDue == {r \in Rows : Exists(r) /\ row[r].wait = 0 /\ row[r].attempts < MaxAttempts}
SlipDueEarly == {r \in Rows : /\ Exists(r) /\ ~row[r].delivered /\ row[r].wait = 0
                              /\ row[r].attempts + 1 < MaxAttempts}
Due == {r \in Rows : /\ Exists(r) /\ ~row[r].delivered /\ row[r].wait = 0
                     /\ row[r].attempts < MaxAttempts}

\* LIMIT without ORDER BY: SQLite scans the table by id.
FirstRows(S) == {r \in S : Cardinality({s \in S : s < r}) < Batch}

Begin ==
  /\ pass.pc = "asleep"
  /\ pass' = [pc |-> "work", todo |-> FirstRows(Due)]
  /\ UNCHANGED <<row, hook, posts, acks, since, faults>>

\* A row whose plan has no webhook_url is skipped and left as it is.
Skip ==
  /\ pass.pc = "work" /\ pass.todo # {}
  /\ ~hook[Min(pass.todo)]
  /\ pass' = [pass EXCEPT !.todo = @ \ {Min(@)}]
  /\ UNCHANGED <<row, hook, posts, acks, since, faults>>

\* The endpoint answers 2xx or it does not: another status, an error, a timeout.
Post(ok) ==
  /\ pass.pc = "work" /\ pass.todo # {}
  /\ LET r == Min(pass.todo)
     IN  /\ hook[r]
         /\ pass' = [pc |-> "record", row |-> r, ok |-> ok, todo |-> pass.todo \ {r}]
         /\ posts' = [posts EXCEPT ![r] = @ + 1]
         /\ acks' = IF ok THEN [acks EXCEPT ![r] = @ + 1] ELSE acks
  /\ UNCHANGED <<row, hook, since, faults>>

Failed(r, wait) ==
  [attempts |-> row[r].attempts + 1, wait |-> wait, delivered |-> row[r].delivered]

Resume == pass' = [pc |-> "work", todo |-> pass.todo]

Record ==
  /\ pass.pc = "record"
  /\ Resume
  /\ LET r == pass.row
     IN  IF pass.ok
         THEN row' = [row EXCEPT ![r].delivered = TRUE] /\ UNCHANGED since
         ELSE /\ \E wait \in Jittered(Backoff(row[r].attempts + 1)) :
                   row' = [row EXCEPT ![r] = Failed(r, wait)]
              /\ since' = [since EXCEPT ![r] = 0]
  /\ UNCHANGED <<hook, posts, acks, faults>>

End ==
  /\ pass.pc = "work" /\ pass.todo = {}
  /\ pass' = Asleep
  /\ UNCHANGED <<row, hook, posts, acks, since, faults>>

\* The process ends, or a database error ends the pass.
Fault ==
  /\ pass.pc # "asleep"
  /\ faults < MaxFaults
  /\ faults' = faults + 1
  /\ pass' = Asleep
  /\ UNCHANGED <<row, hook, posts, acks, since>>

Tick ==
  /\ row' = [r \in Rows |->
               IF Exists(r) /\ row[r].wait > 0 THEN [row[r] EXCEPT !.wait = @ - 1]
               ELSE row[r]]
  /\ since' = [r \in Rows |-> LeastOf(since[r] + 1, LongestWait)]
  /\ UNCHANGED <<hook, pass, posts, acks, faults>>

Init ==
  /\ row = [r \in Rows |-> Absent]
  /\ hook = [r \in Rows |-> TRUE]
  /\ pass = Asleep
  /\ posts = [r \in Rows |-> 0]
  /\ acks = [r \in Rows |-> 0]
  /\ since = [r \in Rows |-> LongestWait]
  /\ faults = 0

Deliver == Begin \/ Skip \/ (\E ok \in BOOLEAN : Post(ok)) \/ Record \/ End

Next ==
  \/ \E r \in Rows : Enqueue(r) \/ Unhook(r)
  \/ Deliver
  \/ Fault
  \/ Tick

Spec == Init /\ [][Next]_vars

\* The loop runs as long as the process does, and time passes.
FairSpec == Spec /\ WF_vars(Deliver) /\ WF_vars(Tick)

-----------------------------------------------------------------------------
(* Properties                                                              *)

\* No more POSTs than WEBHOOK_MAX_ATTEMPTS, and no more accepted ones than one:
\* only a fault between the POST and its record makes one more of each.
PostsBounded ==
  \A r \in Rows : posts[r] <= MaxAttempts + faults /\ acks[r] <= 1 + faults

\* The n-th retry comes no sooner than 0.8 * min(30 * 2^(n-1), 3600) seconds
\* after the failure before it was recorded, however passes and faults fall.
BackoffKept ==
  [][\A r \in Rows : posts'[r] > posts[r] /\ row[r].attempts > 0 =>
       LET n == row[r].attempts
       IN  5 * since[r] >= 4 * LeastOf(Base * 2^(n - 1), MaxBackoff)]_vars

\* Every row is delivered or exhausted in the end, unless its plan loses its
\* webhook, or rows without one that come before it fill the batch.
Settles ==
  \A r \in Rows :
    Exists(r) ~> \/ Settled(r) \/ ~hook[r]
                 \/ Cardinality({s \in Rows : s < r /\ ~hook[s]}) >= Batch

\* The same whatever the other rows are like: a failing row is retried up to
\* WEBHOOK_MAX_ATTEMPTS.
SettlesAlways == \A r \in Rows : Exists(r) ~> (Settled(r) \/ ~hook[r])
=============================================================================
