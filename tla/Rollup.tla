------------------------------ MODULE Rollup ------------------------------
(***************************************************************************)
(* The monthly rollup, app/services/rollup.py, against the check path that *)
(* keeps counting while it runs.                                           *)
(*                                                                         *)
(* A run takes an advisory lock in Redis, scans the quota counters, raises *)
(* the rollup rows in SQLite, means to restore lost counters, and inserts  *)
(* the soft warnings whose outbox row is missing.  Every Redis command and *)
(* every SQL statement is a step of its own: other processes run between   *)
(* any two.  One month; a check costs one.                                 *)
(***************************************************************************)
EXTENDS Integers, FiniteSets

CONSTANTS
  Keys,        \* API keys that have a soft threshold
  Runners,     \* processes whose scheduler runs the rollup
  Soft,        \* the absolute soft threshold
  RunsFitTTL,  \* whether a run always ends before its lock expires
  Decodes,     \* whether the pool may decode what GET returns, or not
  Losses,      \* whether Redis may lose its data
  MaxUsed,     \* bound: checks admitted per key
  MaxFaults    \* bound: errors, crashes and losses

NoOne == "no one"
NoRow == -1
Idle == [pc |-> "idle"]

ASSUME RunnersAssumption == NoOne \notin Runners
ASSUME SoftAssumption == Soft \in Nat \ {0}
ASSUME SettingsAssumption ==
  RunsFitTTL \in BOOLEAN /\ Losses \in BOOLEAN /\ Decodes \subseteq BOOLEAN
ASSUME RollupBounds == MaxUsed \in Nat /\ MaxFaults \in Nat

VARIABLES
  quota,      \* qg:q:{key}:{month}, 0 when absent
  flag,       \* whether qg:f:{key}:{month} is set
  lock,       \* qg:lock:rollup: the run that set it, or NoOne
  rollup,     \* rollups.used, or NoRow
  outbox,     \* the `used` of the key's webhook_outbox row, or NoRow
  warning,    \* the `used` of a crossing the check path has yet to enqueue
  run,        \* where each run is, and what it has read
  decodes,    \* whether this pool decodes
  admitted,   \* history: checks admitted
  lost,       \* history: whether Redis lost its data
  overlapped, \* history: whether two runs were ever under way at once
  faults      \* bound: faults so far

vars == <<quota, flag, lock, rollup, outbox, warning, run, decodes, admitted,
          lost, overlapped, faults>>

Running == {r \in Runners : run[r].pc # "idle"}

-----------------------------------------------------------------------------
(* The check path                                                          *)

\* What check.lua does to the counter and the flag when it admits.
Check(k) ==
  /\ admitted[k] < MaxUsed
  /\ quota' = [quota EXCEPT ![k] = @ + 1]
  /\ admitted' = [admitted EXCEPT ![k] = @ + 1]
  /\ IF quota[k] < Soft /\ quota[k] + 1 >= Soft /\ ~flag[k]
     THEN /\ flag' = [flag EXCEPT ![k] = TRUE]
          /\ warning' = [warning EXCEPT ![k] = quota[k] + 1]
     ELSE UNCHANGED <<flag, warning>>
  /\ UNCHANGED <<lock, rollup, outbox, run, decodes, lost, overlapped, faults>>

\* The unique constraint turns a second row into an IntegrityError: a no-op.
Inserted(k, used) == IF outbox[k] = NoRow THEN [outbox EXCEPT ![k] = used] ELSE outbox

\* enqueue_soft_warning
Enqueue(k) ==
  /\ warning[k] # NoRow
  /\ outbox' = Inserted(k, warning[k])
  /\ warning' = [warning EXCEPT ![k] = NoRow]
  /\ UNCHANGED <<quota, flag, lock, rollup, run, decodes, admitted, lost, overlapped, faults>>

Fault == faults < MaxFaults /\ faults' = faults + 1

\* The insert fails, or the process ends before it.
EnqueueFails(k) ==
  /\ warning[k] # NoRow
  /\ Fault
  /\ warning' = [warning EXCEPT ![k] = NoRow]
  /\ UNCHANGED <<quota, flag, lock, rollup, outbox, run, decodes, admitted, lost, overlapped>>

-----------------------------------------------------------------------------
(* The rollup                                                              *)

Go(r, next) == run' = [run EXCEPT ![r] = next]

Others(r) == Running \ {r}

SlipLockFree == TRUE
LockFree == lock = NoOne

\* SET NX PX; a run that does not get the lock is skipped.
Acquire(r) ==
  /\ run[r].pc = "idle"
  /\ LockFree
  /\ lock' = r
  /\ Go(r, [pc |-> "scan", todo |-> Keys, read |-> [k \in Keys |-> 0]])
  /\ overlapped' = (overlapped \/ Others(r) # {})
  /\ UNCHANGED <<quota, flag, rollup, outbox, warning, decodes, admitted, lost, faults>>

\* SCAN and GET, one key at a time.
Scan(r) ==
  /\ run[r].pc = "scan"
  /\ IF run[r].todo = {}
     THEN Go(r, [pc |-> "upsert", read |-> run[r].read,
                 todo |-> {k \in Keys : run[r].read[k] > 0}])
     ELSE \E k \in run[r].todo :
            Go(r, [pc |-> "scan", todo |-> run[r].todo \ {k},
                   read |-> [run[r].read EXCEPT ![k] = quota[k]]])
  /\ UNCHANGED <<quota, flag, lock, rollup, outbox, warning, decodes, admitted,
                 lost, overlapped, faults>>

\* upsert_rollup: the SELECT
Select(r) ==
  /\ run[r].pc = "upsert"
  /\ IF run[r].todo = {}
     THEN Go(r, [pc |-> "restore", todo |-> {k \in Keys : rollup[k] # NoRow}])
     ELSE \E k \in run[r].todo :
            Go(r, [pc |-> "write", key |-> k, seen |-> rollup[k],
                   todo |-> run[r].todo \ {k}, read |-> run[r].read])
  /\ UNCHANGED <<quota, flag, lock, rollup, outbox, warning, decodes, admitted,
                 lost, overlapped, faults>>

SlipRaises(seen, used) == used # seen
SlipRaisesLate(seen, used) == used > seen + 1
Raises(seen, used) == used > seen

\* upsert_rollup: the UPDATE or the INSERT.  An INSERT that finds a row raises,
\* and the rest of the run is skipped.
Write(r) ==
  /\ run[r].pc = "write"
  /\ LET k == run[r].key
         used == run[r].read[k]
         upsert == [pc |-> "upsert", todo |-> run[r].todo, read |-> run[r].read]
     IN  IF run[r].seen = NoRow /\ rollup[k] # NoRow
         THEN Go(r, [pc |-> "release"]) /\ UNCHANGED rollup
         ELSE /\ Go(r, upsert)
              /\ rollup' = IF run[r].seen = NoRow \/ Raises(run[r].seen, used)
                           THEN [rollup EXCEPT ![k] = used] ELSE rollup
  /\ UNCHANGED <<quota, flag, lock, outbox, warning, decodes, admitted, lost,
                 overlapped, faults>>

\* restore_from_rollup: the registry has no attribute `scripts`, the error is
\* caught, and no counter is restored.
Restore(r) ==
  /\ run[r].pc = "restore"
  /\ IF run[r].todo = {}
     THEN Go(r, [pc |-> "flags"])
     ELSE \E k \in run[r].todo :
            Go(r, [pc |-> "restore", todo |-> run[r].todo \ {k}])
  /\ UNCHANGED <<quota, flag, lock, rollup, outbox, warning, decodes, admitted,
                 lost, overlapped, faults>>

ScanFlags(r) ==
  /\ run[r].pc = "flags"
  /\ Go(r, [pc |-> "reconcile", todo |-> {k \in Keys : flag[k]}])
  /\ UNCHANGED <<quota, flag, lock, rollup, outbox, warning, decodes, admitted,
                 lost, overlapped, faults>>

SlipMissing(k) == rollup[k] = NoRow
Missing(k) == outbox[k] = NoRow

\* reconcile_soft_webhooks: is there a row for the flag?
Look(r) ==
  /\ run[r].pc = "reconcile"
  /\ IF run[r].todo = {} THEN Go(r, [pc |-> "release"])
     ELSE \E k \in run[r].todo :
            Go(r, IF Missing(k)
                  THEN [pc |-> "read", key |-> k, todo |-> run[r].todo \ {k}]
                  ELSE [pc |-> "reconcile", todo |-> run[r].todo \ {k}])
  /\ UNCHANGED <<quota, flag, lock, rollup, outbox, warning, decodes, admitted,
                 lost, overlapped, faults>>

SlipCounter(k) == rollup[k]
Counter(k) == quota[k]

\* GET the counter; one that is gone counts as 0.
ReadUsed(r) ==
  /\ run[r].pc = "read"
  /\ Go(r, [pc |-> "insert", key |-> run[r].key, used |-> Counter(run[r].key),
            todo |-> run[r].todo])
  /\ UNCHANGED <<quota, flag, lock, rollup, outbox, warning, decodes, admitted,
                 lost, overlapped, faults>>

InsertMissed(r) ==
  /\ run[r].pc = "insert"
  /\ outbox' = Inserted(run[r].key, run[r].used)
  /\ Go(r, [pc |-> "reconcile", todo |-> run[r].todo])
  /\ UNCHANGED <<quota, flag, lock, rollup, warning, decodes, admitted, lost,
                 overlapped, faults>>

\* GET compares bytes with a string unless the pool decodes.
Owns(r) == decodes /\ lock = r

\* release_lock: no script registry is ever set on the pool, so the GET and the
\* DEL are two commands.
Compare(r) ==
  /\ run[r].pc = "release"
  /\ Go(r, IF Owns(r) THEN [pc |-> "delete"] ELSE Idle)
  /\ UNCHANGED <<quota, flag, lock, rollup, outbox, warning, decodes, admitted,
                 lost, overlapped, faults>>

Delete(r) ==
  /\ run[r].pc = "delete"
  /\ lock' = NoOne
  /\ Go(r, Idle)
  /\ UNCHANGED <<quota, flag, rollup, outbox, warning, decodes, admitted, lost,
                 overlapped, faults>>

\* Redis or SQLite fails.  The reconciliation goes on with the next flag when it cannot
\* read the counter; otherwise the run goes on to release the lock.  A failed insert is
\* caught, but its session is not rolled back and the next query raises.
Error(r) ==
  /\ Fault
  /\ \/ /\ run[r].pc = "read"
        /\ Go(r, [pc |-> "reconcile", todo |-> run[r].todo])
     \/ /\ run[r].pc \notin {"idle", "read", "release", "delete"}
        /\ Go(r, [pc |-> "release"])
  /\ UNCHANGED <<quota, flag, lock, rollup, outbox, warning, decodes, admitted,
                 lost, overlapped>>

\* The process ends, or Redis fails while the lock is released.
Crash(r) ==
  /\ r \in Running
  /\ Fault
  /\ Go(r, Idle)
  /\ UNCHANGED <<quota, flag, lock, rollup, outbox, warning, decodes, admitted,
                 lost, overlapped>>

-----------------------------------------------------------------------------
(* Redis                                                                   *)

LockExpires ==
  /\ lock # NoOne
  /\ RunsFitTTL => lock \notin Running
  /\ lock' = NoOne
  /\ UNCHANGED <<quota, flag, rollup, outbox, warning, run, decodes, admitted,
                 lost, overlapped, faults>>

\* FLUSHDB, or a restart without persistence.
Loss ==
  /\ Losses
  /\ Fault
  /\ quota' = [k \in Keys |-> 0]
  /\ flag' = [k \in Keys |-> FALSE]
  /\ lock' = NoOne
  /\ lost' = TRUE
  /\ UNCHANGED <<rollup, outbox, warning, run, decodes, admitted, overlapped>>

Init ==
  /\ quota = [k \in Keys |-> 0]
  /\ flag = [k \in Keys |-> FALSE]
  /\ lock = NoOne
  /\ rollup = [k \in Keys |-> NoRow]
  /\ outbox = [k \in Keys |-> NoRow]
  /\ warning = [k \in Keys |-> NoRow]
  /\ run = [r \in Runners |-> Idle]
  /\ decodes \in Decodes
  /\ admitted = [k \in Keys |-> 0]
  /\ lost = FALSE
  /\ overlapped = FALSE
  /\ faults = 0

Step(r) ==
  \/ Acquire(r) \/ Scan(r) \/ Select(r) \/ Write(r) \/ Restore(r) \/ ScanFlags(r)
  \/ Look(r) \/ ReadUsed(r) \/ InsertMissed(r) \/ Compare(r) \/ Delete(r)

Next ==
  \/ \E k \in Keys : Check(k) \/ Enqueue(k) \/ EnqueueFails(k)
  \/ \E r \in Runners : Step(r) \/ Error(r) \/ Crash(r)
  \/ LockExpires
  \/ Loss

Spec == Init /\ [][Next]_vars

\* The scheduler's loop runs the rollup again and again, a run that started
\* goes on, and Redis expires the lock.
Fairness == (\A r \in Runners : WF_vars(Step(r))) /\ WF_vars(LockExpires)

FairSpec == Spec /\ Fairness

-----------------------------------------------------------------------------
(* Properties                                                              *)

\* One run at a time, however the runs before it ended, as long as they end
\* before their lock expires and Redis keeps the lock.
OneRun == RunsFitTTL /\ ~lost => Cardinality(Running) <= 1

\* rollups.used is only ever raised, even when a lost counter starts again from
\* zero, as long as no two runs overlap.
UsedOnlyRaised == [][~overlapped => \A k \in Keys : rollup'[k] >= rollup[k]]_rollup

\* The claim of the model's docstring, whatever the lock does.
UsedNeverLowered == [][\A k \in Keys : rollup'[k] >= rollup[k]]_rollup

\* Nothing is invented: a warning names a usage the key really reached and, as
\* long as no data was lost, one at or above its threshold.
WarningIsTrue ==
  \A k \in Keys : outbox[k] # NoRow =>
    /\ outbox[k] <= admitted[k]
    /\ lost \/ outbox[k] >= Soft

\* The warning the script reported is sent on even when the check path failed to
\* enqueue it, unless the flag is lost first.
WarningIsKept == \A k \in Keys : flag[k] ~> (outbox[k] # NoRow \/ lost)

\* Every count is persisted in the end, unless it is lost first: the first one of
\* the month and the last one.
CountIsKept ==
  \A k \in Keys : \A n \in {1, MaxUsed} : quota[k] = n ~> (rollup[k] >= n \/ lost)
=============================================================================
