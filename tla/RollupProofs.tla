---------------------------- MODULE RollupProofs ----------------------------
(***************************************************************************)
(* Proofs about the rollup that hold for every number of keys and runners, *)
(* every soft threshold and any number of errors, crashes and losses.      *)
(***************************************************************************)
EXTENDS Rollup, FiniteSetTheorems, TLAPS

\* Steps of the check path, which never see a run.
CheckPath == \E k \in Keys : Check(k) \/ Enqueue(k) \/ EnqueueFails(k)

-----------------------------------------------------------------------------
(* What each run has read                                                  *)

\* Counters and rows are of their types.
CountersOK ==
  /\ quota \in [Keys -> Nat] /\ admitted \in [Keys -> Nat]
  /\ flag \in [Keys -> BOOLEAN]
  /\ rollup \in [Keys -> Nat \cup {NoRow}]
  /\ outbox \in [Keys -> Nat \cup {NoRow}]
  /\ warning \in [Keys -> Nat \cup {NoRow}]
  /\ lost \in BOOLEAN /\ overlapped \in BOOLEAN

\* What a run holds at each of its commands.
RunOK(x) ==
  /\ x.pc \in {"scan", "upsert", "write"} => x.todo \subseteq Keys /\ x.read \in [Keys -> Nat]
  /\ x.pc \in {"read", "insert", "reconcile"} => x.todo \subseteq Keys
  /\ x.pc \in {"write", "read", "insert"} => x.key \in Keys
  /\ x.pc = "insert" => x.used \in Nat

\* Counters, rows, lock and runs are of their types.
TypeInv ==
  /\ CountersOK
  /\ DOMAIN run = Runners
  /\ \A r \in Runners : RunOK(run[r])

\* What one step of a run leaves in `run`.
LEMMA GoIsAll ==
  ASSUME TypeInv, NEW r \in Runners, NEW next, Go(r, next), RunOK(next)
  PROVE  Go(r, run'[r]) /\ RunOK(run'[r])
<1>1. run'[r] = next
  BY DEF TypeInv, Go
<1> QED
  BY <1>1

\* A step of a run leaves it at a stage with what belongs to it.
LEMMA RunSteps ==
  ASSUME TypeInv, NEW r \in Runners, Step(r) \/ Error(r) \/ Crash(r)
  PROVE  Go(r, run'[r]) /\ RunOK(run'[r])
<1> USE DEF RunOK
<1>0. RunOK(run[r]) /\ quota \in [Keys -> Nat]
  BY DEF TypeInv, CountersOK
<1>1. CASE Acquire(r)
  BY <1>1, GoIsAll DEF Acquire
<1>2. CASE Scan(r)
  <2>1. CASE run[r].todo = {}
    BY <1>0, <1>2, <2>1, GoIsAll DEF Scan
  <2>2. CASE run[r].todo # {}
    <3>1. PICK k \in run[r].todo :
            Go(r, [pc |-> "scan", todo |-> run[r].todo \ {k},
                   read |-> [run[r].read EXCEPT ![k] = quota[k]]])
      BY <1>2, <2>2 DEF Scan
    <3>2. /\ run[r].todo \ {k} \subseteq Keys
          /\ [run[r].read EXCEPT ![k] = quota[k]] \in [Keys -> Nat]
      BY <1>0, <1>2 DEF Scan
    <3> QED
      BY <3>1, <3>2, GoIsAll
  <2> QED
    BY <2>1, <2>2
<1>3. CASE Select(r)
  <2>1. CASE run[r].todo = {}
    BY <1>3, <2>1, GoIsAll DEF Select
  <2>2. CASE run[r].todo # {}
    <3>1. PICK k \in run[r].todo :
            Go(r, [pc |-> "write", key |-> k, seen |-> rollup[k],
                   todo |-> run[r].todo \ {k}, read |-> run[r].read])
      BY <1>3, <2>2 DEF Select
    <3>2. /\ run[r].todo \ {k} \subseteq Keys /\ k \in Keys
          /\ run[r].read \in [Keys -> Nat]
      BY <1>0, <1>3 DEF Select
    <3> QED
      BY <3>1, <3>2, GoIsAll
  <2> QED
    BY <2>1, <2>2
<1>4. CASE Write(r)
  BY <1>0, <1>4, GoIsAll DEF Write
<1>5. CASE Restore(r)
  BY <1>5, GoIsAll DEF Restore
<1>6. CASE ScanFlags(r)
  BY <1>6, GoIsAll DEF ScanFlags
<1>7. CASE Compare(r)
  BY <1>7, GoIsAll DEF Compare, Idle
<1>8. CASE Delete(r)
  BY <1>8, GoIsAll DEF Delete, Idle
<1>9. CASE Look(r)
  <2>1. CASE run[r].todo = {}
    BY <1>9, <2>1, GoIsAll DEF Look
  <2>2. CASE run[r].todo # {}
    <3>1. PICK k \in run[r].todo :
            \/ Go(r, [pc |-> "read", key |-> k, todo |-> run[r].todo \ {k}])
            \/ Go(r, [pc |-> "reconcile", todo |-> run[r].todo \ {k}])
      BY <1>9, <2>2 DEF Look
    <3>2. run[r].todo \ {k} \subseteq Keys /\ k \in Keys
      BY <1>0, <1>9 DEF Look
    <3> QED
      BY <3>1, <3>2, GoIsAll
  <2> QED
    BY <2>1, <2>2
<1>10. CASE ReadUsed(r)
  BY <1>0, <1>10, GoIsAll DEF ReadUsed, Counter
<1>11. CASE InsertMissed(r)
  BY <1>0, <1>11, GoIsAll DEF InsertMissed
<1>12. CASE Error(r)
  BY <1>0, <1>12, GoIsAll DEF Error
<1>13. CASE Crash(r)
  BY <1>13, GoIsAll DEF Crash, Idle
<1> QED
  BY <1>1, <1>2, <1>3, <1>4, <1>5, <1>6, <1>7, <1>8, <1>9, <1>10, <1>11, <1>12, <1>13
  DEF Step

\* Every step leaves counters and rows of their types.
LEMMA CountersStep ==
  ASSUME TypeInv, [Next]_vars
  PROVE  CountersOK'
<1> USE DEF TypeInv, CountersOK
<1>1. ASSUME NEW k \in Keys, Check(k)
      PROVE  CountersOK'
  <2>1. quota[k] + 1 \in Nat /\ admitted[k] + 1 \in Nat
    OBVIOUS
  <2>2. quota' \in [Keys -> Nat] /\ admitted' \in [Keys -> Nat]
    BY <1>1, <2>1 DEF Check
  <2>3. flag' \in [Keys -> BOOLEAN] /\ warning' \in [Keys -> Nat \cup {NoRow}]
    BY <1>1, <2>1 DEF Check
  <2> QED
    BY <1>1, <2>2, <2>3 DEF Check
<1>2. ASSUME NEW k \in Keys, Enqueue(k) \/ EnqueueFails(k)
      PROVE  CountersOK'
  BY <1>2 DEF Enqueue, EnqueueFails, Inserted
<1>3. ASSUME NEW r \in Runners, Acquire(r)
      PROVE  CountersOK'
  BY <1>3 DEF Acquire
<1>4. ASSUME NEW r \in Runners, Write(r)
      PROVE  CountersOK'
  BY <1>4 DEF Write, RunOK
<1>5. ASSUME NEW r \in Runners, InsertMissed(r)
      PROVE  CountersOK'
  BY <1>5 DEF InsertMissed, Inserted, RunOK
<1>6. ASSUME NEW r \in Runners,
             \/ Scan(r) \/ Select(r) \/ Restore(r) \/ ScanFlags(r) \/ Look(r)
             \/ ReadUsed(r) \/ Compare(r) \/ Delete(r) \/ Error(r) \/ Crash(r)
      PROVE  CountersOK'
  BY <1>6
  DEF Scan, Select, Restore, ScanFlags, Look, ReadUsed, Compare, Delete, Error, Crash
<1>7. CASE LockExpires \/ UNCHANGED vars
  BY <1>7 DEF LockExpires, vars
<1>8. CASE Loss
  BY <1>8 DEF Loss
<1> QED
  BY <1>1, <1>2, <1>3, <1>4, <1>5, <1>6, <1>7, <1>8 DEF Next, Step

\* Only runs move `run`.
LEMMA OthersKeepRuns ==
  ASSUME CheckPath \/ LockExpires \/ Loss \/ UNCHANGED vars
  PROVE  UNCHANGED run
BY DEF CheckPath, Check, Enqueue, EnqueueFails, LockExpires, Loss, vars

\* TypeInv holds in every behaviour.
LEMMA TypeInvariant == Spec => []TypeInv
<1>1. Init => TypeInv
  <2>1. Init => CountersOK
    <3> SUFFICES ASSUME Init PROVE CountersOK
      OBVIOUS
    <3>1. quota \in [Keys -> Nat] /\ admitted \in [Keys -> Nat] /\ flag \in [Keys -> BOOLEAN]
      BY DEF Init
    <3>2. [k \in Keys |-> NoRow] \in [Keys -> Nat \cup {NoRow}]
      OBVIOUS
    <3>3. lost \in BOOLEAN /\ overlapped \in BOOLEAN
      BY DEF Init
    <3> QED
      BY <3>1, <3>2, <3>3 DEF Init, CountersOK
  <2>2. Init => DOMAIN run = Runners /\ \A r \in Runners : RunOK(run[r])
    BY DEF Init, RunOK, Idle
  <2> QED
    BY <2>1, <2>2 DEF TypeInv
<1>2. ASSUME TypeInv, [Next]_vars
      PROVE  TypeInv'
  <2>1. CountersOK'
    BY <1>2, CountersStep
  <2>2. ASSUME NEW r \in Runners, Step(r) \/ Error(r) \/ Crash(r)
        PROVE  DOMAIN run' = Runners /\ \A o \in Runners : RunOK(run'[o])
    <3>1. Go(r, run'[r]) /\ RunOK(run'[r])
      BY <1>2, <2>2, RunSteps
    <3> QED
      BY <1>2, <3>1 DEF TypeInv, Go
  <2>3. CASE UNCHANGED run
    BY <1>2, <2>1, <2>3 DEF TypeInv
  <2> QED
    BY <1>2, <2>1, <2>2, <2>3, OthersKeepRuns DEF Next, CheckPath, TypeInv
<1> QED
  BY <1>1, <1>2, PTL DEF Spec

-----------------------------------------------------------------------------
(* The lock                                                                *)

\* A run holds the lock from its first command to its last.
LockHeld == \A r \in Running : lock = r
\* While runs fit the lock and Redis keeps it, whoever runs holds the lock.
LockInv == RunsFitTTL /\ ~lost => LockHeld

\* LockInv holds in every behaviour.
LEMMA LockInvariant == Spec => []LockInv
<1>1. Init => LockInv
  BY DEF Init, LockInv, LockHeld, Running, Idle
<1>2. ASSUME LockInv, TypeInv, [Next]_vars
      PROVE  LockInv'
  <2> SUFFICES ASSUME RunsFitTTL, ~lost'
               PROVE  LockHeld'
    BY DEF LockInv
  <2> USE DEF Running, LockHeld
  <2>1. ~lost => LockHeld
    BY <1>2 DEF LockInv
  <2>2. CASE Loss
    BY <2>2 DEF Loss
  <2>3. CASE LockExpires
    BY <2>1, <2>3 DEF LockExpires
  <2>4. CASE CheckPath
    BY <2>1, <2>4 DEF CheckPath, Check, Enqueue, EnqueueFails
  <2>5. ASSUME NEW r \in Runners, Step(r) \/ Error(r) \/ Crash(r)
        PROVE  LockHeld'
    <3>1. /\ run' = [run EXCEPT ![r] = run'[r]]
          /\ DOMAIN run = Runners
          /\ UNCHANGED lost
      BY <1>2, <2>5, RunSteps
      DEF TypeInv, Go, Step, Acquire, Scan, Select, Write, Restore, ScanFlags, Look,
          ReadUsed, InsertMissed, Compare, Delete, Error, Crash
    <3>2. CASE Acquire(r)
      BY <1>2, <2>1, <3>1, <3>2, RunnersAssumption DEF Acquire, LockFree
    <3>3. CASE Delete(r)
      BY <1>2, <2>1, <3>1, <3>3 DEF Delete, Go, Idle
    <3>4. CASE ~Acquire(r) /\ ~Delete(r)
      <4>1. UNCHANGED lock /\ r \in Running
        BY <2>5, <3>4
        DEF Step, Scan, Select, Write, Restore, ScanFlags, Look, ReadUsed,
            InsertMissed, Compare, Error, Crash
      <4> QED
        BY <2>1, <3>1, <4>1
    <3> QED
      BY <3>2, <3>3, <3>4
  <2>6. CASE UNCHANGED vars
    BY <2>1, <2>6 DEF vars
  <2> QED
    BY <1>2, <2>2, <2>3, <2>4, <2>5, <2>6 DEF Next, CheckPath
<1> QED
  BY <1>1, <1>2, TypeInvariant, PTL DEF Spec

\* One rollup at a time for any number of processes, however the runs before it
\* ended, as long as a run ends before its lock expires and Redis keeps the lock.
THEOREM OneRunAtATime == Spec => []OneRun
<1>1. ASSUME LockInv
      PROVE  OneRun
  <2> SUFFICES ASSUME RunsFitTTL, ~lost
               PROVE  Cardinality(Running) <= 1
    BY DEF OneRun
  <2>1. Running \subseteq {lock}
    BY <1>1 DEF LockInv, LockHeld
  <2>2. IsFiniteSet({lock}) /\ Cardinality({lock}) = 1
    BY FS_Singleton
  <2>3. IsFiniteSet(Running) /\ Cardinality(Running) <= Cardinality({lock})
    BY <2>1, <2>2, FS_Subset
  <2> QED
    BY <2>2, <2>3
<1> QED
  BY <1>1, LockInvariant, PTL

-----------------------------------------------------------------------------
(* The rows                                                                *)

Alone == \A r, o \in Running : r = o

\* A run that is alone has read the row it is about to write.
SeenInv ==
  ~overlapped =>
    /\ Alone
    /\ \A r \in Runners : run[r].pc = "write" => run[r].seen = rollup[run[r].key]

\* SeenInv holds in every behaviour.
LEMMA SeenInvariant == Spec => []SeenInv
<1>1. Init => SeenInv
  BY DEF Init, SeenInv, Alone, Running, Idle
<1>2. ASSUME SeenInv, TypeInv, [Next]_vars
      PROVE  SeenInv'
  <2>1. ASSUME NEW r \in Runners, Step(r) \/ Error(r) \/ Crash(r), ~overlapped'
        PROVE  SeenInv'
    <3>1. /\ run' = [run EXCEPT ![r] = run'[r]]
          /\ DOMAIN run = Runners
      BY <1>2, <2>1, RunSteps DEF TypeInv, Go
    <3>2. ~overlapped
      BY <2>1
      DEF Step, Acquire, Scan, Select, Write, Restore, ScanFlags, Look, ReadUsed,
          InsertMissed, Compare, Delete, Error, Crash
    <3>3. \A o \in Running : o = r
      <4>1. CASE Acquire(r)
        BY <2>1, <4>1 DEF Acquire, Others
      <4>2. CASE ~Acquire(r)
        <5>1. r \in Running
          BY <2>1, <4>2
          DEF Step, Scan, Select, Write, Restore, ScanFlags, Look, ReadUsed,
              InsertMissed, Compare, Delete, Error, Crash, Running
        <5> QED
          BY <1>2, <3>2, <5>1 DEF SeenInv, Alone
      <4> QED
        BY <4>1, <4>2
    <3>4. \A o \in Runners : o # r => run'[o].pc = "idle"
      BY <3>1, <3>3 DEF Running
    <3>5. run'[r].pc = "write" => run'[r].seen = rollup'[run'[r].key]
      <4>1. CASE Select(r)
        <5>1. UNCHANGED rollup
          BY <4>1 DEF Select
        <5>2. CASE run[r].todo = {}
          BY <3>1, <4>1, <5>2 DEF Select, Go
        <5>3. CASE run[r].todo # {}
          <6>1. PICK k \in run[r].todo :
                  Go(r, [pc |-> "write", key |-> k, seen |-> rollup[k],
                         todo |-> run[r].todo \ {k}, read |-> run[r].read])
            BY <4>1, <5>3 DEF Select
          <6> QED
            BY <3>1, <5>1, <6>1 DEF Go
        <5> QED
          BY <5>2, <5>3
      <4>2. CASE ~Select(r)
        <5>1. run'[r].pc # "write"
          BY <2>1, <3>1, <4>2
          DEF Step, Acquire, Scan, Write, Restore, ScanFlags, Look, ReadUsed,
              InsertMissed, Compare, Delete, Error, Crash, Go, Idle
        <5> QED
          BY <5>1
      <4> QED
        BY <4>1, <4>2
    <3> QED
      BY <3>4, <3>5 DEF SeenInv, Alone, Running
  <2>2. ASSUME UNCHANGED <<run, rollup, overlapped>>
        PROVE  SeenInv'
    BY <1>2, <2>2 DEF SeenInv, Alone, Running
  <2>3. CASE CheckPath \/ LockExpires \/ Loss \/ UNCHANGED vars
    <3>1. CASE CheckPath
      BY <2>2, <3>1 DEF CheckPath, Check, Enqueue, EnqueueFails
    <3>2. CASE LockExpires \/ Loss \/ UNCHANGED vars
      BY <2>2, <3>2 DEF LockExpires, Loss, vars
    <3> QED
      BY <2>3, <3>1, <3>2
  <2> QED
    BY <1>2, <2>1, <2>3 DEF Next, CheckPath, SeenInv
<1> QED
  BY <1>1, <1>2, TypeInvariant, PTL DEF Spec

\* A rollup row is only ever raised, for any number of keys and runs and whatever
\* is lost, as long as no two runs overlap: the UPDATE compares with what the
\* SELECT found.
THEOREM RowsOnlyRise == Spec => UsedOnlyRaised
<1>1. ASSUME SeenInv, TypeInv, [Next]_vars
      PROVE  [~overlapped => \A k \in Keys : rollup'[k] >= rollup[k]]_rollup
  <2>1. ASSUME UNCHANGED rollup
        PROVE  [~overlapped => \A k \in Keys : rollup'[k] >= rollup[k]]_rollup
    BY <2>1
  <2>2. ASSUME NEW r \in Runners, Write(r), ~overlapped, NEW k \in Keys
        PROVE  rollup'[k] >= rollup[k]
    <3>1. /\ rollup \in [Keys -> Nat \cup {NoRow}]
          /\ run[r].key \in Keys /\ run[r].read \in [Keys -> Nat]
          /\ run[r].seen = rollup[run[r].key]
      BY <1>1, <2>2 DEF TypeInv, CountersOK, RunOK, SeenInv, Write
    <3>2. \/ UNCHANGED rollup
          \/ /\ rollup' = [rollup EXCEPT ![run[r].key] = run[r].read[run[r].key]]
             /\ run[r].seen = NoRow \/ run[r].read[run[r].key] > run[r].seen
      BY <2>2 DEF Write, Raises
    <3>3. rollup[k] \in Int
      BY <3>1 DEF NoRow
    <3>4. run[r].read[run[r].key] \in Nat
      BY <3>1
    <3> QED
      BY <3>1, <3>2, <3>3, <3>4 DEF NoRow
  <2>3. ASSUME NEW r \in Runners, Step(r) \/ Error(r) \/ Crash(r), ~Write(r)
        PROVE  UNCHANGED rollup
    BY <2>3
    DEF Step, Acquire, Scan, Select, Restore, ScanFlags, Look, ReadUsed,
        InsertMissed, Compare, Delete, Error, Crash
  <2>4. CASE CheckPath \/ LockExpires \/ Loss \/ UNCHANGED vars
    <3>1. CASE CheckPath
      BY <3>1 DEF CheckPath, Check, Enqueue, EnqueueFails
    <3>2. CASE LockExpires \/ Loss \/ UNCHANGED vars
      BY <3>2 DEF LockExpires, Loss, vars
    <3> QED
      BY <2>1, <2>4, <3>1, <3>2
  <2> QED
    BY <1>1, <2>1, <2>2, <2>3, <2>4 DEF Next, CheckPath
<1> QED
  BY <1>1, SeenInvariant, TypeInvariant, PTL DEF Spec, UsedOnlyRaised

-----------------------------------------------------------------------------
(* The warnings                                                            *)

Above(k) == lost \/ quota[k] >= Soft
TrueUsed(k, used) == used \in Nat /\ used <= admitted[k] /\ (lost \/ used >= Soft)

\* A run looks at keys whose flag was set, and means to insert what it has read.
RunTells(x) ==
  /\ x.pc \in {"reconcile", "read", "insert"} => \A k \in x.todo : Above(k)
  /\ x.pc = "read" => Above(x.key)
  /\ x.pc = "insert" => TrueUsed(x.key, x.used)

KeysTell ==
  \A k \in Keys :
    /\ quota[k] <= admitted[k]
    /\ flag[k] => Above(k)
    /\ warning[k] # NoRow => TrueUsed(k, warning[k])
    /\ outbox[k] # NoRow => TrueUsed(k, outbox[k])

TruthInv == KeysTell /\ \A r \in Runners : RunTells(run[r])

\* What was true of a count stays true: counters fall only when data is lost.
CountsGrow ==
  /\ lost => lost'
  /\ \A k \in Keys :
       /\ quota[k] \in Nat /\ quota'[k] \in Nat
       /\ admitted[k] \in Nat /\ admitted'[k] \in Nat
       /\ admitted'[k] >= admitted[k]
       /\ lost' \/ quota'[k] >= quota[k]
       /\ quota'[k] <= admitted'[k]

\* Every step only adds to what was admitted, and lowers a counter only by a loss.
LEMMA CountsStep ==
  ASSUME TypeInv, KeysTell, [Next]_vars
  PROVE  CountsGrow
<1>1. \A k \in Keys :
        quota[k] \in Nat /\ admitted[k] \in Nat /\ quota[k] <= admitted[k]
  BY DEF TypeInv, CountersOK, KeysTell
<1>2. CASE UNCHANGED <<quota, admitted, lost>>
  BY <1>1, <1>2 DEF CountsGrow
<1>3. ASSUME NEW k \in Keys, Check(k)
      PROVE  CountsGrow
  <2>1. /\ lost' = lost
        /\ quota' = [quota EXCEPT ![k] = quota[k] + 1]
        /\ admitted' = [admitted EXCEPT ![k] = admitted[k] + 1]
        /\ quota \in [Keys -> Nat] /\ admitted \in [Keys -> Nat]
    BY <1>3 DEF Check, TypeInv, CountersOK
  <2> QED
    BY <1>1, <2>1 DEF CountsGrow
<1>4. CASE Loss
  BY <1>1, <1>4 DEF Loss, CountsGrow
<1>5. ASSUME NEW r \in Runners, Step(r) \/ Error(r) \/ Crash(r)
      PROVE  UNCHANGED <<quota, admitted, lost>>
  BY <1>5
  DEF Step, Acquire, Scan, Select, Write, Restore, ScanFlags, Look, ReadUsed,
      InsertMissed, Compare, Delete, Error, Crash
<1>6. ASSUME NEW k \in Keys, Enqueue(k) \/ EnqueueFails(k)
      PROVE  UNCHANGED <<quota, admitted, lost>>
  BY <1>6 DEF Enqueue, EnqueueFails
<1>7. CASE LockExpires \/ UNCHANGED vars
  BY <1>2, <1>7 DEF LockExpires, vars
<1> QED
  BY <1>2, <1>3, <1>4, <1>5, <1>6, <1>7 DEF Next

\* A counter at its threshold stays there unless data is lost.
LEMMA AboveStays ==
  ASSUME CountsGrow, NEW k \in Keys, Above(k)
  PROVE  Above(k)'
BY SoftAssumption DEF CountsGrow, Above

\* A true usage stays true.
LEMMA TrueUsedStays ==
  ASSUME CountsGrow, NEW k \in Keys, NEW used, TrueUsed(k, used)
  PROVE  TrueUsed(k, used)'
BY DEF CountsGrow, TrueUsed

\* What a run has read stays true.
LEMMA RunTellsStays ==
  ASSUME CountsGrow, NEW x, RunOK(x), RunTells(x)
  PROVE  RunTells(x)'
BY AboveStays, TrueUsedStays DEF RunOK, RunTells

\* What each step of a run leaves it with is still true.
LEMMA RunTellsStep ==
  ASSUME TypeInv, TruthInv, CountsGrow,
         NEW r \in Runners, Step(r) \/ Error(r) \/ Crash(r)
  PROVE  RunTells(run'[r])
<1>1. /\ run' = [run EXCEPT ![r] = run'[r]]
      /\ DOMAIN run = Runners
      /\ RunOK(run[r]) /\ RunTells(run[r]) /\ KeysTell
      /\ quota \in [Keys -> Nat]
  BY RunSteps DEF TypeInv, TruthInv, CountersOK, Go
<1>2. CASE \/ Acquire(r) \/ Scan(r) \/ Select(r) \/ Write(r) \/ Restore(r)
           \/ Compare(r) \/ Delete(r) \/ Crash(r)
  <2>1. run'[r].pc \notin {"reconcile", "read", "insert"}
    BY <1>1, <1>2
    DEF Acquire, Scan, Select, Write, Restore, Compare, Delete, Crash, Go, Idle
  <2> QED
    BY <2>1 DEF RunTells
<1>3. CASE ScanFlags(r)
  <2>1. run'[r] = [pc |-> "reconcile", todo |-> {k \in Keys : flag[k]}]
    BY <1>1, <1>3 DEF ScanFlags, Go
  <2> QED
    BY <1>1, <2>1 DEF RunTells, KeysTell
<1>4. CASE Look(r)
  <2>1. CASE run[r].todo = {}
    BY <1>1, <1>4, <2>1 DEF Look, Go, RunTells
  <2>2. CASE run[r].todo # {}
    <3>1. PICK k \in run[r].todo :
            \/ run'[r] = [pc |-> "read", key |-> k, todo |-> run[r].todo \ {k}]
            \/ run'[r] = [pc |-> "reconcile", todo |-> run[r].todo \ {k}]
      BY <1>1, <1>4, <2>2 DEF Look, Go
    <3>2. \A o \in run[r].todo : Above(o)
      BY <1>1, <1>4 DEF Look, RunTells
    <3> QED
      BY <3>1, <3>2 DEF RunTells
  <2> QED
    BY <2>1, <2>2
<1>5. CASE ReadUsed(r)
  <2>1. /\ run'[r] = [pc |-> "insert", key |-> run[r].key, used |-> quota[run[r].key],
                      todo |-> run[r].todo]
        /\ run[r].pc = "read" /\ run[r].key \in Keys
    BY <1>1, <1>5 DEF ReadUsed, Counter, Go, RunOK
  <2>2. TrueUsed(run[r].key, quota[run[r].key])
    BY <1>1, <2>1 DEF RunTells, KeysTell, Above, TrueUsed
  <2> QED
    BY <1>1, <2>1, <2>2 DEF RunTells
<1>6. CASE InsertMissed(r)
  BY <1>1, <1>6 DEF InsertMissed, Go, RunTells
<1>7. CASE Error(r)
  BY <1>1, <1>7 DEF Error, Go, RunTells
<1> QED
  BY <1>2, <1>3, <1>4, <1>5, <1>6, <1>7 DEF Step

\* A step keeps flags, warnings and rows true.
LEMMA KeysTellStep ==
  ASSUME TypeInv, TruthInv, CountsGrow, [Next]_vars
  PROVE  KeysTell'
<1>1. /\ \A r \in Runners : RunOK(run[r]) /\ RunTells(run[r])
      /\ CountersOK /\ KeysTell
  BY DEF TypeInv, TruthInv
\* The four facts about a key whose flag, warning and row become f, w and o.
<1> DEFINE TrueNext(k, used) ==
             used \in Nat /\ used <= admitted'[k] /\ (lost' \/ used >= Soft)
           Tells(k, f, w, o) == /\ quota'[k] <= admitted'[k]
                                /\ f => lost' \/ quota'[k] >= Soft
                                /\ w # NoRow => TrueNext(k, w)
                                /\ o # NoRow => TrueNext(k, o)
<1>2. ASSUME NEW k \in Keys
      PROVE  Tells(k, flag[k], warning[k], outbox[k])
  <2>1. quota'[k] <= admitted'[k]
    BY DEF CountsGrow
  <2>2. flag[k] => lost' \/ quota'[k] >= Soft
    BY <1>1, AboveStays DEF KeysTell, Above
  <2>3. ASSUME NEW w, TrueUsed(k, w)
        PROVE  TrueNext(k, w)
    BY <2>3, TrueUsedStays DEF TrueUsed
  <2>4. warning[k] # NoRow => TrueNext(k, warning[k])
    BY <1>1, <2>3 DEF KeysTell
  <2>5. outbox[k] # NoRow => TrueNext(k, outbox[k])
    BY <1>1, <2>3 DEF KeysTell
  <2> QED
    BY <2>1, <2>2, <2>4, <2>5
<1>3. ASSUME \A k \in Keys : Tells(k, flag'[k], warning'[k], outbox'[k])
      PROVE  KeysTell'
  BY <1>3 DEF KeysTell, TrueUsed, Above
<1>4. CASE UNCHANGED <<flag, warning, outbox>>
  BY <1>2, <1>3, <1>4
<1>5. ASSUME NEW k \in Keys, Check(k)
      PROVE  KeysTell'
  <2> DEFINE used == quota[k] + 1
  <2>1. CASE UNCHANGED <<flag, warning>>
    BY <1>4, <1>5, <2>1 DEF Check
  <2>2. CASE /\ flag' = [flag EXCEPT ![k] = TRUE]
             /\ warning' = [warning EXCEPT ![k] = used]
             /\ used >= Soft
    <3>1. /\ quota'[k] = used /\ used \in Nat /\ used <= admitted'[k]
          /\ outbox' = outbox
      BY <1>1, <1>5 DEF Check, CountersOK, CountsGrow
    <3>2. Tells(k, TRUE, used, outbox[k])
      BY <1>2, <2>2, <3>1
    <3>3. ASSUME NEW j \in Keys
          PROVE  Tells(j, flag'[j], warning'[j], outbox'[j])
      <4>1. CASE j = k
        BY <1>1, <2>2, <3>1, <3>2, <4>1 DEF CountersOK
      <4>2. CASE j # k
        BY <1>1, <1>2, <2>2, <3>1, <4>2 DEF CountersOK
      <4> QED
        BY <4>1, <4>2
    <3> QED
      BY <1>3, <3>3
  <2> QED
    BY <1>5, <2>1, <2>2 DEF Check
<1>6. ASSUME NEW k \in Keys, NEW used, TrueNext(k, used), outbox' = Inserted(k, used),
             UNCHANGED flag,
             warning' = warning \/ warning' = [warning EXCEPT ![k] = NoRow]
      PROVE  KeysTell'
  <2>1. ASSUME NEW j \in Keys
        PROVE  Tells(j, flag'[j], warning'[j], outbox'[j])
    <3>1. outbox'[j] = outbox[j] \/ (j = k /\ outbox'[j] = used)
      BY <1>1, <1>6 DEF Inserted, CountersOK
    <3>2. warning'[j] = warning[j] \/ warning'[j] = NoRow
      BY <1>1, <1>6 DEF CountersOK
    <3> QED
      BY <1>2, <1>6, <3>1, <3>2
  <2> QED
    BY <1>3, <2>1
<1>7. ASSUME NEW k \in Keys, Enqueue(k)
      PROVE  KeysTell'
  <2>1. TrueNext(k, warning[k])
    BY <1>2, <1>7 DEF Enqueue
  <2> QED
    BY <1>6, <1>7, <2>1 DEF Enqueue
<1>8. ASSUME NEW k \in Keys, EnqueueFails(k)
      PROVE  KeysTell'
  <2>1. ASSUME NEW j \in Keys
        PROVE  Tells(j, flag'[j], warning'[j], outbox'[j])
    <3>1. /\ warning'[j] = warning[j] \/ warning'[j] = NoRow
          /\ UNCHANGED <<flag, outbox>>
      BY <1>1, <1>8 DEF EnqueueFails, CountersOK
    <3> QED
      BY <1>2, <3>1
  <2> QED
    BY <1>3, <2>1
<1>9. ASSUME NEW r \in Runners, InsertMissed(r)
      PROVE  KeysTell'
  <2>1. /\ run[r].key \in Keys /\ TrueUsed(run[r].key, run[r].used)
        /\ UNCHANGED <<flag, warning, admitted, lost>>
        /\ outbox' = Inserted(run[r].key, run[r].used)
    BY <1>1, <1>9 DEF InsertMissed, RunOK, RunTells
  <2>2. TrueNext(run[r].key, run[r].used)
    BY <2>1 DEF TrueUsed
  <2> QED
    BY <1>6, <2>1, <2>2
<1>10. ASSUME NEW r \in Runners, Step(r) \/ Error(r) \/ Crash(r), ~InsertMissed(r)
       PROVE  UNCHANGED <<flag, warning, outbox>>
  BY <1>10
  DEF Step, Acquire, Scan, Select, Write, Restore, ScanFlags, Look, ReadUsed,
      Compare, Delete, Error, Crash
<1>11. CASE LockExpires \/ UNCHANGED vars
  BY <1>4, <1>11 DEF LockExpires, vars
<1>12. CASE Loss
  <2>1. ASSUME NEW j \in Keys
        PROVE  Tells(j, flag'[j], warning'[j], outbox'[j])
    <3>1. ~flag'[j] /\ UNCHANGED <<warning, outbox>>
      BY <1>12 DEF Loss
    <3> QED
      BY <1>2, <3>1
  <2> QED
    BY <1>3, <2>1
<1> QED
  BY <1>4, <1>5, <1>7, <1>8, <1>9, <1>10, <1>11, <1>12 DEF Next

\* TruthInv holds in every behaviour.
LEMMA TruthInvariant == Spec => []TruthInv
<1>1. Init => TruthInv
  BY DEF Init, TruthInv, KeysTell, RunTells, Idle
<1>2. ASSUME TruthInv, TypeInv, [Next]_vars
      PROVE  TruthInv'
  <2>1. CountsGrow /\ KeysTell'
    BY <1>2, CountsStep, KeysTellStep DEF TruthInv
  <2>2. ASSUME NEW r \in Runners
        PROVE  RunOK(run'[r]) /\ RunTells(run'[r])
    <3>1. CASE run'[r] = run[r]
      BY <1>2, <3>1 DEF TypeInv, TruthInv
    <3>2. ASSUME NEW o \in Runners, Step(o) \/ Error(o) \/ Crash(o)
          PROVE  RunOK(run'[r]) /\ RunTells(run'[r])
      <4>1. Go(o, run'[o]) /\ RunOK(run'[o]) /\ RunTells(run'[o])
        BY <1>2, <2>1, <3>2, RunSteps, RunTellsStep
      <4>2. CASE o # r
        BY <1>2, <3>1, <4>1, <4>2 DEF Go, TypeInv
      <4> QED
        BY <4>1, <4>2
    <3> QED
      BY <1>2, <3>1, <3>2, OthersKeepRuns DEF Next, CheckPath
  <2>3. ASSUME NEW r \in Runners
        PROVE  RunTells(run[r])'
    <3>1. PICK x : x = run'[r]
      OBVIOUS
    <3>2. RunTells(x)'
      BY <2>1, <2>2, <3>1, RunTellsStays
    <3> QED
      BY <3>1, <3>2 DEF RunTells, Above, TrueUsed
  <2> QED
    BY <2>1, <2>3 DEF TruthInv
<1> QED
  BY <1>1, <1>2, TypeInvariant, PTL DEF Spec

\* No warning is invented, for any number of keys and runs: a row of the outbox
\* names a usage the key reached and, unless data was lost, one at or above its
\* threshold, whether the check path enqueued it or a reconciliation found the
\* flag first.
THEOREM WarningsAreTrue == Spec => []WarningIsTrue
<1>1. TruthInv => WarningIsTrue
  BY DEF TruthInv, KeysTell, TrueUsed, WarningIsTrue
<1> QED
  BY <1>1, TruthInvariant, PTL
=============================================================================
