--------------------------- MODULE KeyCacheProofs ---------------------------
(***************************************************************************)
(* Proofs about the key cache that hold for every number of checks and     *)
(* sessions, every TTL, every room in the cache and every set of plans.    *)
(***************************************************************************)
EXTENDS KeyCache, FiniteSetTheorems, TLAPS

-----------------------------------------------------------------------------
(* Mutations                                                               *)

\* The columns a session may change.
Columns == {"plan", "quota", "soft", "webhook", "issued", "revoked", "override"}

\* No session means to write FALSE into `revoked`.
ChangeOK(change) == "revoked" \in DOMAIN change => change.revoked = TRUE

SessionOK(x) ==
  /\ x = [pc |-> x.pc, change |-> x.change, rev |-> x.rev]
  /\ x.pc \in {"idle", "commit", "bump", "clear"}
  /\ x.rev \in Nat
  /\ ChangeOK(x.change)

\* Only sessions of the server process invalidate; a commit is counted before
\* it is invalidated.
SessionsInv ==
  /\ DOMAIN db = Columns
  /\ revs \in Nat
  /\ DOMAIN session = Sessions
  /\ \A s \in Sessions :
       /\ SessionOK(session[s])
       /\ session[s].rev <= revs
       /\ s \notin Admins => session[s].pc \in {"idle", "commit"}

\* What the requests and the commands leave to be committed never clears the
\* mark of a revoked key.
LEMMA ChangesBegin ==
  ASSUME NEW s \in Sessions, Request(s) \/ Command(s)
  PROVE  \E change : ChangeOK(change) /\ Begin(s, change)
<1>1. ASSUME NEW new \in NewPlans
      PROVE  DOMAIN new = {"plan", "quota", "soft", "webhook"}
  <2>1. new \in [plan : {TRUE}, quota : Quotas, soft : BOOLEAN, webhook : BOOLEAN]
    BY PlansAssumption
  <2> QED
    BY <2>1
<1>2. CASE \E new \in NewPlans : CreatePlan(s, new)
  <2>1. PICK new \in NewPlans : CreatePlan(s, new)
    BY <1>2
  <2>2. ChangeOK(new)
    BY <1>1 DEF ChangeOK
  <2> QED
    BY <2>1, <2>2 DEF CreatePlan
<1>3. CASE \E change \in PlanChanges : UpdatePlan(s, change)
  <2>1. PICK change \in PlanChanges : UpdatePlan(s, change)
    BY <1>3
  <2>2. ChangeOK(change)
    <3>1. PICK new \in NewPlans : \A c \in DOMAIN change : c \in DOMAIN new \ {"plan"}
      BY PlansAssumption
    <3> QED
      BY <1>1, <3>1 DEF ChangeOK
  <2> QED
    BY <2>1, <2>2 DEF UpdatePlan
<1>4. CASE IssueKey(s)
  BY <1>4 DEF IssueKey, ChangeOK
<1>5. CASE \E o \in Overrides : UpdateKey(s, o)
  BY <1>5 DEF UpdateKey, ChangeOK
<1>6. CASE RevokeKey(s)
  BY <1>6 DEF RevokeKey, ChangeOK
<1> QED
  BY <1>2, <1>3, <1>4, <1>5, <1>6
  DEF Request, Command, plan_create, key_issue, key_override, key_revoke

\* A step that only the sessions, the row and the count of commits see.
LEMMA SessionsKept ==
  ASSUME SessionsInv, UNCHANGED <<db, session, revs>>
  PROVE  SessionsInv'
BY DEF SessionsInv

\* SessionsInv holds in every behaviour.
LEMMA SessionsInvariant == Spec => []SessionsInv
<1>1. Init => SessionsInv
  BY DEF Init, SessionsInv, SessionOK, ChangeOK, IdleSession, Columns
<1>2. ASSUME SessionsInv, [Next]_vars
      PROVE  SessionsInv'
  <2>1. ASSUME NEW s \in Sessions, NEW change, ChangeOK(change), Begin(s, change)
        PROVE  SessionsInv'
    BY <1>2, <2>1 DEF SessionsInv, SessionOK, Begin, history
  <2>2. ASSUME NEW s \in Sessions, Commit(s)
        PROVE  SessionsInv'
    <3>1. DOMAIN db' = Columns /\ revs' = revs + 1
      BY <1>2, <2>2 DEF SessionsInv, Commit, Written
    <3>2. /\ SessionOK(AfterCommit(s))
          /\ AfterCommit(s).rev <= revs'
          /\ s \notin Admins => AfterCommit(s).pc = "idle"
      BY <1>2, <3>1 DEF SessionsInv, AfterCommit, SessionOK, IdleSession, ChangeOK
    <3>3. session' = [session EXCEPT ![s] = AfterCommit(s)]
      BY <2>2 DEF Commit
    <3>4. ASSUME NEW o \in Sessions
          PROVE  /\ SessionOK(session'[o])
                 /\ session'[o].rev <= revs'
                 /\ o \notin Admins => session'[o].pc \in {"idle", "commit"}
      <4>1. SessionOK(session[o]) /\ session[o].rev <= revs
            /\ (o \notin Admins => session[o].pc \in {"idle", "commit"})
        BY <1>2 DEF SessionsInv
      <4>2. session[o].rev \in Nat /\ session[o].rev <= revs'
        BY <1>2, <3>1, <4>1 DEF SessionsInv, SessionOK
      <4>3. CASE o = s
        BY <1>2, <3>2, <3>3, <4>3 DEF SessionsInv
      <4>4. CASE o # s
        <5>1. session'[o] = session[o]
          BY <1>2, <3>3, <4>4 DEF SessionsInv
        <5> QED
          BY <4>1, <4>2, <5>1
      <4> QED
        BY <4>3, <4>4
    <3> QED
      BY <1>2, <3>1, <3>3, <3>4 DEF SessionsInv
  <2>3. ASSUME NEW s \in Sessions, Bump(s)
        PROVE  SessionsInv'
    BY <1>2, <2>3 DEF SessionsInv, SessionOK, Bump, history
  <2>4. ASSUME NEW s \in Sessions, Clear(s)
        PROVE  SessionsInv'
    BY <1>2, <2>4 DEF SessionsInv, SessionOK, Clear, IdleSession, ChangeOK
  <2>5. ASSUME NEW s \in Sessions, CommitFails(s) \/ RefreshFails(s)
        PROVE  SessionsInv'
    BY <1>2, <2>5
    DEF SessionsInv, SessionOK, CommitFails, RefreshFails, Rollback, IdleSession, ChangeOK, history
  <2>6. CASE \/ \E k \in Checks, d \in Digests : Hit(k, d) \/ Miss(k, d)
             \/ \E k \in Checks : Load(k) \/ LoadFails(k) \/ Keep(k) \/ Discard(k) \/ Store(k)
    BY <1>2, <2>6, SessionsKept
    DEF Hit, Miss, Load, LoadFails, Keep, Discard, Store, history
  <2>7. CASE Tick
    BY <1>2, <2>7, SessionsKept DEF Tick
  <2>8. CASE Restart
    BY <1>2, <2>8
    DEF SessionsInv, SessionOK, Restart, IdleSession, ChangeOK, history
  <2>9. CASE UNCHANGED vars
    BY <1>2, <2>9, SessionsKept DEF vars, history
  <2> QED
    BY <1>2, <2>1, <2>2, <2>3, <2>4, <2>5, <2>6, <2>7, <2>8, <2>9, ChangesBegin DEF Next
<1> QED
  BY <1>1, <1>2, PTL DEF Spec

\* Revocation is permanent for any number of sessions in any number of
\* processes: a commit writes only the columns its session changed, and no
\* session changes `revoked` but to set it.
THEOREM RevocationStays == Spec => RevocationIsFinal
<1>1. ASSUME SessionsInv, [Next]_vars
      PROVE  [db.revoked => db'.revoked]_vars
  <2>1. ASSUME NEW s \in Sessions, Commit(s), db.revoked
        PROVE  db'.revoked
    BY <1>1, <2>1 DEF SessionsInv, SessionOK, ChangeOK, Commit, Written, Columns
  <2>2. CASE UNCHANGED db
    BY <2>2
  <2>3. ASSUME NEW s \in Sessions,
               \/ Request(s) \/ Command(s) \/ Bump(s) \/ Clear(s)
               \/ CommitFails(s) \/ RefreshFails(s)
        PROVE  UNCHANGED db
    BY <2>3, ChangesBegin DEF Begin, Bump, Clear, CommitFails, RefreshFails, Rollback
  <2>4. CASE \/ \E k \in Checks, d \in Digests : Hit(k, d) \/ Miss(k, d)
             \/ \E k \in Checks : Load(k) \/ LoadFails(k) \/ Keep(k) \/ Discard(k) \/ Store(k)
             \/ Tick \/ Restart \/ UNCHANGED vars
    BY <2>2, <2>4
    DEF Hit, Miss, Load, LoadFails, Keep, Discard, Store, Tick, Restart, vars
  <2> QED
    BY <1>1, <2>1, <2>2, <2>3, <2>4 DEF Next
<1> QED
  BY <1>1, SessionsInvariant, PTL DEF Spec, RevocationIsFinal

-----------------------------------------------------------------------------
(* The bound of the cache                                                  *)

BoundInv ==
  /\ DOMAIN cache = Digests
  /\ IsFiniteSet(Entries)
  /\ Cardinality(Entries) <= MaxEntries

\* The cache that a step leaves, in which at most one digest is new.
EntriesOf(c) == {d \in Digests : c[d] # NoEntry}

\* Dropping a full cache leaves room for the entry that comes next.
LEMMA RoomIsMade ==
  ASSUME BoundInv
  PROVE  /\ DOMAIN Kept = Digests
         /\ IsFiniteSet(EntriesOf(Kept))
         /\ Cardinality(EntriesOf(Kept)) < MaxEntries
<1>1. CASE Cardinality(Entries) >= MaxEntries
  <2>1. EntriesOf(EmptyCache) = {}
    BY DEF EntriesOf, EmptyCache
  <2> QED
    BY <1>1, <2>1, FS_EmptySet, CacheAssumption DEF Kept, EmptyCache
<1>2. CASE ~(Cardinality(Entries) >= MaxEntries)
  <2>1. EntriesOf(cache) = Entries
    BY DEF EntriesOf, Entries
  <2>2. Cardinality(Entries) \in Nat
    BY FS_CardinalityType DEF BoundInv
  <2> QED
    BY <1>2, <2>1, <2>2, CacheAssumption DEF Kept, BoundInv
<1> QED
  BY <1>1, <1>2

\* Storing an entry keeps the bound.
LEMMA StoreKeepsBound ==
  ASSUME BoundInv, NEW k \in Checks, Store(k)
  PROVE  BoundInv'
<1> DEFINE added == EntriesOf(Kept) \cup {check[k].digest}
<1>1. /\ DOMAIN Kept = Digests
      /\ IsFiniteSet(EntriesOf(Kept))
      /\ Cardinality(EntriesOf(Kept)) < MaxEntries
  BY RoomIsMade
<1>2. DOMAIN cache' = Digests
  BY <1>1 DEF Store
<1>3. Entries' \subseteq added
  BY <1>1 DEF Store, Entries, EntriesOf
<1>4. IsFiniteSet(added) /\ Cardinality(added) <= MaxEntries
  <2>1. Cardinality(EntriesOf(Kept)) \in Nat
    BY <1>1, FS_CardinalityType
  <2>2. /\ IsFiniteSet(added)
        /\ \/ Cardinality(added) = Cardinality(EntriesOf(Kept))
           \/ Cardinality(added) = Cardinality(EntriesOf(Kept)) + 1
    BY <1>1, FS_AddElement
  <2> QED
    BY <1>1, <2>1, <2>2, CacheAssumption
<1>5. /\ IsFiniteSet(Entries') /\ IsFiniteSet(added)
      /\ Cardinality(Entries') <= Cardinality(added)
  BY <1>3, <1>4, FS_Subset
<1>6. Cardinality(Entries') \in Nat /\ Cardinality(added) \in Nat
  BY <1>5, FS_CardinalityType
<1>7. Cardinality(Entries)' <= MaxEntries
  BY <1>4, <1>5, <1>6, CacheAssumption
<1> QED
  BY <1>2, <1>5, <1>7 DEF BoundInv

\* A cleared cache is within every bound.
LEMMA EmptyIsBounded ==
  ASSUME cache' = EmptyCache
  PROVE  BoundInv'
<1>1. Entries' = {}
  BY DEF Entries, EmptyCache
<1>2. IsFiniteSet(Entries') /\ Cardinality(Entries)' = 0
  BY <1>1, FS_EmptySet
<1> QED
  BY <1>2, CacheAssumption DEF BoundInv, EmptyCache

\* BoundInv holds in every behaviour.
LEMMA BoundInvariant == Spec => []BoundInv
<1>1. Init => BoundInv
  <2> SUFFICES ASSUME cache = EmptyCache PROVE BoundInv
    BY DEF Init
  <2>1. Entries = {}
    BY DEF Entries, EmptyCache
  <2> QED
    BY <2>1, FS_EmptySet, CacheAssumption DEF BoundInv, EmptyCache
<1>2. ASSUME BoundInv, [Next]_vars
      PROVE  BoundInv'
  <2>1. CASE UNCHANGED cache
    BY <1>2, <2>1 DEF BoundInv, Entries
  <2>2. ASSUME NEW s \in Sessions,
               \/ Request(s) \/ Command(s) \/ Commit(s) \/ Bump(s)
               \/ CommitFails(s) \/ RefreshFails(s)
        PROVE  UNCHANGED cache
    BY <2>2, ChangesBegin DEF Begin, Commit, Bump, CommitFails, RefreshFails, Rollback
  <2>3. ASSUME NEW s \in Sessions, Clear(s)
        PROVE  BoundInv'
    BY <2>3, EmptyIsBounded DEF Clear
  <2>4. ASSUME NEW k \in Checks, Store(k)
        PROVE  BoundInv'
    BY <1>2, <2>4, StoreKeepsBound
  <2>5. CASE \/ \E k \in Checks, d \in Digests : Hit(k, d) \/ Miss(k, d)
             \/ \E k \in Checks : Load(k) \/ LoadFails(k) \/ Keep(k) \/ Discard(k)
             \/ Tick \/ UNCHANGED vars
    BY <2>1, <2>5 DEF Hit, Miss, Load, LoadFails, Keep, Discard, Tick, vars
  <2>6. CASE Restart
    BY <2>6, EmptyIsBounded DEF Restart
  <2> QED
    BY <1>2, <2>1, <2>2, <2>3, <2>4, <2>5, <2>6 DEF Next
<1> QED
  BY <1>1, <1>2, PTL DEF Spec

\* The cache stays within its bound for every number of digests that callers
\* present, an infinite one included, and of checks that store at once.
THEOREM CacheStaysBounded == Spec => []CacheBounded
BY BoundInvariant, PTL DEF BoundInv, CacheBounded

-----------------------------------------------------------------------------
(* The generation                                                          *)

\* What a lookup that comes back under the current generation has read is not
\* older than any mutation that has bumped the generation.
LookupInv ==
  /\ generation \in Nat /\ settled \in Nat /\ settled <= revs
  /\ DOMAIN check = Checks
  /\ \A k \in Checks :
       /\ check[k].pc # "idle" =>
            check[k].generation \in Nat /\ check[k].generation <= generation
       /\ check[k].pc \in {"resume", "store"} =>
            check[k] = [pc |-> check[k].pc, digest |-> check[k].digest,
                        asked |-> check[k].asked, generation |-> check[k].generation,
                        val |-> check[k].val, rev |-> check[k].rev]
       /\ check[k].pc = "resume" /\ check[k].generation = generation =>
            /\ check[k].rev \in Nat
            /\ check[k].rev >= settled
            /\ \A s \in Sessions : session[s].pc = "clear" => check[k].rev >= session[s].rev

\* A step that leaves lookups and generation alone keeps LookupInv.
LEMMA LookupsKept ==
  ASSUME LookupInv, SessionsInv,
         UNCHANGED <<generation, settled, check, revs>>,
         \A s \in Sessions : session'[s].pc = "clear" =>
           session[s].pc = "clear" /\ session'[s].rev = session[s].rev
  PROVE  LookupInv'
BY DEF LookupInv

\* LookupInv holds in every behaviour.
LEMMA LookupInvariant == Spec => []LookupInv
<1>1. Init => LookupInv
  BY DEF Init, LookupInv, IdleCheck
<1>2. ASSUME LookupInv, SessionsInv, [Next]_vars
      PROVE  LookupInv'
  <2>1. ASSUME NEW s \in Sessions,
               Request(s) \/ Command(s) \/ CommitFails(s) \/ RefreshFails(s)
        PROVE  LookupInv'
    <3>1. CASE \E change : Begin(s, change)
      BY <1>2, <3>1, LookupsKept DEF Begin, history, SessionsInv
    <3>2. CASE Rollback(s)
      BY <1>2, <3>2, LookupsKept DEF Rollback, history, IdleSession, SessionsInv
    <3> QED
      BY <2>1, <3>1, <3>2, ChangesBegin DEF CommitFails, RefreshFails
  <2>2. ASSUME NEW s \in Sessions, Commit(s)
        PROVE  LookupInv'
    <3>1. /\ UNCHANGED <<generation, settled, check>>
          /\ revs' = revs + 1
          /\ session' = [session EXCEPT ![s] = AfterCommit(s)]
          /\ AfterCommit(s).pc # "clear"
      BY <2>2 DEF Commit, AfterCommit, IdleSession
    <3>2. ASSUME NEW o \in Sessions, session'[o].pc = "clear"
          PROVE  session[o] = session'[o]
      BY <1>2, <3>1, <3>2 DEF SessionsInv
    <3> QED
      BY <1>2, <3>1, <3>2 DEF LookupInv, SessionsInv
  <2>3. ASSUME NEW s \in Sessions, Bump(s)
        PROVE  LookupInv'
    <3>1. generation' = generation + 1 /\ UNCHANGED <<settled, check, revs>>
      BY <2>3 DEF Bump, history
    <3>2. ASSUME NEW k \in Checks, check[k].pc # "idle"
          PROVE  check[k].generation \in Nat /\ check[k].generation < generation'
      BY <1>2, <3>1, <3>2 DEF LookupInv
    <3> QED
      BY <1>2, <3>1, <3>2 DEF LookupInv
  <2>4. ASSUME NEW s \in Sessions, Clear(s)
        PROVE  LookupInv'
    <3>1. /\ UNCHANGED <<generation, check, revs>>
          /\ settled' = Later(settled, session[s].rev)
          /\ session' = [session EXCEPT ![s] = IdleSession]
          /\ session[s].pc = "clear"
      BY <2>4 DEF Clear
    <3>2. session[s].rev \in Nat /\ session[s].rev <= revs /\ revs \in Nat
      BY <1>2 DEF SessionsInv, SessionOK
    <3>3. settled' \in Nat /\ settled' <= revs'
      BY <1>2, <3>1, <3>2 DEF LookupInv, Later
    <3>4. ASSUME NEW k \in Checks, check[k].pc = "resume", check[k].generation = generation
          PROVE  check[k].rev >= settled'
      BY <1>2, <3>1, <3>2, <3>4 DEF LookupInv, Later
    <3>5. ASSUME NEW o \in Sessions, session'[o].pc = "clear"
          PROVE  session[o] = session'[o]
      BY <1>2, <3>1, <3>5 DEF SessionsInv, IdleSession
    <3> QED
      BY <1>2, <3>1, <3>3, <3>4, <3>5 DEF LookupInv
  <2>5. CASE \E k \in Checks, d \in Digests : Hit(k, d)
    BY <1>2, <2>5, LookupsKept DEF Hit, history
  <2>6. ASSUME NEW k \in Checks, NEW d \in Digests, Miss(k, d)
        PROVE  LookupInv'
    BY <1>2, <2>6 DEF LookupInv, Miss, history
  <2>7. ASSUME NEW k \in Checks, Load(k)
        PROVE  LookupInv'
    <3>1. \A s \in Sessions : session[s].rev \in Nat /\ session[s].rev <= revs
      BY <1>2 DEF SessionsInv, SessionOK
    <3> QED
      BY <1>2, <2>7, <3>1 DEF LookupInv, SessionsInv, Load, history
  <2>8. ASSUME NEW k \in Checks, Keep(k)
        PROVE  LookupInv'
    BY <1>2, <2>8 DEF LookupInv, Keep, history
  <2>9. ASSUME NEW k \in Checks, LoadFails(k) \/ Discard(k) \/ Store(k)
        PROVE  LookupInv'
    BY <1>2, <2>9 DEF LookupInv, LoadFails, Discard, Store, IdleCheck, history
  <2>10. CASE Tick
    BY <1>2, <2>10, LookupsKept DEF Tick
  <2>11. CASE Restart
    <3>1. \A k \in Checks : check'[k].pc = "idle"
      BY <2>11 DEF Restart, IdleCheck
    <3> QED
      BY <1>2, <2>11, <3>1 DEF LookupInv, Restart, IdleCheck, history
  <2>12. CASE UNCHANGED vars
    BY <1>2, <2>12, LookupsKept DEF vars, history
  <2> QED
    BY <1>2, <2>1, <2>2, <2>3, <2>4, <2>5, <2>6, <2>7, <2>8, <2>9, <2>10, <2>11, <2>12
    DEF Next
<1> QED
  BY <1>1, <1>2, SessionsInvariant, PTL DEF Spec

\* A lookup that read the row before a mutation committed never passes the check
\* of the generation once the mutation has invalidated the cache: the bump comes
\* before the clearing, and a lookup that starts after the bump reads after the
\* commit.
THEOREM GenerationIsAGuard == Spec => GenerationGuards
<1>1. ASSUME LookupInv, [Next]_vars
      PROVE  [\A k \in Checks : check[k].pc = "resume" /\ check'[k].pc = "store"
                => check[k].rev >= settled]_vars
  <2>1. ASSUME NEW k \in Checks, check[k].pc = "resume", check'[k].pc = "store"
        PROVE  check[k].rev >= settled
    <3>1. CASE check[k].generation = generation
      BY <1>1, <2>1, <3>1 DEF LookupInv
    <3>2. CASE check[k].generation # generation
      <4>1. CASE UNCHANGED check
        BY <2>1, <4>1
      <4>2. ASSUME NEW s \in Sessions,
                   \/ Request(s) \/ Command(s) \/ Commit(s) \/ Bump(s) \/ Clear(s)
                   \/ CommitFails(s) \/ RefreshFails(s)
            PROVE  UNCHANGED check
        BY <4>2, ChangesBegin
        DEF Begin, Commit, Bump, Clear, CommitFails, RefreshFails, Rollback
      <4>3. ASSUME NEW o \in Checks, NEW d \in Digests, Hit(o, d) \/ Miss(o, d)
            PROVE  FALSE
        BY <1>1, <2>1, <4>3 DEF LookupInv, Hit, Miss
      <4>4. ASSUME NEW o \in Checks,
                   Load(o) \/ LoadFails(o) \/ Keep(o) \/ Discard(o) \/ Store(o)
            PROVE  FALSE
        BY <1>1, <2>1, <3>2, <4>4
        DEF LookupInv, Load, LoadFails, Keep, Discard, Store, IdleCheck
      <4>5. CASE Tick \/ UNCHANGED vars
        BY <4>1, <4>5 DEF Tick, vars
      <4>6. CASE Restart
        BY <2>1, <4>6 DEF Restart, IdleCheck
      <4> QED
        BY <1>1, <4>1, <4>2, <4>3, <4>4, <4>5, <4>6 DEF Next
    <3> QED
      BY <3>1, <3>2
  <2> QED
    BY <2>1
<1> QED
  BY <1>1, LookupInvariant, PTL DEF Spec, GenerationGuards

-----------------------------------------------------------------------------
(* Staleness                                                               *)

\* The value v is what a lookup of d would have found in the second t.
Seen(d, v, t) == IF d = KeyDigest THEN v \in views[t] ELSE v = Unknown

SeenSince(d, v, from) == \E t \in 0 .. clock : t >= from /\ Seen(d, v, t)

\* What the row says now is in the history of this second.
ViewsInv ==
  /\ clock \in 0 .. MaxTime
  /\ DOMAIN views = 0 .. MaxTime
  /\ Resolved(KeyDigest) \in views[clock]

LoadedOK(x) ==
  /\ x.pc # "idle" => x.asked \in 0 .. clock
  /\ x.pc \in {"resume", "store"} => SeenSince(x.digest, x.val, x.asked)

\* Whatever a lookup holds was seen in the table since the check asked.
LoadedInv == \A k \in Checks : LoadedOK(check[k])

\* An entry is no older than its lifetime: it expires a TTL after a second in
\* which the row looked like that, or earlier.
CachedOK(d, e) == e # NoEntry => e.exp \in Int /\ SeenSince(d, e.val, e.exp - TTL)

CachedInv ==
  /\ DOMAIN cache = Digests
  /\ \A d \in Digests : CachedOK(d, cache[d])

\* History is only added to.
ViewsGrow ==
  /\ clock' \in Nat /\ clock' >= clock
  /\ \A t \in 0 .. clock : views[t] \subseteq views'[t]

\* What the table has shown, it has shown for ever.
LEMMA SeenStays ==
  ASSUME ViewsInv, ViewsGrow, NEW d, NEW v, NEW from \in Int, SeenSince(d, v, from)
  PROVE  SeenSince(d, v, from)'
<1>1. PICK t \in 0 .. clock : t >= from /\ Seen(d, v, t)
  BY DEF SeenSince
<1>2. t \in 0 .. clock' /\ Seen(d, v, t)'
  BY <1>1, RunAssumption DEF ViewsInv, ViewsGrow, Seen
<1> QED
  BY <1>1, <1>2 DEF SeenSince

\* Every step records what the table shows.
LEMMA ViewsStep ==
  ASSUME ViewsInv, [Next]_vars
  PROVE  ViewsInv' /\ ViewsGrow
<1>1. CASE UNCHANGED <<clock, db, views>>
  BY <1>1, RunAssumption DEF ViewsInv, ViewsGrow, Resolved
<1>2. ASSUME NEW s \in Sessions, Commit(s)
      PROVE  ViewsInv' /\ ViewsGrow
  BY <1>2, RunAssumption DEF ViewsInv, ViewsGrow, Commit
<1>3. CASE Tick
  <2>1. Resolved(KeyDigest)' = Resolved(KeyDigest)
    BY <1>3 DEF Tick, Resolved
  <2>2. clock' = clock + 1 /\ clock' \in 0 .. MaxTime
    BY <1>3, RunAssumption DEF Tick, ViewsInv
  <2>3. views' = [views EXCEPT ![clock'] = {Resolved(KeyDigest)}]
    BY <1>3 DEF Tick
  <2> QED
    BY <2>1, <2>2, <2>3, RunAssumption DEF ViewsInv, ViewsGrow
<1>4. ASSUME NEW s \in Sessions,
             \/ Request(s) \/ Command(s) \/ Bump(s) \/ Clear(s)
             \/ CommitFails(s) \/ RefreshFails(s)
      PROVE  UNCHANGED <<clock, db, views>>
  BY <1>4, ChangesBegin
  DEF Begin, Bump, Clear, CommitFails, RefreshFails, Rollback, history
<1>5. CASE \/ \E k \in Checks, d \in Digests : Hit(k, d) \/ Miss(k, d)
           \/ \E k \in Checks : Load(k) \/ LoadFails(k) \/ Keep(k) \/ Discard(k) \/ Store(k)
           \/ Restart \/ UNCHANGED vars
  BY <1>1, <1>5
  DEF Hit, Miss, Load, LoadFails, Keep, Discard, Store, Restart, vars, history
<1> QED
  BY <1>1, <1>2, <1>3, <1>4, <1>5 DEF Next

\* What a lookup holds stays true of a history that only grows.
LEMMA LoadedStays ==
  ASSUME ViewsInv, ViewsGrow, NEW x, LoadedOK(x)
  PROVE  LoadedOK(x)'
<1>1. x.pc # "idle" => x.asked \in 0 .. clock'
  BY RunAssumption DEF LoadedOK, ViewsInv, ViewsGrow
<1>2. x.pc \in {"resume", "store"} => SeenSince(x.digest, x.val, x.asked)'
  <2> SUFFICES ASSUME x.pc \in {"resume", "store"}
               PROVE  SeenSince(x.digest, x.val, x.asked)'
    OBVIOUS
  <2>1. x.asked \in Int /\ SeenSince(x.digest, x.val, x.asked)
    BY RunAssumption DEF LoadedOK, ViewsInv
  <2> QED
    BY <2>1, SeenStays
<1> QED
  BY <1>1, <1>2 DEF LoadedOK

\* What an entry holds stays true of a history that only grows.
LEMMA CachedStays ==
  ASSUME ViewsInv, ViewsGrow, NEW d, NEW e, CachedOK(d, e)
  PROVE  CachedOK(d, e)'
<1> SUFFICES ASSUME e # NoEntry
             PROVE  e.exp \in Int /\ SeenSince(d, e.val, e.exp - TTL)'
  BY DEF CachedOK
<1>1. e.exp - TTL \in Int /\ SeenSince(d, e.val, e.exp - TTL)
  BY CacheAssumption DEF CachedOK
<1> QED
  BY <1>1, SeenStays DEF CachedOK

\* A step hands a lookup only what the table shows or showed.
LEMMA LoadedStep ==
  ASSUME ViewsInv, LookupInv, LoadedInv, ViewsGrow, [Next]_vars
  PROVE  LoadedInv'
<1>1. ASSUME NEW k \in Checks,
             \/ check'[k] = check[k]
             \/ /\ check[k].pc \in {"resume", "store"}
                /\ check'[k].digest = check[k].digest
                /\ check'[k].asked = check[k].asked
                /\ check'[k].val = check[k].val
             \/ check'[k].pc = "idle"
      PROVE  LoadedOK(check[k])'
  <2>1. PICK x : x = check[k]
    OBVIOUS
  <2>2. LoadedOK(x) /\ LoadedOK(x)'
    BY <2>1, LoadedStays DEF LoadedInv
  <2> QED
    BY <1>1, <2>1, <2>2 DEF LoadedOK, SeenSince, Seen
<1>2. CASE UNCHANGED check
  BY <1>1, <1>2 DEF LoadedInv
<1>3. ASSUME NEW s \in Sessions,
             \/ Request(s) \/ Command(s) \/ Commit(s) \/ Bump(s) \/ Clear(s)
             \/ CommitFails(s) \/ RefreshFails(s)
      PROVE  UNCHANGED check
  BY <1>3, ChangesBegin
  DEF Begin, Commit, Bump, Clear, CommitFails, RefreshFails, Rollback
<1>4. ASSUME NEW k \in Checks, NEW d \in Digests, Miss(k, d)
      PROVE  LoadedInv'
  <2>1. /\ clock' = clock
        /\ check' = [check EXCEPT ![k] = [pc |-> "load", digest |-> d, asked |-> clock,
                                           generation |-> generation]]
    BY <1>4 DEF Miss
  <2>2. LoadedOK(check[k])'
    BY <2>1, RunAssumption DEF LookupInv, LoadedOK, ViewsInv
  <2> QED
    BY <1>1, <2>1, <2>2 DEF LookupInv, LoadedInv
<1>5. ASSUME NEW k \in Checks, Load(k)
      PROVE  LoadedInv'
  <2>1. /\ UNCHANGED <<clock, db, views>>
        /\ check[k].pc = "load"
        /\ check' = [check EXCEPT ![k] =
             [pc |-> "resume", digest |-> check[k].digest, asked |-> check[k].asked,
              generation |-> check[k].generation, val |-> Resolved(check[k].digest),
              rev |-> revs]]
    BY <1>5 DEF Load, history
  <2>2. check[k].asked \in 0 .. clock /\ clock \in Nat
    BY <2>1, RunAssumption DEF LoadedInv, LoadedOK, ViewsInv
  <2>3. PICK d, v : d = check[k].digest /\ v = Resolved(check[k].digest)
    OBVIOUS
  <2>4. Seen(d, v, clock)'
    BY <2>1, <2>3 DEF Seen, Resolved, ViewsInv
  <2>5. SeenSince(d, v, check[k].asked)'
    <3>1. PICK from : from = check'[k].asked
      OBVIOUS
    <3>2. from \in 0 .. clock
      BY <2>1, <2>2, <3>1 DEF LookupInv
    <3>3. SeenSince(d, v, from)'
      BY <2>1, <2>2, <2>4, <3>2 DEF SeenSince
    <3> QED
      BY <3>1, <3>3 DEF SeenSince
  <2>6. check'[k].digest = d /\ check'[k].val = v /\ check'[k].asked \in 0 .. clock'
    BY <2>1, <2>2, <2>3 DEF LookupInv
  <2>7. LoadedOK(check[k])'
    BY <2>5, <2>6 DEF LoadedOK, SeenSince, Seen
  <2> QED
    BY <1>1, <2>1, <2>7 DEF LookupInv, LoadedInv
<1>6. ASSUME NEW k \in Checks, Keep(k)
      PROVE  LoadedInv'
  BY <1>1, <1>6 DEF LookupInv, LoadedInv, Keep
<1>7. ASSUME NEW k \in Checks, LoadFails(k) \/ Discard(k) \/ Store(k)
      PROVE  LoadedInv'
  BY <1>1, <1>7 DEF LookupInv, LoadedInv, LoadFails, Discard, Store, IdleCheck
<1>8. CASE Restart
  BY <1>1, <1>8 DEF LoadedInv, Restart, IdleCheck
<1>9. CASE Tick \/ UNCHANGED vars \/ \E k \in Checks, d \in Digests : Hit(k, d)
  BY <1>2, <1>9 DEF Tick, vars, Hit
<1> QED
  BY <1>2, <1>3, <1>4, <1>5, <1>6, <1>7, <1>8, <1>9 DEF Next

\* A step puts into the cache only what a lookup holds.
LEMMA CachedStep ==
  ASSUME ViewsInv, LookupInv, LoadedInv, CachedInv, BoundInv, ViewsGrow, [Next]_vars
  PROVE  CachedInv'
<1>1. ASSUME NEW d \in Digests, cache'[d] = cache[d] \/ cache'[d] = NoEntry
      PROVE  CachedOK(d, cache[d])'
  <2>1. PICK e : e = cache[d]
    OBVIOUS
  <2>2. CachedOK(d, e)'
    BY <2>1, CachedStays DEF CachedInv
  <2> QED
    BY <1>1, <2>1, <2>2 DEF CachedOK, SeenSince, Seen
<1>2. CASE UNCHANGED cache
  BY <1>1, <1>2 DEF CachedInv
<1>3. CASE cache' = EmptyCache
  BY <1>1, <1>3 DEF CachedInv, EmptyCache
<1>4. ASSUME NEW k \in Checks, Store(k)
      PROVE  CachedInv'
  <2>1. /\ UNCHANGED <<clock, views>>
        /\ check[k].pc = "store"
        /\ cache' = [Kept EXCEPT ![check[k].digest] =
             [exp |-> Expiry(k), val |-> check[k].val, rev |-> check[k].rev]]
    BY <1>4 DEF Store, history
  <2>2. /\ DOMAIN Kept = Digests
        /\ \A d \in Digests : Kept[d] = cache[d] \/ Kept[d] = NoEntry
    BY DEF Kept, EmptyCache, CachedInv
  <2>3. DOMAIN cache' = Digests
    BY <2>1, <2>2
  <2>4. ASSUME NEW d \in Digests
        PROVE  CachedOK(d, cache[d])'
    <3>1. CASE d # check[k].digest
      BY <1>1, <2>1, <2>2, <3>1
    <3>2. CASE d = check[k].digest
      <4>1. LoadedOK(check[k]) /\ check[k].asked \in 0 .. clock
        BY <2>1 DEF LoadedInv, LoadedOK
      <4>2. PICK v, from : v = check[k].val /\ from = check[k].asked
        OBVIOUS
      <4>3. SeenSince(d, v, from) /\ from \in Int
        BY <2>1, <3>2, <4>1, <4>2, RunAssumption DEF LoadedOK, ViewsInv
      <4>4. SeenSince(d, v, from)'
        BY <4>3, SeenStays
      <4>5. cache'[d].val = v /\ cache'[d].exp = from + TTL
        BY <2>1, <2>2, <3>2, <4>2 DEF Expiry
      <4>6. cache'[d].exp \in Int /\ cache'[d].exp - TTL = from
        BY <4>3, <4>5, CacheAssumption
      <4> QED
        BY <4>4, <4>5, <4>6 DEF CachedOK, SeenSince, Seen
    <3> QED
      BY <3>1, <3>2
  <2> QED
    BY <2>3, <2>4 DEF CachedInv
<1>5. ASSUME NEW s \in Sessions,
             \/ Request(s) \/ Command(s) \/ Commit(s) \/ Bump(s)
             \/ CommitFails(s) \/ RefreshFails(s)
      PROVE  UNCHANGED cache
  BY <1>5, ChangesBegin DEF Begin, Commit, Bump, CommitFails, RefreshFails, Rollback
<1>6. ASSUME NEW s \in Sessions, Clear(s)
      PROVE  CachedInv'
  BY <1>3, <1>6 DEF Clear
<1>7. CASE \/ \E k \in Checks, d \in Digests : Hit(k, d) \/ Miss(k, d)
           \/ \E k \in Checks : Load(k) \/ LoadFails(k) \/ Keep(k) \/ Discard(k)
           \/ Tick \/ UNCHANGED vars
  BY <1>2, <1>7 DEF Hit, Miss, Load, LoadFails, Keep, Discard, Tick, vars
<1>8. CASE Restart
  BY <1>3, <1>8 DEF Restart
<1> QED
  BY <1>2, <1>4, <1>5, <1>6, <1>7, <1>8 DEF Next

\* What is answered in a step was seen less than a TTL before the question.
LEMMA AnswerStep ==
  ASSUME ViewsInv, LoadedInv, CachedInv, ViewsGrow, [Next]_vars, AnswerIsRecent
  PROVE  AnswerIsRecent'
<1>1. CASE answer' = NoAnswer
  BY <1>1 DEF AnswerIsRecent, NoAnswer
<1>2. ASSUME NEW k \in Checks, NEW d \in Digests, Hit(k, d)
      PROVE  AnswerIsRecent'
  <2>1. /\ UNCHANGED <<clock, views>>
        /\ cache[d].exp > clock
        /\ answer' = [digest |-> d, val |-> cache[d].val, asked |-> clock]
    BY <1>2 DEF Hit, Fresh, history
  <2>2. clock \in Nat
    BY RunAssumption DEF ViewsInv
  <2>3. cache[d] # NoEntry
    BY <2>1, <2>2 DEF NoEntry
  <2>4. cache[d].exp \in Int /\ SeenSince(d, cache[d].val, cache[d].exp - TTL)
    BY <2>3 DEF CachedInv, CachedOK
  <2>5. PICK t \in 0 .. clock : t >= cache[d].exp - TTL /\ Seen(d, cache[d].val, t)
    BY <2>4 DEF SeenSince
  <2>6. t > clock - TTL
    BY <2>1, <2>2, <2>4, <2>5, CacheAssumption
  <2> QED
    BY <2>1, <2>5, <2>6 DEF AnswerIsRecent, Seen
<1>3. ASSUME NEW k \in Checks, Discard(k) \/ Store(k)
      PROVE  AnswerIsRecent'
  <2>1. /\ UNCHANGED <<clock, views>>
        /\ check[k].pc \in {"resume", "store"}
        /\ answer' = [digest |-> check[k].digest, val |-> check[k].val,
                      asked |-> check[k].asked]
    BY <1>3 DEF Discard, Store, Answer, history
  <2>2. SeenSince(check[k].digest, check[k].val, check[k].asked)
    BY <2>1 DEF LoadedInv, LoadedOK
  <2>3. PICK t \in 0 .. clock :
          t >= check[k].asked /\ Seen(check[k].digest, check[k].val, t)
    BY <2>2 DEF SeenSince
  <2> QED
    BY <2>1, <2>3 DEF AnswerIsRecent, Seen
<1>4. ASSUME NEW s \in Sessions,
             \/ Request(s) \/ Command(s) \/ Commit(s) \/ Bump(s) \/ Clear(s)
             \/ CommitFails(s) \/ RefreshFails(s)
      PROVE  answer' = NoAnswer
  BY <1>4, ChangesBegin
  DEF Begin, Commit, Bump, Clear, CommitFails, RefreshFails, Rollback
<1>5. CASE \/ \E k \in Checks, d \in Digests : Miss(k, d)
           \/ \E k \in Checks : Load(k) \/ LoadFails(k) \/ Keep(k)
           \/ Tick \/ Restart
  BY <1>1, <1>5 DEF Miss, Load, LoadFails, Keep, Tick, Restart
<1>6. CASE UNCHANGED vars
  BY <1>6 DEF vars, history, AnswerIsRecent
<1> QED
  BY <1>1, <1>2, <1>3, <1>4, <1>5, <1>6 DEF Next

RecentInv == ViewsInv /\ LoadedInv /\ CachedInv /\ AnswerIsRecent

\* Staleness is bounded for every TTL and any number of sessions and checks: an
\* entry's lifetime counts from the lookup, and the row was read after that.
THEOREM AnswersAreRecent == Spec => []AnswerIsRecent
<1>1. Init => RecentInv
  <2> SUFFICES ASSUME Init PROVE RecentInv
    OBVIOUS
  <2>1. ViewsInv
    BY RunAssumption DEF Init, ViewsInv
  <2>2. LoadedInv
    BY DEF Init, LoadedInv, LoadedOK, IdleCheck
  <2>3. CachedInv
    BY DEF Init, CachedInv, CachedOK, EmptyCache
  <2>4. AnswerIsRecent
    BY DEF Init, AnswerIsRecent
  <2> QED
    BY <2>1, <2>2, <2>3, <2>4 DEF RecentInv
<1>2. ASSUME RecentInv, LookupInv, BoundInv, [Next]_vars
      PROVE  RecentInv'
  BY <1>2, ViewsStep, LoadedStep, CachedStep, AnswerStep DEF RecentInv
<1> QED
  BY <1>1, <1>2, LookupInvariant, BoundInvariant, PTL DEF Spec, RecentInv
=============================================================================
