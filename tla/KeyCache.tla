----------------------------- MODULE KeyCache -----------------------------
(***************************************************************************)
(* The key cache, app/services/keycache.py, with the mutations that        *)
(* invalidate it, app/services/plans.py and keys.py.                       *)
(*                                                                         *)
(* A check resolves its API key on the event loop: a hit answers at once,  *)
(* a miss loads the row in a threadpool and comes back to the loop to      *)
(* store it.  Admin requests run in other threads of the process, and the  *)
(* CLI in a process of its own, whose invalidation reaches another cache.  *)
(* Only one thread runs the loop, but admin threads run between any two of *)
(* its steps, and two sessions interleave between a SELECT and a COMMIT.   *)
(*                                                                         *)
(* The database holds one plan and one key, in named columns.              *)
(***************************************************************************)
EXTENDS Integers, FiniteSets

CONSTANTS
  Digests,     \* the hashes of the secrets that checks present
  KeyDigest,   \* the one among them that the key has once it is issued
  Admins,      \* sessions of the admin API, in the server process
  Clis,        \* sessions of the CLI
  Checks,      \* concurrent checks
  Quotas,      \* values of monthly_quota
  NewPlans,    \* plans that are created, by column
  PlanChanges, \* what plans are updated with: some of their columns
  Overrides,   \* values of override_monthly_quota, 0 for none
  TTL,         \* KEY_CACHE_TTL_SECONDS
  MaxEntries,  \* MAX_CACHE_ENTRIES
  MaxTime,     \* bound: seconds explored
  MaxRevs      \* bound: commits explored

ASSUME DigestsAssumption == KeyDigest \in Digests
ASSUME QuotasAssumption == Quotas \subseteq Nat \ {0} /\ Overrides \subseteq Nat
ASSUME PlansAssumption ==
  /\ NewPlans \subseteq [plan : {TRUE}, quota : Quotas, soft : BOOLEAN, webhook : BOOLEAN]
  /\ \A change \in PlanChanges : \E new \in NewPlans :
       \A c \in DOMAIN change : c \in DOMAIN new \ {"plan"}
ASSUME CacheAssumption == TTL \in Nat /\ MaxEntries \in Nat \ {0}
ASSUME RunAssumption == MaxTime \in Nat /\ MaxRevs \in Nat

VARIABLES
  clock,       \* monotonic()
  db,          \* the row of the plan and the row of the key
  session,     \* what each mutation is about to do
  cache,       \* _cache
  generation,  \* _generation
  check,       \* where each resolve() is
  answer,      \* what resolve() returns in this step
  revs,        \* history: commits so far
  settled,     \* history: the latest commit that was invalidated in process
  views        \* history: what the row looked like in each second

history == <<revs, settled, views>>
vars == <<clock, db, session, cache, generation, check, answer, history>>

Sessions == Admins \cup Clis

-----------------------------------------------------------------------------
(* Rows                                                                    *)

\* In a row `soft` says whether quota_soft_pct is positive and `webhook` whether
\* webhook_url is there; an override is 0 when it is not set.
\* What _load returns when no key has the hash.
Unknown == {}

\* _load: the key's row joined with its plan's, overrides applied; a ResolvedKey
\* is the one element of a set that is empty when no key has that hash.
Resolved(d) ==
  IF d = KeyDigest /\ db.issued
  THEN {[revoked |-> db.revoked, soft |-> db.soft,
         quota |-> IF db.override # 0 THEN db.override ELSE db.quota]}
  ELSE Unknown

NoAnswer == [digest |-> KeyDigest, val |-> Unknown, asked |-> -1]

\* COMMIT writes the columns the session changed and no other.
Written(change) ==
  [c \in DOMAIN db |-> IF c \in DOMAIN change THEN change[c] ELSE db[c]]

WebhookGiven(soft, webhook) == soft => webhook

-----------------------------------------------------------------------------
(* Mutations: what a session reads and checks, and what it means to write  *)

IdleSession == [pc |-> "idle", change |-> <<>>, rev |-> 0]

\* A session reads a row, checks it, and has yet to commit what it changed.
Begin(s, change) ==
  /\ session[s].pc = "idle"
  /\ revs < MaxRevs
  /\ session' = [session EXCEPT ![s] = [pc |-> "commit", change |-> change, rev |-> 0]]
  /\ answer' = NoAnswer
  /\ UNCHANGED <<clock, db, cache, generation, check, history>>

CreatePlan(s, new) ==
  /\ WebhookGiven(new.soft, new.webhook)
  /\ Begin(s, new)

\* The merged row is checked against what the session read.
UpdatePlan(s, change) ==
  /\ db.plan
  /\ WebhookGiven(Written(change).soft, Written(change).webhook)
  /\ Begin(s, change)

\* The secret is random: no two sessions issue the same key.
IssueKey(s) ==
  /\ db.plan
  /\ ~db.issued
  /\ \A o \in Sessions : "issued" \notin DOMAIN session[o].change
  /\ Begin(s, [issued |-> TRUE])

\* The whole row as it was read is written back.
SlipUpdateKey(s, override) ==
  /\ db.issued /\ ~db.revoked
  /\ Begin(s, [override |-> override, revoked |-> db.revoked])

UpdateKey(s, override) ==
  /\ db.issued /\ ~db.revoked
  /\ Begin(s, [override |-> override])

RevokeKey(s) ==
  /\ db.issued /\ ~db.revoked
  /\ Begin(s, [revoked |-> TRUE])

\* routers/admin.py: one handler, one session, one call of a service.
Request(s) ==
  /\ s \in Admins
  /\ \/ \E new \in NewPlans : CreatePlan(s, new)
     \/ \E change \in PlanChanges : UpdatePlan(s, change)
     \/ IssueKey(s)
     \/ \E o \in Overrides : UpdateKey(s, o)
     \/ RevokeKey(s)

\* cli.py: the subcommands that write.  None updates a plan, and an override may
\* be cleared, which is the value 0.
plan_create(s) == \E new \in NewPlans : CreatePlan(s, new)
key_issue(s) == IssueKey(s)
key_override(s) == \E o \in Overrides : UpdateKey(s, o)
key_revoke(s) == RevokeKey(s)

Command(s) ==
  /\ s \in Clis
  /\ plan_create(s) \/ key_issue(s) \/ key_override(s) \/ key_revoke(s)

Creating(s) == "plan" \in DOMAIN session[s].change

\* Only a session of the server process reaches this cache; create_plan calls
\* no invalidation, since no key is on the plan yet.
AfterCommit(s) ==
  IF s \in Admins /\ ~Creating(s)
  THEN [pc |-> "bump", change |-> <<>>, rev |-> revs + 1]
  ELSE IdleSession

Commit(s) ==
  /\ session[s].pc = "commit"
  /\ ~(Creating(s) /\ db.plan)
  /\ db' = Written(session[s].change)
  /\ session' = [session EXCEPT ![s] = AfterCommit(s)]
  /\ revs' = revs + 1
  /\ views' = [views EXCEPT ![clock] = @ \cup {Resolved(KeyDigest)'}]
  /\ answer' = NoAnswer
  /\ UNCHANGED <<clock, cache, generation, check, settled>>

Rollback(s) ==
  /\ session' = [session EXCEPT ![s] = IdleSession]
  /\ answer' = NoAnswer
  /\ UNCHANGED <<clock, db, cache, generation, check, history>>

\* The slug is taken or the database is locked: nothing is written.
CommitFails(s) == session[s].pc = "commit" /\ Rollback(s)

\* The commit is done, the refresh fails: an error, and nothing is invalidated.
RefreshFails(s) == session[s].pc = "bump" /\ Rollback(s)

NoEntry == [exp |-> 0, val |-> Unknown, rev |-> -1]
EmptyCache == [d \in Digests |-> NoEntry]

SlipBump(s) ==
  /\ session[s].pc = "bump"
  /\ session' = [session EXCEPT ![s].pc = "clear"]
  /\ answer' = NoAnswer
  /\ UNCHANGED <<clock, db, cache, generation, check, history>>

\* invalidate(), in two steps
Bump(s) ==
  /\ session[s].pc = "bump"
  /\ generation' = generation + 1
  /\ session' = [session EXCEPT ![s].pc = "clear"]
  /\ answer' = NoAnswer
  /\ UNCHANGED <<clock, db, cache, check, history>>

Later(a, b) == IF a > b THEN a ELSE b

Clear(s) ==
  /\ session[s].pc = "clear"
  /\ cache' = EmptyCache
  /\ settled' = Later(settled, session[s].rev)
  /\ session' = [session EXCEPT ![s] = IdleSession]
  /\ answer' = NoAnswer
  /\ UNCHANGED <<clock, db, generation, check, revs, views>>

-----------------------------------------------------------------------------
(* resolve                                                                 *)

IdleCheck == [pc |-> "idle"]
Entries == {d \in Digests : cache[d] # NoEntry}

\* A check that found the generation unchanged holds the loop until it has
\* stored its entry.
LoopFree == \A k \in Checks : check[k].pc # "store"

Fresh(d) == cache[d].exp > clock

Hit(k, d) ==
  /\ LoopFree
  /\ check[k].pc = "idle"
  /\ Fresh(d)
  /\ answer' = [digest |-> d, val |-> cache[d].val, asked |-> clock]
  /\ UNCHANGED <<clock, db, session, cache, generation, check, history>>

Miss(k, d) ==
  /\ LoopFree
  /\ check[k].pc = "idle"
  /\ ~Fresh(d)
  /\ check' = [check EXCEPT ![k] = [pc |-> "load", digest |-> d, asked |-> clock,
                                     generation |-> generation]]
  /\ answer' = NoAnswer
  /\ UNCHANGED <<clock, db, session, cache, generation, history>>

\* In the threadpool.
Load(k) ==
  /\ check[k].pc = "load"
  /\ check' = [check EXCEPT ![k] =
                 [pc |-> "resume", digest |-> @.digest, asked |-> @.asked,
                  generation |-> @.generation, val |-> Resolved(@.digest), rev |-> revs]]
  /\ answer' = NoAnswer
  /\ UNCHANGED <<clock, db, session, cache, generation, history>>

LoadFails(k) ==
  /\ check[k].pc = "load"
  /\ check' = [check EXCEPT ![k] = IdleCheck]
  /\ answer' = NoAnswer
  /\ UNCHANGED <<clock, db, session, cache, generation, history>>

Answer(k) == [digest |-> check[k].digest, val |-> check[k].val, asked |-> check[k].asked]

\* Back on the loop: is the snapshot still worth keeping?
Keep(k) ==
  /\ LoopFree
  /\ check[k].pc = "resume"
  /\ TTL > 0 /\ check[k].generation = generation
  /\ check' = [check EXCEPT ![k].pc = "store"]
  /\ answer' = NoAnswer
  /\ UNCHANGED <<clock, db, session, cache, generation, history>>

Discard(k) ==
  /\ LoopFree
  /\ check[k].pc = "resume"
  /\ ~(TTL > 0 /\ check[k].generation = generation)
  /\ answer' = Answer(k)
  /\ check' = [check EXCEPT ![k] = IdleCheck]
  /\ UNCHANGED <<clock, db, session, cache, generation, history>>

SlipKept == IF Cardinality(Entries) > MaxEntries THEN EmptyCache ELSE cache

\* A full cache is dropped whole.
Kept == IF Cardinality(Entries) >= MaxEntries THEN EmptyCache ELSE cache

SlipExpiry(k) == clock + TTL

\* The lifetime counts from the lookup, not from the load.
Expiry(k) == check[k].asked + TTL

Store(k) ==
  /\ check[k].pc = "store"
  /\ cache' = [Kept EXCEPT ![check[k].digest] =
                 [exp |-> Expiry(k), val |-> check[k].val, rev |-> check[k].rev]]
  /\ answer' = Answer(k)
  /\ check' = [check EXCEPT ![k] = IdleCheck]
  /\ UNCHANGED <<clock, db, session, generation, history>>

-----------------------------------------------------------------------------

Init ==
  /\ clock = 0
  /\ \E q \in Quotas, there \in BOOLEAN :
       db = [plan |-> there, quota |-> q, soft |-> FALSE, webhook |-> there,
             issued |-> there, revoked |-> FALSE, override |-> 0]
  /\ session = [s \in Sessions |-> IdleSession]
  /\ cache = EmptyCache
  /\ generation = 0
  /\ check = [k \in Checks |-> IdleCheck]
  /\ answer = NoAnswer
  /\ revs = 0
  /\ settled = 0
  /\ views = [t \in 0 .. MaxTime |-> IF t = 0 THEN {Resolved(KeyDigest)} ELSE {}]

Tick ==
  /\ clock < MaxTime
  /\ clock' = clock + 1
  /\ views' = [views EXCEPT ![clock + 1] = {Resolved(KeyDigest)}]
  /\ answer' = NoAnswer
  /\ UNCHANGED <<db, session, cache, generation, check, revs, settled>>

\* The server process ends and starts again.
Restart ==
  /\ cache' = EmptyCache
  /\ generation' = 0
  /\ check' = [k \in Checks |-> IdleCheck]
  /\ session' = [s \in Sessions |-> IF s \in Admins THEN IdleSession ELSE session[s]]
  /\ answer' = NoAnswer
  /\ UNCHANGED <<clock, db, history>>

Next ==
  \/ \E s \in Sessions : Request(s) \/ Command(s) \/ Commit(s) \/ Bump(s) \/ Clear(s)
  \/ \E s \in Sessions : CommitFails(s) \/ RefreshFails(s)
  \/ \E k \in Checks, d \in Digests : Hit(k, d) \/ Miss(k, d)
  \/ \E k \in Checks : Load(k) \/ LoadFails(k) \/ Keep(k) \/ Discard(k) \/ Store(k)
  \/ Tick
  \/ Restart

Spec == Init /\ [][Next]_vars

-----------------------------------------------------------------------------
(* Properties                                                              *)

\* Staleness is bounded: what resolve() returns is what the row said at some
\* moment less than a TTL before the check asked, or since, whatever mutations,
\* failures and races there were, in this process or in another.
AnswerIsRecent ==
  answer # NoAnswer =>
  \E t \in 0 .. clock :
    /\ t > answer.asked - TTL \/ t >= answer.asked
    /\ IF answer.digest = KeyDigest THEN answer.val \in views[t]
       ELSE answer.val = Unknown

\* The cache never holds more entries than it may, though every secret a caller
\* makes up is cached.
CacheBounded == Cardinality(Entries) <= MaxEntries

\* A lookup that read the row before a mutation committed, and comes back after
\* the mutation invalidated the cache, never finds the generation unchanged.
GenerationGuards ==
  [][\A k \in Checks : check[k].pc = "resume" /\ check'[k].pc = "store"
                          => check[k].rev >= settled]_vars

\* Revocation is permanent: no mutation that read the key before it was revoked,
\* and commits after, in this process or in another, brings it back.
RevocationIsFinal == [][db.revoked => db'.revoked]_vars

\* What the comment on _generation asks for: a snapshot read before a mutation
\* committed is not in the cache once the mutation has invalidated it.
InvalidationSticks ==
  \A d \in Digests : cache[d] # NoEntry => cache[d].rev >= settled

\* A plan with a soft threshold has somewhere to send the warning.
WebhookRequired == WebhookGiven(db.soft, db.webhook)
=============================================================================
