----------------------- MODULE CheckScriptRefinement -----------------------
(***************************************************************************)
(* The admission script under one plan and a clock that does not go back   *)
(* implements Admission.  The bucket of Admission is what the stored       *)
(* tokens are worth now; the Redis keys, their expiry, the lazy refill and *)
(* the flag disappear.                                                     *)
(***************************************************************************)
EXTENDS CheckScript

Plan == CHOOSE p \in Plans : TRUE

Smaller(a, b) == IF a < b THEN a ELSE b

\* What the bucket is worth now: an absent one is full.
Level(r) ==
  IF Live(bucket[r].exp, now)
  THEN Smaller(Cap(Plan), bucket[r].t + Elapsed(bucket[r].ts, now) * Plan.rate)
  ELSE Cap(Plan)

\* 1 when rounding has put the refill time one tick ahead of the clock.
Ahead(r) == IF Live(bucket[r].exp, now) THEN AtLeast0(bucket[r].ts - now) ELSE 0

Verdict ==
  IF reply = NoReply THEN reply
  ELSE [deny_layer |-> reply.deny_layer, soft_crossed |-> reply.soft_crossed]

Abstract == INSTANCE Admission WITH
  Unit <- UTOK, Full <- Cap(Plan), Rate <- Plan.rate, Limit <- Plan.limit,
  Window <- Win(Plan), Hard <- Plan.hard, Soft <- Plan.soft,
  clock <- now,
  level <- [r \in Resources |-> Level(r)],
  late <- [r \in Resources |-> Ahead(r)],
  admitted <- [r \in Resources |->
                 {[at |-> e.at, upto |-> e.request_id] : e \in log[r]}],
  total <- granted,
  verdict <- Verdict

\* Every behaviour of the script is one of the abstract bucket, log and
\* spending: check.lua decides as if it refilled continuously and never expired
\* or trimmed anything.
ImplementsAdmission == Abstract!Spec
=============================================================================
