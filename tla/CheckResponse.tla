--------------------------- MODULE CheckResponse ---------------------------
(***************************************************************************)
(* What a gateway is told of a decision: services/checker.py, to_out and   *)
(* selected_policy.  Three layers decide, and the RateLimit header speaks  *)
(* for one of them: the one that denied, or else the tightest.             *)
(***************************************************************************)
EXTENDS CheckScript

\* In the order of the dictionary, which breaks what ties the windows leave.
Order == <<"burst", "sustained", "quota">>

\* The policy window of the bucket: how long a full drain takes to refill.
burst_window_seconds(p) == CeilDiv(p.cap, p.rate)

\* The months of CheckScript are equally long.
month_window_seconds == MonthLen \div UTOK

\* A script reply by layer, with the length of each layer's policy window.
Layers(x) ==
  [burst |-> [limit |-> x.plan.cap, remaining |-> x.b_remaining,
              reset |-> x.b_reset, window |-> burst_window_seconds(x.plan)],
   sustained |-> [limit |-> x.plan.limit, remaining |-> x.s_remaining,
                  reset |-> x.s_reset, window |-> x.plan.window],
   quota |-> [limit |-> x.plan.hard, remaining |-> x.q_remaining,
              reset |-> x.q_reset, window |-> month_window_seconds]]

\* A ratio that is divided without a fraction.
SlipTighter(a, b) ==
  \/ a.remaining \div a.limit < b.remaining \div b.limit
  \/ a.remaining \div a.limit = b.remaining \div b.limit /\ a.window < b.window

\* The smaller ratio of remaining to limit, or the same and a shorter window.
Tighter(a, b) ==
  \/ a.remaining * b.limit < b.remaining * a.limit
  \/ a.remaining * b.limit = b.remaining * a.limit /\ a.window < b.window

\* The first of the layers that no other is tighter than.
Tightest(layers) ==
  LET least == {i \in DOMAIN Order :
                  \A j \in DOMAIN Order : ~Tighter(layers[Order[j]], layers[Order[i]])}
  IN  layers[Order[CHOOSE i \in least : \A j \in least : i <= j]]

\* The tightest layer, of a denial too.
SlipSelectedPolicy(x) == Tightest(Layers(x))

\* The layer the RateLimit header speaks for.
selected_policy(x) ==
  IF Denied(x) THEN Layers(x)[x.deny_layer] ELSE Tightest(Layers(x))

\* The fields of the answer that the headers render; -1 where one is left out.
to_out(x) ==
  [limit |-> selected_policy(x).limit,
   remaining |-> selected_policy(x).remaining,
   reset |-> selected_policy(x).reset,
   retry_after |-> IF Denied(x) THEN x.retry_after ELSE -1]

-----------------------------------------------------------------------------
(* Properties                                                              *)

\* The one `remaining` of an answer stands for all three layers: when it is
\* positive the next request of cost one is admitted, and when it is zero a
\* request made at once is refused, whichever layer would do that, unless the
\* microtoken that rounding had held back makes up a token.
HeaderIsTrue ==
  Admitted(reply) =>
    LET r == reply.res
        p == reply.plan
        w == Trim(window[r], wexp[r], p, now)
    IN  IF to_out(reply).remaining > 0
        THEN FALSE \notin Verdicts(r, 1, p, now + 1)
        ELSE \A b \in Refill(bucket[r], p, now) :
               Allowed(b, w, UsedAt(now), 1, p) => b.t = UTOK

\* A client that is refused and comes back when the reported layer has reset is not
\* refused by that layer again, if nobody else comes and the layer's limit
\* can ever admit the request.
ResetClearsTheDenial ==
  Denied(reply) /\ Steady /\ reply.cost <= to_out(reply).limit =>
    LET p == reply.plan
        at == now + to_out(reply).reset * UTOK + 2
        w == Trim(window[reply.res], wexp[reply.res], p, at)
    IN  \A b \in Refill(bucket[reply.res], p, at) :
          CASE reply.deny_layer = "burst" -> BurstOk(b, reply.cost)
            [] reply.deny_layer = "sustained" -> SustainedOk(w, p)
            [] reply.deny_layer = "quota" -> QuotaOk(UsedAt(at), reply.cost, p)
=============================================================================
