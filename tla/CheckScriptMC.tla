--------------------------- MODULE CheckScriptMC ---------------------------
(***************************************************************************)
(* One plan, a steady clock: four seconds of half-second ticks, months of  *)
(* three seconds.                                                          *)
(***************************************************************************)
EXTENDS CheckScriptRefinement, CheckResponse, TLC

OnePlan == {[cap |-> 3, rate |-> 1, limit |-> 3, window |-> 2, hard |-> 5, soft |-> 3]}

\* Two plans that agree on the window only: an upgrade, a downgrade or a stale
\* key cache lets checks under either of them alternate.
TwoPlans == {[cap |-> 1, rate |-> 1, limit |-> 1, window |-> 1, hard |-> 3, soft |-> 1],
             [cap |-> 2, rate |-> 1, limit |-> 3, window |-> 1, hard |-> 4, soft |-> 3]}

Symmetric == Permutations(Resources)
=============================================================================
