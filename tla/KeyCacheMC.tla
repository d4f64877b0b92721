----------------------------- MODULE KeyCacheMC -----------------------------
(***************************************************************************)
(* Checks of the one key and of a secret nobody has, with room for one     *)
(* cache entry.                                                            *)
(***************************************************************************)
EXTENDS KeyCache, TLC

Basic == [plan : {TRUE}, quota : {1}, soft : {FALSE}, webhook : {FALSE}]
Upgrade == [quota : {2}]

\* Soft thresholds and webhooks that come and go.
Warning == [plan : {TRUE}, quota : {1}, soft : {FALSE}, webhook : {TRUE}]
WarningChanges == [soft : BOOLEAN] \cup [webhook : BOOLEAN]

Symmetric == Permutations(Checks)
=============================================================================
