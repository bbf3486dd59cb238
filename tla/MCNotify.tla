------------------------------ MODULE MCNotify ------------------------------
(***************************************************************************)
(* Two clients among each other, or a client and a webhook: the managers   *)
(* share no state, so behaviours of all three add only interleavings.      *)
(***************************************************************************)
EXTENDS Notify

CONSTANTS c1, c2, w1

KindDef == [n \in Notifier |-> IF n = "stats_loop" THEN "stats" ELSE "block"]

UsersDef == {{c1, c2}, {c1, w1}}

=============================================================================
