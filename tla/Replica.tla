------------------------------- MODULE Replica ------------------------------
(***************************************************************************)
(* What the gossip of blocks promises, without messages: one log that only *)
(* the node whose turn it is extends, and only when it holds all of it,    *)
(* and a copy at each node that is a prefix of the log and only grows.  A  *)
(* log is its length, since there is one block at a height.                *)
(***************************************************************************)
EXTENDS Naturals

CONSTANTS
    Node,
    Turn            \* the validator of a height

VARIABLES
    log,            \* the length of the longest chain
    copy            \* the length of the chain at each node

Init == log = 0 /\ copy = [n \in Node |-> 0]

Extend(n) ==
    /\ log' = log + 1
    /\ copy[n] = log
    /\ Turn[log + 1] = n
    /\ copy' = [copy EXCEPT ![n] = log + 1]

CatchUp(n) ==
    /\ \E k \in (copy[n] + 1)..log : copy' = [copy EXCEPT ![n] = k]
    /\ UNCHANGED log

Next == \E n \in Node : Extend(n) \/ CatchUp(n)

Spec == Init /\ [][Next]_<<log, copy>>

=============================================================================
