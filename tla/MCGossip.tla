------------------------------ MODULE MCGossip ------------------------------
(* Three nodes in a line, n1 - n2 - n3; n1 and n3 validate.                *)
EXTENDS Gossip

CONSTANTS n1, n2, n3

Both(S) == S \cup {<<l[2], l[1]>> : l \in S}

Line == Both({<<n1, n2>>, <<n2, n3>>})

\* n1 and n2 dialled each other, and n2 has the larger address.
Inbound == {<<n2, n1>>}

\* All have refused blocks of each other before; another one makes n3 ban n2.
Blamed == [l \in Links |-> IF l = <<n3, n2>> THEN -60 ELSE -40]

\* n1 is one message from being disconnected by n2, and nobody else.
Counted == [l \in Links |-> IF l = <<n2, n1>> THEN 1 ELSE 0]

TurnDef == [i \in 1..MaxHeight |-> IF i % 2 = 1 THEN n1 ELSE n3]

=============================================================================
