------------------------------- MODULE MCSync -------------------------------
(* Two peers; q is on a branch of its own, and its signatures may be bad.   *)
EXTENDS Sync

CONSTANTS p, q

\* q on a branch of its own.
Two == [x \in Peer |-> IF x = q THEN 3 ELSE 2]

\* q is ahead.
Heights == [x \in Peer |-> IF x = q THEN 3 ELSE 2]

\* A score from which one bad block or eight late answers lead to a ban.
Blamed == -60

\* q may be under a key _inbound_...
TempsDef == {{}, {q}}

\* The first block, which all have, registers the validator of p's third.
First == <<1, 0>>

Third == {<<3, 2>>}

=============================================================================
