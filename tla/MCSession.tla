----------------------------- MODULE MCSession ------------------------------
(* Nodes 1 and 2 have keys and dial each other; 3 has none and dials, or is *)
(* dialled, at the same time.                                               *)
EXTENDS Session

CONSTANTS c12, c21, c31, c23

CallerDef == [c \in Conn |-> CASE c = c12 -> 1 [] c = c21 -> 2 [] c = c31 -> 3 [] c = c23 -> 2]

CalleeDef == [c \in Conn |-> CASE c = c12 -> 2 [] c = c21 -> 1 [] c = c31 -> 1 [] c = c23 -> 3]

\* 1 has seen 2 fail a handshake before.
ScoreDef == [n \in Node |-> [m \in Node |-> IF n = 1 /\ m = 2 THEN 0 ELSE 100]]

\* Only 2 broadcasts: at the caller's end of one connection and at the
\* responder's end of the other.
DataDef == [n \in Node |-> IF n = 2 THEN 1 ELSE 0]

DialsDef == {{c12, c21, c31}, {c12, c23}, {c21, c23}}

=============================================================================
