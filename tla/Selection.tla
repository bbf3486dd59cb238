----------------------------- MODULE Selection ------------------------------
(* Choosing elements of a sequence by position, in a form that can be proved *)
(* about: tlapm does not know SelectSeq.                                     *)
EXTENDS Integers, Sequences, FiniteSets

\* The elements of q at the positions in keep, in their order.
Select(q, keep) ==
    [k \in 1..Cardinality(keep) |->
        q[CHOOSE i \in keep : Cardinality({j \in keep : j <= i}) = k]]
=============================================================================
