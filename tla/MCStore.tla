------------------------------- MODULE MCStore ------------------------------
(* Small instances of module Store. *)
EXTENDS Store

tx(type, from, to, amount, nonce) ==
    [type |-> type, from |-> from, to |-> to, amount |-> amount, nonce |-> nonce]

\* "v" funds "w" or "a"; "w" makes itself a validator and takes half of its
\* stake back, "a" sends all it has back, and "v" adds to the stake that genesis
\* gave it or takes it back.
TxDef == {tx("TRANSFER", "v", "w", 5, 0), tx("STAKE", "w", "w", 2, 0),
          tx("UNSTAKE", "w", "w", 1, 1),
          tx("TRANSFER", "v", "a", 5, 0), tx("TRANSFER", "a", "v", 4, 0),
          tx("STAKE", "v", "v", 2, 1), tx("UNSTAKE", "v", "v", 1, 1)}

FeesDef == [TRANSFER |-> 1, STAKE |-> 1, UNSTAKE |-> 1, EVIDENCE |-> 0]
=============================================================================
