------------------------------ MODULE MCLedger ------------------------------
(* Small instances of module Ledger. *)
EXTENDS Ledger

tx(type, from, to, amount, nonce) ==
    [type |-> type, from |-> from, to |-> to, amount |-> amount, nonce |-> nonce]

\* The transaction that gives "a" the funds for what it does, and a delegation.
fund == tx("TRANSFER", "v", "a", 6, 0)

stake == tx("STAKE", "a", "v", 2, 0)

\* Rivals for the same nonces: "a" delegates or sends its funds on, "v" takes
\* back the stake that genesis gave it or adds to it.
TxPlain == {fund, stake, tx("TRANSFER", "v", "a", 4, 0),
            tx("TRANSFER", "a", "v", 3, 0), tx("TRANSFER", "a", "a", 1, 1),
            tx("UNSTAKE", "v", "v", 1, 1), tx("STAKE", "v", "v", 2, 1)}

\* Besides, "v" makes "w" a validator with a stake.
TxTwo == TxPlain \cup {tx("STAKE", "v", "w", 2, 1)}

\* Besides, "a" takes half of its delegation back.
TxMix == TxPlain \cup {tx("UNSTAKE", "a", "v", 1, 1), tx("TRANSFER", "v", "a", 1, 2)}

\* "v" spends nearly all it has while its delegator "a" is owed a share.
TxSpend == {fund, stake, tx("TRANSFER", "v", "a", 1, 1), tx("TRANSFER", "v", "a", 10, 2)}

\* Besides, payments back and changes of the validator's own stake.
TxEpoch == TxSpend \cup
           {tx("TRANSFER", "a", "v", 3, 0), tx("TRANSFER", "a", "a", 1, 1),
            tx("UNSTAKE", "v", "v", 1, 1), tx("STAKE", "v", "v", 2, 1)}

\* Everything of TxMix, and evidence against "v".
TxEvidence == TxMix \cup {tx("EVIDENCE", "a", "v", 0, 1)}

FeesDef == [TRANSFER |-> 1, STAKE |-> 1, UNSTAKE |-> 1, EVIDENCE |-> 0]
=============================================================================
