---------------------------- MODULE MCBlockchain ----------------------------
(***************************************************************************)
(* Small instances of Blockchain.  Transactions are <<sender, nonce, kind>>*)
(* with kind 0 for an ordinary one, 1 for a rival one with the same nonce  *)
(* and 2 for a REVOKE_KEY(signing).                                        *)
(***************************************************************************)
EXTENDS Blockchain

senderDef == [t \in Tx |-> t[1]]
nonceDef == [t \in Tx |-> t[2]]
RevocationDef == {t \in Tx : t[3] = 2}

\* Two blocks of sender 1, a rival in the second, and a fork of sender 2 as long
\* as it takes to displace both.
TxDisplaced == {<<1, 0, 0>>, <<1, 1, 0>>, <<1, 1, 2>>, <<2, 0, 0>>, <<2, 1, 0>>, <<2, 2, 0>>}

\* A chain on which sender 1 signs twice, and a fork on which its first
\* transaction is a revocation.
TxFork == {<<1, 0, 0>>, <<1, 1, 0>>, <<1, 0, 2>>, <<2, 0, 0>>, <<2, 1, 0>>}

\* Everything one node's clients may submit.
TxSolo == {<<1, 0, 0>>, <<1, 1, 0>>, <<1, 1, 1>>, <<1, 1, 2>>, <<1, 2, 0>>,
           <<2, 0, 0>>, <<2, 1, 0>>, <<2, 1, 2>>}

=============================================================================
