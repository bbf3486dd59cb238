-------------------------- MODULE BlockchainProofs --------------------------
(***************************************************************************)
(* Theorems about module Blockchain: its type invariant in every mode; the *)
(* safety of the chain and of reorganizations in memory mode; and the pool *)
(* of a lone validator: its counters are exact, it holds nothing of a      *)
(* revoked sender, and the block that it gives is always valid.            *)
(***************************************************************************)
EXTENDS Blockchain, FiniteFacts

-----------------------------------------------------------------------------
(* Types *)

\* The nonces of the transactions in S have an upper bound.
Bounded(S) == \E b \in Nat : \A t \in S : nonce[t] <= b

\* What a block is made of.
LEMMA BlockType ==
    ASSUME NEW txs \in Blocks
    PROVE  /\ txs \in Seq(Tx)
           /\ Len(txs) \in 1..MAX_TX_PER_BLOCK
           /\ \A i \in 1..Len(txs) : txs[i] \in Tx
           /\ Range(txs) = {txs[i] : i \in 1..Len(txs)}
           /\ Range(txs) \subseteq Tx
           /\ IsFiniteSet(Range(txs))
<1>1. PICK n \in 1..MAX_TX_PER_BLOCK : txs \in [1..n -> Tx]
    BY DEF Blocks
<1>2. n \in Nat
    BY <1>1, BoundAssumption
<1>3. txs \in Seq(Tx)
    BY <1>1, <1>2, SeqDef
<1>4. Len(txs) = n
    BY <1>1, <1>2, <1>3, LenProperties
<1>5. Range(txs) = {txs[i] : i \in 1..Len(txs)}
    BY <1>1, <1>4 DEF Range
<1>6. IsFiniteSet({txs[i] : i \in 1..n})
    <2>1. IsFiniteSet(1..n)
        BY <1>2, FS_Interval
    <2>2. txs \in Surjection(1..n, Range(txs))
        BY <1>1 DEF Surjection, Range
    <2> QED BY <2>1, <2>2, <1>4, <1>5, FS_Surjection
<1> QED BY <1>1, <1>3, <1>4, <1>5, <1>6

\* A nonempty sequence of transactions that is not too long is a block.
LEMMA SeqIsBlock ==
    ASSUME NEW txs \in Seq(Tx), Len(txs) \in 1..MAX_TX_PER_BLOCK
    PROVE  txs \in Blocks
BY LenProperties DEF Blocks

\* The nonces of a block have an upper bound.
LEMMA BlockBounded ==
    ASSUME NEW txs \in Blocks
    PROVE  Bounded(Range(txs))
<1> DEFINE n == Len(txs)
           Bnd(k) == \E b \in Nat : \A i \in 1..k : nonce[txs[i]] <= b
           T == {k \in 0..n : ~ Bnd(k)}
<1>1. /\ n \in Nat
      /\ \A i \in 1..n : txs[i] \in Tx
      /\ Range(txs) = {txs[i] : i \in 1..n}
    BY BlockType, BoundAssumption
<1>2. \A i \in 1..n : nonce[txs[i]] \in Nat
    BY <1>1, TxAssumption
<1>3. SUFFICES Bnd(n)
    BY <1>1 DEF Bounded
<1>4. SUFFICES ASSUME ~ Bnd(n) PROVE FALSE
    OBVIOUS
<1>5. PICK k \in T : \A j \in T : k <= j
    <2>1. T \subseteq Nat /\ n \in T
        BY <1>1, <1>4
    <2> HIDE DEF T
    <2> QED BY <2>1, LeastNat
<1>6. k # 0
    BY <1>5
<1>7. k \in 1..n /\ k - 1 \in 0..n /\ ~ (k <= k - 1)
    <2>1. k \in 0..n
        BY <1>5
    <2> HIDE DEF T, Bnd
    <2> QED BY <2>1, <1>6, <1>1
<1>8. Bnd(k - 1)
    <2> HIDE DEF Bnd
    <2> QED BY <1>5, <1>7
<1>9. PICK b \in Nat : \A i \in 1..(k - 1) : nonce[txs[i]] <= b
    BY <1>8
<1> HIDE DEF T, Bnd
<1>10. PICK c \in Nat : c >= b /\ c >= nonce[txs[k]]
    <2> DEFINE m == nonce[txs[k]]
    <2>1. m \in Nat
        BY <1>2, <1>7
    <2> HIDE DEF m
    <2>2. b + m \in Nat /\ b + m >= b /\ b + m >= m
        BY <2>1, <1>9
    <2> USE DEF m
    <2> QED BY <2>2
<1>11. ASSUME NEW i \in 1..k PROVE nonce[txs[i]] <= c
    <2>1. CASE i = k
        BY <2>1, <1>10
    <2>2. CASE i # k
        <3>1. i \in 1..(k - 1) /\ i \in 1..n
            BY <2>2, <1>7, <1>1
        <3>2. nonce[txs[i]] <= b /\ nonce[txs[i]] \in Nat
            BY <3>1, <1>9, <1>2
        <3> QED BY <3>2, <1>10
    <2> QED BY <2>1, <2>2
<1>12. Bnd(k)
    BY <1>10, <1>11 DEF Bnd
<1> QED BY <1>5, <1>12 DEF T

\* Max of a sender's nonces in S and one more number.
LEMMA MaxNonce ==
    ASSUME NEW S, S \subseteq Tx, Bounded(S), NEW a \in Int, NEW s,
           NEW M, M = {a} \cup NoncesOf(S, s)
    PROVE  /\ M \subseteq Int /\ Max(M) \in Int
           /\ Max(M) \in M /\ \A y \in M : y <= Max(M)
<1>1. PICK b \in Nat : \A t \in S : nonce[t] <= b
    BY DEF Bounded
<1>2. NoncesOf(S, s) \subseteq Nat /\ \A y \in NoncesOf(S, s) : y <= b
    BY <1>1, TxAssumption DEF NoncesOf
<1>3. PICK c \in Int : c >= a /\ c >= b
    <2>1. IF a <= b THEN b >= a /\ b >= b ELSE a >= a /\ a >= b
        OBVIOUS
    <2> QED BY <2>1
<1>4. M \subseteq Int /\ M # {} /\ \A y \in M : y <= c
    <2>1. \A y \in NoncesOf(S, s) : y \in Int /\ y <= c
        BY <1>2, <1>3
    <2> QED BY <2>1, <1>3
<1>5. Max(M) \in M /\ \A y \in M : y <= Max(M)
    BY <1>4, MaxExists
<1> QED BY <1>4, <1>5

\* Subsets and unions of sets with bounded nonces.
LEMMA BoundedSets ==
    ASSUME NEW S, NEW T, S \subseteq Tx, T \subseteq Tx, Bounded(S), Bounded(T)
    PROVE  \A U : U \subseteq S \cup T => Bounded(U)
<1>1. PICK a \in Nat : \A t \in S : nonce[t] <= a
    BY DEF Bounded
<1>2. PICK b \in Nat : \A t \in T : nonce[t] <= b
    BY DEF Bounded
<1>3. a + b \in Nat /\ \A t \in S \cup T : nonce[t] <= a + b
    BY <1>1, <1>2, TxAssumption
<1> QED BY <1>3 DEF Bounded

ChainType ==
    /\ blocks \in Seq(Blocks)
    /\ txById \subseteq Tx
    /\ txsBySender \subseteq Tx
    /\ senderNonce \in [Sender -> Int]
    /\ revokedKeys \subseteq Sender
    /\ Bounded(txsBySender)

PoolType == txPool \in Seq(Tx) /\ poolSenderCount \in [Sender -> Nat]

ReorgType ==
    /\ phase \in Phases
    /\ savedChain \in Seq(Blocks)
    /\ forkStart \in Nat \ {0}
    /\ forkLeft \in Nat
    /\ displaced \subseteq Tx
    /\ phase \in {"rollback", "apply"} => forkLeft > 0

\* TypeOK is inductive once the nonces in the per-sender lists are bounded,
\* which the maximum taken by _rollback_block needs, and a fork has a block
\* left as long as one is expected.
TypeInv == ChainType /\ PoolType /\ ReorgType

\* Only addresses revoke keys.
LEMMA RevokersType ==
    ASSUME NEW S
    PROVE  RevokersOf(S) \subseteq Sender
BY TxAssumption DEF RevokersOf

\* Appending a block (_append_block_inner) keeps the types of the chain state.
LEMMA AppendType ==
    ASSUME ChainType, NEW txs \in Blocks, _append_block(txs)
    PROVE  ChainType'
<1> USE DEF ChainType
<1>1. Range(txs) \subseteq Tx /\ Bounded(Range(txs))
    BY BlockType, BlockBounded
<1>2. blocks' \in Seq(Blocks)
    BY AppendProperties DEF _append_block
<1>3. txById' \subseteq Tx /\ txsBySender' \subseteq Tx
    BY <1>1 DEF _append_block
<1>4. senderNonce' \in [Sender -> Int]
    <2>1. \A s \in Sender : Max({senderNonce[s]} \cup NoncesOf(Range(txs), s)) \in Int
        BY <1>1, MaxNonce
    <2> QED BY <2>1 DEF _append_block
<1>5. revokedKeys' \subseteq Sender
    BY RevokersType DEF _append_block
<1>6. Bounded(txsBySender')
    <2>1. txsBySender' \subseteq txsBySender \cup Range(txs)
        BY DEF _append_block
    <2> QED BY <2>1, <1>1, BoundedSets
<1>7. Bounded(txsBySender)'
    BY <1>6 DEF Bounded
<1> QED BY <1>2, <1>3, <1>4, <1>5, <1>7

\* What _rollback_block does to the indices keeps their types.
LEMMA UnindexType ==
    ASSUME ChainType, NEW txs \in Blocks,
           txById' = txById \ Range(txs),
           txsBySender' = txsBySender \ Range(txs),
           senderNonce' = NoncesAfterRollback(txs),
           revokedKeys' = revokedKeys \ RevokersOf(Range(txs)),
           blocks' \in Seq(Blocks)
    PROVE  ChainType'
<1> USE DEF ChainType
<1>1. Bounded(txsBySender')
    BY BoundedSets
<1>2. senderNonce' \in [Sender -> Int]
    <2>1. ASSUME NEW s \in Sender
          PROVE  Max({-1} \cup NoncesOf(txsBySender \ Range(txs), s)) \in Int
        <3>1. txsBySender \ Range(txs) \subseteq Tx /\ Bounded(txsBySender \ Range(txs))
            BY <1>1
        <3>2. -1 \in Int
            OBVIOUS
        <3> QED BY <3>1, <3>2, MaxNonce
    <2> QED BY <2>1 DEF NoncesAfterRollback
<1>3. Bounded(txsBySender)'
    BY <1>1 DEF Bounded
<1> QED BY <1>2, <1>3

\* So does an append that raises and is undone.
LEMMA UndoneType ==
    ASSUME ChainType, NEW txs \in Blocks, _append_block_undone(txs)
    PROVE  ChainType'
BY UnindexType DEF _append_block_undone, ChainType

\* So does _rollback_block, and the block it takes off is a block.
LEMMA RollbackType ==
    ASSUME ChainType, height >= 1, _rollback_block
    PROVE  ChainType' /\ blocks[height] \in Blocks
<1>1. height \in Nat /\ blocks \in Seq(Blocks)
    BY LenProperties DEF ChainType, height
<1>2. blocks[height] \in Blocks
    BY <1>1, ElementOfSeq DEF height
<1>3. SubSeq(blocks, 1, height - 1) \in Seq(Blocks)
    BY <1>1, SubSeqProperties DEF height
<1> QED BY <1>2, <1>3, UnindexType DEF _rollback_block

\* Purging and draining keep the types of the pool: no counter goes below zero.
LEMMA PurgeType ==
    ASSUME PoolType, NEW who, NEW mined, IsFiniteSet(mined)
    PROVE  /\ PoolWithout(who, mined) \in Seq(Tx)
           /\ CountsWithout(who, mined) \in [Sender -> Nat]
<1> USE DEF PoolType
<1>1. PoolWithout(who, mined) \in Seq(Tx)
    BY SelectType DEF PoolWithout
<1>2. \A s : PoolCount(s) \in Nat
    BY PositionsFinite, LenProperties DEF PoolCount
<1>3. \A s : Cardinality({t \in mined : sender[t] = s}) \in Nat
    BY FS_Subset, FS_CardinalityType
<1>4. \A m \in Int : Max({0, m}) \in Nat
    <2> TAKE m \in Int
    <2>1. CASE m >= 0
        <3>1. {0, m} \subseteq Int /\ m \in {0, m} /\ \A y \in {0, m} : y <= m
            BY <2>1
        <3>2. Max({0, m}) = m
            BY <3>1, MaxIs
        <3> QED BY <3>2, <2>1
    <2>2. CASE ~ (m >= 0)
        <3>1. {0, m} \subseteq Int /\ 0 \in {0, m} /\ \A y \in {0, m} : y <= 0
            BY <2>2
        <3>2. Max({0, m}) = 0
            BY <3>1, MaxIs
        <3> QED BY <3>2
    <2> QED BY <2>1, <2>2
<1> DEFINE purged == [s \in Sender |->
            IF s \in who THEN Max({0, poolSenderCount[s] - PoolCount(s)})
                         ELSE poolSenderCount[s]]
<1>5. purged \in [Sender -> Nat]
    <2>1. \A s \in Sender : Max({0, poolSenderCount[s] - PoolCount(s)}) \in Nat
        BY <1>2, <1>4
    <2> QED BY <2>1
<1>6. CountsWithout(who, mined) = [s \in Sender |->
            Max({0, purged[s] - Cardinality({t \in mined : sender[t] = s})})]
    BY DEF CountsWithout
<1> HIDE DEF purged
<1>7. \A s \in Sender :
        Max({0, purged[s] - Cardinality({t \in mined : sender[t] = s})}) \in Nat
    <2> TAKE s \in Sender
    <2>1. purged[s] - Cardinality({t \in mined : sender[t] = s}) \in Int
        <3> DEFINE c == Cardinality({t \in mined : sender[t] = s})
        <3>1. purged[s] \in Nat /\ c \in Nat
            BY <1>3, <1>5
        <3> HIDE DEF c
        <3>2. purged[s] - c \in Int
            BY <3>1
        <3> QED BY <3>2 DEF c
    <2> QED BY <2>1, <1>4
<1> QED BY <1>1, <1>6, <1>7

\* So does the K-03 purge alone.
LEMMA PurgePoolType ==
    ASSUME PoolType, NEW txs, _purge_pool(txs)
    PROVE  PoolType'
BY PurgeType, FS_EmptySet DEF _purge_pool, PoolType

\* So do the purge and _drain_pool together.
LEMMA DrainPoolType ==
    ASSUME PoolType, NEW txs \in Blocks, _purge_and_drain_pool(txs)
    PROVE  PoolType'
BY PurgeType, BlockType DEF _purge_and_drain_pool, PoolType

\* A failed append keeps the types of chain and pool.
LEMMA FailedAppendType ==
    ASSUME ChainType, PoolType, NEW txs \in Blocks, NEW k, FailedAppend(txs, k)
    PROVE  ChainType' /\ PoolType'
BY UndoneType, PurgePoolType DEF FailedAppend

\* A block built from the pool and accepted by validate_block is a block.
LEMMA NextBlockType ==
    ASSUME PoolType, validate_block(NextBlock)
    PROVE  NextBlock \in Blocks
<1>1. txPool \in Seq(Tx) /\ Len(txPool) \in Nat
    BY LenProperties DEF PoolType
<1>2. MinOf(Len(txPool), MAX_TX_PER_BLOCK) \in Nat
    BY <1>1, BoundAssumption DEF MinOf
<1>3. \A i \in 1..MinOf(Len(txPool), MAX_TX_PER_BLOCK) : i \in 1..Len(txPool)
    BY <1>1, BoundAssumption DEF MinOf
<1>4. NextBlock \in Seq(Tx)
    BY <1>1, <1>2, <1>3, SubSeqProperties DEF NextBlock
<1> QED BY <1>4, SeqIsBlock DEF validate_block

\* Admitting one transaction keeps the types of the pool.
LEMMA AddToPoolType ==
    ASSUME PoolType, NEW t \in Tx,
           txPool' = Append(txPool, t),
           poolSenderCount' = [poolSenderCount EXCEPT ![sender[t]] = @ + 1]
    PROVE  PoolType'
<1>1. txPool' \in Seq(Tx)
    BY AppendProperties DEF PoolType
<1>2. sender[t] \in Sender /\ poolSenderCount \in [Sender -> Nat]
    BY TxAssumption DEF PoolType
<1>3. poolSenderCount[sender[t]] + 1 \in Nat
    <2>1. poolSenderCount[sender[t]] \in Nat
        BY <1>2
    <2> QED BY <2>1
<1>4. poolSenderCount' \in [Sender -> Nat]
    BY <1>2, <1>3
<1> QED BY <1>1, <1>4 DEF PoolType

\* Going to another phase of try_reorg keeps the types of its locals.
LEMMA ContinueType ==
    ASSUME ReorgType, NEW p \in Phases, Continue(p),
           p = "apply" => phase = "rollback", p # "rollback"
    PROVE  ReorgType'
<1>1. CASE p = "idle"
    BY <1>1, EmptySeq DEF ReorgType, Continue
<1>2. CASE p # "idle"
    BY <1>2 DEF ReorgType, Continue
<1> QED BY <1>1, <1>2

\* Every step of every method keeps the strengthened types.
LEMMA TypeStep ==
    ASSUME TypeInv, [Next]_vars
    PROVE  TypeInv'
<1>0. ChainType /\ PoolType /\ ReorgType
    BY DEF TypeInv
<1> DEFINE SameChain == UNCHANGED chainVars
           SamePool  == UNCHANGED poolVars
           SameReorg == UNCHANGED reorgVars
<1>a. SameChain => ChainType'
    BY <1>0 DEF chainVars, ChainType, Bounded
<1>b. SamePool => PoolType'
    BY <1>0 DEF poolVars, PoolType
<1>c. SameReorg => ReorgType'
    BY <1>0 DEF reorgVars, ReorgType
<1>d. height \in Nat /\ Len(savedChain) \in Nat
    BY <1>0, LenProperties DEF ChainType, ReorgType, height
<1>e. height >= forkStart => height >= 1
    BY <1>0, <1>d DEF ReorgType
<1>f. phase = "restore" /\ height < Len(savedChain) => savedChain[height + 1] \in Blocks
    BY <1>0, <1>d, ElementOfSeq DEF ReorgType
<1> DEFINE Goal == ChainType' /\ PoolType' /\ ReorgType'
<1> SUFFICES Goal
    BY DEF TypeInv
<1>1. ASSUME NEW t \in Tx, submit_tx(t) PROVE Goal
    <2>1. SameChain /\ SameReorg
        BY <1>1 DEF submit_tx
    <2>2. PoolType'
        BY <1>0, <1>1, AddToPoolType DEF submit_tx
    <2> QED BY <2>1, <2>2, <1>a, <1>c
<1>2. CASE produce_block
    <2>1. NextBlock \in Blocks
        BY <1>0, <1>2, NextBlockType DEF produce_block
    <2>2. ChainType' /\ PoolType'
        BY <2>1, <1>0, <1>2, AppendType, DrainPoolType DEF produce_block
    <2> QED BY <2>2, <1>c, <1>2 DEF produce_block
<1>3. CASE produce_block_raises
    <2>1. NextBlock \in Blocks
        BY <1>0, <1>3, NextBlockType DEF produce_block_raises
    <2>2. ChainType' /\ PoolType'
        BY <2>1, <1>0, <1>3, FailedAppendType DEF produce_block_raises
    <2> QED BY <2>2, <1>c, <1>3 DEF produce_block_raises
<1>4. ASSUME NEW txs \in Blocks, add_block(txs) PROVE Goal
    <2>1. ChainType' /\ PoolType'
        BY <1>0, <1>4, AppendType, DrainPoolType DEF add_block
    <2> QED BY <2>1, <1>c, <1>4 DEF add_block
<1>5. ASSUME NEW txs \in Blocks, add_block_rejects(txs) PROVE Goal
    <2>1. ChainType' /\ PoolType'
        BY <1>0, <1>5, FailedAppendType DEF add_block_rejects
    <2> QED BY <2>1, <1>c, <1>5 DEF add_block_rejects
<1>6. ASSUME NEW start \in 1..MaxHeight, NEW len \in 1..MaxForkLen,
             try_reorg(start, len)
      PROVE  Goal
    <2>1. SameChain /\ SamePool
        BY <1>6 DEF try_reorg
    <2>2. ReorgType'
        BY <1>0, <1>6, BoundAssumption DEF try_reorg, ReorgType, ChainType, Phases
    <2> QED BY <2>1, <2>2, <1>a, <1>b
<1>7. CASE reorg_rollback
    <2>1. ChainType' /\ blocks[height] \in Blocks
        BY <1>0, <1>e, <1>7, RollbackType DEF reorg_rollback
    <2>2. SamePool
        BY <1>7 DEF reorg_rollback, poolVars
    <2>3. ReorgType'
        <3>1. Range(blocks[height]) \subseteq Tx
            BY <2>1, BlockType
        <3> QED BY <3>1, <1>0, <1>7 DEF reorg_rollback, ReorgType
    <2> QED BY <2>1, <2>2, <2>3, <1>b
<1>8. CASE reorg_rolled_back \/ reorg_reject \/ reorg_undone \/ reorg_failed
            \/ reorg_complete
    <2>1. SameChain /\ SamePool
        BY <1>8 DEF reorg_rolled_back, reorg_reject, reorg_undone, reorg_failed,
                    reorg_complete
    <2>2. \E p \in Phases : /\ Continue(p) /\ p # "rollback"
                            /\ p = "apply" => phase = "rollback"
        BY <1>8 DEF reorg_rolled_back, reorg_reject, reorg_undone, reorg_failed,
                    reorg_complete, Phases
    <2>3. ReorgType'
        BY <2>2, <1>0, ContinueType
    <2> QED BY <2>1, <2>3, <1>a, <1>b
<1>9. ASSUME NEW txs \in Blocks, reorg_apply(txs) PROVE Goal
    <2>1. ChainType' /\ PoolType'
        BY <1>0, <1>9, AppendType, PurgePoolType DEF reorg_apply
    <2>2. ReorgType'
        <3>1. forkLeft' \in Nat
            BY <1>0, <1>9 DEF reorg_apply, ReorgType
        <3> QED BY <3>1, <1>0, <1>9 DEF reorg_apply, ReorgType, Phases
    <2> QED BY <2>1, <2>2
<1>10. ASSUME NEW txs \in Blocks, reorg_apply_raises(txs) PROVE Goal
    <2>1. ChainType' /\ PoolType'
        BY <1>0, <1>10, FailedAppendType DEF reorg_apply_raises
    <2>2. ReorgType'
        BY <1>0, <1>10, ContinueType DEF reorg_apply_raises, Phases
    <2> QED BY <2>1, <2>2
<1>11. CASE reorg_undo
    <2>1. ChainType'
        BY <1>0, <1>e, <1>11, RollbackType DEF reorg_undo
    <2> QED BY <2>1, <1>11, <1>b, <1>c DEF reorg_undo
<1>12. CASE reorg_restore
    <2>1. ChainType' /\ PoolType'
        BY <1>0, <1>f, <1>12, AppendType, PurgePoolType DEF reorg_restore
    <2> QED BY <2>1, <1>12, <1>c DEF reorg_restore
<1>13. ASSUME NEW t \in Tx, reorg_return(t) PROVE Goal
    <2>1. SameChain
        BY <1>13 DEF reorg_return
    <2>2. PoolType'
        BY <1>0, <1>b, <1>13, AddToPoolType DEF reorg_return
    <2>3. ReorgType'
        BY <1>0, <1>13 DEF reorg_return, ReorgType
    <2> QED BY <2>1, <2>2, <2>3, <1>a
<1>14. CASE reorg_raises
    <2>1. ReorgType'
        BY <1>0, <1>14, ContinueType DEF reorg_raises, Phases
    <2>2. ChainType' /\ PoolType'
        BY <1>0, <1>14, <1>a, <1>b, <1>f, FailedAppendType DEF reorg_raises
    <2> QED BY <2>1, <2>2
<1>15. CASE UNCHANGED vars
    BY <1>15, <1>a, <1>b, <1>c DEF vars
<1> QED
    BY <1>1, <1>2, <1>3, <1>4, <1>5, <1>6, <1>7, <1>8, <1>9, <1>10, <1>11,
       <1>12, <1>13, <1>14, <1>15 DEF Next, ReorgStep

\* The initial state has the strengthened types.
LEMMA TypeInit == Init => TypeInv
<1> SUFFICES ASSUME Init PROVE TypeInv
    OBVIOUS
<1>1. Bounded({})
    BY DEF Bounded
<1>2. ChainType
    BY <1>1, EmptySeq DEF Init, ChainType
<1>3. PoolType
    BY EmptySeq DEF Init, PoolType
<1>4. ReorgType
    BY EmptySeq DEF Init, ReorgType, Phases
<1> QED BY <1>2, <1>3, <1>4 DEF TypeInv

\* The strengthened types imply those the runs check.
LEMMA TypeInvOK == TypeInv => TypeOK
BY DEF TypeInv, ChainType, PoolType, ReorgType, TypeOK

\* In every mode, whatever arrives and whatever fails, every variable keeps its
\* type: no counter of the pool goes below zero, no nonce is left undefined by
\* the recomputation in _rollback_block, and try_reorg never runs out of blocks.
THEOREM TypeCorrect == Spec => []TypeOK
<1>1. TypeInv /\ [Next]_vars => TypeInv'
    BY TypeStep
<1> QED BY <1>1, TypeInit, TypeInvOK, PTL DEF Spec

-----------------------------------------------------------------------------
(* Block sequences *)

\* The transactions of n + 1 blocks are those of n blocks and of the next one.
LEMMA TxsToFacts ==
    ASSUME NEW bs \in Seq(Blocks), NEW n \in 1..Len(bs)
    PROVE  /\ TxsTo(bs, n) = TxsTo(bs, n - 1) \cup Range(bs[n])
           /\ TxsTo(bs, n) \subseteq Tx
           /\ Range(bs[n]) \subseteq Tx
           /\ bs[n] \in Blocks
<1>1. Len(bs) \in Nat /\ \A i \in 1..Len(bs) : bs[i] \in Blocks
    BY LenProperties, ElementOfSeq
<1>2. \A i \in 1..Len(bs) : Range(bs[i]) \subseteq Tx
    BY <1>1, BlockType
<1>3. 1..n = 1..(n - 1) \cup {n} /\ 1..n \subseteq 1..Len(bs)
    BY <1>1
<1> QED BY <1>1, <1>2, <1>3 DEF TxsTo

\* No block, no transaction.
LEMMA TxsToZero == \A bs : TxsTo(bs, 0) = {}
BY DEF TxsTo

\* Chains that agree on their first n blocks hold the same transactions there.
LEMMA TxsToPrefix ==
    ASSUME NEW bs, NEW cs, NEW n \in Nat, \A i \in 1..n : bs[i] = cs[i]
    PROVE  TxsTo(bs, n) = TxsTo(cs, n)
BY DEF TxsTo

\* The transactions of a chain are transactions.
LEMMA TxsOfType ==
    ASSUME NEW bs \in Seq(Blocks)
    PROVE  TxsOf(bs) \subseteq Tx
<1>1. Len(bs) \in Nat
    BY LenProperties
<1>2. CASE Len(bs) = 0
    BY <1>2, TxsToZero DEF TxsOf
<1>3. CASE Len(bs) # 0
    BY <1>1, <1>3, TxsToFacts DEF TxsOf
<1> QED BY <1>2, <1>3

\* A legal chain has no gap in a sender's nonces.
LEMMA LegalContiguous ==
    ASSUME NEW bs \in Seq(Blocks), LegalChain(bs)
    PROVE  Contiguous(TxsOf(bs))
<1>1. Len(bs) \in Nat
    BY LenProperties
<1>2. CASE Len(bs) = 0
    BY <1>2, TxsToZero DEF TxsOf, Contiguous
<1>3. CASE Len(bs) # 0
    <2>1. Len(bs) \in 1..Len(bs)
        BY <1>1, <1>3
    <2>2. Extends(bs[Len(bs)], TxsTo(bs, Len(bs) - 1))
        BY <2>1 DEF LegalChain
    <2>3. TxsOf(bs) = TxsTo(bs, Len(bs) - 1) \cup Range(bs[Len(bs)])
        BY <2>1, TxsToFacts DEF TxsOf
    <2> QED BY <2>2, <2>3 DEF Extends
<1> QED BY <1>2, <1>3

\* Adding a block that extends the chain.
LEMMA LegalAppend ==
    ASSUME NEW bs \in Seq(Blocks), LegalChain(bs), NEW txs \in Blocks,
           Extends(txs, TxsOf(bs)), NEW cs, cs = Append(bs, txs)
    PROVE  /\ LegalChain(cs)
           /\ TxsOf(cs) = TxsOf(bs) \cup Range(txs)
           /\ cs \in Seq(Blocks) /\ Len(cs) = Len(bs) + 1
           /\ \A i \in 1..Len(bs) : cs[i] = bs[i]
<1>1. /\ cs \in Seq(Blocks) /\ Len(cs) = Len(bs) + 1 /\ Len(bs) \in Nat
      /\ \A i \in 1..Len(bs) : cs[i] = bs[i]
      /\ cs[Len(bs) + 1] = txs
    BY AppendProperties, LenProperties
<1>2. ASSUME NEW n \in 0..Len(bs) PROVE TxsTo(cs, n) = TxsTo(bs, n)
    <2>1. n \in Nat /\ \A i \in 1..n : cs[i] = bs[i]
        BY <1>1
    <2> QED BY <2>1, TxsToPrefix
<1>3. TxsOf(cs) = TxsOf(bs) \cup Range(txs)
    <2>1. Len(cs) \in 1..Len(cs) /\ Len(cs) - 1 = Len(bs)
        BY <1>1
    <2>2. TxsTo(cs, Len(cs)) = TxsTo(cs, Len(bs)) \cup Range(txs)
        <3>1. TxsTo(cs, Len(cs)) = TxsTo(cs, Len(cs) - 1) \cup Range(cs[Len(cs)])
            BY <1>1, <2>1, TxsToFacts
        <3> QED BY <3>1, <2>1, <1>1
    <2>3. TxsTo(cs, Len(bs)) = TxsTo(bs, Len(bs))
        BY <1>1, <1>2
    <2> QED BY <2>2, <2>3 DEF TxsOf
<1>4. ASSUME NEW n \in 1..Len(cs) PROVE Extends(cs[n], TxsTo(cs, n - 1))
    <2>1. CASE n = Len(cs)
        <3>1. n - 1 = Len(bs) /\ cs[n] = txs
            BY <1>1, <2>1
        <3>2. TxsTo(cs, n - 1) = TxsOf(bs)
            BY <3>1, <1>1, <1>2 DEF TxsOf
        <3> QED BY <3>1, <3>2
    <2>2. CASE n # Len(cs)
        <3>1. n \in 1..Len(bs) /\ n - 1 \in 0..Len(bs)
            BY <1>1, <2>2
        <3>2. cs[n] = bs[n] /\ TxsTo(cs, n - 1) = TxsTo(bs, n - 1)
            BY <3>1, <1>1, <1>2
        <3>3. Extends(bs[n], TxsTo(bs, n - 1))
            BY <3>1 DEF LegalChain
        <3> QED BY <3>2, <3>3
    <2> QED BY <2>1, <2>2
<1> QED BY <1>1, <1>3, <1>4 DEF LegalChain

\* Removing the last block of a legal chain.
LEMMA LegalPop ==
    ASSUME NEW bs \in Seq(Blocks), LegalChain(bs), Len(bs) >= 1,
           NEW cs, cs = SubSeq(bs, 1, Len(bs) - 1)
    PROVE  /\ LegalChain(cs)
           /\ cs \in Seq(Blocks) /\ Len(cs) = Len(bs) - 1
           /\ \A i \in 1..Len(cs) : cs[i] = bs[i]
           /\ TxsOf(bs) = TxsOf(cs) \cup Range(bs[Len(bs)])
           /\ Extends(bs[Len(bs)], TxsOf(cs))
           /\ bs[Len(bs)] \in Blocks
<1>1. Len(bs) \in Nat /\ Len(bs) \in 1..Len(bs)
    BY LenProperties
<1>2. /\ cs \in Seq(Blocks) /\ Len(cs) = Len(bs) - 1
      /\ \A i \in 1..Len(cs) : cs[i] = bs[i]
    <2>1. /\ 1 \in Int /\ Len(bs) - 1 \in Int
          /\ \A i \in 1..(Len(bs) - 1) : bs[i] \in Blocks
        BY <1>1, ElementOfSeq
    <2>2. /\ SubSeq(bs, 1, Len(bs) - 1) \in Seq(Blocks)
          /\ Len(SubSeq(bs, 1, Len(bs) - 1)) =
                IF 1 <= Len(bs) - 1 THEN (Len(bs) - 1) - 1 + 1 ELSE 0
          /\ \A i \in 1..((Len(bs) - 1) - 1 + 1) :
                SubSeq(bs, 1, Len(bs) - 1)[i] = bs[1 + i - 1]
        BY <2>1, SubSeqProperties
    <2>3. Len(cs) = Len(bs) - 1
        <3>1. \A L \in Nat : L >= 1 =>
                (IF 1 <= L - 1 THEN (L - 1) - 1 + 1 ELSE 0) = L - 1
            OBVIOUS
        <3> QED BY <3>1, <2>2, <1>1
    <2>4. ASSUME NEW i \in 1..Len(cs) PROVE cs[i] = bs[i]
        <3>1. i \in 1..((Len(bs) - 1) - 1 + 1) /\ 1 + i - 1 = i
            BY <2>3, <1>1
        <3> QED BY <3>1, <2>2
    <2> QED BY <2>2, <2>3, <2>4
<1>3. ASSUME NEW n \in 0..Len(cs) PROVE TxsTo(cs, n) = TxsTo(bs, n)
    <2>1. n \in Nat /\ \A i \in 1..n : cs[i] = bs[i]
        BY <1>1, <1>2
    <2> QED BY <2>1, TxsToPrefix
<1>4. TxsOf(cs) = TxsTo(bs, Len(bs) - 1)
    BY <1>1, <1>2, <1>3 DEF TxsOf
<1>5. TxsOf(bs) = TxsOf(cs) \cup Range(bs[Len(bs)]) /\ bs[Len(bs)] \in Blocks
    BY <1>1, <1>4, TxsToFacts DEF TxsOf
<1>6. Extends(bs[Len(bs)], TxsOf(cs))
    BY <1>1, <1>4 DEF LegalChain
<1>7. ASSUME NEW n \in 1..Len(cs) PROVE Extends(cs[n], TxsTo(cs, n - 1))
    <2>1. n \in 1..Len(bs) /\ n - 1 \in 0..Len(cs)
        BY <1>1, <1>2
    <2>2. cs[n] = bs[n] /\ TxsTo(cs, n - 1) = TxsTo(bs, n - 1)
        BY <2>1, <1>2, <1>3
    <2> QED BY <2>1, <2>2 DEF LegalChain
<1> QED BY <1>2, <1>5, <1>6, <1>7 DEF LegalChain

-----------------------------------------------------------------------------
(* Nonces *)

\* Without gaps, a sender's nonces are determined by the greatest one.
LEMMA MaxContiguous ==
    ASSUME NEW S, S \subseteq Tx, Bounded(S), Contiguous(S), NEW s,
           NEW m, m = Max({-1} \cup NoncesOf(S, s))
    PROVE  m \in Int /\ m >= -1 /\ NoncesOf(S, s) = 0..m
<1> DEFINE M == {-1} \cup NoncesOf(S, s)
<1>1. /\ M \subseteq Int /\ m \in Int /\ m \in M
      /\ \A y \in M : y <= m
    <2>1. -1 \in Int
        OBVIOUS
    <2> QED BY <2>1, MaxNonce
<1>2. NoncesOf(S, s) \subseteq Nat
    BY TxAssumption DEF NoncesOf
<1>3. m >= -1
    BY <1>1
<1>4. NoncesOf(S, s) \subseteq 0..m
    BY <1>1, <1>2
<1>5. 0..m \subseteq NoncesOf(S, s)
    <2>1. CASE m = -1
        BY <2>1
    <2>2. CASE m # -1
        <3>1. m \in NoncesOf(S, s)
            BY <2>2, <1>1
        <3>2. PICK t \in S : sender[t] = s /\ nonce[t] = m
            BY <3>1 DEF NoncesOf
        <3> QED BY <3>2 DEF Contiguous
    <2> QED BY <2>1, <2>2
<1> QED BY <1>1, <1>3, <1>4, <1>5

\* The nonces of a sender in a union are those in either part.
LEMMA NoncesOfUnion ==
    \A S, T, s : NoncesOf(S \cup T, s) = NoncesOf(S, s) \cup NoncesOf(T, s)
BY DEF NoncesOf

\* The part of the inductive invariant that is about the chain itself.
ChainOK ==
    /\ LegalChain(blocks)
    /\ NonceExact
    /\ \A s \in Sender : senderNonce[s] >= -1
    /\ IndexExact
    /\ txsBySender = TxsOf(blocks)

\* An exact nonce table bounds the nonces on the chain, sender by sender.
LEMMA RecomputedNonce ==
    ASSUME ChainType, ChainOK, NEW s \in Sender
    PROVE  Max({-1} \cup NoncesOf(TxsOf(blocks), s)) = senderNonce[s]
<1>1. senderNonce[s] \in Int /\ senderNonce[s] >= -1
    BY DEF ChainType, ChainOK
<1>2. NoncesOf(TxsOf(blocks), s) = 0..senderNonce[s]
    BY DEF ChainOK, NonceExact
<1> DEFINE M == {-1} \cup NoncesOf(TxsOf(blocks), s)
<1>3. /\ M \subseteq Int
      /\ \A y \in M : y <= senderNonce[s]
      /\ senderNonce[s] \in M
    BY <1>1, <1>2
<1> QED BY <1>3, MaxIs

\* A block that extends the chain shares no transaction with it.
LEMMA ExtendsDisjoint ==
    ASSUME NEW S, NEW txs \in Blocks, Extends(txs, S)
    PROVE  S \cap Range(txs) = {} /\ RevokersOf(S) \cap RevokersOf(Range(txs)) = {}
<1>1. S \cap Range(txs) = {}
    BY BlockType DEF Extends
<1>2. RevokersOf(Range(txs)) \subseteq SendersOf(txs)
    BY DEF RevokersOf, SendersOf
<1> QED BY <1>1, <1>2 DEF Extends

\* Appending a block that extends the chain leaves every index exact.
LEMMA AppendExact ==
    ASSUME ~SQLite, ChainType, ChainOK, NEW txs \in Blocks,
           Extends(txs, TxsOf(blocks)), _append_block(txs)
    PROVE  /\ ChainOK'
           /\ Len(blocks') = Len(blocks) + 1
           /\ \A i \in 1..Len(blocks) : blocks'[i] = blocks[i]
           /\ blocks'[Len(blocks) + 1] = txs
<1> DEFINE S == TxsOf(blocks)
           R == Range(txs)
<1>1. blocks \in Seq(Blocks) /\ blocks' = Append(blocks, txs) /\ LegalChain(blocks)
    BY DEF ChainType, ChainOK, _append_block
<1>2. /\ LegalChain(blocks')
      /\ TxsOf(blocks') = S \cup R
      /\ Len(blocks') = Len(blocks) + 1
      /\ \A i \in 1..Len(blocks) : blocks'[i] = blocks[i]
    BY <1>1, LegalAppend
<1>3. blocks'[Len(blocks) + 1] = txs
    BY <1>1, AppendProperties
<1>4. S \subseteq Tx /\ R \subseteq Tx /\ S \cup R \subseteq Tx
    BY <1>1, TxsOfType, BlockType
<1>5. Bounded(S \cup R)
    <2>1. Bounded(S) /\ Bounded(R)
        BY BlockBounded DEF ChainType, ChainOK
    <2> QED BY <2>1, <1>4, BoundedSets
<1>6. Contiguous(S \cup R)
    BY DEF Extends
<1>7. ASSUME NEW s \in Sender
      PROVE  /\ senderNonce'[s] \in Int /\ senderNonce'[s] >= -1
             /\ NoncesOf(S \cup R, s) = 0..senderNonce'[s]
    <2> DEFINE m == Max({-1} \cup NoncesOf(S \cup R, s))
               M == {senderNonce[s]} \cup NoncesOf(R, s)
    <2>1. m \in Int /\ m >= -1 /\ NoncesOf(S \cup R, s) = 0..m
        BY <1>4, <1>5, <1>6, MaxContiguous
    <2>2. NoncesOf(S \cup R, s) = NoncesOf(S, s) \cup NoncesOf(R, s)
        BY NoncesOfUnion
    <2>3. senderNonce[s] \in Int /\ senderNonce[s] >= -1
        BY DEF ChainType, ChainOK
    <2>4. NoncesOf(S, s) = 0..senderNonce[s]
        BY DEF ChainOK, NonceExact
    <2>5. senderNonce'[s] = Max(M)
        BY DEF _append_block
    <2> HIDE DEF m, S, R
    <2>6. M \subseteq Int /\ \A y \in M : y <= m
        <3>1. NoncesOf(R, s) \subseteq 0..m
            BY <2>1, <2>2
        <3>2. senderNonce[s] <= m
            <4>1. CASE senderNonce[s] = -1
                BY <4>1, <2>1
            <4>2. CASE senderNonce[s] # -1
                <5>1. senderNonce[s] \in 0..senderNonce[s]
                    BY <4>2, <2>3
                <5>2. senderNonce[s] \in 0..m
                    BY <5>1, <2>1, <2>2, <2>4
                <5> QED BY <5>2
            <4> QED BY <4>1, <4>2
        <3> QED BY <3>1, <3>2, <2>3, <2>1
    <2>7. m \in M
        <3>1. CASE m = -1
            BY <3>1, <2>3, <2>6
        <3>2. CASE m # -1
            <4>1. m \in 0..m
                BY <3>2, <2>1
            <4>2. m \in 0..senderNonce[s] \/ m \in NoncesOf(R, s)
                BY <4>1, <2>1, <2>2, <2>4
            <4>3. m \in 0..senderNonce[s] => m = senderNonce[s]
                BY <2>6, <2>3
            <4> QED BY <4>2, <4>3
        <3> QED BY <3>1, <3>2
    <2>8. senderNonce'[s] = m
        BY <2>5, <2>6, <2>7, MaxIs
    <2> QED BY <2>1, <2>8
<1>8. NonceExact'
    BY <1>2, <1>7 DEF NonceExact
<1>9. IndexExact'
    <2>1. txById' = S \cup R
        BY DEF ChainOK, IndexExact, _append_block
    <2>2. revokedKeys' = RevokersOf(S) \cup RevokersOf(R)
        BY DEF ChainOK, IndexExact, _append_block
    <2>3. RevokersOf(S) \cup RevokersOf(R) = RevokersOf(S \cup R)
        BY DEF RevokersOf
    <2> QED BY <2>1, <2>2, <2>3, <1>2 DEF IndexExact
<1>10. txsBySender' = TxsOf(blocks')
    <2>1. Pruned(height + 1) = {}
        BY DEF Pruned
    <2> QED BY <2>1, <1>2 DEF ChainOK, _append_block
<1> QED BY <1>2, <1>3, <1>7, <1>8, <1>9, <1>10 DEF ChainOK

\* Rolling back the tip leaves every index exact.
LEMMA RollbackExact ==
    ASSUME ChainType, ChainOK, height >= 1, _rollback_block
    PROVE  /\ ChainOK'
           /\ Len(blocks') = Len(blocks) - 1
           /\ \A i \in 1..Len(blocks') : blocks'[i] = blocks[i]
<1> DEFINE txs == blocks[Len(blocks)]
           R == Range(txs)
           S == TxsOf(blocks')
<1>1. /\ blocks \in Seq(Blocks) /\ LegalChain(blocks) /\ Len(blocks) >= 1
      /\ blocks' = SubSeq(blocks, 1, Len(blocks) - 1)
    BY DEF ChainType, ChainOK, _rollback_block, height
<1>2. /\ LegalChain(blocks')
      /\ blocks' \in Seq(Blocks) /\ Len(blocks') = Len(blocks) - 1
      /\ \A i \in 1..Len(blocks') : blocks'[i] = blocks[i]
      /\ TxsOf(blocks) = S \cup R
      /\ Extends(txs, S)
      /\ txs \in Blocks
    BY <1>1, LegalPop
<1>3. S \cap R = {} /\ RevokersOf(S) \cap RevokersOf(R) = {}
    BY <1>2, ExtendsDisjoint
<1>4. txsBySender = S \cup R /\ txById = S \cup R /\ revokedKeys = RevokersOf(S \cup R)
    BY <1>2 DEF ChainOK, IndexExact
<1>5. txById' = S /\ txsBySender' = S
    BY <1>3, <1>4 DEF _rollback_block, height
<1>6. revokedKeys' = RevokersOf(S)
    <2>1. RevokersOf(S \cup R) = RevokersOf(S) \cup RevokersOf(R)
        BY DEF RevokersOf
    <2>2. revokedKeys' = revokedKeys \ RevokersOf(R)
        BY DEF _rollback_block, height
    <2> QED BY <2>1, <2>2, <1>3, <1>4
<1>7. S \subseteq Tx /\ Contiguous(S) /\ Bounded(S)
    <2>1. Bounded(txsBySender) /\ S \subseteq txsBySender /\ txsBySender \subseteq Tx
        BY <1>4 DEF ChainType
    <2> QED BY <2>1, <1>2, TxsOfType, LegalContiguous, BoundedSets
<1>8. ASSUME NEW s \in Sender
      PROVE  /\ senderNonce'[s] >= -1
             /\ NoncesOf(S, s) = 0..senderNonce'[s]
    <2>1. senderNonce' = NoncesAfterRollback(txs)
        BY DEF _rollback_block, height
    <2>2. txsBySender \ Range(txs) = S
        BY <1>3, <1>4
    <2>3. CASE s \in SendersOf(txs)
        <3>1. senderNonce'[s] = Max({-1} \cup NoncesOf(S, s))
            BY <2>1, <2>2, <2>3 DEF NoncesAfterRollback
        <3> QED BY <3>1, <1>7, MaxContiguous
    <2>4. CASE s \notin SendersOf(txs)
        <3>1. senderNonce'[s] = senderNonce[s]
            BY <2>1, <2>4 DEF NoncesAfterRollback
        <3>2. NoncesOf(R, s) = {}
            BY <2>4 DEF NoncesOf, SendersOf
        <3>3. NoncesOf(S \cup R, s) = NoncesOf(S, s)
            BY <3>2 DEF NoncesOf
        <3>4. NoncesOf(S \cup R, s) = 0..senderNonce[s] /\ senderNonce[s] >= -1
            BY <1>2 DEF ChainOK, NonceExact
        <3> QED BY <3>1, <3>3, <3>4
    <2> QED BY <2>3, <2>4
<1>9. NonceExact' /\ IndexExact'
    BY <1>5, <1>6, <1>8 DEF NonceExact, IndexExact
<1> QED BY <1>2, <1>5, <1>8, <1>9 DEF ChainOK

\* An append that fails half-way leaves the chain and its indices as they were.
LEMMA UndoneExact ==
    ASSUME ChainType, ChainOK, NEW txs \in Blocks,
           Extends(txs, TxsOf(blocks)), _append_block_undone(txs)
    PROVE  UNCHANGED chainVars
<1> DEFINE R == Range(txs)
           S == TxsOf(blocks)
<1>1. S \cap R = {} /\ RevokersOf(S) \cap RevokersOf(R) = {}
    BY ExtendsDisjoint
<1>2. txById' = txById /\ txsBySender' = txsBySender /\ revokedKeys' = revokedKeys
    BY <1>1 DEF _append_block_undone, ChainOK, IndexExact
<1>3. senderNonce' = senderNonce
    <2>1. txsBySender \ Range(txs) = S
        BY <1>1 DEF ChainOK
    <2>2. \A s \in Sender : Max({-1} \cup NoncesOf(S, s)) = senderNonce[s]
        BY RecomputedNonce
    <2>3. NoncesAfterRollback(txs) = [s \in Sender |-> senderNonce[s]]
        BY <2>1, <2>2 DEF NoncesAfterRollback
    <2>4. senderNonce = [s \in Sender |-> senderNonce[s]]
        BY DEF ChainType
    <2> QED BY <2>3, <2>4 DEF _append_block_undone
<1> QED BY <1>2, <1>3 DEF _append_block_undone, chainVars

-----------------------------------------------------------------------------
(* Validation *)

\* What the nonce rule gives for each transaction of a block: a sender's nonces
\* start after the chain's, grow with the position, and skip none.
LEMMA NoncesFollowFacts ==
    ASSUME ChainType, NEW txs \in Blocks, NoncesFollow(txs)
    PROVE  \A i \in 1..Len(txs) :
             /\ nonce[txs[i]] > senderNonce[sender[txs[i]]]
             /\ \A j \in 1..(i - 1) : sender[txs[j]] = sender[txs[i]]
                    => nonce[txs[j]] < nonce[txs[i]]
             /\ \A v \in (senderNonce[sender[txs[i]]] + 1)..nonce[txs[i]] :
                  \E j \in 1..i : /\ sender[txs[j]] = sender[txs[i]]
                                  /\ nonce[txs[j]] = v
<1> DEFINE n == Len(txs)
           base(i) == senderNonce[sender[txs[i]]]
           Above(i) == nonce[txs[i]] > base(i)
           Grows(i) == \A j \in 1..(i - 1) : sender[txs[j]] = sender[txs[i]]
                            => nonce[txs[j]] < nonce[txs[i]]
           NoSkip(i) == \A v \in (base(i) + 1)..nonce[txs[i]] :
                          \E j \in 1..i : /\ sender[txs[j]] = sender[txs[i]]
                                          /\ nonce[txs[j]] = v
           K(i) == Above(i) /\ Grows(i) /\ NoSkip(i)
           T == {i \in 1..n : ~ K(i)}
<1>1. n \in Nat /\ \A i \in 1..n : txs[i] \in Tx
    BY BlockType, BoundAssumption
<1>2. \A i \in 1..n : nonce[txs[i]] \in Nat /\ base(i) \in Int
    BY <1>1, TxAssumption DEF ChainType
<1>3. SUFFICES ASSUME T # {} PROVE FALSE
    OBVIOUS
<1>4. PICK i \in T : \A j \in T : i <= j
    <2>1. T \subseteq Nat
        BY <1>1
    <2> HIDE DEF T
    <2> QED BY <2>1, <1>3, LeastNat
<1>5. i \in 1..n /\ ~ K(i)
    <2> HIDE DEF K
    <2> QED BY <1>4
<1>6. ASSUME NEW j \in 1..(i - 1) PROVE j \in 1..n /\ K(j)
    <2>1. j \in 1..n /\ ~ (i <= j)
        BY <1>5, <1>1
    <2> HIDE DEF K
    <2> QED BY <2>1, <1>4
<1> HIDE DEF T
<1> DEFINE before == {j \in 1..(i - 1) : sender[txs[j]] = sender[txs[i]]}
<1>7. nonce[txs[i]] = IF before = {} THEN base(i) + 1
                      ELSE nonce[txs[Max(before)]] + 1
    BY <1>5 DEF NoncesFollow, get_next_nonce
<1>8. CASE before = {}
    <2>1. nonce[txs[i]] = base(i) + 1
        BY <1>7, <1>8
    <2>2. base(i) \in Int
        BY <1>2, <1>5
    <2>3. Above(i)
        BY <2>1, <2>2
    <2>4. Grows(i)
        BY <1>8
    <2>5. NoSkip(i)
        <3> TAKE v \in (base(i) + 1)..nonce[txs[i]]
        <3>1. v = nonce[txs[i]]
            BY <2>1, <2>2
        <3>2. i \in 1..i
            BY <1>5, <1>1
        <3> QED BY <3>1, <3>2
    <2> QED BY <2>3, <2>4, <2>5, <1>5
<1>9. CASE before # {}
    <2> DEFINE p == Max(before)
    <2>1. p \in before /\ \A y \in before : y <= p
        <3>1. before \subseteq Int /\ i \in Int /\ \A y \in before : y <= i
            BY <1>1, <1>5
        <3> HIDE DEF before
        <3> QED BY <3>1, <1>9, MaxExists
    <2>2. p \in 1..(i - 1) /\ sender[txs[p]] = sender[txs[i]]
        BY <2>1
    <2>3. nonce[txs[i]] = nonce[txs[p]] + 1
        BY <1>7, <1>9
    <2> HIDE DEF p, before
    <2>4. K(p) /\ p \in 1..n
        BY <2>2, <1>6
    <2>5. nonce[txs[p]] \in Nat /\ nonce[txs[i]] \in Nat /\ base(p) \in Int
        BY <2>4, <1>2, <1>5
    <2>6. base(i) = base(p)
        BY <2>2
    <2>7. Above(i)
        BY <2>3, <2>4, <2>5, <2>6
    <2>8. Grows(i)
        <3> SUFFICES ASSUME NEW j \in 1..(i - 1), sender[txs[j]] = sender[txs[i]]
                     PROVE  nonce[txs[j]] < nonce[txs[i]]
            OBVIOUS
        <3>1. j \in Int /\ p \in Int /\ i \in Int /\ j \in 1..n
            BY <2>2, <1>5, <1>1
        <3>2. j <= p
            BY <2>1 DEF before
        <3>3. nonce[txs[j]] <= nonce[txs[p]]
            <4>1. CASE j = p
                BY <4>1, <2>5
            <4>2. CASE j # p
                <5>1. j \in 1..(p - 1)
                    BY <4>2, <3>1, <3>2
                <5>2. nonce[txs[j]] < nonce[txs[p]]
                    BY <5>1, <2>2, <2>4
                <5>3. nonce[txs[j]] \in Nat
                    BY <1>2, <3>1
                <5> QED BY <5>2, <5>3, <2>5
            <4> QED BY <4>1, <4>2
        <3>4. nonce[txs[j]] \in Nat
            BY <1>2, <3>1
        <3> QED BY <3>3, <3>4, <2>3, <2>5
    <2>9. NoSkip(i)
        <3> TAKE v \in (base(i) + 1)..nonce[txs[i]]
        <3>1. p \in Int /\ i \in Int /\ p < i /\ 1 <= i
            BY <2>2, <1>5, <1>1
        <3>2. CASE v = nonce[txs[i]]
            <4>1. i \in 1..i
                BY <3>1
            <4> QED BY <4>1, <3>2
        <3>3. CASE v # nonce[txs[i]]
            <4>1. v \in (base(p) + 1)..nonce[txs[p]]
                BY <3>3, <2>3, <2>5, <2>6
            <4>2. PICK j \in 1..p : sender[txs[j]] = sender[txs[p]] /\ nonce[txs[j]] = v
                BY <4>1, <2>4
            <4>3. j \in 1..i
                BY <3>1
            <4> QED BY <4>2, <4>3, <2>2
        <3> QED BY <3>2, <3>3
    <2> QED BY <2>7, <2>8, <2>9, <1>5
<1> QED BY <1>8, <1>9

\* A block that validate_block accepts extends the chain.
LEMMA ValidExtends ==
    ASSUME ChainType, ChainOK, NEW txs \in Blocks, validate_block(txs)
    PROVE  Extends(txs, TxsOf(blocks))
<1> DEFINE n == Len(txs)
           R == Range(txs)
           S == TxsOf(blocks)
           base(i) == senderNonce[sender[txs[i]]]
<1>1. /\ n \in Nat /\ \A i \in 1..n : txs[i] \in Tx
      /\ R = {txs[i] : i \in 1..n}
    BY BlockType, BoundAssumption
<1>2. \A i \in 1..n : /\ nonce[txs[i]] \in Nat /\ base(i) \in Int
                      /\ sender[txs[i]] \in Sender
    BY <1>1, TxAssumption DEF ChainType
<1>3. \A i \in 1..n :
        /\ nonce[txs[i]] > base(i)
        /\ \A j \in 1..(i - 1) : sender[txs[j]] = sender[txs[i]]
                => nonce[txs[j]] < nonce[txs[i]]
        /\ \A v \in (base(i) + 1)..nonce[txs[i]] :
             \E j \in 1..i : sender[txs[j]] = sender[txs[i]] /\ nonce[txs[j]] = v
    BY NoncesFollowFacts DEF validate_block
<1>4. \A s \in Sender : NoncesOf(S, s) = 0..senderNonce[s]
    BY DEF ChainOK, NonceExact
<1>5. S \subseteq Tx
    BY TxsOfType DEF ChainType
<1>6. ASSUME NEW i \in 1..n, NEW j \in 1..n,
             sender[txs[i]] = sender[txs[j]], nonce[txs[i]] = nonce[txs[j]]
      PROVE  i = j
    <2>1. CASE i < j
        <3>1. i \in 1..(j - 1)
            BY <2>1, <1>1
        <3>2. nonce[txs[i]] < nonce[txs[j]]
            BY <3>1, <1>3, <1>6
        <3> QED BY <3>2, <1>6, <1>2
    <2>2. CASE j < i
        <3>1. j \in 1..(i - 1)
            BY <2>2, <1>1
        <3>2. nonce[txs[j]] < nonce[txs[i]]
            BY <3>1, <1>3, <1>6
        <3> QED BY <3>2, <1>6, <1>2
    <2> QED BY <2>1, <2>2, <1>1
<1>7. ASSUME NEW i \in 1..n, NEW u \in S,
             sender[txs[i]] = sender[u], nonce[txs[i]] = nonce[u]
      PROVE  FALSE
    <2>1. nonce[u] \in NoncesOf(S, sender[u])
        BY DEF NoncesOf
    <2>2. nonce[u] \in 0..base(i)
        BY <2>1, <1>2, <1>4, <1>7
    <2>3. nonce[txs[i]] <= base(i) /\ nonce[txs[i]] > base(i)
        BY <2>2, <1>3, <1>7
    <2> QED BY <2>3, <1>2
<1>8. RevokersOf(S) \cap SendersOf(txs) = {}
    BY DEF ChainOK, IndexExact, validate_block
<1>9. Contiguous(S \cup R)
    <2> SUFFICES ASSUME NEW t \in S \cup R, NEW v \in 0..nonce[t]
                 PROVE  v \in NoncesOf(S \cup R, sender[t])
        BY DEF Contiguous
    <2>1. NoncesOf(S \cup R, sender[t]) = NoncesOf(S, sender[t]) \cup NoncesOf(R, sender[t])
        BY NoncesOfUnion
    <2>2. CASE t \in S
        <3>1. Contiguous(S)
            BY LegalContiguous DEF ChainType, ChainOK
        <3>2. v \in NoncesOf(S, sender[t])
            BY <3>1, <2>2 DEF Contiguous
        <3> QED BY <3>2, <2>1
    <2>3. CASE t \in R
        <3>1. PICK i \in 1..n : t = txs[i]
            BY <2>3, <1>1
        <3>2. v \in Int /\ 0 <= v /\ v <= nonce[txs[i]] /\ nonce[txs[i]] \in Nat
                /\ base(i) \in Int
            BY <3>1, <1>2
        <3>3. CASE v <= base(i)
            <4>1. v \in 0..base(i)
                BY <3>2, <3>3
            <4> QED BY <4>1, <3>1, <2>1, <1>2, <1>4
        <3>4. CASE ~ (v <= base(i))
            <4>1. v \in (base(i) + 1)..nonce[txs[i]]
                BY <3>2, <3>4
            <4>2. PICK j \in 1..i : sender[txs[j]] = sender[txs[i]] /\ nonce[txs[j]] = v
                BY <4>1, <1>3
            <4>3. j \in 1..n
                BY <1>1
            <4>4. txs[j] \in R
                BY <4>3, <1>1
            <4>5. v \in NoncesOf(R, sender[t])
                BY <4>2, <4>4, <3>1 DEF NoncesOf
            <4> QED BY <4>5, <2>1
        <3> QED BY <3>3, <3>4
    <2> QED BY <2>2, <2>3
<1> QED BY <1>6, <1>7, <1>8, <1>9 DEF Extends

-----------------------------------------------------------------------------
(* The inductive invariant *)

\* Inv with the strengthened types.
IndInv == TypeInv /\ ChainOK /\ LegalChain(savedChain) /\ ReorgOK

\* A step that leaves the chain alone leaves its indices exact.
LEMMA SameChainOK == ChainOK /\ UNCHANGED chainVars => ChainOK'
BY DEF ChainOK, chainVars, NonceExact, IndexExact, height

\* The empty chain is legal.
LEMMA LegalEmpty == LegalChain(<<>>)
BY EmptySeq DEF LegalChain

\* The next block to restore extends the chain restored so far.
LEMMA RestoreExtends ==
    ASSUME ChainType, ReorgType, LegalChain(savedChain), SamePrefix(height),
           height < Len(savedChain)
    PROVE  /\ savedChain[height + 1] \in Blocks
           /\ Extends(savedChain[height + 1], TxsOf(blocks))
<1>1. height \in Nat /\ Len(savedChain) \in Nat /\ savedChain \in Seq(Blocks)
    BY LenProperties DEF ChainType, ReorgType, height
<1>2. height + 1 \in 1..Len(savedChain) /\ (height + 1) - 1 = height
    BY <1>1
<1>3. Extends(savedChain[height + 1], TxsTo(savedChain, height))
    BY <1>2 DEF LegalChain
<1>4. TxsTo(savedChain, height) = TxsOf(blocks)
    <2>1. TxsTo(blocks, height) = TxsTo(savedChain, height)
        BY <1>1, TxsToPrefix DEF SamePrefix
    <2> QED BY <2>1 DEF TxsOf, height
<1> QED BY <1>1, <1>2, <1>3, <1>4, ElementOfSeq

\* The empty chain satisfies the inductive invariant.
LEMMA IndInit == Init => IndInv
<1> SUFFICES ASSUME Init PROVE IndInv
    OBVIOUS
<1>1. blocks = <<>> /\ Len(blocks) = 0
    BY EmptySeq DEF Init
<1>2. TxsOf(blocks) = {}
    BY <1>1, TxsToZero DEF TxsOf
<1>3. \A s \in Sender : NoncesOf({}, s) = {} /\ senderNonce[s] = -1 /\ 0..(-1) = {}
    BY DEF Init, NoncesOf
<1>4. RevokersOf({}) = {}
    BY DEF RevokersOf
<1>5. NonceExact /\ IndexExact
    BY <1>2, <1>3, <1>4 DEF NonceExact, IndexExact, Init
<1>6. ChainOK
    BY <1>1, <1>2, <1>3, <1>5, LegalEmpty DEF ChainOK, Init
<1>7. LegalChain(savedChain) /\ ReorgOK
    BY LegalEmpty DEF Init, ReorgOK
<1> QED BY <1>6, <1>7, TypeInit DEF IndInv

\* Rolling back a block on the way to the fork point, or back to it, keeps the
\* chain in line with the saved one.
LEMMA RollbackReorgOK ==
    ASSUME ChainType, ReorgType, ReorgOK, height >= forkStart,
           phase \in {"rollback", "undo"},
           Len(blocks') = Len(blocks) - 1,
           \A i \in 1..Len(blocks') : blocks'[i] = blocks[i],
           UNCHANGED <<phase, savedChain, forkStart, forkLeft>>
    PROVE  ReorgOK'
<1>1. height \in Nat /\ Len(savedChain) \in Nat /\ forkStart \in Nat /\ forkLeft \in Nat
    BY LenProperties DEF ChainType, ReorgType, height
<1>2. height' = height - 1 /\ height' \in Int /\ height' >= forkStart - 1
    BY <1>1 DEF height
<1>3. CASE phase = "rollback"
    <2>1. height \in (forkStart - 1)..Len(savedChain) /\ SamePrefix(height)
            /\ forkStart - 1 + forkLeft > Len(savedChain)
        BY <1>3 DEF ReorgOK
    <2>2. height' \in (forkStart - 1)..Len(savedChain)
        BY <1>1, <1>2, <2>1
    <2>3. SamePrefix(height)'
        BY <1>1, <1>2, <2>1 DEF SamePrefix, height
    <2> QED BY <1>3, <2>1, <2>2, <2>3 DEF ReorgOK
<1>4. CASE phase = "undo"
    <2>1. forkStart - 1 \in 0..Len(savedChain) /\ SamePrefix(forkStart - 1)
        BY <1>4 DEF ReorgOK
    <2>2. SamePrefix(forkStart - 1)'
        BY <1>1, <1>2, <2>1 DEF SamePrefix, height
    <2> QED BY <1>4, <2>1, <2>2, <1>2 DEF ReorgOK
<1> QED BY <1>3, <1>4

\* In memory mode every step preserves the inductive invariant.
LEMMA IndStep ==
    ASSUME ~SQLite, IndInv, [Next]_vars
    PROVE  IndInv'
<1>0. /\ ChainType /\ PoolType /\ ReorgType /\ ChainOK
      /\ LegalChain(savedChain) /\ ReorgOK
    BY DEF IndInv, TypeInv
<1> DEFINE Goal == ChainOK' /\ LegalChain(savedChain)' /\ ReorgOK'
<1> SUFFICES Goal
    BY TypeStep DEF IndInv
<1>a. UNCHANGED chainVars => ChainOK'
    BY <1>0, SameChainOK
<1>b. /\ height \in Nat /\ Len(savedChain) \in Nat
      /\ forkStart \in Nat \ {0} /\ forkLeft \in Nat /\ phase \in Phases
    BY <1>0, LenProperties DEF ChainType, ReorgType, height
<1>c. UNCHANGED savedChain => LegalChain(savedChain)'
    BY <1>0 DEF LegalChain
<1>d. phase' = "idle" => ReorgOK'
    BY DEF ReorgOK
<1>e. ASSUME phase = "idle", UNCHANGED reorgVars
      PROVE  LegalChain(savedChain)' /\ ReorgOK'
    BY <1>e, <1>c, <1>d DEF reorgVars
<1>f. ASSUME Continue("idle") PROVE LegalChain(savedChain)' /\ ReorgOK'
    BY <1>f, <1>d, LegalEmpty DEF Continue
<1>g. ASSUME NEW txs \in Blocks, validate_block(txs), _append_block(txs)
      PROVE  ChainOK'
    BY <1>0, <1>g, ValidExtends, AppendExact
<1>h. ASSUME NEW txs \in Blocks, NEW k, validate_block(txs), FailedAppend(txs, k)
      PROVE  UNCHANGED chainVars
    BY <1>0, <1>h, ValidExtends, UndoneExact DEF FailedAppend
<1>1. ASSUME NEW t \in Tx, submit_tx(t) PROVE Goal
    BY <1>1, <1>a, <1>e DEF submit_tx
<1>2. CASE produce_block
    <2>1. NextBlock \in Blocks
        BY <1>0, <1>2, NextBlockType DEF produce_block
    <2> QED BY <2>1, <1>2, <1>e, <1>g DEF produce_block
<1>3. CASE produce_block_raises
    <2>1. NextBlock \in Blocks
        BY <1>0, <1>3, NextBlockType DEF produce_block_raises
    <2> QED BY <2>1, <1>3, <1>a, <1>e, <1>h DEF produce_block_raises
<1>4. ASSUME NEW txs \in Blocks, add_block(txs) PROVE Goal
    BY <1>4, <1>e, <1>g DEF add_block
<1>5. ASSUME NEW txs \in Blocks, add_block_rejects(txs) PROVE Goal
    BY <1>5, <1>a, <1>e, <1>h DEF add_block_rejects
<1>6. ASSUME NEW start \in 1..MaxHeight, NEW len \in 1..MaxForkLen,
             try_reorg(start, len)
      PROVE  Goal
    <2>1. /\ start \in 1..(height + 1) /\ len > height + 1 - start
          /\ phase' = "rollback" /\ savedChain' = blocks
          /\ forkStart' = start /\ forkLeft' = len /\ UNCHANGED chainVars
        BY <1>6 DEF try_reorg
    <2>2. LegalChain(savedChain)' /\ ChainOK'
        BY <2>1, <1>0, <1>a DEF ChainOK, LegalChain
    <2>3. height' = height /\ Len(savedChain') = height /\ SamePrefix(height)'
        BY <2>1 DEF chainVars, height, SamePrefix
    <2>4. /\ height \in (start - 1)..height
          /\ start - 1 + len > height
          /\ len > 0
        BY <2>1, <1>b, BoundAssumption
    <2> QED BY <2>1, <2>2, <2>3, <2>4 DEF ReorgOK
<1>7. CASE reorg_rollback
    <2>1. height >= 1
        BY <1>7, <1>b DEF reorg_rollback
    <2>2. /\ ChainOK' /\ Len(blocks') = Len(blocks) - 1
          /\ \A i \in 1..Len(blocks') : blocks'[i] = blocks[i]
        BY <2>1, <1>0, <1>7, RollbackExact DEF reorg_rollback
    <2>3. ReorgOK'
        BY <2>2, <1>0, <1>7, RollbackReorgOK DEF reorg_rollback
    <2> QED BY <2>2, <2>3, <1>7, <1>c DEF reorg_rollback
<1>8. CASE reorg_rolled_back
    <2>1. /\ phase = "rollback" /\ height < forkStart /\ phase' = "apply"
          /\ UNCHANGED <<savedChain, forkStart, forkLeft>> /\ UNCHANGED chainVars
        BY <1>8 DEF reorg_rolled_back, Continue
    <2>2. /\ height \in (forkStart - 1)..Len(savedChain) /\ SamePrefix(height)
          /\ forkStart - 1 + forkLeft > Len(savedChain) /\ forkLeft > 0
        BY <2>1, <1>0 DEF ReorgOK
    <2>3. height = forkStart - 1
        BY <2>1, <2>2, <1>b
    <2>4. height' = height /\ SamePrefix(forkStart - 1)'
        BY <2>1, <2>2, <2>3 DEF chainVars, height, SamePrefix
    <2>5. ReorgOK'
        BY <2>1, <2>2, <2>3, <2>4, <1>b DEF ReorgOK
    <2> QED BY <2>1, <2>5, <1>a, <1>c
<1>9. ASSUME NEW txs \in Blocks, reorg_apply(txs) PROVE Goal
    <2>1. /\ ChainOK' /\ Len(blocks') = Len(blocks) + 1
          /\ \A i \in 1..Len(blocks) : blocks'[i] = blocks[i]
        BY <1>0, <1>9, ValidExtends, AppendExact DEF reorg_apply
    <2>2. /\ phase = "apply" /\ forkLeft' = forkLeft - 1
          /\ phase' = IF forkLeft = 1 THEN "return" ELSE "apply"
          /\ UNCHANGED <<savedChain, forkStart>>
        BY <1>9 DEF reorg_apply
    <2>3. /\ forkStart - 1 \in 0..Len(savedChain) /\ SamePrefix(forkStart - 1)
          /\ height >= forkStart - 1
          /\ height + forkLeft > Len(savedChain) /\ forkLeft > 0
        BY <2>2, <1>0 DEF ReorgOK
    <2>4. height' = height + 1
        BY <2>1 DEF height
    <2>5. SamePrefix(forkStart - 1)'
        BY <2>1, <2>2, <2>3, <1>b DEF SamePrefix, height
    <2>6. height' >= forkStart - 1 /\ height' + forkLeft' > Len(savedChain)
        BY <2>2, <2>3, <2>4, <1>b
    <2>7. forkLeft = 1 => height' > Len(savedChain)
        BY <2>3, <2>4, <1>b
    <2>8. forkLeft # 1 => forkLeft' > 0
        BY <2>2, <2>3, <1>b
    <2>9. ReorgOK'
        BY <2>2, <2>3, <2>5, <2>6, <2>7, <2>8 DEF ReorgOK
    <2> QED BY <2>1, <2>2, <2>9, <1>c
<1>10. ASSUME phase = "apply", Continue("undo"), UNCHANGED chainVars PROVE Goal
    <2>1. phase' = "undo" /\ UNCHANGED <<savedChain, forkStart, forkLeft>>
        BY <1>10 DEF Continue
    <2>2. /\ forkStart - 1 \in 0..Len(savedChain) /\ SamePrefix(forkStart - 1)
          /\ height >= forkStart - 1
        BY <1>10, <1>0 DEF ReorgOK
    <2>3. height' = height /\ SamePrefix(forkStart - 1)'
        BY <1>10, <2>1, <2>2 DEF chainVars, height, SamePrefix
    <2>4. ReorgOK'
        BY <2>1, <2>2, <2>3 DEF ReorgOK
    <2> QED BY <2>1, <2>4, <1>10, <1>a, <1>c
<1>11. CASE reorg_reject
    BY <1>11, <1>10 DEF reorg_reject
<1>12. ASSUME NEW txs \in Blocks, reorg_apply_raises(txs) PROVE Goal
    BY <1>12, <1>10, <1>h DEF reorg_apply_raises
<1>13. CASE reorg_undo
    <2>1. height >= 1
        BY <1>13, <1>b DEF reorg_undo
    <2>2. /\ ChainOK' /\ Len(blocks') = Len(blocks) - 1
          /\ \A i \in 1..Len(blocks') : blocks'[i] = blocks[i]
        BY <2>1, <1>0, <1>13, RollbackExact DEF reorg_undo
    <2>3. ReorgOK'
        BY <2>2, <1>0, <1>13, RollbackReorgOK DEF reorg_undo, reorgVars
    <2> QED BY <2>2, <2>3, <1>13, <1>c DEF reorg_undo, reorgVars
<1>14. CASE reorg_undone
    <2>1. /\ phase = "undo" /\ height < forkStart /\ phase' = "restore"
          /\ UNCHANGED <<savedChain, forkStart, forkLeft>> /\ UNCHANGED chainVars
        BY <1>14 DEF reorg_undone, Continue
    <2>2. /\ forkStart - 1 \in 0..Len(savedChain) /\ SamePrefix(forkStart - 1)
          /\ height >= forkStart - 1
        BY <2>1, <1>0 DEF ReorgOK
    <2>3. height = forkStart - 1
        BY <2>1, <2>2, <1>b
    <2>4. height' = height /\ SamePrefix(height)' /\ height <= Len(savedChain)
        BY <2>1, <2>2, <2>3, <1>b DEF chainVars, height, SamePrefix
    <2>5. ReorgOK'
        BY <2>1, <2>4 DEF ReorgOK
    <2> QED BY <2>1, <2>5, <1>a, <1>c
<1>15. CASE reorg_restore
    <2> DEFINE b == savedChain[height + 1]
    <2>1. /\ phase = "restore" /\ height < Len(savedChain) /\ _append_block(b)
          /\ UNCHANGED <<phase, savedChain, forkStart, forkLeft>>
        BY <1>15 DEF reorg_restore, reorgVars
    <2>2. SamePrefix(height)
        BY <2>1, <1>0 DEF ReorgOK
    <2>3. b \in Blocks /\ Extends(b, TxsOf(blocks))
        BY <2>1, <2>2, <1>0, RestoreExtends
    <2>4. /\ ChainOK' /\ Len(blocks') = Len(blocks) + 1
          /\ \A i \in 1..Len(blocks) : blocks'[i] = blocks[i]
          /\ blocks'[Len(blocks) + 1] = b
        BY <2>1, <2>3, <1>0, AppendExact
    <2>5. height' = height + 1 /\ height' <= Len(savedChain)
        BY <2>1, <2>4, <1>b DEF height
    <2>6. SamePrefix(height)'
        <3> SUFFICES ASSUME NEW i \in 1..(height + 1) PROVE blocks'[i] = savedChain[i]
            BY <2>1, <2>5 DEF SamePrefix
        <3>1. CASE i = height + 1
            BY <3>1, <2>4 DEF height
        <3>2. CASE i # height + 1
            <4>1. i \in 1..height
                BY <3>2, <1>b
            <4> QED BY <4>1, <2>2, <2>4 DEF SamePrefix, height
        <3> QED BY <3>1, <3>2
    <2>7. ReorgOK'
        BY <2>1, <2>5, <2>6 DEF ReorgOK
    <2> QED BY <2>1, <2>4, <2>7, <1>c
<1>16. CASE reorg_failed
    BY <1>16, <1>a, <1>f DEF reorg_failed
<1>17. ASSUME NEW t \in Tx, reorg_return(t) PROVE Goal
    <2>1. /\ phase = "return" /\ UNCHANGED <<phase, savedChain, forkStart, forkLeft>>
          /\ UNCHANGED chainVars
        BY <1>17 DEF reorg_return
    <2>2. ReorgOK'
        BY <2>1, <1>0 DEF ReorgOK, SamePrefix, chainVars, height
    <2> QED BY <2>1, <2>2, <1>a, <1>c
<1>18. CASE reorg_complete
    BY <1>18, <1>a, <1>f DEF reorg_complete
<1>19. CASE reorg_raises
    <2>1. Continue("idle")
        BY <1>19 DEF reorg_raises
    <2>2. UNCHANGED chainVars
        <3>1. CASE phase = "restore" /\ height < Len(savedChain)
            <4> DEFINE b == savedChain[height + 1]
            <4>1. SamePrefix(height)
                BY <3>1, <1>0 DEF ReorgOK
            <4>2. b \in Blocks /\ Extends(b, TxsOf(blocks))
                BY <3>1, <4>1, <1>0, RestoreExtends
            <4>3. _append_block_undone(b)
                BY <1>19, <3>1 DEF reorg_raises, FailedAppend
            <4> QED BY <4>2, <4>3, <1>0, UndoneExact
        <3>2. CASE ~ (phase = "restore" /\ height < Len(savedChain))
            BY <1>19, <3>2 DEF reorg_raises
        <3> QED BY <3>1, <3>2
    <2> QED BY <2>1, <2>2, <1>a, <1>f
<1>20. CASE UNCHANGED vars
    <2>1. /\ UNCHANGED chainVars
          /\ UNCHANGED <<phase, savedChain, forkStart, forkLeft>>
        BY <1>20 DEF vars, reorgVars
    <2>2. ReorgOK'
        BY <2>1, <1>0 DEF ReorgOK, SamePrefix, chainVars, height
    <2> QED BY <2>1, <2>2, <1>a, <1>c
<1> QED BY <1>1, <1>2, <1>3, <1>4, <1>5, <1>6, <1>7, <1>8, <1>9, <1>11, <1>12,
           <1>13, <1>14, <1>15, <1>16, <1>17, <1>18, <1>19, <1>20
        DEF Next, ReorgStep

-----------------------------------------------------------------------------
(* What the invariant gives *)

\* The inductive invariant implies the one that the runs check.
LEMMA IndInvInv == IndInv => Inv
BY TypeInvOK DEF IndInv, Inv, ChainInv, ChainOK

\* A transaction of a block of the prefix is among the prefix's transactions.
LEMMA InPrefix ==
    ASSUME NEW bs \in Seq(Blocks), NEW n \in Nat, NEW i \in 1..n, n <= Len(bs)
    PROVE  Range(bs[i]) \subseteq TxsTo(bs, n)
BY DEF TxsTo

\* On a legal chain a block repeats no nonce of an earlier block.
LEMMA LegalFresh ==
    ASSUME ChainType, LegalChain(blocks),
           NEW k \in 1..height, NEW l \in 1..height, k < l,
           NEW r \in 1..Len(blocks[k]), NEW s \in 1..Len(blocks[l]),
           sender[blocks[k][r]] = sender[blocks[l][s]],
           nonce[blocks[k][r]] = nonce[blocks[l][s]]
    PROVE  FALSE
<1>1. blocks \in Seq(Blocks) /\ height \in Nat /\ height = Len(blocks)
    BY LenProperties DEF ChainType, height
<1>2. /\ blocks[k] \in Blocks
      /\ Range(blocks[k]) = {blocks[k][x] : x \in 1..Len(blocks[k])}
    BY <1>1, BlockType, ElementOfSeq DEF height
<1>3. l - 1 \in Nat /\ k \in 1..(l - 1) /\ l - 1 <= Len(blocks)
    BY <1>1
<1>4. blocks[k][r] \in Range(blocks[k])
    BY <1>2
<1>5. blocks[k][r] \in TxsTo(blocks, l - 1)
    BY <1>1, <1>3, <1>4, InPrefix
<1>6. Extends(blocks[l], TxsTo(blocks, l - 1))
    BY DEF LegalChain, height
<1> QED BY <1>5, <1>6 DEF Extends

\* On a legal chain no nonce is used twice.
LEMMA LegalNoReplay == ChainType /\ LegalChain(blocks) => NoReplay
<1> HAVE ChainType /\ LegalChain(blocks)
<1> USE DEF NoReplay
<1> TAKE i, j \in 1..height
<1> TAKE p \in 1..Len(blocks[i]), q \in 1..Len(blocks[j])
<1> HAVE /\ sender[blocks[i][p]] = sender[blocks[j][q]]
         /\ nonce[blocks[i][p]] = nonce[blocks[j][q]]
<1>1. height \in Nat
    BY LenProperties DEF ChainType, height
<1>2. i = j
    <2>1. ~ (i < j)
        BY LegalFresh
    <2>2. ~ (j < i)
        BY LegalFresh
    <2> QED BY <2>1, <2>2, <1>1
<1>3. Extends(blocks[i], TxsTo(blocks, i - 1))
    BY DEF LegalChain, height
<1> QED BY <1>2, <1>3 DEF Extends

\* On a legal chain a revoked sender is silent ever after.
LEMMA LegalRevokedSilent == ChainType /\ LegalChain(blocks) => RevokedSilent
<1> SUFFICES ASSUME ChainType, LegalChain(blocks),
                    NEW i \in 1..height, NEW j \in 1..height, i < j
             PROVE  RevokersOf(Range(blocks[i])) \cap SendersOf(blocks[j]) = {}
    BY DEF RevokedSilent
<1>1. blocks \in Seq(Blocks) /\ height \in Nat
    BY LenProperties DEF ChainType, height
<1>2. j - 1 \in Nat /\ i \in 1..(j - 1) /\ j - 1 <= Len(blocks)
    BY <1>1 DEF height
<1>3. Range(blocks[i]) \subseteq TxsTo(blocks, j - 1)
    BY <1>1, <1>2, InPrefix
<1>4. RevokersOf(Range(blocks[i])) \subseteq RevokersOf(TxsTo(blocks, j - 1))
    BY <1>3 DEF RevokersOf
<1>5. RevokersOf(TxsTo(blocks, j - 1)) \cap SendersOf(blocks[j]) = {}
    BY DEF LegalChain, Extends, height
<1> QED BY <1>4, <1>5

\* In memory mode the inductive invariant holds in every reachable state.
THEOREM Invariance == ~SQLite => (Spec => []Inv)
<1> SUFFICES ASSUME ~SQLite PROVE Spec => []Inv
    OBVIOUS
<1>1. IndInv /\ [Next]_vars => IndInv'
    BY IndStep
<1> QED BY <1>1, IndInit, IndInvInv, PTL DEF Spec

\* In memory mode the chain of a node never uses a nonce twice, for any number
\* of senders, transactions, blocks and reorganizations, whatever block is
\* appended, reverted, or fails half-way (validate_block, _rollback_block).
THEOREM ChainSafe == ~SQLite => (Spec => []NoReplay)
<1> SUFFICES ASSUME ~SQLite PROVE Spec => []NoReplay
    OBVIOUS
<1>1. IndInv /\ [Next]_vars => IndInv'
    BY IndStep
<1>2. IndInv => NoReplay
    BY LegalNoReplay DEF IndInv, TypeInv, ChainOK
<1> QED BY <1>1, <1>2, IndInit, PTL DEF Spec

\* Nor does it ever hold a transaction of a sender above the block that revoked
\* its signing key (_revoked_keys under append and rollback).
THEOREM RevokedStaysSilent == ~SQLite => (Spec => []RevokedSilent)
<1> SUFFICES ASSUME ~SQLite PROVE Spec => []RevokedSilent
    OBVIOUS
<1>1. IndInv /\ [Next]_vars => IndInv'
    BY IndStep
<1>2. IndInv => RevokedSilent
    BY LegalRevokedSilent DEF IndInv, TypeInv, ChainOK
<1> QED BY <1>1, <1>2, IndInit, PTL DEF Spec

\* In memory mode the nonce table, which _rollback_block recomputes, always says
\* what the chain says, and the nonces on the chain have no gap.
THEOREM NoncesExact == ~SQLite => (Spec => []NonceExact)
<1> SUFFICES ASSUME ~SQLite PROVE Spec => []NonceExact
    OBVIOUS
<1>1. Inv => NonceExact
    BY DEF Inv, ChainInv
<1>2. Spec => []Inv
    BY Invariance
<1> QED BY <1>1, <1>2, PTL

\* So do the duplicate filter and the revocation list, which append and rollback
\* keep up incrementally.
THEOREM IndicesExact == ~SQLite => (Spec => []IndexExact)
<1> SUFFICES ASSUME ~SQLite PROVE Spec => []IndexExact
    OBVIOUS
<1>1. Inv => IndexExact
    BY DEF Inv, ChainInv
<1>2. Spec => []Inv
    BY Invariance
<1> QED BY <1>1, <1>2, PTL

\* The chain a failed reorganization leaves is the one it started from.
LEMMA RestoredChain ==
    ASSUME ChainType, ReorgType, SamePrefix(height), height = Len(savedChain)
    PROVE  blocks = savedChain
<1>1. blocks \in Seq(Blocks) /\ savedChain \in Seq(Blocks)
    BY DEF ChainType, ReorgType
<1>2. Len(blocks) = Len(savedChain) /\ \A i \in 1..Len(blocks) : blocks[i] = savedChain[i]
    BY DEF SamePrefix, height
<1> QED BY <1>1, <1>2, SeqEqual

\* In memory mode, when rolling back restores the ledger exactly, try_reorg
\* leaves the chain it started from or a strictly longer one.
THEOREM ReorgAtomic == ~SQLite /\ ExactRollback => (Spec => ReorgAllOrNothing)
<1> SUFFICES ASSUME ~SQLite, ExactRollback PROVE Spec => ReorgAllOrNothing
    OBVIOUS
<1> DEFINE Returned == phase # "idle" /\ phase' = "idle" =>
                         blocks' = savedChain \/ Len(blocks') > Len(savedChain)
<1>1. IndInv /\ [Next]_vars => IndInv'
    BY IndStep
<1>2. IndInv /\ [Next]_vars => [Returned]_vars
    <2> SUFFICES ASSUME IndInv, Next, phase # "idle", phase' = "idle"
                 PROVE  blocks' = savedChain \/ Len(blocks') > Len(savedChain)
        OBVIOUS
    <2>1. reorg_failed \/ reorg_complete
        BY DEF Next, ReorgStep, submit_tx, produce_block, produce_block_raises,
               add_block, add_block_rejects, try_reorg, reorg_rollback,
               reorg_rolled_back, reorg_apply, reorg_apply_raises, reorg_reject,
               reorg_undo, reorg_undone, reorg_restore, reorg_return,
               reorg_raises, Continue, reorgVars
    <2>2. CASE reorg_failed
        <3>1. /\ phase = "restore" /\ height = Len(savedChain) /\ blocks' = blocks
            BY <2>2 DEF reorg_failed, chainVars
        <3>2. SamePrefix(height)
            BY <3>1 DEF IndInv, ReorgOK
        <3> QED BY <3>1, <3>2, RestoredChain DEF IndInv, TypeInv
    <2>3. CASE reorg_complete
        BY <2>3 DEF reorg_complete, chainVars, IndInv, ReorgOK, height
    <2> QED BY <2>1, <2>2, <2>3
<1> QED BY <1>1, <1>2, IndInit, PTL DEF Spec, ReorgAllOrNothing


-----------------------------------------------------------------------------
(* Counting positions *)

\* The positions of the sender s among the first n of q.
Of(q, n, s) == {j \in 1..n : sender[q[j]] = s}

\* f maps A one to one onto B.
OneToOne(f, A, B) ==
    /\ \A x \in A : f[x] \in B
    /\ \A y \in B : \E x \in A : f[x] = y
    /\ \A x, y \in A : f[x] = f[y] => x = y

\* A set and its image under such a map have the same size.
LEMMA ImageCount ==
    ASSUME NEW A, IsFiniteSet(A), NEW f, NEW B, OneToOne(f, A, B)
    PROVE  IsFiniteSet(B) /\ Cardinality(B) = Cardinality(A)
<1> DEFINE g == [x \in A |-> f[x]]
<1>1. g \in [A -> B] /\ \A x \in A : g[x] = f[x]
    BY DEF OneToOne
<1> HIDE DEF g
<1>2. g \in Injection(A, B)
    BY <1>1 DEF Injection, IsInjective, OneToOne
<1>3. g \in Surjection(A, B)
    BY <1>1 DEF Surjection, OneToOne
<1>4. ExistsBijection(A, B)
    BY <1>2, <1>3 DEF ExistsBijection, Bijection
<1> QED BY <1>4, FS_Bijection

\* Disjoint parts.
LEMMA PartsCount ==
    ASSUME NEW n \in Nat, NEW A, NEW B, A \subseteq 1..n, B \subseteq 1..n, A \cap B = {}
    PROVE  /\ Cardinality(A) \in Nat /\ Cardinality(B) \in Nat
           /\ Cardinality(A \cup B) = Cardinality(A) + Cardinality(B)
<1>1. /\ IsFiniteSet(A) /\ Cardinality(A) \in Nat
      /\ IsFiniteSet(B) /\ Cardinality(B) \in Nat
    BY PositionsFinite
<1>2. Cardinality(A \cup B) = Cardinality(A) + Cardinality(B) - Cardinality(A \cap B)
    BY <1>1, FS_Union
<1>3. Cardinality(A \cap B) = 0
    BY FS_EmptySet
<1> QED BY <1>1, <1>2, <1>3

\* i has the highest rank in K.
IsLast(i, K) == i \in K /\ Cardinality({j \in K : j <= i}) = Cardinality(K)

\* Unless K is empty, some position has.
LEMMA LastPosition ==
    ASSUME NEW n \in Nat, NEW K, K \subseteq 1..n, Cardinality(K) # 0
    PROVE  \E i : IsLast(i, K)
<1> DEFINE c == Cardinality(K)
<1>1. c \in Nat
    BY PositionsFinite
<1>2. c \in 1..c
    <2> HIDE DEF c
    <2>1. c # 0
        BY DEF c
    <2> QED BY <1>1, <2>1
<1> DEFINE Rank(i) == Cardinality({j \in K : j <= i})
<1>3. \A k \in 1..c : \E i \in K : Rank(i) = k
    BY KthPosition
<1> HIDE DEF c, Rank
<1>4. PICK i \in K : Rank(i) = c
    BY <1>2, <1>3
<1> QED BY <1>4 DEF IsLast, Rank, c

\* The positions of a sender are finite in number.
LEMMA OfCount ==
    ASSUME NEW q, NEW n \in Nat, NEW s
    PROVE  Of(q, n, s) \subseteq 1..n /\ Cardinality(Of(q, n, s)) \in Nat
<1>1. Of(q, n, s) \subseteq 1..n
    BY DEF Of
<1> QED BY <1>1, PositionsFinite

\* Those up to k and those after k are all of them.
LEMMA OfSplit ==
    ASSUME NEW q, NEW n \in Nat, NEW k \in 0..n, NEW s,
           NEW A, A = {j \in (k + 1)..n : sender[q[j]] = s}
    PROVE  /\ Cardinality(A) \in Nat /\ IsFiniteSet(A)
           /\ Cardinality(Of(q, n, s)) = Cardinality(Of(q, k, s)) + Cardinality(A)
<1>1. /\ Of(q, k, s) \subseteq 1..n /\ A \subseteq 1..n /\ Of(q, k, s) \cap A = {}
    BY DEF Of
<1>2. Of(q, n, s) = Of(q, k, s) \cup A
    <2>1. \A j : j \in 1..n <=> j \in 1..k \/ j \in (k + 1)..n
        OBVIOUS
    <2> QED BY <2>1 DEF Of
<1>3. IsFiniteSet(A)
    BY <1>1, PositionsFinite
<1> DEFINE B == Of(q, k, s)
<1>4. B \subseteq 1..n /\ A \subseteq 1..n /\ B \cap A = {}
    BY <1>1
<1> HIDE DEF B
<1>5. /\ Cardinality(A) \in Nat
      /\ Cardinality(B \cup A) = Cardinality(B) + Cardinality(A)
    BY ONLY n \in Nat, <1>4, PartsCount, ZenonT(60)
<1> QED BY <1>2, <1>3, <1>5 DEF B

\* Position h of r was position i of q, which the first k, and the senders in
\* who, have left.
Stood(r, h, q, i, k, who) ==
    /\ r[h] = q[i] /\ sender[q[i]] \notin who
    /\ Cardinality(Of(q, i, sender[q[i]])) =
           Cardinality(Of(q, k, sender[q[i]])) + Cardinality(Of(r, h, sender[q[i]]))

\* Every position of r stood somewhere after the first k of q, and r counts
\* what they, and the senders in who, leave.
Leaves(q, k, who, r) ==
    /\ \A h \in 1..Len(r) : \E i \in (k + 1)..Len(q) : Stood(r, h, q, i, k, who)
    /\ \A s : Cardinality(Of(r, Len(r), s)) =
          IF s \in who THEN 0
          ELSE Cardinality(Of(q, Len(q), s)) - Cardinality(Of(q, k, s))

\* What is left of q when its first k positions and the senders in who are
\* taken out, and where each of the rest stood.
LEMMA Rest ==
    ASSUME NEW q \in Seq(Tx), NEW who, NEW k \in 0..Len(q),
           NEW K, K = {i \in (k + 1)..Len(q) : sender[q[i]] \notin who},
           NEW r, r = Select(q, K)
    PROVE  r \in Seq(Tx) /\ Leaves(q, k, who, r)
<1> DEFINE n == Len(q)
           c == Cardinality(K)
<1>1. n \in Nat /\ k \in Nat /\ k <= n /\ K \subseteq 1..n
    BY LenProperties
<1>2. r \in Seq(Tx) /\ Len(r) = c /\ c \in Nat
    BY SelectIs
<1>a. PICK f : Enumerates(f, r, q, K)
    <2>1. K \subseteq 1..Len(q)
        BY <1>1
    <2>2. \E f : Enumerates(f, Select(q, K), q, K)
        BY ONLY <2>1, q \in Seq(Tx), SelectIs, Zenon
    <2> QED BY <2>2
<1>3. /\ f \in [1..c -> K]
      /\ \A h \in 1..c : r[h] = q[f[h]]
      /\ \A g, h \in 1..c : g <= h <=> f[g] <= f[h]
      /\ \A i \in K : \E h \in 1..c : f[h] = i
    BY <1>a DEF Enumerates
<1> HIDE DEF n, c
<1>4. \A i \in K : i \in Int /\ i \in 1..n /\ i > k
    BY <1>1 DEF n
<1>5. \A g, h \in 1..c : f[g] = f[h] => g = h
    <2> SUFFICES ASSUME NEW g \in 1..c, NEW h \in 1..c, f[g] = f[h] PROVE g = h
        OBVIOUS
    <2>1. f[g] \in Int /\ f[h] \in Int /\ g \in Int /\ h \in Int
        BY <1>3, <1>4, <1>2
    <2>2. f[g] <= f[h] /\ f[h] <= f[g]
        BY <2>1
    <2>3. g <= h /\ h <= g
        BY <1>3, <2>2
    <2> QED BY <2>1, <2>3
<1>6. ASSUME NEW h \in 0..c, NEW s, NEW A,
             A = {i \in K : sender[q[i]] = s /\ \E g \in 1..h : f[g] = i}
      PROVE  Cardinality(Of(r, h, s)) = Cardinality(A)
    <2>1. h \in Nat /\ 1..h \subseteq 1..c
        BY <1>2
    <2>2. IsFiniteSet(Of(r, h, s)) /\ Of(r, h, s) \subseteq 1..c
        BY <2>1, PositionsFinite DEF Of
    <2>3. OneToOne(f, Of(r, h, s), A)
        <3>1. \A g \in 1..h : f[g] \in K /\ r[g] = q[f[g]]
            BY <1>3, <2>1
        <3>2. \A g \in Of(r, h, s) : f[g] \in A
            BY <1>6, <3>1 DEF Of
        <3>3. ASSUME NEW i \in A PROVE \E g \in Of(r, h, s) : f[g] = i
            <4>1. sender[q[i]] = s /\ \E g \in 1..h : f[g] = i
                BY <1>6
            <4>2. PICK g \in 1..h : f[g] = i
                BY <4>1
            <4>3. sender[r[g]] = s
                BY <3>1, <4>1, <4>2
            <4> QED BY <4>2, <4>3 DEF Of
        <3>4. \A x, y \in Of(r, h, s) : f[x] = f[y] => x = y
            BY <1>5, <2>2
        <3> QED BY <3>2, <3>3, <3>4 DEF OneToOne
    <2> QED BY <2>2, <2>3, ImageCount
<1>7. ASSUME NEW h \in 1..Len(r)
      PROVE  \E i \in (k + 1)..Len(q) : Stood(r, h, q, i, k, who)
    <2> DEFINE i == f[h]
               s == sender[q[i]]
               A == {j \in (k + 1)..i : sender[q[j]] = s}
               B == {j \in K : sender[q[j]] = s /\ \E g \in 1..h : f[g] = j}
    <2>1. h \in 1..c /\ h \in 0..c /\ h \in Nat
        BY <1>2
    <2>2. i \in K /\ i \in Nat /\ i \in 1..n /\ k \in 0..i /\ r[h] = q[i] /\ s \notin who
        BY <1>1, <1>3, <1>4, <2>1
    <2>3. \A j \in K : (\E g \in 1..h : f[g] = j) <=> j <= i
        <3> SUFFICES ASSUME NEW j \in K PROVE (\E g \in 1..h : f[g] = j) <=> j <= i
            OBVIOUS
        <3>1. PICK g \in 1..c : f[g] = j
            BY <1>3
        <3>2. g <= h <=> j <= i
            BY <1>3, <2>1, <3>1
        <3>3. g \in 1..h <=> g <= h
            BY <1>2, <2>1, <3>1
        <3>4. \A e \in 1..h : f[e] = j => e = g
            BY <1>2, <1>5, <2>1, <3>1
        <3> QED BY <3>1, <3>2, <3>3, <3>4
    <2> HIDE DEF i
    <2>4. \A j : j \in (k + 1)..i <=> j \in (k + 1)..n /\ j <= i
        BY <1>1, <2>2
    <2>5. A = B
        BY <2>2, <2>3, <2>4 DEF n
    <2>6. Cardinality(Of(r, h, s)) = Cardinality(B)
        <3> HIDE DEF s
        <3> QED BY <1>6, <2>1
    <2>7. Cardinality(Of(q, i, s)) = Cardinality(Of(q, k, s)) + Cardinality(A)
        <3> HIDE DEF s
        <3> QED BY <2>2, OfSplit
    <2> HIDE DEF A, B
    <2>8. Cardinality(Of(q, i, s)) = Cardinality(Of(q, k, s)) + Cardinality(Of(r, h, s))
        BY <2>5, <2>6, <2>7
    <2>9. Stood(r, h, q, i, k, who)
        BY <2>2, <2>8 DEF Stood
    <2>10. i \in (k + 1)..Len(q)
        BY <2>2
    <2> QED BY <2>9, <2>10
<1>8. ASSUME NEW s
      PROVE  Cardinality(Of(r, Len(r), s)) =
                 IF s \in who THEN 0
                 ELSE Cardinality(Of(q, Len(q), s)) - Cardinality(Of(q, k, s))
    <2> DEFINE A == {j \in (k + 1)..n : sender[q[j]] = s}
               B == {i \in K : sender[q[i]] = s /\ \E g \in 1..c : f[g] = i}
    <2>1. Cardinality(Of(r, Len(r), s)) = Cardinality(B)
        <3>1. /\ c \in 0..c
              /\ B = {i \in K : sender[q[i]] = s /\ \E g \in 1..c : f[g] = i}
            BY <1>2
        <3> HIDE DEF B
        <3>2. Cardinality(Of(r, c, s)) = Cardinality(B)
            BY <1>6, <3>1
        <3> QED BY <1>2, <3>2
    <2>2. B = {i \in K : sender[q[i]] = s}
        BY <1>3
    <2>3. CASE s \in who
        <3>1. B = {}
            BY <2>2, <2>3
        <3> HIDE DEF B
        <3> QED BY <2>1, <2>3, <3>1, FS_EmptySet
    <2>4. CASE s \notin who
        <3>1. B = A
            BY <2>2, <2>4 DEF n
        <3>2. /\ Cardinality(A) \in Nat
              /\ Cardinality(Of(q, n, s)) = Cardinality(Of(q, k, s)) + Cardinality(A)
            BY <1>1, OfSplit DEF n
        <3>3. Cardinality(Of(q, k, s)) \in Nat
            BY <1>1, OfCount
        <3> HIDE DEF A, B
        <3> QED BY <2>1, <2>4, <3>1, <3>2, <3>3 DEF n
    <2> QED BY <2>3, <2>4
<1> QED BY <1>2, <1>7, <1>8 DEF Leaves

-----------------------------------------------------------------------------
(* The invariant *)

\* No block comes from elsewhere, so none is reorganized; the indices of a
\* block that fails are taken back exactly, which SQLite's pruned per-sender
\* lists do not allow.
Lone ==
    /\ ~OtherValidators
    /\ MaxForkLen = 0
    /\ AppendMayFail => ~SQLite

\* Each sender's pending nonces follow those on the chain, in pool order.
PoolFollows ==
    \A i \in 1..Len(txPool) :
        nonce[txPool[i]] = senderNonce[sender[txPool[i]]]
                           + Cardinality(Of(txPool, i, sender[txPool[i]]))

PoolClean ==
    \A i \in 1..Len(txPool) :
        sender[txPool[i]] \notin revokedKeys /\ txPool[i] \notin txById

CountsOK == \A s \in Sender : poolSenderCount[s] = PoolCount(s)

\* The inductive invariant of the pool.
PoolInv == phase = "idle" /\ PoolFollows /\ CountsOK /\ PoolClean

\* The facts about types that the lemmas below use.
LEMMA PoolTypes ==
    ASSUME ChainType, PoolType
    PROVE  /\ txPool \in Seq(Tx) /\ Len(txPool) \in Nat
           /\ \A i \in 1..Len(txPool) : /\ txPool[i] \in Tx
                                        /\ sender[txPool[i]] \in Sender
                                        /\ nonce[txPool[i]] \in Nat
           /\ \A s \in Sender : senderNonce[s] \in Int
           /\ \A s \in Sender : poolSenderCount[s] \in Nat
<1>1. txPool \in Seq(Tx) /\ Len(txPool) \in Nat
    BY LenProperties DEF PoolType
<1>2. \A i \in 1..Len(txPool) : txPool[i] \in Tx
    BY <1>1, ElementOfSeq
<1> QED BY <1>1, <1>2, TxAssumption DEF ChainType, PoolType

\* Two pending transactions of one sender differ in their nonces.
LEMMA Distinct ==
    ASSUME ChainType, PoolType, PoolFollows,
           NEW i \in 1..Len(txPool), NEW j \in 1..Len(txPool),
           sender[txPool[i]] = sender[txPool[j]],
           nonce[txPool[i]] = nonce[txPool[j]]
    PROVE  i = j
<1> DEFINE n == Len(txPool)
<1>1. n \in Nat
    BY PoolTypes
<1>2. ASSUME NEW a \in 1..n, NEW b \in 1..n, a < b,
             sender[txPool[a]] = sender[txPool[b]]
      PROVE  nonce[txPool[a]] # nonce[txPool[b]]
    <2> DEFINE s == sender[txPool[a]]
               K == Of(txPool, n, s)
    <2>1. K \subseteq 1..n /\ a \in K /\ b \in K /\ a \in Nat /\ b \in Nat
        BY <1>1, <1>2 DEF Of
    <2>2. {h \in K : h <= a} = Of(txPool, a, s) /\ {h \in K : h <= b} = Of(txPool, b, s)
        BY <1>1, <2>1 DEF Of
    <2>3. /\ nonce[txPool[a]] = senderNonce[s] + Cardinality(Of(txPool, a, s))
          /\ nonce[txPool[b]] = senderNonce[s] + Cardinality(Of(txPool, b, s))
        BY <1>2 DEF PoolFollows
    <2>4. senderNonce[s] \in Int
        BY PoolTypes
    <2> HIDE DEF n, s, K
    <2>5. /\ Cardinality({h \in K : h <= a}) \in Nat
          /\ Cardinality({h \in K : h <= b}) \in Nat
          /\ Cardinality({h \in K : h <= a}) < Cardinality({h \in K : h <= b})
        BY <1>1, <1>2, <2>1, Ranks
    <2> DEFINE x == Cardinality(Of(txPool, a, s))
               y == Cardinality(Of(txPool, b, s))
    <2>6. x \in Nat /\ y \in Nat /\ x < y
        BY <2>2, <2>5
    <2> HIDE DEF x, y
    <2>7. senderNonce[s] + x # senderNonce[s] + y
        BY <2>4, <2>6
    <2> QED BY <2>3, <2>7 DEF x, y
<1>3. i \in Int /\ j \in Int /\ ~ (i < j) /\ ~ (j < i)
    BY <1>1, <1>2
<1> QED BY <1>3

\* The first k of the pool, when it is not empty, pass validate_block.
LEMMA Minable ==
    ASSUME ChainType, PoolType, PoolInv, txPool # <<>>
    PROVE  validate_block(NextBlock)
<1> DEFINE n == Len(txPool)
           k == MinOf(n, MAX_TX_PER_BLOCK)
           b == NextBlock
<1>1. n \in Nat /\ n # 0
    BY PoolTypes, EmptySeq DEF PoolType
<1>2. k \in 1..n /\ k \in 1..MAX_TX_PER_BLOCK
    BY <1>1, BoundAssumption DEF MinOf
<1>3. b \in Seq(Tx) /\ Len(b) = k /\ (\A i \in 1..k : b[i] = txPool[i])
    <2>1. \A i \in 1..k : i \in 1..n
        BY <1>1, <1>2
    <2> HIDE DEF k, n
    <2>2. k \in Nat
        BY <1>1, <1>2
    <2>3. b = SubSeq(txPool, 1, k)
        BY DEF NextBlock, k, n
    <2> HIDE DEF b
    <2> QED BY <2>1, <2>2, <2>3, SubSeqProperties, PoolTypes DEF n
<1>4. Range(b) = {txPool[i] : i \in 1..k}
    BY <1>3 DEF Range
<1> HIDE DEF b, k
<1>5. \A i \in 1..k : i \in 1..n
    BY <1>1, <1>2
<1>6. \A i, j \in 1..Len(b) : b[i] = b[j] => i = j
    BY <1>3, <1>5, Distinct DEF PoolInv
<1>7. Range(b) \cap txById = {} /\ SendersOf(b) \cap revokedKeys = {}
    BY <1>4, <1>5 DEF PoolInv, PoolClean, SendersOf
<1>8. ASSUME NEW i \in 1..k
      PROVE  LET before == {j \in 1..(i - 1) : sender[b[j]] = sender[b[i]]}
             IN  nonce[b[i]] = IF before = {}
                               THEN get_next_nonce(sender[b[i]])
                               ELSE nonce[b[Max(before)]] + 1
    <2> DEFINE s == sender[txPool[i]]
               before == {j \in 1..(i - 1) : sender[b[j]] = sender[b[i]]}
    <2>1. i \in Nat /\ i - 1 \in Nat /\ i - 1 <= i /\ i \in 1..n /\ b[i] = txPool[i]
        BY <1>1, <1>2, <1>3, <1>5
    <2>2. before = Of(txPool, i - 1, s)
        <3>1. \A j \in 1..(i - 1) : b[j] = txPool[j]
            BY <1>2, <1>3, <2>1
        <3> QED BY <2>1, <3>1 DEF Of
    <2>3. nonce[b[i]] = senderNonce[s] + Cardinality(Of(txPool, i, s))
        BY <2>1 DEF PoolInv, PoolFollows
    <2>4. senderNonce[s] \in Int
        BY <2>1, PoolTypes
    <2>5. ASSUME NEW m \in 0..(i - 1), \A j \in before : j <= m
          PROVE  /\ Cardinality(Of(txPool, m, s)) \in Nat
                 /\ Cardinality(Of(txPool, i, s)) = Cardinality(Of(txPool, m, s)) + 1
        <3> DEFINE A == {j \in (m + 1)..i : sender[txPool[j]] = s}
        <3>1. m \in Nat /\ m \in 0..i
            BY <2>1
        <3>2. A = {i}
            <4>1. \A j \in (m + 1)..(i - 1) : sender[txPool[j]] # s
                <5>1. \A j \in (m + 1)..(i - 1) : j \in 1..(i - 1) /\ ~ (j <= m)
                    BY <2>1, <3>1
                <5> QED BY <2>2, <2>5, <5>1 DEF Of
            <4>2. \A j \in (m + 1)..i : j = i \/ j \in (m + 1)..(i - 1)
                BY <2>1, <3>1
            <4>3. i \in (m + 1)..i
                BY <2>1
            <4> QED BY <4>1, <4>2, <4>3
        <3>3. Cardinality(Of(txPool, i, s)) = Cardinality(Of(txPool, m, s)) + Cardinality(A)
            <4> HIDE DEF s
            <4> QED BY <2>1, <3>1, OfSplit
        <3>4. Cardinality(A) = 1
            BY <3>2, FS_Singleton
        <3>5. Cardinality(Of(txPool, m, s)) \in Nat
            BY <3>1, OfCount
        <3> HIDE DEF A
        <3> QED BY <3>3, <3>4, <3>5
    <2>6. CASE before = {}
        <3>1. Of(txPool, 0, s) = {}
            BY DEF Of
        <3>2. Cardinality(Of(txPool, 0, s)) = 0
            BY <3>1, FS_EmptySet
        <3>3. Cardinality(Of(txPool, i, s)) = Cardinality(Of(txPool, 0, s)) + 1
            <4>1. 0 \in 0..(i - 1)
                BY <2>1
            <4> HIDE DEF before, s
            <4> QED BY <2>5, <2>6, <4>1
        <3>4. nonce[b[i]] = senderNonce[s] + 1
            BY <2>3, <3>2, <3>3
        <3> QED BY <2>1, <2>6, <3>4 DEF get_next_nonce
    <2>7. CASE before # {}
        <3> DEFINE m == Max(before)
        <3>1. m \in before /\ \A j \in before : j <= m
            <4>1. before \subseteq Int /\ i \in Int /\ \A j \in before : j <= i
                BY <2>1
            <4> HIDE DEF before
            <4> QED BY <2>7, <4>1, MaxExists
        <3> HIDE DEF m
        <3>2. /\ m \in 0..(i - 1) /\ m \in 1..n /\ b[m] = txPool[m]
              /\ sender[txPool[m]] = s
            BY <1>1, <1>2, <1>3, <2>1, <3>1
        <3>3. nonce[b[m]] = senderNonce[s] + Cardinality(Of(txPool, m, s))
            BY <3>2 DEF PoolInv, PoolFollows
        <3>4. /\ Cardinality(Of(txPool, m, s)) \in Nat
              /\ Cardinality(Of(txPool, i, s)) = Cardinality(Of(txPool, m, s)) + 1
            <4> HIDE DEF before, s
            <4> QED BY <2>5, <3>1, <3>2
        <3>5. nonce[b[i]] = nonce[b[m]] + 1
            <4> HIDE DEF s
            <4> QED BY <2>3, <2>4, <3>3, <3>4
        <3> QED BY <2>7, <3>5 DEF m
    <2> QED BY <2>6, <2>7
<1>9. NoncesFollow(b)
    BY <1>3, <1>8 DEF NoncesFollow
<1> QED BY <1>2, <1>3, <1>6, <1>7, <1>9 DEF validate_block, b

\* The last nonces on the chain once the first k of the pool are mined.
LEMMA Mined ==
    ASSUME ChainType, PoolType, PoolFollows, NEW k \in 0..Len(txPool),
           NEW s \in Sender, NEW S, S = {txPool[i] : i \in 1..k}
    PROVE  Max({senderNonce[s]} \cup NoncesOf(S, s)) =
               senderNonce[s] + Cardinality(Of(txPool, k, s))
<1> DEFINE K == Of(txPool, k, s)
           c == Cardinality(K)
           M == {senderNonce[s]} \cup NoncesOf(S, s)
<1>1. /\ k \in Nat /\ K \subseteq 1..k /\ c \in Nat /\ IsFiniteSet(K)
      /\ senderNonce[s] \in Int
    BY PoolTypes, PositionsFinite DEF Of
<1>2. NoncesOf(S, s) = {nonce[txPool[i]] : i \in K}
    BY DEF NoncesOf, Of
<1>3. ASSUME NEW i \in K
      PROVE  /\ nonce[txPool[i]] = senderNonce[s] + Cardinality({j \in K : j <= i})
             /\ Cardinality({j \in K : j <= i}) \in Nat
             /\ Cardinality({j \in K : j <= i}) <= c
    <2>1. i \in 1..Len(txPool) /\ sender[txPool[i]] = s /\ i \in Nat /\ i <= k
        BY <1>1, PoolTypes DEF Of
    <2>2. {j \in K : j <= i} = Of(txPool, i, s)
        BY <1>1, <2>1 DEF Of
    <2>3. nonce[txPool[i]] = senderNonce[s] + Cardinality(Of(txPool, i, s))
        BY <2>1 DEF PoolFollows
    <2> DEFINE A == {j \in K : j <= i}
    <2>4. A \subseteq K
        OBVIOUS
    <2> HIDE DEF A, K
    <2>5. Cardinality(A) \in Nat /\ Cardinality(A) <= c
        BY <1>1, <2>4, FS_Subset, FS_CardinalityType
    <2> QED BY <2>2, <2>3, <2>5 DEF A
<1>4. \A y \in M : y \in Int /\ y <= senderNonce[s] + c
    <2> SUFFICES ASSUME NEW y \in M PROVE y \in Int /\ y <= senderNonce[s] + c
        OBVIOUS
    <2>1. CASE y = senderNonce[s]
        <3> HIDE DEF c
        <3> QED BY <1>1, <2>1
    <2>2. CASE y # senderNonce[s]
        <3>1. PICK i \in K : y = nonce[txPool[i]]
            BY <1>2, <2>2
        <3> DEFINE x == Cardinality({j \in K : j <= i})
        <3>2. y = senderNonce[s] + x /\ x \in Nat /\ x <= c
            BY <1>3, <3>1
        <3> HIDE DEF x, c
        <3> QED BY <1>1, <3>2
    <2> QED BY <2>1, <2>2
<1>5. senderNonce[s] + c \in M
    <2>1. CASE c = 0
        <3> HIDE DEF c
        <3> QED BY <1>1, <2>1
    <2>2. CASE c # 0
        <3>1. PICK i : IsLast(i, K)
            <4> HIDE DEF K
            <4> QED BY <1>1, <2>2, LastPosition
        <3>2. i \in K /\ Cardinality({j \in K : j <= i}) = c
            BY <3>1 DEF IsLast
        <3>3. nonce[txPool[i]] = senderNonce[s] + c
            BY <1>3, <3>2
        <3>4. nonce[txPool[i]] \in M
            BY <1>2, <3>2
        <3> QED BY <3>3, <3>4
    <2> QED BY <2>1, <2>2
<1> DEFINE m == senderNonce[s] + c
<1>6. M \subseteq Int /\ m \in M /\ \A y \in M : y <= m
    BY <1>4, <1>5
<1> HIDE DEF M, m
<1>7. Max(M) = m
    BY <1>6, MaxIs
<1> QED BY <1>7 DEF M, m

\* What the invariant needs of a step that takes the first k transactions, and
\* the senders in who, out of the pool: the counters that _drain_pool lowers
\* stay exact, and what is left follows the nonces of the grown chain.
LEMMA Kept ==
    ASSUME ChainType, PoolType, PoolInv, NEW k \in 0..Len(txPool), NEW who,
           NEW mined, mined = {txPool[i] : i \in 1..k},
           txPool' = PoolWithout(who, mined),
           poolSenderCount' = CountsWithout(who, mined),
           \A s \in Sender : senderNonce'[s] =
                senderNonce[s] + Cardinality(Of(txPool, k, s)),
           revokedKeys' \subseteq revokedKeys \cup who,
           txById' \subseteq txById \cup mined,
           phase' = "idle"
    PROVE  PoolInv'
<1> DEFINE n == Len(txPool)
           K == {i \in (k + 1)..n : sender[txPool[i]] \notin who}
           r == Select(txPool, K)
<1>1. n \in Nat /\ k \in Nat /\ k <= n
    BY PoolTypes
<1>2. \A i \in 1..n : txPool[i] \in mined <=> i \in 1..k
    BY <1>1, Distinct DEF PoolInv
<1>3. K = {i \in 1..n : sender[txPool[i]] \notin who /\ txPool[i] \notin mined}
    <2>1. \A i : i \in (k + 1)..n <=> i \in 1..n /\ ~ (i \in 1..k)
        BY <1>1
    <2> QED BY <1>2, <2>1
<1>4. txPool' = r
    BY <1>3 DEF PoolWithout
<1>5. K \subseteq 1..n /\ k \in 0..n /\ txPool \in Seq(Tx)
    BY <1>1, PoolTypes
<1>6. /\ r \in Seq(Tx) /\ Len(r) \in Nat
      /\ \A h \in 1..Len(r) : \E i \in (k + 1)..n : Stood(r, h, txPool, i, k, who)
      /\ \A s : Cardinality(Of(r, Len(r), s)) =
            IF s \in who THEN 0
            ELSE Cardinality(Of(txPool, n, s)) - Cardinality(Of(txPool, k, s))
    <2>1. K = {i \in (k + 1)..n : sender[txPool[i]] \notin who} /\ r = Select(txPool, K)
        OBVIOUS
    <2> HIDE DEF K, r
    <2>2. r \in Seq(Tx) /\ Leaves(txPool, k, who, r)
        BY <1>5, <2>1, Rest
    <2> QED BY <2>2, LenProperties DEF Leaves
<1> HIDE DEF K, r
<1>7. ASSUME NEW h \in 1..Len(r)
      PROVE  /\ nonce[r[h]] = senderNonce'[sender[r[h]]]
                              + Cardinality(Of(r, h, sender[r[h]]))
             /\ sender[r[h]] \notin revokedKeys' /\ r[h] \notin txById'
    <2>1. PICK i \in (k + 1)..n : Stood(r, h, txPool, i, k, who)
        BY <1>6
    <2> DEFINE s == sender[txPool[i]]
    <2>2. /\ i \in 1..n /\ i \notin 1..k
          /\ r[h] = txPool[i] /\ s \notin who
          /\ Cardinality(Of(txPool, i, s)) =
                Cardinality(Of(txPool, k, s)) + Cardinality(Of(r, h, s))
        BY <1>1, <2>1 DEF Stood
    <2>3. s \in Sender /\ senderNonce[s] \in Int
        BY <2>2, PoolTypes
    <2>4. nonce[txPool[i]] = senderNonce[s] + Cardinality(Of(txPool, i, s))
        BY <2>2 DEF PoolInv, PoolFollows
    <2>5. senderNonce'[s] = senderNonce[s] + Cardinality(Of(txPool, k, s))
        BY <2>3
    <2>6. Cardinality(Of(txPool, k, s)) \in Nat /\ Cardinality(Of(r, h, s)) \in Nat
        <3>1. h \in Nat
            BY <1>6
        <3> QED BY <1>1, <3>1, OfCount
    <2>7. nonce[r[h]] = senderNonce'[s] + Cardinality(Of(r, h, s))
        <3> HIDE DEF s
        <3> QED BY <2>2, <2>3, <2>4, <2>5, <2>6
    <2>8. /\ s \notin revokedKeys /\ txPool[i] \notin txById
          /\ txPool[i] \notin mined
        BY <1>2, <2>2 DEF PoolInv, PoolClean
    <2> QED BY <2>2, <2>7, <2>8
<1>8. ASSUME NEW s \in Sender
      PROVE  poolSenderCount'[s] = Cardinality(Of(r, Len(r), s))
    <2> DEFINE a == Cardinality(Of(txPool, n, s))
               c == Cardinality(Of(txPool, k, s))
               d == IF s \in who THEN Max({0, poolSenderCount[s] - PoolCount(s)})
                                 ELSE poolSenderCount[s]
               m == Cardinality({t \in mined : sender[t] = s})
    <2>1. poolSenderCount'[s] = Max({0, d - m})
        BY DEF CountsWithout
    <2>2. PoolCount(s) = a /\ poolSenderCount[s] = a
        BY DEF PoolCount, Of, PoolInv, CountsOK
    <2>3. a \in Nat /\ c \in Nat /\ c <= a
        <3> DEFINE A == {j \in (k + 1)..n : sender[txPool[j]] = s}
        <3>1. Cardinality(A) \in Nat /\ a = c + Cardinality(A)
            <4>1. A = {j \in (k + 1)..n : sender[txPool[j]] = s}
                OBVIOUS
            <4> HIDE DEF A, n
            <4> QED BY <1>1, <1>5, <4>1, OfSplit
        <3>2. c \in Nat
            BY <1>1, OfCount
        <3> HIDE DEF A, a, c
        <3> QED BY <3>1, <3>2
    <2>4. m = c
        <3> DEFINE D == Of(txPool, k, s)
                   B == {t \in mined : sender[t] = s}
        <3>1. D \subseteq 1..k /\ IsFiniteSet(D)
            BY <1>1, PositionsFinite DEF Of
        <3>2. \A x, y \in D : txPool[x] = txPool[y] => x = y
            BY <1>1, <3>1, Distinct DEF PoolInv
        <3>3. /\ \A x \in D : txPool[x] \in B
              /\ \A t \in B : \E x \in D : txPool[x] = t
            BY DEF Of
        <3>4. OneToOne(txPool, D, B)
            BY <3>2, <3>3 DEF OneToOne
        <3> HIDE DEF D, B
        <3>5. Cardinality(B) = Cardinality(D)
            BY <3>1, <3>4, ImageCount
        <3> QED BY <3>5 DEF D, B
    <2> HIDE DEF a, c, m
    <2>5. CASE s \in who
        <3>1. d = 0
            <4>1. 0 \in Int /\ a - a = 0
                BY <2>3
            <4>2. Max({0, a - a}) = 0
                BY <4>1, MinMaxPair
            <4> QED BY <2>2, <2>5, <4>2
        <3> HIDE DEF d
        <3>2. Max({0, d - m}) = 0
            <4>1. 0 \in Int /\ d - m \in Int /\ ~ (0 < d - m)
                BY <2>3, <2>4, <3>1
            <4>2. Max({0, d - m}) = IF 0 <= d - m THEN d - m ELSE 0
                BY <4>1, MinMaxPair
            <4> QED BY <4>1, <4>2
        <3> QED BY <1>6, <2>1, <2>5, <3>2
    <2>6. CASE s \notin who
        <3>1. d = a
            BY <2>2, <2>6
        <3> HIDE DEF d
        <3>2. Max({0, d - m}) = a - c
            <4>1. 0 \in Int /\ d - m \in Int /\ 0 <= d - m /\ d - m = a - c
                BY <2>3, <2>4, <3>1
            <4>2. Max({0, d - m}) = IF 0 <= d - m THEN d - m ELSE 0
                BY <4>1, MinMaxPair
            <4> QED BY <4>1, <4>2
        <3> QED BY <1>6, <2>1, <2>6, <3>2 DEF a, c
    <2> QED BY <2>5, <2>6
<1>9. PoolFollows' /\ PoolClean'
    <2>1. \A h \in 1..Len(txPool') :
            /\ nonce[txPool'[h]] = senderNonce'[sender[txPool'[h]]]
                                   + Cardinality(Of(txPool', h, sender[txPool'[h]]))
            /\ sender[txPool'[h]] \notin revokedKeys' /\ txPool'[h] \notin txById'
        BY <1>4, <1>7
    <2>2. PoolFollows'
        BY <2>1 DEF PoolFollows, Of
    <2>3. PoolClean'
        BY <2>1 DEF PoolClean
    <2> QED BY <2>2, <2>3
<1>10. CountsOK'
    BY <1>4, <1>8 DEF CountsOK, PoolCount, Of
<1> QED BY <1>9, <1>10 DEF PoolInv

-----------------------------------------------------------------------------
(* The steps *)

\* Admitting the next nonce of its sender (submit_tx).
LEMMA SubmitPool ==
    ASSUME ChainType, PoolType, PoolInv, NEW t \in Tx, submit_tx(t)
    PROVE  PoolInv'
<1> DEFINE n == Len(txPool)
           q == Append(txPool, t)
           C(s) == Cardinality(Of(txPool, n, s))
<1>1. /\ n \in Nat /\ txPool' = q /\ Len(q) = n + 1 /\ q[n + 1] = t
      /\ \A i \in 1..n : q[i] = txPool[i]
    BY PoolTypes, AppendProperties DEF submit_tx
<1> HIDE DEF q
<1>2. \A i \in 0..n : \A s : Of(q, i, s) = Of(txPool, i, s)
    <2>1. \A i \in 0..n : \A j \in 1..i : j \in 1..n
        BY <1>1
    <2> QED BY <1>1, <2>1 DEF Of
<1>3. ASSUME NEW s
      PROVE  /\ C(s) \in Nat
             /\ Cardinality(Of(q, n + 1, s)) = IF s = sender[t] THEN C(s) + 1 ELSE C(s)
    <2> DEFINE A == {j \in (n + 1)..(n + 1) : sender[q[j]] = s}
    <2>1. n + 1 \in Nat /\ n \in 0..(n + 1) /\ n \in 0..n
        BY <1>1
    <2>2. A = IF s = sender[t] THEN {n + 1} ELSE {}
        <3>1. \A j : j \in (n + 1)..(n + 1) <=> j = n + 1
            BY <1>1
        <3>2. \A j : j \in A <=> j = n + 1 /\ sender[t] = s
            BY <1>1, <3>1
        <3> QED BY <3>2, Zenon
    <2>3. Cardinality(Of(q, n + 1, s)) = Cardinality(Of(q, n, s)) + Cardinality(A)
        <3> DEFINE m == n + 1
        <3>1. m \in Nat /\ n \in 0..m /\ A = {j \in (n + 1)..m : sender[q[j]] = s}
            BY <2>1
        <3> HIDE DEF A, n, m
        <3>2. Cardinality(Of(q, m, s)) = Cardinality(Of(q, n, s)) + Cardinality(A)
            BY <3>1, OfSplit
        <3> QED BY <3>2 DEF m
    <2>4. Cardinality(A) = IF s = sender[t] THEN 1 ELSE 0
        BY <2>2, FS_Singleton, FS_EmptySet
    <2>5. Cardinality(Of(q, n, s)) = C(s) /\ C(s) \in Nat
        BY <1>1, <1>2, <2>1, OfCount
    <2> HIDE DEF A, C
    <2> QED BY <2>3, <2>4, <2>5
<1>4. \A s \in Sender : poolSenderCount[s] = C(s)
    BY DEF PoolInv, CountsOK, PoolCount, Of
<1>5. sender[t] \in Sender /\ senderNonce[sender[t]] \in Int
    BY PoolTypes, TxAssumption
<1>6. /\ nonce[t] = senderNonce[sender[t]] + 1 + poolSenderCount[sender[t]]
      /\ sender[t] \notin revokedKeys /\ t \notin txById
      /\ poolSenderCount' = [poolSenderCount EXCEPT ![sender[t]] = @ + 1]
      /\ UNCHANGED <<senderNonce, revokedKeys, txById, phase>>
    BY DEF submit_tx, get_next_nonce, chainVars, reorgVars
<1> HIDE DEF C
<1>7. nonce[t] = senderNonce[sender[t]] + Cardinality(Of(q, n + 1, sender[t]))
    <2>1. /\ C(sender[t]) \in Nat /\ poolSenderCount[sender[t]] = C(sender[t])
          /\ Cardinality(Of(q, n + 1, sender[t])) = C(sender[t]) + 1
        BY <1>3, <1>4, <1>5
    <2> QED BY <1>5, <1>6, <2>1
<1>8. ASSUME NEW i \in 1..Len(q)
      PROVE  /\ nonce[q[i]] = senderNonce[sender[q[i]]]
                              + Cardinality(Of(q, i, sender[q[i]]))
             /\ sender[q[i]] \notin revokedKeys /\ q[i] \notin txById
    <2>1. CASE i \in 1..n
        <3>1. q[i] = txPool[i] /\ i \in 0..n
            BY <1>1, <2>1
        <3>2. Of(q, i, sender[q[i]]) = Of(txPool, i, sender[q[i]])
            BY <1>2, <3>1
        <3>3. nonce[txPool[i]] = senderNonce[sender[txPool[i]]]
                    + Cardinality(Of(txPool, i, sender[txPool[i]]))
            BY <2>1 DEF PoolInv, PoolFollows
        <3>4. sender[txPool[i]] \notin revokedKeys /\ txPool[i] \notin txById
            BY <2>1 DEF PoolInv, PoolClean
        <3> QED BY <3>1, <3>2, <3>3, <3>4
    <2>2. CASE i \notin 1..n
        <3>1. i = n + 1
            BY <1>1, <2>2
        <3>2. q[i] = t
            BY <1>1, <3>1
        <3> QED BY <1>6, <1>7, <3>1, <3>2
    <2> QED BY <2>1, <2>2
<1>9. PoolFollows' /\ PoolClean'
    <2>1. \A h \in 1..Len(txPool') :
            /\ nonce[txPool'[h]] = senderNonce'[sender[txPool'[h]]]
                                   + Cardinality(Of(txPool', h, sender[txPool'[h]]))
            /\ sender[txPool'[h]] \notin revokedKeys' /\ txPool'[h] \notin txById'
        BY <1>1, <1>6, <1>8
    <2>2. PoolFollows'
        BY <2>1 DEF PoolFollows, Of
    <2>3. PoolClean'
        BY <2>1 DEF PoolClean
    <2> QED BY <2>2, <2>3
<1>10. CountsOK'
    <2>1. ASSUME NEW s \in Sender PROVE poolSenderCount'[s] = Cardinality(Of(q, n + 1, s))
        <3>1. poolSenderCount[s] = C(s) /\ C(s) \in Nat
            BY <1>3, <1>4
        <3>2. poolSenderCount'[s] = IF s = sender[t] THEN poolSenderCount[s] + 1
                                                     ELSE poolSenderCount[s]
            BY <1>6 DEF PoolType
        <3> QED BY <1>3, <3>1, <3>2
    <2>2. \A s \in Sender :
            poolSenderCount'[s] = Cardinality(Of(txPool', Len(txPool'), s))
        BY <1>1, <2>1
    <2> QED BY <2>2 DEF CountsOK, PoolCount, Of
<1> QED BY <1>6, <1>9, <1>10 DEF PoolInv

\* Mining the block that the pool gives (produce_block).
LEMMA ProducePool ==
    ASSUME ChainType, PoolType, PoolInv, produce_block
    PROVE  PoolInv'
<1> DEFINE n == Len(txPool)
           k == MinOf(n, MAX_TX_PER_BLOCK)
           mined == Range(NextBlock)
<1>1. n \in Nat /\ k \in 0..n /\ k \in Nat
    BY PoolTypes, BoundAssumption DEF MinOf
<1> HIDE DEF k
<1>2. mined = {txPool[i] : i \in 1..k}
    <2> DEFINE b == NextBlock
    <2>1. b = SubSeq(txPool, 1, k)
        BY DEF NextBlock, k
    <2>2. \A i \in 1..k : i \in 1..n
        BY <1>1
    <2> HIDE DEF b
    <2>3. b \in Seq(Tx) /\ Len(b) = k /\ \A i \in 1..k : b[i] = txPool[i]
        BY <1>1, <2>1, <2>2, SubSeqProperties, PoolTypes
    <2>4. DOMAIN b = 1..k
        BY <2>3, LenProperties
    <2>5. Range(b) = {txPool[i] : i \in 1..k}
        BY <2>3, <2>4 DEF Range
    <2> QED BY <2>5 DEF b
<1> DEFINE who == RevokersOf(mined)
<1>3. /\ txPool' = PoolWithout(who, mined)
      /\ poolSenderCount' = CountsWithout(who, mined)
      /\ revokedKeys' = revokedKeys \cup who
      /\ txById' = txById \cup mined
      /\ senderNonce' = [s \in Sender |-> Max({senderNonce[s]} \cup NoncesOf(mined, s))]
      /\ phase' = "idle"
    BY DEF produce_block, _purge_and_drain_pool, _append_block, reorgVars
<1> HIDE DEF mined, who
<1>4. ASSUME NEW s \in Sender
      PROVE  senderNonce'[s] = senderNonce[s] + Cardinality(Of(txPool, k, s))
    <2>1. Max({senderNonce[s]} \cup NoncesOf(mined, s)) =
              senderNonce[s] + Cardinality(Of(txPool, k, s))
        BY <1>1, <1>2, Mined DEF PoolInv
    <2> QED BY <1>3, <2>1
<1> QED BY <1>1, <1>2, <1>3, <1>4, Kept

\* A produced block that fails while it is appended: the chain is as before,
\* and what its revocations purged stays out of the pool.
LEMMA RaisesPool ==
    ASSUME ChainType, PoolType, PoolInv, ChainOK, produce_block_raises
    PROVE  PoolInv'
<1>1. NextBlock \in Blocks
    BY NextBlockType DEF produce_block_raises
<1>2. PICK k : FailedAppend(NextBlock, k)
    BY DEF produce_block_raises
<1>3. UNCHANGED chainVars
    BY <1>1, <1>2, ValidExtends, UndoneExact DEF produce_block_raises, FailedAppend
<1> DEFINE who == RevokersOf(Range(SubSeq(NextBlock, 1, k)))
           mined == {}
<1>4. /\ txPool' = PoolWithout(who, mined)
      /\ poolSenderCount' = CountsWithout(who, mined)
    BY <1>2 DEF FailedAppend, _purge_pool
<1>5. /\ revokedKeys' \subseteq revokedKeys \cup who /\ txById' \subseteq txById \cup mined
      /\ senderNonce' = senderNonce /\ phase' = "idle"
    BY <1>3 DEF chainVars, produce_block_raises, reorgVars
<1> HIDE DEF who
<1>6. 0 \in 0..Len(txPool) /\ mined = {txPool[i] : i \in 1..0}
    BY PoolTypes
<1>7. ASSUME NEW s \in Sender
      PROVE  senderNonce'[s] = senderNonce[s] + Cardinality(Of(txPool, 0, s))
    <2>1. Of(txPool, 0, s) = {}
        BY DEF Of
    <2>2. Cardinality(Of(txPool, 0, s)) = 0
        BY <2>1, FS_EmptySet
    <2> QED BY <1>5, <2>2, PoolTypes
<1> HIDE DEF mined
<1> QED BY <1>4, <1>5, <1>6, <1>7, Kept

\* With failing appends, exact indices are part of the invariant.
LoneInv == TypeInv /\ PoolInv /\ (AppendMayFail => IndInv)

LEMMA LoneInit == Init => LoneInv
<1> SUFFICES ASSUME Init PROVE LoneInv
    OBVIOUS
<1>1. Len(txPool) = 0 /\ phase = "idle" /\ poolSenderCount = [s \in Sender |-> 0]
    BY EmptySeq DEF Init
<1>2. \A s : PoolCount(s) = 0
    <2>1. \A s : {i \in 1..Len(txPool) : sender[txPool[i]] = s} = {}
        BY <1>1
    <2> QED BY <2>1, FS_EmptySet DEF PoolCount
<1>3. PoolInv
    BY <1>1, <1>2 DEF PoolInv, PoolFollows, CountsOK, PoolClean
<1> QED BY <1>3, TypeInit, IndInit DEF LoneInv

\* Every step of a lone validator keeps its pool exact.
LEMMA LoneStep ==
    ASSUME Lone, LoneInv, [Next]_vars
    PROVE  LoneInv'
<1>0. ChainType /\ PoolType /\ PoolInv /\ phase = "idle"
    BY DEF LoneInv, TypeInv, PoolInv
<1>1. TypeInv'
    BY TypeStep DEF LoneInv
<1>2. AppendMayFail => IndInv'
    BY IndStep DEF LoneInv, Lone
<1>3. PoolInv'
    <2>1. ASSUME NEW t \in Tx, submit_tx(t) PROVE PoolInv'
        BY <1>0, <2>1, SubmitPool
    <2>2. CASE produce_block
        BY <1>0, <2>2, ProducePool
    <2>3. CASE produce_block_raises
        <3>1. ChainOK
            BY <2>3 DEF LoneInv, IndInv, produce_block_raises
        <3> QED BY <1>0, <2>3, <3>1, RaisesPool
    <2>4. ~ \E txs \in Blocks : add_block(txs) \/ add_block_rejects(txs)
        BY DEF Lone, add_block, add_block_rejects
    <2>5. ~ \E start \in 1..MaxHeight, len \in 1..MaxForkLen : try_reorg(start, len)
        BY DEF Lone
    <2>6. ~ ReorgStep
        BY <1>0 DEF ReorgStep, reorg_rollback, reorg_rolled_back, reorg_apply,
           reorg_apply_raises, reorg_reject, reorg_undo, reorg_undone, reorg_restore,
           reorg_failed, reorg_return, reorg_complete, reorg_raises
    <2>7. CASE UNCHANGED vars
        BY <1>0, <2>7 DEF vars, chainVars, poolVars, reorgVars, PoolInv, PoolFollows,
           CountsOK, PoolClean, PoolCount, Of
    <2> QED BY <2>1, <2>2, <2>3, <2>4, <2>5, <2>6, <2>7 DEF Next
<1> QED BY <1>1, <1>2, <1>3 DEF LoneInv

\* The pool of a lone validator counts its pending transactions of each sender
\* exactly (_pool_sender_count), whatever is submitted, mined, or purged by a
\* revocation, in a block that is kept or in one that fails while appended.
THEOREM PoolCounted == Lone => (Spec => []PoolCountExact)
<1> SUFFICES ASSUME Lone PROVE Spec => []PoolCountExact
    OBVIOUS
<1>1. LoneInv /\ [Next]_vars => LoneInv'
    BY LoneStep
<1>2. LoneInv => PoolCountExact
    BY DEF LoneInv, PoolInv, CountsOK, PoolCountExact
<1> QED BY <1>1, <1>2, LoneInit, PTL DEF Spec

\* It never holds a transaction of a sender whose signing key the chain has
\* revoked: the K-03 purge misses none.
THEOREM PoolPurged == Lone => (Spec => []PoolNotRevoked)
<1> SUFFICES ASSUME Lone PROVE Spec => []PoolNotRevoked
    OBVIOUS
<1>1. LoneInv /\ [Next]_vars => LoneInv'
    BY LoneStep
<1>2. LoneInv => PoolNotRevoked
    <2> SUFFICES ASSUME LoneInv, NEW t \in Range(txPool)
                 PROVE  sender[t] \notin revokedKeys
        BY DEF PoolNotRevoked
    <2>1. \E i \in 1..Len(txPool) : t = txPool[i]
        BY LenProperties DEF Range, LoneInv, TypeInv, PoolType
    <2> QED BY <2>1 DEF LoneInv, PoolInv, PoolClean
<1> QED BY <1>1, <1>2, LoneInit, PTL DEF Spec

\* The block that it would build next passes its own validation: nothing pending
\* is in the way of production (produce_block, validate_block).
THEOREM PoolAlwaysMinable == Lone => (Spec => []PoolMinable)
<1> SUFFICES ASSUME Lone PROVE Spec => []PoolMinable
    OBVIOUS
<1>1. LoneInv /\ [Next]_vars => LoneInv'
    BY LoneStep
<1>2. LoneInv => PoolMinable
    BY Minable DEF LoneInv, TypeInv, PoolMinable
<1> QED BY <1>1, <1>2, LoneInit, PTL DEF Spec
=============================================================================
