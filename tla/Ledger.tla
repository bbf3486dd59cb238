------------------------------- MODULE Ledger -------------------------------
(***************************************************************************)
(* The financial layer of one node: balances, stakes, unbonding, supply    *)
(* and epoch rewards, as blocks are produced, received, refused and rolled *)
(* back, together with the state trie, its snapshots and the pool, in      *)
(* memory mode (core/blockchain.py, rollback.py, tx_pool.py).  What a      *)
(* block does to the ledger is in LedgerOps.                               *)
(***************************************************************************)
EXTENDS LedgerOps

CONSTANTS
    Producer,               \* TRUE: this node runs Self; FALSE: a follower
    MAX_TX_PER_BLOCK, MAX_TX_POOL_SIZE,
    UnfundedBlocks,         \* TRUE: senders in received blocks may lack funds
    RootsMayDiffer,         \* TRUE: received roots may not be the computed ones
    MaxHeight,              \* bound: longest chain
    MinMinted,              \* bound: appends fail while this much is minted,
                            \* for each failure may take a reward off
    MaxRollback             \* bound: most blocks taken back at once

ASSUME BoundAssumption ==
    /\ Producer \in BOOLEAN /\ UnfundedBlocks \in BOOLEAN /\ RootsMayDiffer \in BOOLEAN
    /\ MAX_TX_PER_BLOCK \in Nat /\ MAX_TX_POOL_SIZE \in Nat
    /\ MaxHeight \in Nat /\ MinMinted \in Nat \ {0} /\ MaxRollback \in 0..MAX_REORG_DEPTH

VARIABLES
    chain,      \* the blocks after genesis, each [validator, txs]
    ledger,     \* the financial state
    trie,       \* the balances under _state_trie
    snapshots,  \* _state_snapshots: snapshots[n + 1] is that of block n
    txPool,     \* tx_pool
    past        \* history: past[n + 1] is the ledger that block n left

vars == <<chain, ledger, trie, snapshots, txPool, past>>

height == Len(chain)

-----------------------------------------------------------------------------
(* The pool *)

\* Fault: only the transaction itself is held against the balance.
_pending_debits_None(a) == 0

\* The cache that _rebuild_pending_debits_cache recomputes from the pool.
_pending_debits(a) ==
    LET own == {i \in 1..Len(txPool) : txPool[i].from = a}
    IN  SumFunction([i \in own |-> Debit(txPool[i])])

-----------------------------------------------------------------------------
(* The methods *)

Init ==
    /\ chain = <<>>
    /\ ledger = Genesis
    /\ trie = Trie(Genesis)
    /\ snapshots = <<Trie(Genesis)>>
    /\ txPool = <<>>
    /\ past = <<Genesis>>

\* The checks of submit_tx that look at the ledger.
submit_tx(t) ==
    /\ Len(txPool) < MAX_TX_POOL_SIZE
    /\ t \notin Mined(chain) \cup Range(txPool)
    /\ t.nonce = NextNonce(chain, t.from)
                   + Cardinality({i \in 1..Len(txPool) : txPool[i].from = t.from})
    /\ t.type = "STAKE" => t.to \notin ledger.slashed
    /\ t.type = "UNSTAKE" => t.amount <= ledger.stakes[t.to][t.from]
    /\ t.type = "EVIDENCE" => t.to \notin ledger.slashed
    /\ TX_FEES[t.type] > 0 \/ t.type = "TRANSFER"
            => ledger.bal[t.from] - _pending_debits(t.from) >= Debit(t)
    /\ txPool' = Append(txPool, t)
    /\ UNCHANGED <<chain, ledger, trie, snapshots, past>>

\* Fault: the trie is rebuilt before the block's changes are complete.
_append_block_EarlyTrie(b) ==
    LET idx == height + 1
        L == Applied(ledger, b, idx)
    IN  /\ L.ok
        /\ chain' = Append(chain, b)
        /\ ledger' = PruneDistributions(L, idx)
        /\ trie' = Trie(ledger)
        /\ snapshots' = Append(snapshots, Trie(ledger))
        /\ past' = Append(past, ledger')

\* _append_block when nothing raises.
_append_block(b) ==
    LET idx == height + 1
        L == Applied(ledger, b, idx)
    IN  /\ L.ok
        /\ chain' = Append(chain, b)
        /\ ledger' = PruneDistributions(L, idx)
        /\ trie' = Trie(L)
        /\ snapshots' = Append(snapshots, Trie(L))
        /\ past' = Append(past, ledger')

\* Fault: the stakes of the failed block are kept.
_append_block_undone_Stakes(b) ==
    LET idx == height + 1
        L == Applied(ledger, b, idx)
    IN  /\ ledger' = [_rollback_block(L, b, idx) EXCEPT !.ok = TRUE, !.stakes = L.stakes]
        /\ trie' = snapshots[height + 1]
        /\ UNCHANGED <<chain, snapshots, past>>

\* _append_block_inner_safe when something does: the whole block is rolled
\* back from what its first transactions left, and the trie from the snapshot.
_append_block_undone(b) ==
    LET idx == height + 1
        L == Applied(ledger, b, idx)
    IN  /\ ledger' = [_rollback_block(L, b, idx) EXCEPT !.ok = TRUE]
        /\ trie' = snapshots[height + 1]
        /\ UNCHANGED <<chain, snapshots, past>>

_drain_pool(txs) ==
    txPool' = Select(txPool, {i \in 1..Len(txPool) : txPool[i] \notin Range(txs)})

NextBlock == [validator |-> Self,
              txs |-> SubSeq(txPool, 1, Min({Len(txPool), MAX_TX_PER_BLOCK}))]

produce_block ==
    /\ Producer
    /\ height < MaxHeight
    /\ validate_block(ledger, chain, NextBlock)
    /\ _append_block(NextBlock)
    /\ _drain_pool(NextBlock.txs)

\* The ValueError reaches _block_loop; the pool is as before.
produce_block_raises ==
    /\ Producer
    /\ validate_block(ledger, chain, NextBlock)
    /\ ledger.minted >= MinMinted
    /\ ~ Applied(ledger, NextBlock, height + 1).ok
    /\ _append_block_undone(NextBlock)
    /\ UNCHANGED txPool

\* The blocks that may be received.
Incoming == [validator : IF Producer THEN Validator \ {Self} ELSE Validator,
             txs : UNION {[1..n -> Tx] : n \in 0..MAX_TX_PER_BLOCK}]

add_block(b) ==
    /\ height < MaxHeight
    /\ validate_block(ledger, chain, b)
    /\ _append_block(b)
    /\ _drain_pool(b.txs)

add_block_rejects(b) ==
    /\ validate_block(ledger, chain, b)
    /\ ledger.minted >= MinMinted
    /\ IF Applied(ledger, b, height + 1).ok THEN RootsMayDiffer ELSE UnfundedBlocks
    /\ _append_block_undone(b)
    /\ UNCHANGED txPool

\* Fault: the index of a block is read after the block left the chain.
_rollback_to_Popped(n) ==
    /\ n \in 1..height
    /\ ledger' = FoldLeft(LAMBDA L, i : _rollback_block(L, chain[i], i - 1), ledger,
                          [k \in 1..n |-> height + 1 - k])
    /\ trie' = snapshots[height - n + 1]
    /\ chain' = SubSeq(chain, 1, height - n)
    /\ snapshots' = SubSeq(snapshots, 1, height - n + 1)
    /\ past' = SubSeq(past, 1, height - n + 1)
    /\ UNCHANGED txPool

\* _rollback_to: n blocks from the tip down; each restores the trie from the
\* snapshot below it.
_rollback_to(n) ==
    /\ n \in 1..height
    /\ ledger' = BlocksUndone(ledger, chain)[n]
    /\ trie' = snapshots[height - n + 1]
    /\ chain' = SubSeq(chain, 1, height - n)
    /\ snapshots' = SubSeq(snapshots, 1, height - n + 1)
    /\ past' = SubSeq(past, 1, height - n + 1)
    /\ UNCHANGED txPool

Next ==
    \/ \E t \in Tx : submit_tx(t)
    \/ produce_block \/ produce_block_raises
    \/ \E b \in Incoming : add_block(b) \/ add_block_rejects(b)
    \/ \E n \in 1..MaxRollback : _rollback_to(n)

Spec == Init /\ [][Next]_vars

-----------------------------------------------------------------------------
(* Properties *)

\* Everything of a ledger that a later block can depend on.
Money(L) == <<L.bal, L.stakes, L.total, L.unbonding, L.minted, L.burned,
              L.rewards, L.epoch, L.frozen, L.slashed, L.known>>

\* No balance is negative, no more than MAX_SUPPLY is ever minted, nothing is
\* unburned, and the trie and the history fit the chain.
TypeOK ==
    /\ ledger.ok
    /\ \A a \in Addr : ledger.bal[a] \in Nat
    /\ \A v \in Validator : ledger.total[v] \in Nat /\ ledger.rewards[v] \in Nat
    /\ ledger.minted \in 0..MAX_SUPPLY
    /\ ledger.burned \in Nat
    /\ ledger.epoch = height \div EPOCH_LENGTH
    /\ Len(snapshots) = height + 1 /\ Len(past) = height + 1

\* Accounted funds minus what was minted: the quantity whose change the code
\* treats as a rollback bug (R33-H02).
Supply(L) ==
    SumFunction(L.bal) + SumFunction(L.total) + L.burned
        + SumFunction([i \in 1..Len(L.unbonding) |-> L.unbonding[i].amount])
        - L.minted

\* Fees, transfers, stakes, unbondings, epoch distributions, rewards and
\* rollbacks create or destroy nothing beyond what is minted and burned: the
\* difference stays at the stake that genesis gives away.
SupplyConserved == Supply(ledger) = MIN_STAKE

\* A validator's weight is the sum of the stakes behind it.
TotalStakeExact ==
    \A v \in Validator : ledger.total[v] = SumFunction(ledger.stakes[v])

\* Rolling back to a block restores the ledger which that block left.
RollbackRestores ==
    [][Len(chain') < Len(chain) => Money(ledger') = Money(past[Len(chain') + 1])]_vars

\* A block that fails while it is being appended changes nothing.
FailedAppendUndone ==
    [][chain' = chain => Money(ledger') = Money(ledger)]_vars

\* The state trie, and with it every proof and every root comparison, is about
\* the balances of the ledger.
TrieExact == trie = Trie(ledger)

\* What the pool admits can be paid for: the block this node would build is
\* never refused by its own ledger, so that production does not come to a halt.
PoolAffordable ==
    txPool # <<>> /\ NoncesFollow(chain, NextBlock.txs)
        => Applied(ledger, NextBlock, height + 1).ok

=============================================================================
