----------------------------- MODULE Blockchain -----------------------------
(***************************************************************************)
(* The chain, its indices and the transaction pool of one node: class      *)
(* Blockchain (core/blockchain.py) with its rollback and pool mixins.      *)
(*                                                                         *)
(* A transaction is an opaque value with a sender and a nonce; a block is  *)
(* the sequence of its transactions, and blocks[i] is the block of index   *)
(* i.  Genesis (index 0) consumes no nonce and is never rolled back, so it *)
(* is left out.  Signatures, timestamps, validator turns and balances only *)
(* decide WHETHER a block or a transaction is accepted; here that verdict  *)
(* is an arbitrary choice, made at the point where the code makes it.      *)
(*                                                                         *)
(* The class runs on one event loop and its methods never await: submit_tx,*)
(* produce_block and add_block are one step each.  try_reorg is a run of   *)
(* steps, one block at a time, during which "phase" keeps out every other  *)
(* method; the blocks of the fork it is given are disclosed one by one.    *)
(***************************************************************************)
EXTENDS Integers, Sequences, FiniteSets, FiniteSetsExt, Selection

CONSTANTS
    Sender,             \* addresses; numbers, for their order in a sort
    Tx,                 \* transactions that clients may sign
    sender,             \* [Tx -> Sender]
    nonce,              \* [Tx -> Nat]
    SigningRevocation,  \* the REVOKE_KEY(signing) transactions among Tx
    GenesisValidator,   \* the sender whose keys submit_tx refuses to revoke
    MAX_TX_PER_BLOCK, MAX_TX_POOL_SIZE, MAX_REORG_DEPTH,
    SQLite,             \* TRUE: blocks kept in SQLite; FALSE: in-memory mode
    OtherValidators,    \* TRUE: blocks also arrive from other validators
    AppendMayFail,      \* TRUE: a validated block may fail its balance or
                        \* root checks while it is being appended
    ExactRollback,      \* TRUE: rolling back restores the ledger exactly, so
                        \* no sanity check of a reorganization raises
    MaxForkLen,         \* bound: longest fork handed to try_reorg (0: none)
    MaxHeight,          \* bound: longest chain
    MaxPool             \* bound: longest pool with which try_reorg is called

ASSUME TxAssumption ==
    /\ Sender \subseteq Nat
    /\ sender \in [Tx -> Sender]
    /\ nonce \in [Tx -> Nat]
    /\ SigningRevocation \subseteq Tx

ASSUME BoundAssumption ==
    /\ MAX_TX_PER_BLOCK \in Nat \ {0}
    /\ MAX_TX_POOL_SIZE \in Nat
    /\ MAX_REORG_DEPTH \in Nat
    /\ MaxForkLen \in Nat
    /\ MaxHeight \in Nat
    /\ MaxPool \in Nat

ASSUME ModeAssumption ==
    {SQLite, OtherValidators, AppendMayFail, ExactRollback} \subseteq BOOLEAN

VARIABLES
    blocks,           \* the chain: _chain_list, or the blocks table
    txById,           \* keys of _tx_by_id and of consensus._chain_tx_ids
    txsBySender,      \* the transactions listed in _txs_by_sender
    senderNonce,      \* _sender_nonce, shared with consensus; -1 when absent
    revokedKeys,      \* senders whose signing key is in _revoked_keys
    txPool,           \* tx_pool, and _pool_ids as the set of its elements
    poolSenderCount,  \* _pool_sender_count; 0 when absent
    phase,            \* where try_reorg is, "idle" outside of it
    savedChain,       \* the chain when try_reorg was called
    forkStart,        \* index of the first block of the fork
    forkLeft,         \* blocks of the fork not yet applied
    displaced         \* displaced_txs

chainVars == <<blocks, txById, txsBySender, senderNonce, revokedKeys>>
poolVars  == <<txPool, poolSenderCount>>
reorgVars == <<phase, savedChain, forkStart, forkLeft, displaced>>
vars == <<chainVars, poolVars, reorgVars>>

Blocks == UNION {[1..n -> Tx] : n \in 1..MAX_TX_PER_BLOCK}

Phases == {"idle", "rollback", "apply", "undo", "restore", "return"}

height == Len(blocks)

MinOf(a, b) == IF a <= b THEN a ELSE b

\* The transactions of the first n blocks of bs, and of all of them.
TxsTo(bs, n) == UNION {Range(bs[i]) : i \in 1..n}

TxsOf(bs) == TxsTo(bs, Len(bs))

SendersOf(txs) == {sender[t] : t \in Range(txs)}

NoncesOf(S, s) == {nonce[t] : t \in {u \in S : sender[u] = s}}

RevokersOf(S) == {sender[t] : t \in S \cap SigningRevocation}

-----------------------------------------------------------------------------
(* Block validation and the chain indices *)

get_next_nonce(s) == senderNonce[s] + 1

\* Faulty variants, each named after the definition it would stand in for, say
\* what a plausible bug of that definition would be; no specification uses them.

\* Fault: a block may also start at a nonce the chain has passed.
NoncesFollow_Stale(txs) ==
    \A i \in 1..Len(txs) :
        LET before == {j \in 1..(i - 1) : sender[txs[j]] = sender[txs[i]]}
        IN  IF before = {} THEN nonce[txs[i]] <= get_next_nonce(sender[txs[i]])
                           ELSE nonce[txs[i]] = nonce[txs[Max(before)]] + 1

\* The nonce rule of validate_block: in block order, a sender's first
\* transaction carries the next nonce of the chain, each later one the
\* successor of the one before it.
NoncesFollow(txs) ==
    \A i \in 1..Len(txs) :
        LET before == {j \in 1..(i - 1) : sender[txs[j]] = sender[txs[i]]}
        IN  nonce[txs[i]] = IF before = {}
                            THEN get_next_nonce(sender[txs[i]])
                            ELSE nonce[txs[Max(before)]] + 1

\* Fault: the revocation list is not consulted.
validate_block_Revoked(txs) ==
    /\ Len(txs) \in 1..MAX_TX_PER_BLOCK
    /\ \A i, j \in 1..Len(txs) : txs[i] = txs[j] => i = j
    /\ Range(txs) \cap txById = {}
    /\ NoncesFollow(txs)

validate_block(txs) ==
    /\ Len(txs) \in 1..MAX_TX_PER_BLOCK
    /\ \A i, j \in 1..Len(txs) : txs[i] = txs[j] => i = j
    /\ Range(txs) \cap txById = {}
    /\ SendersOf(txs) \cap revokedKeys = {}
    /\ NoncesFollow(txs)

\* In SQLite mode the per-sender lists forget the block that leaves the
\* reorg window when block number idx is appended.
Pruned(idx) ==
    LET old == idx - MAX_REORG_DEPTH - 1
    IN  IF SQLite /\ old >= 1 THEN Range(blocks[old]) ELSE {}

\* _append_block_inner, when it raises nothing.
_append_block(txs) ==
    /\ blocks' = Append(blocks, txs)
    /\ txById' = txById \cup Range(txs)
    /\ txsBySender' = (txsBySender \cup Range(txs)) \ Pruned(height + 1)
    /\ senderNonce' = [s \in Sender |->
            Max({senderNonce[s]} \cup NoncesOf(Range(txs), s))]
    /\ revokedKeys' = revokedKeys \cup RevokersOf(Range(txs))

\* Fault: nonces survive a rollback.
NoncesAfterRollback_Kept(txs) == senderNonce

\* The nonces that _rollback_block recomputes for the senders of txs from
\* what is left of the per-sender lists.
NoncesAfterRollback(txs) ==
    [s \in Sender |->
        IF s \in SendersOf(txs)
        THEN Max({-1} \cup NoncesOf(txsBySender \ Range(txs), s))
        ELSE senderNonce[s]]

\* Fault: a revocation outlives the block that made it.
_rollback_block_Revoked ==
    LET txs == blocks[height] IN
    /\ blocks' = SubSeq(blocks, 1, height - 1)
    /\ txById' = txById \ Range(txs)
    /\ txsBySender' = txsBySender \ Range(txs)
    /\ senderNonce' = NoncesAfterRollback(txs)
    /\ UNCHANGED revokedKeys

\* _rollback_block on the tip.
_rollback_block ==
    LET txs == blocks[height] IN
    /\ blocks' = SubSeq(blocks, 1, height - 1)
    /\ txById' = txById \ Range(txs)
    /\ txsBySender' = txsBySender \ Range(txs)
    /\ senderNonce' = NoncesAfterRollback(txs)
    /\ revokedKeys' = revokedKeys \ RevokersOf(Range(txs))

\* Fault: the per-sender lists keep the transactions of the failed block.
_append_block_undone_Leak(txs) ==
    /\ txById' = txById \ Range(txs)
    /\ txsBySender' = txsBySender \cup Range(txs)
    /\ senderNonce' = NoncesAfterRollback(txs)
    /\ revokedKeys' = revokedKeys \ RevokersOf(Range(txs))
    /\ UNCHANGED blocks

\* _append_block_inner_safe, when the body raises ValueError: the block's
\* entries are taken out of the indices again by _rollback_block.
_append_block_undone(txs) ==
    /\ txById' = txById \ Range(txs)
    /\ txsBySender' = txsBySender \ Range(txs)
    /\ senderNonce' = NoncesAfterRollback(txs)
    /\ revokedKeys' = revokedKeys \ RevokersOf(Range(txs))
    /\ UNCHANGED blocks

-----------------------------------------------------------------------------
(* The pool *)

PoolCount(s) == Cardinality({i \in 1..Len(txPool) : sender[txPool[i]] = s})

\* Appending a REVOKE_KEY(signing) purges its sender's pool transactions
\* (K-03); _drain_pool then drops the mined ones and lowers the counters.
PoolWithout(who, mined) ==
    Select(txPool, {i \in 1..Len(txPool) :
                        sender[txPool[i]] \notin who /\ txPool[i] \notin mined})

\* Faults: the counters go below zero, or forget the purged transactions.
CountsWithout_Unclamped(who, mined) ==
    [s \in Sender |-> poolSenderCount[s]
        - (IF s \in who THEN PoolCount(s) ELSE 0)
        - Cardinality({t \in mined : sender[t] = s})]

CountsWithout_NoPurge(who, mined) ==
    [s \in Sender |->
        Max({0, poolSenderCount[s] - Cardinality({t \in mined : sender[t] = s})})]

CountsWithout(who, mined) ==
    LET purged == [s \in Sender |->
            IF s \in who THEN Max({0, poolSenderCount[s] - PoolCount(s)})
                         ELSE poolSenderCount[s]]
        minedBy(s) == Cardinality({t \in mined : sender[t] = s})
    IN  [s \in Sender |-> Max({0, purged[s] - minedBy(s)})]

_purge_pool(txs) ==
    /\ txPool' = PoolWithout(RevokersOf(Range(txs)), {})
    /\ poolSenderCount' = CountsWithout(RevokersOf(Range(txs)), {})

\* Fault: the pool keeps the transactions of a revoked sender.
_purge_and_drain_pool_NoPurge(txs) ==
    /\ txPool' = PoolWithout({}, Range(txs))
    /\ poolSenderCount' = CountsWithout({}, Range(txs))

_purge_and_drain_pool(txs) ==
    /\ txPool' = PoolWithout(RevokersOf(Range(txs)), Range(txs))
    /\ poolSenderCount' = CountsWithout(RevokersOf(Range(txs)), Range(txs))


-----------------------------------------------------------------------------
(* The methods of the class *)

Init ==
    /\ blocks = <<>>
    /\ txById = {}
    /\ txsBySender = {}
    /\ senderNonce = [s \in Sender |-> -1]
    /\ revokedKeys = {}
    /\ txPool = <<>>
    /\ poolSenderCount = [s \in Sender |-> 0]
    /\ phase = "idle"
    /\ savedChain = <<>>
    /\ forkStart = 1
    /\ forkLeft = 0
    /\ displaced = {}

\* Fault: the pending transactions of the sender are not counted.
submit_tx_Pending(t) ==
    /\ phase = "idle"
    /\ Len(txPool) < MAX_TX_POOL_SIZE
    /\ sender[t] \notin revokedKeys
    /\ t \notin txById \cup Range(txPool)
    /\ ~ (t \in SigningRevocation /\ sender[t] = GenesisValidator)
    /\ nonce[t] = get_next_nonce(sender[t])
    /\ txPool' = Append(txPool, t)
    /\ poolSenderCount' = [poolSenderCount EXCEPT ![sender[t]] = @ + 1]
    /\ UNCHANGED <<chainVars, reorgVars>>

submit_tx(t) ==
    /\ phase = "idle"
    /\ Len(txPool) < MAX_TX_POOL_SIZE
    /\ sender[t] \notin revokedKeys
    /\ t \notin txById
    /\ t \notin Range(txPool)
    /\ ~ (t \in SigningRevocation /\ sender[t] = GenesisValidator)
    /\ nonce[t] = get_next_nonce(sender[t]) + poolSenderCount[sender[t]]
    /\ txPool' = Append(txPool, t)
    /\ poolSenderCount' = [poolSenderCount EXCEPT ![sender[t]] = @ + 1]
    /\ UNCHANGED <<chainVars, reorgVars>>

\* The block the pool gives, in the legacy (fixed fee) mode.
NextBlock == SubSeq(txPool, 1, MinOf(Len(txPool), MAX_TX_PER_BLOCK))

\* Fault: production waits for a full block.
produce_block_Full ==
    /\ phase = "idle"
    /\ height < MaxHeight
    /\ Len(NextBlock) = MAX_TX_PER_BLOCK
    /\ validate_block(NextBlock)
    /\ _append_block(NextBlock)
    /\ _purge_and_drain_pool(NextBlock)
    /\ UNCHANGED reorgVars

produce_block ==
    /\ phase = "idle"
    /\ height < MaxHeight
    /\ validate_block(NextBlock)
    /\ _append_block(NextBlock)
    /\ _purge_and_drain_pool(NextBlock)
    /\ UNCHANGED reorgVars

add_block(txs) ==
    /\ OtherValidators
    /\ phase = "idle"
    /\ height < MaxHeight
    /\ validate_block(txs)
    /\ _append_block(txs)
    /\ _purge_and_drain_pool(txs)
    /\ UNCHANGED reorgVars

\* What a failed append leaves behind: the first k transactions were applied
\* (all of them when a root does not match), and what they purged stays so.
FailedAppend(txs, k) ==
    /\ _append_block_undone(txs)
    /\ _purge_pool(SubSeq(txs, 1, k))

\* produce_block lets the ValueError through to _block_loop, which logs it;
\* add_block answers False.  Neither drains the pool.
produce_block_raises ==
    /\ AppendMayFail
    /\ phase = "idle"
    /\ validate_block(NextBlock)
    /\ \E k \in 0..Len(NextBlock) : FailedAppend(NextBlock, k)
    /\ UNCHANGED reorgVars

add_block_rejects(txs) ==
    /\ AppendMayFail
    /\ OtherValidators
    /\ phase = "idle"
    /\ validate_block(txs)
    /\ \E k \in 0..Len(txs) : FailedAppend(txs, k)
    /\ UNCHANGED reorgVars

-----------------------------------------------------------------------------
(* try_reorg *)

\* Fault: a fork as long as what it replaces is taken.
try_reorg_Tie(start, len) ==
    /\ phase = "idle"
    /\ start \in 1..(height + 1)
    /\ height + 1 - start <= MAX_REORG_DEPTH
    /\ len >= height + 1 - start
    /\ start + len - 1 <= MaxHeight
    /\ Len(txPool) <= MaxPool
    /\ phase' = "rollback"
    /\ savedChain' = blocks
    /\ forkStart' = start
    /\ forkLeft' = len
    /\ displaced' = {}
    /\ UNCHANGED <<chainVars, poolVars>>

\* The checks made before anything changes: the fork starts at or below the
\* tip, is not too deep and is strictly longer than what it replaces.
try_reorg(start, len) ==
    /\ phase = "idle"
    /\ start \in 1..(height + 1)
    /\ height + 1 - start <= MAX_REORG_DEPTH
    /\ len > height + 1 - start
    /\ start + len - 1 <= MaxHeight
    /\ Len(txPool) <= MaxPool
    /\ phase' = "rollback"
    /\ savedChain' = blocks
    /\ forkStart' = start
    /\ forkLeft' = len
    /\ displaced' = {}
    /\ UNCHANGED <<chainVars, poolVars>>

\* The locals of try_reorg go out of scope when it returns.
Continue(p) ==
    /\ phase' = p
    /\ IF p = "idle"
       THEN /\ savedChain' = <<>> /\ forkStart' = 1
            /\ forkLeft' = 0 /\ displaced' = {}
       ELSE UNCHANGED <<savedChain, forkStart, forkLeft, displaced>>

\* _rollback_to: pop the tip until the fork's first index is free.
reorg_rollback ==
    /\ phase = "rollback"
    /\ height >= forkStart
    /\ _rollback_block
    /\ displaced' = displaced \cup Range(blocks[height])
    /\ UNCHANGED <<phase, savedChain, forkStart, forkLeft, poolVars>>

reorg_rolled_back ==
    /\ phase = "rollback"
    /\ height < forkStart
    /\ Continue("apply")
    /\ UNCHANGED <<chainVars, poolVars>>

reorg_apply(txs) ==
    /\ phase = "apply"
    /\ validate_block(txs)
    /\ _append_block(txs)
    /\ _purge_pool(txs)
    /\ forkLeft' = forkLeft - 1
    /\ phase' = IF forkLeft = 1 THEN "return" ELSE "apply"
    /\ UNCHANGED <<savedChain, forkStart, displaced>>

\* The next fork block has no state_root or fails validate_block.
reorg_reject ==
    /\ phase = "apply"
    /\ Continue("undo")
    /\ UNCHANGED <<chainVars, poolVars>>

\* The next fork block fails while it is being appended.
reorg_apply_raises(txs) ==
    /\ AppendMayFail
    /\ phase = "apply"
    /\ validate_block(txs)
    /\ \E k \in 0..Len(txs) : FailedAppend(txs, k)
    /\ Continue("undo")

\* Both failure paths roll back the fork blocks that were applied, then append
\* the displaced blocks again, and answer False.
reorg_undo ==
    /\ phase = "undo"
    /\ height >= forkStart
    /\ _rollback_block
    /\ UNCHANGED <<reorgVars, poolVars>>

reorg_undone ==
    /\ phase = "undo"
    /\ height < forkStart
    /\ Continue("restore")
    /\ UNCHANGED <<chainVars, poolVars>>

reorg_restore ==
    /\ phase = "restore"
    /\ height < Len(savedChain)
    /\ _append_block(savedChain[height + 1])
    /\ _purge_pool(savedChain[height + 1])
    /\ UNCHANGED reorgVars

reorg_failed ==
    /\ phase = "restore"
    /\ height = Len(savedChain)
    /\ Continue("idle")
    /\ UNCHANGED <<chainVars, poolVars>>

\* Fault: the displaced transactions are not sorted.
reorg_return_unsorted(t) ==
    /\ phase = "return"
    /\ t \in displaced
    /\ displaced' = displaced \ {t}
    /\ IF t \notin txById
          /\ nonce[t] = get_next_nonce(sender[t]) + poolSenderCount[sender[t]]
       THEN /\ txPool' = Append(txPool, t)
            /\ poolSenderCount' = [poolSenderCount EXCEPT ![sender[t]] = @ + 1]
       ELSE UNCHANGED poolVars
    /\ UNCHANGED <<phase, savedChain, forkStart, forkLeft, chainVars>>

\* One round of the loop over displaced_txs, sorted by sender and nonce: only
\* the nonce is checked again, not the pool size nor the revocations.
reorg_return(t) ==
    /\ phase = "return"
    /\ t \in displaced
    /\ \A u \in displaced : \/ sender[t] < sender[u]
                            \/ sender[t] = sender[u] /\ nonce[t] <= nonce[u]
    /\ displaced' = displaced \ {t}
    /\ IF t \notin txById
          /\ nonce[t] = get_next_nonce(sender[t]) + poolSenderCount[sender[t]]
       THEN /\ txPool' = Append(txPool, t)
            /\ poolSenderCount' = [poolSenderCount EXCEPT ![sender[t]] = @ + 1]
       ELSE UNCHANGED poolVars
    /\ UNCHANGED <<phase, savedChain, forkStart, forkLeft, chainVars>>

reorg_complete ==
    /\ phase = "return"
    /\ displaced = {}
    /\ Continue("idle")
    /\ UNCHANGED <<chainVars, poolVars>>

\* When the ledger is not exactly restored, the sanity checks that end
\* _rollback_to or the re-append of a displaced block raise ValueError, which
\* leaves try_reorg where it stands.
reorg_raises ==
    /\ ~ExactRollback
    /\ \/ /\ phase \in {"rollback", "undo"}
          /\ height < forkStart
          /\ UNCHANGED <<chainVars, poolVars>>
       \/ /\ phase = "restore"
          /\ height < Len(savedChain)
          /\ \E k \in 0..Len(savedChain[height + 1]) :
                FailedAppend(savedChain[height + 1], k)
    /\ Continue("idle")

-----------------------------------------------------------------------------
ReorgStep ==
    \/ reorg_rollback \/ reorg_rolled_back
    \/ \E txs \in Blocks : reorg_apply(txs) \/ reorg_apply_raises(txs)
    \/ reorg_reject \/ reorg_undo \/ reorg_undone
    \/ reorg_restore \/ reorg_failed
    \/ \E t \in Tx : reorg_return(t)
    \/ reorg_complete \/ reorg_raises

Next ==
    \/ \E t \in Tx : submit_tx(t)
    \/ produce_block \/ produce_block_raises
    \/ \E txs \in Blocks : add_block(txs) \/ add_block_rejects(txs)
    \/ \E start \in 1..MaxHeight, len \in 1..MaxForkLen : try_reorg(start, len)
    \/ ReorgStep

Spec == Init /\ [][Next]_vars

\* _block_loop calls produce_block every block time for as long as it runs.
FairProduction == Spec /\ WF_vars(produce_block)

-----------------------------------------------------------------------------
(* Properties *)

\* Every variable holds a value of its type.
TypeOK ==
    /\ blocks \in Seq(Blocks)
    /\ txById \subseteq Tx
    /\ txsBySender \subseteq Tx
    /\ senderNonce \in [Sender -> Int]
    /\ revokedKeys \subseteq Sender
    /\ txPool \in Seq(Tx)
    /\ poolSenderCount \in [Sender -> Nat]
    /\ phase \in Phases
    /\ savedChain \in Seq(Blocks)
    /\ forkStart \in Nat \ {0}
    /\ forkLeft \in Nat
    /\ displaced \subseteq Tx

\* No nonce of a sender is ever used twice on the chain (so no transaction is
\* mined twice), whatever blocks are received, reverted, applied in a
\* reorganization, undone half-way and appended again.
NoReplay ==
    \A i, j \in 1..height :
        \A p \in 1..Len(blocks[i]), q \in 1..Len(blocks[j]) :
            /\ sender[blocks[i][p]] = sender[blocks[j][q]]
            /\ nonce[blocks[i][p]] = nonce[blocks[j][q]]
            => i = j /\ p = q

\* _sender_nonce, which validate_block and submit_tx rely on, is exactly the
\* last nonce on the chain, and the nonces on the chain have no gap: the
\* recomputation in _rollback_block never loses or keeps one too many.
NonceExact ==
    \A s \in Sender : NoncesOf(TxsOf(blocks), s) = 0..senderNonce[s]

\* The duplicate filter and the revocation list, maintained incrementally by
\* append and rollback, always say what the chain says.
IndexExact ==
    /\ txById = TxsOf(blocks)
    /\ revokedKeys = RevokersOf(TxsOf(blocks))

\* Once a block revokes a signing key, no later block of the chain holds a
\* transaction of that sender, also when the revocation was reverted and
\* applied again by reorganizations.
RevokedSilent ==
    \A i, j \in 1..height :
        i < j => RevokersOf(Range(blocks[i])) \cap SendersOf(blocks[j]) = {}

\* try_reorg is all or nothing: when it returns, the chain is the one it
\* started from or one that is strictly longer.
ReorgAllOrNothing ==
    [][phase # "idle" /\ phase' = "idle" =>
         blocks' = savedChain \/ Len(blocks') > Len(savedChain)]_vars

\* No reorganization that succeeds loses a transaction of the blocks it displaces:
\* each is on the new chain, has lost its nonce to another one there, or is pending
\* again; unless its sender had one pending before (one that was mined, was never
\* displaced or is later), which the nonce expected of it counts.
DisplacedKept ==
    [][phase = "return" /\ phase' = "idle" =>
         \A t \in TxsOf(savedChain) \ (txById \cup Range(txPool)) :
            \/ nonce[t] <= senderNonce[sender[t]]
            \/ \E u \in Range(txPool) :
                  /\ sender[u] = sender[t]
                  /\ \/ u \in txById \/ u \notin TxsOf(savedChain)
                     \/ nonce[u] > nonce[t]]_vars

\* The block this node would build from its pool passes its own validation:
\* the pool never holds a nonce gap, a mined or a revoked transaction in the
\* way of production.
PoolMinable ==
    phase = "idle" /\ txPool # <<>> => validate_block(NextBlock)

\* A transaction admitted to the pool leaves it, mined or purged.
PoolDrains == \A t \in Tx : t \in Range(txPool) ~> t \notin Range(txPool)

\* _pool_sender_count is the number of pending transactions of each sender.
PoolCountExact ==
    phase = "idle" => \A s \in Sender : poolSenderCount[s] = PoolCount(s)

\* The pool holds no transaction of a sender whose signing key is revoked.
PoolNotRevoked ==
    phase = "idle" => \A t \in Range(txPool) : sender[t] \notin revokedKeys

-----------------------------------------------------------------------------
(* Why the chain properties hold in memory mode: every block of the chain   *)
(* extends the transactions before it, and so does every block of the chain *)
(* that try_reorg may have to restore.                                      *)

\* The nonces that each sender has in S are 0, 1, ... without a gap.
Contiguous(S) == \A t \in S : 0..nonce[t] \subseteq NoncesOf(S, sender[t])

\* txs may follow a chain whose transactions are S.
Extends(txs, S) ==
    /\ \A i, j \in 1..Len(txs) :
          /\ sender[txs[i]] = sender[txs[j]]
          /\ nonce[txs[i]] = nonce[txs[j]]
          => i = j
    /\ \A i \in 1..Len(txs) : \A u \in S :
          ~ (sender[txs[i]] = sender[u] /\ nonce[txs[i]] = nonce[u])
    /\ RevokersOf(S) \cap SendersOf(txs) = {}
    /\ Contiguous(S \cup Range(txs))

LegalChain(bs) ==
    \A n \in 1..Len(bs) : Extends(bs[n], TxsTo(bs, n - 1))

SamePrefix(n) == \A i \in 1..n : blocks[i] = savedChain[i]

\* Where the chain stands with respect to the saved one.
ReorgOK ==
    /\ phase = "rollback" =>
          /\ height \in (forkStart - 1)..Len(savedChain) /\ SamePrefix(height)
          /\ forkStart - 1 + forkLeft > Len(savedChain)
          /\ forkLeft > 0
    /\ phase \in {"apply", "undo", "return"} =>
          /\ forkStart - 1 \in 0..Len(savedChain) /\ SamePrefix(forkStart - 1)
          /\ height >= forkStart - 1
    /\ phase = "apply" => height + forkLeft > Len(savedChain) /\ forkLeft > 0
    /\ phase = "return" => height > Len(savedChain)
    /\ phase = "restore" => height <= Len(savedChain) /\ SamePrefix(height)

ChainInv ==
    /\ LegalChain(blocks)
    /\ LegalChain(savedChain)
    /\ NonceExact
    /\ \A s \in Sender : senderNonce[s] >= -1
    /\ IndexExact
    /\ txsBySender = TxsOf(blocks)

\* The inductive invariant of the in-memory mode.
Inv == TypeOK /\ ChainInv /\ ReorgOK

=============================================================================
