------------------------------- MODULE Store --------------------------------
(***************************************************************************)
(* A node that keeps its chain in SQLite: what is committed to which table *)
(* in which order (core/store.py and its callers), a crash between any two *)
(* commits, and the reload (core/persistence.py).                          *)
(*                                                                         *)
(* An operation of the blockchain is synchronous and holds _db_lock, so    *)
(* its changes to memory are one step here; the commits it makes are the   *)
(* queue "todo", taken one at a time, and nothing else starts before the   *)
(* queue is empty.  An element of the queue is a set of writes whose order *)
(* is that of a Python set or dict.                                        *)
(*                                                                         *)
(* Modelled are the tables blocks, balances, supply, stakes, epochs and    *)
(* slashing_events.  A write is [op, key, val], named after the method of  *)
(* SQLiteStore.  Blocks are those after genesis, each [validator, txs,     *)
(* root]; a root is {} when the field is empty, and otherwise the          *)
(* singleton of the balance entries of the trie it was computed from (the  *)
(* nonces under the root are read off the same blocks on both sides).      *)
(***************************************************************************)
EXTENDS LedgerOps

CONSTANTS
    Producer,               \* TRUE: the node runs Self and stamps its blocks
    MAX_TX_PER_BLOCK,
    MaxHeight,              \* bound: longest chain
    MaxRollback,            \* bound: deepest reorganization
    MaxCrashes              \* bound: times that the process ends

ASSUME StoreAssumption ==
    /\ {MAX_TX_PER_BLOCK, MaxHeight, MaxCrashes} \subseteq Nat
    /\ MaxRollback \in 0..MAX_REORG_DEPTH

VARIABLES
    mode,       \* "up", "down", or how a load ended: see load and below
    chain,      \* the blocks up to _height, as memory has them
    ledger,     \* the financial state in memory
    db,         \* the committed tables
    todo,       \* the commits that the running operation still has to make
    fork,       \* try_reorg: [owed, saved, base], owed = 0 when not running
    crashes     \* how often the process has ended

vars == <<mode, chain, ledger, db, todo, fork, crashes>>

height == Len(chain)

NoFork == [owed |-> 0, saved |-> <<>>, base |-> 0]

Nothing == [x \in {} |-> 0]

-----------------------------------------------------------------------------
(* Roots *)

\* The balance entries of the trie: _balances holds no zeros in memory.
Root(L) == {[a \in {x \in Addr : L.bal[x] > 0} |-> L.bal[a]]}

\* A root that is not the computed one.
WrongRoot == {[a \in Addr |-> -1]}

\* Genesis is stamped before activate_financial_layer allocates a balance.
TipRoot(blocks) == IF blocks = <<>> THEN {Nothing} ELSE Last(blocks).root

-----------------------------------------------------------------------------
(* The tables *)

Write(op, key, val) == [op |-> op, key |-> key, val |-> val]

\* INSERT OR REPLACE
Replaced(table, key, row) ==
    [k \in DOMAIN table \cup {key} |-> IF k = key THEN row ELSE table[k]]

\* Fault: the rebuild forgets that stakes are taken back.
StakesFromBlocks_NoUnstake(blocks) ==
    LET txs == FlattenSeq([i \in 1..Len(blocks) |-> blocks[i].txs])
        step(S, t) == CASE t.type = "STAKE" -> [S EXCEPT ![t.to][t.from] = @ + t.amount]
                        [] OTHER -> S
    IN  FoldLeft(step, [v \in Validator |-> [a \in Addr |-> 0]], txs)

\* The stakes that delete_blocks_from recomputes from the blocks that remain.
StakesFromBlocks(blocks) ==
    LET txs == FlattenSeq([i \in 1..Len(blocks) |-> blocks[i].txs])
        step(S, t) ==
            CASE t.type = "STAKE" -> [S EXCEPT ![t.to][t.from] = @ + t.amount]
              [] t.type = "UNSTAKE" ->
                    [S EXCEPT ![t.to][t.from] = Max({0, @ - t.amount})]
              [] t.type = "EVIDENCE" ->
                    [S EXCEPT ![t.to] = [a \in Addr |-> @[a] - SlashOf(@[a])]]
              [] OTHER -> S
    IN  FoldLeft(step, [v \in Validator |-> [a \in Addr |-> 0]], txs)

\* One transaction: it also empties balances and supply.
delete_blocks_from(d, idx) ==
    LET kept == SubSeq(d.blocks, 1, idx - 1)
    IN  [d EXCEPT !.blocks = kept,
                  !.bal = Nothing,
                  !.supply = [minted |-> 0, burned |-> 0],
                  !.stakes = StakesFromBlocks(kept),
                  !.epochs = [e \in {n \in DOMAIN @ : n * EPOCH_LENGTH < idx} |-> @[e]],
                  !.slashing = {s \in @ : s.block < idx}]

\* Its number is one more than the highest row, which is the chain's length.
append_block(d, b) == [d EXCEPT !.blocks = Append(@, b)]

update_block(d, idx, b) == [d EXCEPT !.blocks[idx] = b]

put_epoch(d, n, validators) == [d EXCEPT !.epochs = Replaced(@, n, validators)]

\* A row that is deleted is a zero.
put_stake(d, row, n) == [d EXCEPT !.stakes[row[1]][row[2]] = n]

put_slashing_event(d, v, idx) ==
    [d EXCEPT !.slashing = @ \cup {[validator |-> v, block |-> idx]}]

put_balance(d, a, n) == [d EXCEPT !.bal = Replaced(@, a, n)]

put_supply(d, key, n) == [d EXCEPT !.supply[key] = n]

\* The tables after a commit.
Committed(d, w) ==
    CASE w.op = "append_block"       -> append_block(d, w.val)
      [] w.op = "update_block"       -> update_block(d, w.key, w.val)
      [] w.op = "put_epoch"          -> put_epoch(d, w.key, w.val)
      [] w.op = "put_stake"          -> put_stake(d, w.key, w.val)
      [] w.op = "put_slashing_event" -> put_slashing_event(d, w.key, w.val)
      [] w.op = "put_balance"        -> put_balance(d, w.key, w.val)
      [] w.op = "put_supply"         -> put_supply(d, w.key, w.val)
      [] w.op = "delete_blocks_from" -> delete_blocks_from(d, w.key)

-----------------------------------------------------------------------------
(* What an append commits *)

\* The rows of v's stakers that differ between the stakes old and new, if any do.
StakeRows(old, new, v) ==
    LET rows == {Write("put_stake", <<v, a>>, new[a]) : a \in {x \in Addr : old[x] # new[x]}}
    IN  IF rows = {} THEN <<>> ELSE <<rows>>

\* A slashing writes the reduced stakes, deletes them if too little is left,
\* and then records the event.
SlashWrites(old, new, v, idx) ==
    LET reduced == [a \in Addr |-> old[a] - SlashOf(old[a])]
    IN  StakeRows(old, reduced, v) \o StakeRows(reduced, new, v)
            \o <<{Write("put_slashing_event", v, idx)}>>

\* The commits of one transaction, which takes ledger M to N.
TxWrites(M, N, t, idx) ==
    LET v == t.to
    IN  CASE N.ok /\ t.type \in {"STAKE", "UNSTAKE"} ->
                StakeRows(M.stakes[v], N.stakes[v], v)
          [] N.ok /\ t.type = "EVIDENCE" /\ v \notin M.slashed ->
                SlashWrites(M.stakes[v], N.stakes[v], v, idx)
          [] OTHER -> <<>>

\* The block itself, a new epoch, the stakes: everything that is committed
\* before the roots are compared.
ApplyWrites(L, b, idx) ==
    LET M == _check_epoch_transition(_process_mature_unbondings(L, idx), idx)
        after == AfterTxs(M, b.validator, idx, b.txs)
        epoch == IF M.epoch # L.epoch
                 THEN <<{Write("put_epoch", M.epoch, M.epochs[M.epoch])}>> ELSE <<>>
    IN  <<{Write("append_block", idx, b)}>> \o epoch \o
        FlattenSeq([i \in 1..Len(b.txs) |->
                        TxWrites(after[i - 1], after[i], b.txs[i], idx)])

\* Fault: only senders and the validator are written.
Affected_NoRecipients(L, M, b, idx) == {b.validator} \cup {t.from : t \in Range(b.txs)}

\* Whose balances are written: the validator's, those of senders, recipients
\* and matured unbondings and, in the first block of an epoch, those of the
\* delegators that have a stake after the block.
Affected(L, M, b, idx) ==
    {b.validator}
        \cup {t.from : t \in Range(b.txs)}
        \cup {t.to : t \in {u \in Range(b.txs) : u.type = "TRANSFER"}}
        \cup {e.staker : e \in {u \in Range(L.unbonding) : u.release <= idx}}
        \cup IF idx % EPOCH_LENGTH = 0
             THEN {a \in Addr : \E v \in Validator \ {a} : M.stakes[v][a] > 0}
             ELSE {}

\* Fault: the burned part of the fees is not written.
_persist_balances_after_block_NoBurned(L, M, b, idx) ==
    <<{Write("put_balance", a, M.bal[a]) : a \in Affected(L, M, b, idx)},
      {Write("put_supply", "minted", M.minted)}>>

\* L is the ledger before the block and M the one after it.
_persist_balances_after_block(L, M, b, idx) ==
    <<{Write("put_balance", a, M.bal[a]) : a \in Affected(L, M, b, idx)},
      {Write("put_supply", "minted", M.minted)},
      {Write("put_supply", "burned", M.burned)}>>

AppendWrites(L, b, idx) ==
    ApplyWrites(L, b, idx)
        \o _persist_balances_after_block(L, Applied(L, b, idx), b, idx)

\* The block before it is stamped, its commits, and the stamped block.
ProduceWrites(L, b, idx) ==
    AppendWrites(L, [b EXCEPT !.root = {}], idx) \o <<{Write("update_block", idx, b)}>>

-----------------------------------------------------------------------------
(* What a load finds *)

\* The unbondings of the UNSTAKEs on the chain that are not yet released.
PendingUnbondings(blocks) ==
    LET made(i, t) == IF t.type = "UNSTAKE" THEN <<Unbonding(t, i)>> ELSE <<>>
        inBlock(i) == FlattenSeq([k \in 1..Len(blocks[i].txs) |-> made(i, blocks[i].txs[k])])
        all == FlattenSeq([i \in 1..Len(blocks) |-> inBlock(i)])
    IN  Select(all, {k \in 1..Len(all) : all[k].release > Len(blocks)})

\* The financial state after _load_from_sqlite: stakes, epochs, slashing,
\* balances and supply are the tables', unbondings are replayed, and the
\* rewards of the running epoch and the record of past distributions are lost.
Loaded(d) ==
    LET total == [v \in Validator |-> SumFunction(d.stakes[v])]
        slashed == {s.validator : s \in d.slashing}
        out == {v \in slashed : total[v] < MIN_STAKE}
        epoch == Max({0} \cup DOMAIN d.epochs)
    IN  [ok |-> TRUE,
         bal |-> [a \in Addr |-> IF a \in DOMAIN d.bal THEN d.bal[a] ELSE 0],
         stakes |-> d.stakes,
         total |-> total,
         unbonding |-> PendingUnbondings(d.blocks),
         minted |-> d.supply.minted,
         burned |-> d.supply.burned,
         rewards |-> [v \in Validator |-> 0],
         dists |-> Nothing,
         epoch |-> epoch,
         frozen |-> (IF epoch \in DOMAIN d.epochs THEN d.epochs[epoch] ELSE {}) \ out,
         epochs |-> d.epochs,
         slashed |-> slashed,
         known |-> Validator \ out]

\* Fault: R32-F03 undone, the root is not compared.
RootMatches_Unchecked(d) == TRUE

\* R32-F03: the trie is rebuilt from the rows, zeros included.
RootMatches(d) == TipRoot(d.blocks) \in {{}, {d.bal}}

\* A load that returns TRUE, after comparing a root, with the financial layer
\* active.
LoadsWell(d) ==
    /\ RootMatches(d)
    /\ TipRoot(d.blocks) # {}
    /\ d.supply.minted > 0

-----------------------------------------------------------------------------
(* The operations *)

\* init_chain and activate_financial_layer have committed all they write.
Init ==
    /\ mode = "up"
    /\ chain = <<>>
    /\ ledger = Genesis
    /\ db = [blocks |-> <<>>,
             bal |-> [a \in {Self} |-> GENESIS_BALANCE],
             supply |-> [minted |-> GENESIS_BALANCE, burned |-> 0],
             stakes |-> Genesis.stakes,
             epochs |-> Genesis.epochs,
             slashing |-> {}]
    /\ todo = <<>>
    /\ fork = NoFork
    /\ crashes = 0

Idle == mode = "up" /\ todo = <<>>

\* self._db.commit(): one of the writes whose turn it is.
commit ==
    /\ mode = "up"
    /\ todo # <<>>
    /\ \E w \in Head(todo) :
        /\ db' = Committed(db, w)
        /\ todo' = IF Head(todo) = {w} THEN Tail(todo)
                   ELSE <<Head(todo) \ {w}>> \o Tail(todo)
    /\ UNCHANGED <<mode, chain, ledger, fork, crashes>>

\* The block b with the root that the ledger computes for it.
Stamped(b) == [b EXCEPT !.root = Root(Applied(ledger, b, height + 1))]

CanAppend(b) ==
    /\ height < MaxHeight
    /\ validate_block(ledger, chain, b)
    /\ Applied(ledger, b, height + 1).ok

_append_block(b) ==
    /\ chain' = Append(chain, b)
    /\ ledger' = PruneDistributions(Applied(ledger, b, height + 1), height + 1)

Blocks(validators) == [validator : validators,
                       txs : UNION {[1..n -> Tx] : n \in 0..MAX_TX_PER_BLOCK},
                       root : {{}}]

Produced == Blocks(IF Producer THEN {Self} ELSE {})

Incoming == Blocks(IF Producer THEN Validator \ {Self} ELSE Validator)

\* Stored unstamped, and stamped when the state is known.
produce_block(b) ==
    /\ Idle /\ fork.owed = 0
    /\ CanAppend(b)
    /\ _append_block(Stamped(b))
    /\ todo' = ProduceWrites(ledger, Stamped(b), height + 1)
    /\ UNCHANGED <<mode, db, fork, crashes>>

add_block(b) ==
    /\ Idle /\ fork.owed = 0
    /\ CanAppend(b)
    /\ _append_block(Stamped(b))
    /\ todo' = AppendWrites(ledger, Stamped(b), height + 1)
    /\ UNCHANGED <<mode, db, fork, crashes>>

\* What _append_block_inner_safe leaves in memory of a block whose root is
\* wrong, and what has been committed by then.
Undone(b) == _rollback_block(Applied(ledger, b, height + 1), b, height + 1)

UndoneWrites(b) ==
    ApplyWrites(ledger, [b EXCEPT !.root = WrongRoot], height + 1)
        \o <<{Write("delete_blocks_from", height + 1, 0)}>>

add_block_rejects(b) ==
    /\ Idle /\ fork.owed = 0
    /\ CanAppend(b)
    /\ ledger' = Undone(b)
    /\ todo' = UndoneWrites(b)
    /\ UNCHANGED <<mode, chain, db, fork, crashes>>

\* The ledger L of the chain taken back to its first n blocks.
RolledBack(L, n) == BlocksUndone(L, chain)[height - n]

\* A longer fork that leaves the chain n blocks below the tip: _rollback_to
\* deletes on disk, then takes the blocks back in memory.  The ValueError of
\* _rollback_to_inner, raised when a balance is below zero or the funds do not
\* add up, is left out: no rollback of the instance leads to it.
try_reorg(n) ==
    /\ Idle /\ fork.owed = 0
    /\ n \in 1..height
    /\ height < MaxHeight
    /\ chain' = SubSeq(chain, 1, height - n)
    /\ ledger' = RolledBack(ledger, height - n)
    /\ todo' = <<{Write("delete_blocks_from", height - n + 1, 0)}>>
    /\ fork' = [owed |-> n + 1, base |-> height - n,
                saved |-> SubSeq(chain, height - n + 1, height)]
    /\ UNCHANGED <<mode, db, crashes>>

\* The next block of the fork.
reorg_apply(b) ==
    /\ Idle /\ fork.owed > 0
    /\ CanAppend(b)
    /\ _append_block(Stamped(b))
    /\ todo' = AppendWrites(ledger, Stamped(b), height + 1)
    /\ fork' = IF fork.owed = 1 THEN NoFork ELSE [fork EXCEPT !.owed = @ - 1]
    /\ UNCHANGED <<mode, db, crashes>>

\* The first n blocks of the old chain, appended again to ledger L: the ledger
\* they lead to, and the commits, for each n.
Reappended(L) ==
    LET again[i \in 0..Len(fork.saved)] ==
            IF i = 0 THEN [ledger |-> L, writes |-> <<>>]
            ELSE LET idx == fork.base + i
                     b == fork.saved[i]
                     old == again[i - 1]
                 IN  [ledger |-> PruneDistributions(Applied(old.ledger, b, idx), idx),
                      writes |-> old.writes \o AppendWrites(old.ledger, b, idx)]
    IN  again

\* The fork is given up from ledger L after some first commits: what has been
\* applied of it is rolled back, and the old chain is restored.
GiveUp(L, first) ==
    LET old == Reappended(RolledBack(L, fork.base))[Len(fork.saved)]
        back == IF height > fork.base
                THEN <<{Write("delete_blocks_from", fork.base + 1, 0)}>> ELSE <<>>
    IN  /\ chain' = SubSeq(chain, 1, fork.base) \o fork.saved
        /\ ledger' = old.ledger
        /\ todo' = first \o back \o old.writes
        /\ fork' = NoFork
        /\ UNCHANGED <<mode, db, crashes>>

\* A block of the fork without a root, or one that validate_block refuses.
reorg_reject ==
    /\ Idle /\ fork.owed > 0
    /\ GiveUp(ledger, <<>>)

\* A block of the fork whose root is not the computed one.
reorg_apply_raises(b) ==
    /\ Idle /\ fork.owed > 0
    /\ CanAppend(b)
    /\ GiveUp(Undone(b), UndoneWrites(b))

-----------------------------------------------------------------------------
(* Crash and restart *)

\* The process ends, idle or between two commits; memory is lost.
crash ==
    /\ mode = "up"
    /\ crashes < MaxCrashes
    /\ crashes' = crashes + 1
    /\ mode' = "down"
    /\ chain' = <<>>
    /\ ledger' = Genesis
    /\ todo' = <<>>
    /\ fork' = NoFork
    /\ UNCHANGED db

Load(outcome) ==
    /\ mode = "down"
    /\ mode' = outcome
    /\ chain' = db.blocks
    /\ ledger' = Loaded(db)
    /\ UNCHANGED <<db, todo, fork, crashes>>

load ==
    /\ LoadsWell(db)
    /\ Load("up")

\* The last block was never stamped: nothing is compared.
load_unverified ==
    /\ TipRoot(db.blocks) = {}
    /\ Load("unverified")

\* No supply: the node runs on without the financial layer.
load_inactive ==
    /\ RootMatches(db)
    /\ TipRoot(db.blocks) # {}
    /\ db.supply.minted = 0
    /\ Load("inactive")

\* "Database may be tampered or corrupted": the node does not start.
load_raises ==
    /\ ~ RootMatches(db)
    /\ Load("failed")

\* What a node does after the last three is not followed.
Next ==
    \/ \E b \in Produced : produce_block(b)
    \/ \E b \in Incoming : \/ add_block(b) \/ add_block_rejects(b)
                           \/ reorg_apply(b) \/ reorg_apply_raises(b)
    \/ \E n \in 1..MaxRollback : try_reorg(n)
    \/ reorg_reject
    \/ commit
    \/ crash
    \/ load \/ load_unverified \/ load_inactive \/ load_raises

Spec == Init /\ [][Next]_vars

-----------------------------------------------------------------------------
(* Properties *)

\* A node that is up has the balances that the last block was stamped with,
\* wherever it crashed before, and whatever it rolled back or refused since
\* (the purpose of the check R32-F03 in _load_from_sqlite).
TipExact == mode = "up" /\ height > 0 => TipRoot(chain) = Root(ledger)

\* Between operations the committed blocks are those of memory, and every row of
\* the table balances is what get_balance answers: _persist_balances_after_block
\* forgets nobody whom a block affects, and neither a block nor a row outlives a
\* refusal or a rollback.
RowsExact ==
    Idle => db.blocks = chain /\ \A a \in DOMAIN db.bal : db.bal[a] = ledger.bal[a]

\* Between operations, the stakes that delete_blocks_from recomputes from the
\* blocks are those that memory arrived at by rolling back, apart from the
\* stake that init_chain gives the genesis validator, which is in no block.
StakesRebuilt ==
    Idle => \A v \in Validator, a \in Addr :
        LET gift == IF v = Self /\ a = Self THEN MIN_STAKE ELSE 0
        IN  db.stakes[v][a] \in {ledger.stakes[v][a], ledger.stakes[v][a] - gift}

\* A restart of a node that is doing nothing does not change balances, supply,
\* unbondings, epoch or frozen validators, if it succeeds at all.
RestartKeeps ==
    Idle /\ fork.owed = 0 /\ height > 0 /\ LoadsWell(db) =>
        LET L == Loaded(db)
        IN  /\ L.bal = ledger.bal
            /\ L.minted = ledger.minted /\ L.burned = ledger.burned
            /\ L.unbonding = ledger.unbonding
            /\ L.epoch = ledger.epoch /\ L.frozen = ledger.frozen

=============================================================================
