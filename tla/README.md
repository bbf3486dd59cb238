# QBit Network in TLA+

TLA+ modules for the node of QBit Network (`src/qbit_network`), TLC runs that
check them on small instances, and TLAPS proofs of the results that hold for
every instance. `PROJECT.json` maps every definition to the lines it models.

## 1. The system

QBit Network is a small blockchain for notarization and payments. A node is one
Python process with one asyncio event loop. Its parts:

| Part | Source | State | Operations | Hard behaviour |
|---|---|---|---|---|
| Chain and indices | `core/blockchain.py`, `core/rollback.py` | blocks (a list, or SQLite), `_tx_by_id`, `_txs_by_sender`, `_sender_nonce`, `_revoked_keys`, registries | `produce_block`, `add_block`, `try_reorg`, `_append_block`, `_rollback_to` | appends that fail half-way, reorganizations that fail half-way, pruned indices |
| Transaction pool | `core/tx_pool.py`, `_drain_pool` | `tx_pool`, `_pool_ids`, `_pool_sender_count`, `_pending_debits_cache` | `submit_tx`, drain, purge, return of displaced transactions | checks made at admission that are stale when a block is built |
| Ledger | `core/ledger.py` | `_balances`, `_total_minted`, `_total_burned` | credit, debit, reward, fees | the supply cap; exact reversal |
| Staking | `core/staking.py` | `_stakes`, `_total_stake`, `_unbonding`, epochs, epoch rewards, slashed validators | stake, unstake, slash, epoch transition, maturing | several effects in one block, in an order that a rollback must mirror |
| State trie | `core/state_ops.py`, `core/state_tree.py` | trie, snapshots per block | rebuild, snapshot, restore | restored from a snapshot while balances are reversed arithmetically |
| Consensus | `core/consensus.py` | validators, shared indices | `validate_block`, `select_validator` | turns drawn by stake from a set frozen per epoch |
| Fees | `core/fees.py` | base fee in the header | base fee, weights | selection by fee against nonce order |
| Persistence | `core/store.py`, `core/persistence.py` | SQLite tables | append, delete, prune, reload | several commits per block; crash between them |
| Receipts, events | `core/receipt*.py` | receipts, event indices, finality | build, index, prune | reversal on rollback |
| Tokens, registries | `core/blockchain.py`, `core/query.py` | token registry and balances, notarizations, keys, validators | issue, mint, transfer, register, revoke | clamps and first-wins rules under rollback |
| Synchronization | `network/sync.py` | state machine, header queue, pending requests | header sync, block sync, fork resolution | awaits, timeouts, retries, peers that leave |
| P2P | `network/p2p.py`, `reputation.py`, `rate_limiter.py` | peers, scores, buckets | connect, authenticate, gossip, ban | lost and duplicated messages, bans of honest peers |
| Node | `node.py` | wires the above | `_block_loop`, `_sync_loop`, handlers | production suspended while syncing |
| Interfaces | `rpc.py`, `rest_api.py`, `websocket.py`, `webhooks.py`, `tls_manager.py` | tokens, subscriptions, deliveries | requests | delivery with retries |
| Clients | `cli`, `sdk`, `web`, `dashboard` | none of the node's | callers | none |

How they interact. Blocks and transactions come from peers (`node._p2p_new_block`,
`_p2p_new_tx`), from clients and from this node's own `_block_loop`; all of them
call methods of `Blockchain`, which never await, so that each call is atomic with
respect to the others. `Blockchain` calls `ProofOfAuthority.validate_block`, which
reads dictionaries that the two objects share, then `_append_block`, which changes
every index and the ledger and raises `ValueError` if a balance or a root is wrong.
`SyncManager` runs next to this and awaits between its steps; so do the read loop
of every connection (`P2PNode`), the handler of every WebSocket client and every
webhook delivery. A notification of a block is awaited by the loop or the handler
that appended it.

What makes the parts correct: no transaction is replayed and no nonce skipped;
every incrementally kept index says what the chain says; a reorganization happens
completely or not at all; value is neither created nor lost; rolling a block back
restores what was there before it; what the pool admits can be mined; a node
that is behind catches up. The hazards, each at its line, are in `PROJECT.json`.

## 2. Modules

| Module | Models |
|---|---|
| `Blockchain` | chain, indices, pool and `try_reorg` of one node |
| `BlockchainProofs` | theorems about the chain and about the pool of `Blockchain` |
| `Selection` | choosing elements of a sequence by position, for the pool and the unbonding list |
| `FiniteFacts` | lemmas about extrema, finite sums, positions and induction over initial segments that the proofs share |
| `MCBlockchain` | instances for the runs `Chain`, `Reorg` and `Solo` |
| `LedgerOps` | what a block does to balances, stakes, unbonding, epochs and supply, forwards and backwards |
| `Ledger` | `LedgerOps` under production, receipt, refusal and rollback, with trie and pool |
| `LedgerProofs` | theorems about `LedgerOps` and `Ledger` |
| `MCLedger` | instances for the runs `Ledger...` |
| `Store` | `LedgerOps` on SQLite: the order of commits, crash, reload |
| `StoreProofs` | theorems about `Store` |
| `MCStore` | the instance for the run `Store` |
| `Registry`, `MCRegistry` | notarizations, keys, validators, tokens, receipts and events, forwards and backwards |
| `Replica` | abstract specification: one log, and a growing prefix of it at each node |
| `Gossip`, `MCGossip`, `GossipProofs` | blocks between nodes: relaying, heights, repair, reputation and rate limit; implements `Replica` |
| `Session`, `MCSession`, `SessionProofs` | connections: dialling, handshake, encryption, duplicates, registry of peers |
| `Sync`, `MCSync`, `SyncProofs` | `SyncManager` of one node and the answers of its peers |
| `Notify`, `MCNotify`, `NotifyProofs` | WebSocket subscriptions, webhooks, and the tasks that feed them |

### Blockchain

State: `blocks`, `txById` (`_tx_by_id` and `consensus._chain_tx_ids`, which are
updated together), `txsBySender`, `senderNonce` (`_sender_nonce`, which consensus
shares as `_chain_nonces`), `revokedKeys`, `txPool` (with `_pool_ids` as its set of
elements), `poolSenderCount`, and the locals of `try_reorg`.

Transactions are opaque and have a sender and a nonce; a block is the sequence of
its transactions. Signatures, time stamps, turns and balances decide only whether
something is accepted: that verdict is left open, at the place where the code
reaches it. `submit_tx`, `produce_block` and `add_block` are one step each.
`try_reorg` is split into steps of one block (`reorg_rollback`, `reorg_apply`,
`reorg_undo`, `reorg_restore`, `reorg_return`), because it may stop in the middle:
while `phase` is not `"idle"` nothing else runs, as in the code. The blocks of the
fork are chosen one by one while it runs, which is any fork it could be given.

A failing `_append_block` (constant `AppendMayFail`) is undone by
`_append_block_undone`; the purge made by the applied prefix stays. If
`ExactRollback` is FALSE the sanity checks that end `_rollback_to`, or the
re-append of a displaced block, may raise inside `try_reorg` (`reorg_raises`).
`SQLite` selects the storage mode, in which `_append_block` prunes `txsBySender`.

### LedgerOps and Ledger

The ledger is one record; every piece of `_append_block_inner` and
`_rollback_block` that touches money is an operator from records to records
(`PayFee`, `MoveFunds`, `Stake`, `Unstake`, `Slash`, `PayReward`, ... and `UndoFee`,
`UndoFunds`, `UndoStake`, `UndoEpoch`, ...), and `Applied` and `_rollback_block`
compose them in the order of the code. The field `ok` turns FALSE where the code
raises; what the record then holds is what the exception leaves behind, which is
what `_append_block_undone` starts from. `past` is history: the ledger that each
block left, against which rollbacks are compared.

Nonces are counted on the chain (`Blockchain` shows that this is what the code's
index amounts to). A fee has one value per type: under dynamic fees the base fee is
constant and the offered maximum is what is paid. `select_validator` is the set from
which the turn is drawn. The trie is the map of balances under it.

### Store

`db` is what is committed; `chain` and `ledger` are what memory holds. An operation
of `Blockchain` runs to its end without awaiting and under `_db_lock`, so memory
changes in one step; its commits are queued in `todo` in the order of the code (the
block with its indices; a new epoch; stakes and slashing, transaction by transaction;
one commit per balance, in any order, since the code iterates over a set;
`total_minted`; `total_burned`; and for a produced block the update that stamps it).
`commit` takes one of them, and a `crash` may come between any two. A refused block
has its first commits made before the roots are compared, and then
`delete_blocks_from`, which deletes the block, empties balances and supply and
recomputes the stakes. `try_reorg` is in steps of one block, as in `Blockchain`, with
its ways to give up. What `_load_from_sqlite` builds is `Loaded(db)`; how it ends is
one of `load` (a root was compared and the financial layer is on), `load_raises`,
`load_unverified` (the last block was never stamped) and `load_inactive` (no supply
row). A node is not followed beyond the last three. Blocks are refused for their
roots only; blocks that raise at a transaction are in `Ledger`, and the sanity checks at the
end of `_rollback_to` in `Blockchain`. Not modelled: the
tables of receipts, events, tokens, keys, validators and revocations, and crashes
inside `init_chain`.

### Registry

`reg` is a record with a field per dictionary of `Blockchain`: notarizations (the
first, all by hash, the count per address), encryption keys and their history,
validators, commissions and revocations, tokens (minted supply, symbol, balance,
holders), receipts and the event lists by type. `Process` is the loop over the
transactions of `_append_block_inner`, one operator per type (`notarize`,
`register_key`, ..., `transfer_token`); `Undo` is the loop of `_rollback_block`, with
`undo_notarize` ... `undo_transfer_token`, in block order and with the clamps of the
code. `submit_tx` holds the checks of the token transactions against chain and pool;
`produce_block`, `add_block` and `try_reorg` are one step each, with all ways in which
they fail and what they leave then. Balances in QBIT, nonces as an index and the
revocation of signing keys are in the other modules; a nonce is counted on the chain.
The roots that a block is stamped with are not kept on the chain, so that a displaced block
is appended again without being compared with them.
`raised` records that `produce_block` failed, after which the code leaves a half-undone
block behind (see the departures).

### Gossip and Replica

A node of `Gossip` has a height, the registry of its peers with the height each last
told, its pending requests, its scores and bans, the violations counted by its rate
limiter and whether its `SyncManager` is syncing (a flag here: `sync_begin`,
`sync_end`). `wire` is a FIFO per direction of a link, as TCP gives. Actions are
`start`, `block_loop`, `sync_loop` and the handlers of `new_block`, `get_blocks`, `blocks`
and `status`; `rate_limited` drops a message and may end the connection,
`check_reputation` and `read_timeout` end it. `Temp` is the set of links whose other end a node
holds under a key `_inbound_...`, as the node with the larger address does after
simultaneous dials: `broadcast` compares its `exclude`, which is an address, with that key, and
sends the peer its own block back. Everybody is honest and validators take
turns by height, so there is one block at a height and a chain is its length; forks are in
`Blockchain` and `Sync`. `Replica` is what this amounts to: a log that only the node in
turn extends, holding all of it, and copies that only grow. The refinement mapping
takes the highest chain for the log and the heights for the copies (`Replicates`).

### Session

One connection per call of `connect`, with an end at the caller and one at the callee,
each a `Peer` object: whether its loop is before the first line, reading or left,
authenticated, encrypted, packed, closed by us, and under which key it is registered.
`Dials` are the sets of connections that may be tried. `start` dials the bootstrap addresses and
every read loop those that a peer names (`_p2p_peers`), so several may be opening at once.
`peers` is the registry of each node. Actions are `connect` (up to its await), `opened`,
`connect_failed`, `on_connect`, the steps of the handshake at both ends with
`dedup_connection`, the deadlines, `broadcast`, and the reading of data through
decryption, ban and gate. Nodes are honest, so signatures verify; a node without
signing keys falls back to a plain session.

### Sync

`SyncManager._main_loop` of one node, from await to await: `check_peers`, `header_sync`
with requests, retries, a change of source and cross-verification, `block_sync` with
parallel chunks, `apply_block`, and `follow_tip`, over the transition table of the code. `requests` are
the questions under way; a peer answers with what it has then, answers late (the
request has timed out and the answer is dropped), or is gone. Meanwhile `gossip` appends
blocks, peers grow, tell their height, and are disconnected once banned. Chains are
sequences of branches above the height that all have in common. A peer in `Forging` may
send signatures that do not verify. A peer in `temp` is held under a key `_inbound_...`: its status
counts, but as a source it is not found. `Registration` is the block that registers a
validator and `Newcomer` the blocks that this one signs; `known` is the look-up in the
registry, which the header check and the check of a signature make with the chain that the
node has at that moment.

### Notify

For a client: how far its handler is, whether its buffer is full, and its entries in
`_all_clients`, `_subscribers` and `_client_channels`. For a webhook: status, failures, the
deliveries about to make their n-th attempt and those awaiting its answer, and what
its URL leads to. A notifier is a task that broadcasts: it takes the snapshot of a
channel, sends to one client after the other (`send`, with its timeout), drops the
dead ones (`broadcast_end`) and goes on to the next channel or, for a block, to the
webhooks. `stop` and `stop_clear` are the part of `Node.stop` that ends all this, while
handlers of peers still run. Messages of clients are those that pass the rate limit and
are well formed.

## 3. Runs

Passing:

| Run | Checks | Shows |
|---|---|---|
| `Chain` | `TypeOK NoReplay NonceExact IndexExact RevokedSilent Inv` | chain safety in memory mode with failing appends and raising reorganizations |
| `Reorg` | `ReorgAllOrNothing DisplacedKept` | when rollbacks are exact, reorganizations are atomic and lose no displaced transaction whose sender has nothing else pending |
| `Solo` | `PoolMinable PoolCountExact PoolNotRevoked PoolDrains` | the pool of a lone validator, on SQLite, is always minable, and every admitted transaction leaves it |
| `LedgerSolo` | `TypeOK PoolAffordable` | a lone validator up to the supply cap, with maturing unbondings and slashing |
| `LedgerEpoch` | `TotalStakeExact SupplyConserved` | dynamic fees, staking, epoch rewards and blocks that raise in `produce_block` conserve value |
| `LedgerReorg` | `TrieExact RollbackRestores FailedAppendUndone` | exact rollback within an epoch, for two validators |
| `Store` | `TipExact RowsExact StakesRebuilt RestartKeeps` | crashes between any two commits: a verified load has the balances of the last block, rows are never stale, a restart that succeeds changes nothing |
| `Registry` | `RegistriesExact TokensExact` | after any blocks, refusals and reorganizations every registry, token table, receipt and event list is what the chain says |
| `Gossip` | `FirstPenaltyOnly Replicates Delivered` | gossip with dropped messages and suspended relays refines one replicated log; while nothing is dropped honest peers lose no reputation, but for one duplicate at a node that starts and the blocks that a peer under a temporary key gets back; every block arrives |
| `Session` | `TrustedDataAccepted OneIsKept RegisteredLive HandshakeEnds HalfOpenEnds` | simultaneous dials, late answers and refusals: one connection stays, nothing sent after the handshake is lost, handshakes and abandoned connections end |
| `Sync` | `OneBranch ProductionResumes CatchesUp` | lost peers, late answers, forged signatures, a peer under a temporary key, a registration in the missing range and concurrent gossip: no mixture of branches, production resumes, the node catches up with peers that stay |
| `Notify` | `NoGhost NotifyEnds LeftAlone` | no subscription outlives its connection, no client holds up a notification, an endpoint that stays down is left alone |

Each property has a mutant: a faulty variant of one definition (named
`<definition>_<fault>` and placed before it) under which TLC finds it violated.

### Departures

The passing runs keep to the instances in which the properties hold. Where the code
departs from them, other values of the constants or the claim stated as a property lead TLC to
a counterexample; no run is kept for these. Some contradict a line of the repository:

- With `SQLite = TRUE`, foreign blocks and failing appends, `NonceExact` fails: the sender lists are
  pruned beyond the reorg window (`blockchain.py:1218-1230`) and `_rollback_block`
  recomputes `_sender_nonce` from them (`rollback.py:415-424`), so that a nonce starts at 0
  again. `tutorials/10-security.md:74`: "sequential per sender, prevents replay".
- With `OtherValidators = TRUE` `PoolMinable` fails: `_drain_pool` (`blockchain.py:715-735`)
  leaves the rival of a mined transaction in the pool, and every block built from then
  on fails its own validation. `tutorials/02-wallets-and-transfers.md:197`: "The next block
  producer includes it in a block".
- With `UnfundedBlocks = TRUE` `FailedAppendUndone` fails: a block that raises at its
  k-th transaction is undone as if all of it and its reward had been applied
  (`rollback.py:190-235`). `blockchain.py:769`: "On failure, undo all changes".
- With two pending UNSTAKEs of one whole stake `SupplyConserved` fails: both pass
  `submit_tx` (`tx_pool.py:83-91`) and both amounts are released
  (`blockchain.py:995-1010`). `docs/ARCHITECTURE.md:107`: "`circulating + staked + burned ==
  total_minted`".
- A node that is doing nothing cannot always be restarted: once an account has spent all it had,
  `_persist_balances_after_block` keeps a row with 0 (`ledger.py:178`) that memory does
  not have, and the roots differ on reload; the same after every refused block and every
  reorganization, whose `delete_blocks_from` empties tables that no reload rebuilds,
  and on a node that has no block after genesis. `tests/test_sqlite_verify_on_load.py:338`:
  "Untampered chain should pass state root verification on reload".
- Two tokens can have one symbol: ISSUE_TOKEN of a taken symbol raises in
  `_append_block_inner`, and the undoing of that block removes the entry of the first
  token (`rollback.py:355`). `docs/PROTOCOL.md:126`: "`symbol` must be unique across all
  tokens". This is also why `Registry`'s properties end where `produce_block` has failed.

- A chunk of blocks whose download fails is skipped (`sync.py:498`, "Retry this chunk"), and
  BLOCK_SYNC ends as SYNCED without it; a later round of the main loop fetches it (`CatchesUp`).
- More than `MAX_PEERS` peers: `connect` compares with the limit before it awaits
  `open_connection` (`p2p.py:250`) and not again when it adds the peer (`p2p.py:264`); dials of `start`
  and of several read loops that pass together, and connections that come in meanwhile, exceed
  it. `docs/SECURITY.md:302`: "MAX_PEERS enforced on both inbound and outbound connections".

The others:

- with foreign blocks `_pool_sender_count` is lowered by transactions that were not
  in the pool (`PoolCountExact`), and a reorganization returns a transaction of a
  sender the fork revokes (`PoolNotRevoked`) or fills the pool past its limit;
- a displaced transaction is dropped where its sender has another one pending: the nonce
  expected of it counts those that are later, and those that were mined by a foreign block and
  that nothing removed (hence the exception in `DisplacedKept`);
- `RollbackRestores` fails in its balances when an unbonding matured in the block
  (the credit is not taken back), with `MAX_SUPPLY` inside the chain (the reward taken
  back is computed from the wrong total) and with an epoch of 4 blocks (the record of
  the distribution is pruned in the block that made it); and in the rest when an epoch
  boundary is rolled back (accumulated rewards stay at zero), when a block holds a
  STAKE and an UNSTAKE of one staker (undone in block order), and for EVIDENCE (stakes
  stay slashed);
- `TotalStakeExact` and `SupplyConserved` fail after slashing: total and stakes are
  rounded separately, and what is slashed is not counted as burned;
- `TrieExact` fails wherever balances are not restored, and `try_reorg`'s own
  comparison, which is with the restored snapshot, cannot notice;
- `PoolAffordable` fails once an epoch distribution or a rollback takes the funds
  behind a pending transaction; the validator then raises on every attempt;
- `RowsExact` fails with a delegation to a validator other than the producer of an
  epoch's first block: the validator pays its delegators and its row is not written;
- a load in `Store` may succeed with the supply of the block before (a crash between
  balances and `total_minted`), without the stake that genesis gives (after any
  rollback), and always without the rewards of the running epoch;
- `RegistriesExact` fails when an address registers as a validator twice (rolling the
  second back removes the first, `rollback.py:285`) or registers the same encryption key
  twice (`history.remove` takes the first occurrence, `rollback.py:274`); commissions are
  never rolled back; `TokensExact` fails for a block with a mint and a transfer of what it
  minted (undone forwards, with clamps);
- in a ring of nodes duplicates reach a node by two ways, each booked as an invalid block,
  and honest peers ban each other (`FirstPenaltyOnly` asks for a network without cycles);
  a relay suspended while syncing, followed by the next block of the same validator, costs
  the relaying node a penalty too (in the instance validators alternate);
- with nodes that have msgpack the switch of the wire format is not synchronized: what
  is sent in the old format after the other end has switched ends the connection; a reader of msgpack has no timeout
  (`HalfOpenEnds` is checked without msgpack);
- after simultaneous dials the node with the larger address holds its peer under a key
  `_inbound_...` (`p2p.py:945`): a relay does not leave that peer out (`node.py:158`,
  `p2p.py:312`), which gets its own blocks back and books 50 points for each
  (`FirstPenaltyOnly` counts them) until it disconnects; and `_get_peer` does not find it as
  the source of a synchronization (`sync.py:282`), so that a node whose highest peer it is
  keeps choosing it and giving up (`CatchesUp` is about the times when no such peer is connected);
- headers across the on-chain registration of a validator are refused as long as the
  block that registers it is missing (`blockchain.py:498-504`, `sync.py:660-662`), in every
  round, and the honest peer loses 50 points each time until it is banned; blocks by gossip may
  bring the registration (`CatchesUp` is about peers that stay);
- `connect` may be opening two connections to one address, which come from the bootstrap list and
  from a peer's list, or from two lists: both may be kept, or both closed (`NeverBoth` supposes `DistinctAddresses`);
- after simultaneous dials the registry may hold the connection that is closed: `connect`
  overwrites the entry of the inbound connection with the same address, and the
  `finally` of the duplicate removes the entry of the one that stays;
- bans are kept by `host:port` and asked for by host in `_on_connect`;
- a refused signature is booked to the source of the headers and not to the sender of
  the block (`sync.py:514`), and the transition it asks for is refused, so that the
  round goes on; the branch that collects fork blocks is dead (`sync.py:525-531`), and the
  result of cross-verification is not used; a node whose last peer goes during
  BLOCK_SYNC stays there and produces nothing until another peer comes (hence `Honest` in
  `ProductionResumes`);
- `MAX_WS_CONNECTIONS` is checked before `ws.prepare()` is awaited, and a client that a
  broadcast dropped is no longer counted while its handler runs, so more may be connected;
  concurrent broadcasts may reach a client in another order than the blocks have;
- a webhook deleted during its last attempt may come back as "disabled"
  (`webhooks.py:305-307`) and then counts for the limit; an endpoint whose name resolves to a private
  address is never disabled (`LeftAlone` is about endpoints that are down); deliveries
  created after `webhook_manager.stop()` by handlers of peers are not cancelled.

### Bounds

`Chain` has two senders with rival transactions for the same nonces and a
revocation, blocks of up to two transactions, chains up to `MaxHeight`, forks up to
`MaxForkLen`. These are enough for a fork to replace blocks, fail after some of its
blocks, fail inside a block and be undone, and for a second one to follow. The
theorems do not depend on them. `MaxPool` only limits the pool at the moment
`try_reorg` is called. `Reorg` has one transaction per block, two of one sender and a rival
of the second, and a fork long enough to displace both, with a pool that the return overfills. In `Ledger`, rewards, fees and amounts are small numbers with
the halving, the cap, an epoch and an unbonding period inside `MaxHeight`;
`MinMinted` stops repeated failing appends, each of which takes a reward off, and
`MaxRollback` is the deepest rollback. In `Store`, two validators, transfers that
empty an account, and stakes that grow and shrink, over chains of up to four blocks,
forks two blocks deep and two crashes (`MaxCrashes`), reach a crash at every commit of
every operation, a reload, and a second crash in what follows. In `Registry`, two
accounts issue, mint and transfer one token, notarize, register and revoke, with rivals
for the same nonces, over four blocks and reorganizations. `Gossip` has three nodes in a line,
the middle one relaying, two of which take turns; one starts late, answers bring one
block each, one message may be dropped, one link is a violation short of being
closed, one score a duplicate short of a ban, and the middle node holds an end under a
temporary key: enough for a block to be lost, found missing by its height and fetched, and for
an answer to overtake or follow gossip. `Session` has two nodes with keys that dial each
other and a third one without, which dials or is dialled, also while another dial of the same
node is opening; one deadline may pass, and the limit is one peer.
`Sync` has two peers on different branches, one of which forges and is ahead, chunks of
one block with two in parallel; one late answer, one lost peer and one block by gossip; the peer ahead may be under a
temporary key, and the third block of the other one is signed by a validator that the first
block registers, so that headers are refused before that block has come and accepted after it.
`Notify` has two clients, or a client and a webhook (`Users`: the two managers share no
state), two channels, two notifiers, two attempts per delivery, two deliveries at once,
and disables at two failures. Deadlock is not checked: at `MaxHeight`,
or with every transaction used, an instance stops, and so does a node that fails to load.

### Fairness

`FairProduction`: weak fairness of `produce_block`, which `_block_loop`
calls every `BLOCK_INTERVAL` seconds for as long as the node runs. `Gossip`: the
periodic loops, the end of a synchronization (see `Sync`), the 30-second timeout of a
reader, and the reading of what TCP delivers; a drop by the limiter needs no fairness and
competes with reading. `Session`: the loops go on with a connection while there is something
to read or a timeout to pass; nobody has to dial. `Sync`: the main loop, an answer or
the timeout of every request, the periodic status of connected peers, and the
disconnection of a banned one. `Notify`: the awaits that have a timeout (a send, a
request, a pause); the `ws.close()` that follows a send that timed out (`websocket.py:118-121`) is
part of the send, and that it returns is left to aiohttp, whose close has a timeout of its own. Nothing is assumed of clients, endpoints, peers or failures.

## 4. Proofs

For all values of the constants that satisfy the named assumptions of the modules:

| Module | Theorem | Statement |
|---|---|---|
| `BlockchainProofs` | `TypeCorrect` | `Spec => []TypeOK` |
| | `Invariance` | `~SQLite => (Spec => []Inv)` |
| | `ChainSafe` | `~SQLite => (Spec => []NoReplay)` |
| | `RevokedStaysSilent` | `~SQLite => (Spec => []RevokedSilent)` |
| | `NoncesExact` | `~SQLite => (Spec => []NonceExact)` |
| | `IndicesExact` | `~SQLite => (Spec => []IndexExact)` |
| | `ReorgAtomic` | `~SQLite /\ ExactRollback => (Spec => ReorgAllOrNothing)` |
| | `PoolCounted` | `Lone => (Spec => []PoolCountExact)` |
| | `PoolPurged` | `Lone => (Spec => []PoolNotRevoked)` |
| | `PoolAlwaysMinable` | `Lone => (Spec => []PoolMinable)` |
| `LedgerProofs` | `LedgerTypes` | `Spec /\ RollbackRestores /\ FailedAppendUndone => []TypeOK` |
| | `TrieFollows` | the same premises `=> []TrieExact` |
| | `SupplyKept` | `NoEvidence`, the same and `UnstakesCovered => []SupplyConserved` |
| | `WeightsExact` | `NoEvidence`, the same and `UnstakesCovered => []TotalStakeExact` |
| | `RollbackExact` | `Follower => (Spec /\ PlainHistory => RollbackRestores)` |
| | `RefusalExact` | `Follower => (Spec /\ PlainHistory => FailedAppendUndone)` |
| | `QuietFollower` | `Quiet => (Spec => RollbackRestores /\ FailedAppendUndone /\ [](TypeOK /\ TrieExact /\ SupplyConserved /\ TotalStakeExact))` |
| | `PoolPays` | `LoneProducer => (Spec => [](PoolAffordable /\ TypeOK /\ TrieExact))` |
| `StoreProofs` | `TipIsExact` | `QuietStore => (Spec => []TipExact)` |
| | `RowsAreExact` | `QuietStore => (Spec => []RowsExact)` |
| | `RestartIsHarmless` | `QuietStore => (Spec => []RestartKeeps)` |
| `GossipProofs` | `GossipReplicates` | `Spec => Replicates`, that is `Spec => Log!Spec` |
| | `OneBlockPerHeight` | `Spec => []SingleWriter` |
| `SyncProofs` | `NoMixture` | `Spec => []OneBranch` |
| `SessionProofs` | `NobodyGone` | `Spec => []RegisteredLive` |
| | `NeverBoth` | `DistinctAddresses /\ Spec => []OneIsKept` |
| | `NothingTrustedLost` | `Spec => []TrustedDataAccepted` |
| `NotifyProofs` | `NoGhostHolds` | `Spec => []NoGhost` |

The assumptions are types, positive limits, a network with at least one node, finite
nonempty sets of peers, and finite sets of nodes and connections. The
hypotheses of the theorems are conditions on constants, and each is needed: for
`~SQLite` see the first of the departures; `ExactRollback` says that the sanity checks
in `_rollback_to` do not raise, and the `Ledger` runs show when they do; `Lone` says that no
block comes from elsewhere, and that appends do not fail on SQLite (the first two
departures are what happens otherwise); `DistinctAddresses` says that a node dials
no address twice, since two connections in the same direction are treated alike:
both are kept or both are closed.

About the ledger the code promises less than its properties say (see the departures), and
the theorems say under what the properties hold:

- `LedgerTypes` and `TrieFollows` suppose that whatever is taken back is taken back exactly,
  `SupplyKept` and `WeightsExact` besides that no `UNSTAKE` on the chain exceeds the stake it
  is taken from (`UnstakesCovered`) and that there is no `EVIDENCE`. They are about blocks of any
  content: epochs with distributions, maturing unbondings, halving and cap included.
- `RollbackExact` and `RefusalExact` show the first two premises for blocks that are `Plain`:
  transfers and stakes in which no unbonding matures and no epoch begins, and with room under
  the cap for this reward and another one. Each exclusion is one of the departures of
  `RollbackRestores`. `PlainHistory` asks it of the blocks that are taken back, and of no other.
- `QuietFollower` and `PoolPays` suppose conditions on constants only. `Quiet` is a follower of
  transfers and stakes whose epoch is longer than the chain; it discharges all of the premises
  above, so that they can be met together. `LoneProducer` is the only validator, nothing is
  rolled back, and its epoch is longer than the chain, because a distribution may take the
  funds behind a pending transaction; `UNSTAKE`, maturing, slashing and the cap are all
  allowed. It also asks for a fee on STAKE, since `submit_tx` looks at the balance only if
  there is a fee or the type is TRANSFER.

### Blockchain

The argument. `NoReplay` is not inductive: a replay is excluded by the nonce index,
which must be exact, which after a rollback depends on the per-sender lists being
complete and on the nonces of each sender being gapless. `ChainInv` says all of it:
the chain is legal (every block `Extends` the transactions below it: fresh nonces,
none skipped, no revoked sender), nonces, filter and revocations are exact, and
`txsBySender` is complete. The saved chain must be legal too, because its blocks are
appended again without validation; `ReorgOK` says that at that point the chain is a
prefix of it. The lemmas show that a validated block extends the chain, that
appending it keeps the indices exact, that removing the tip restores them (the
recomputed nonce is the largest one left because there are no gaps), and the same
for a failed append. Then there is one step per action.

### The pool

`PoolMinable` depends on three things that have to hold together: what is pending
follows the nonces of the chain, sender by sender (`PoolFollows`: the nonce at a
position of the pool is the chain's plus the rank of that position among its sender's),
the counters that `submit_tx` adds are the numbers of pending transactions, and nothing
pending is mined or revoked. `PoolInv` is their conjunction. Ranks make the proof a matter of
counting: the block takes the first k positions, which raises the nonce of each sender by
the number of its positions among them (`Mined`), and lowers the rank of what is
left by the same number (`Rest`, `Kept`); a purge takes all of a sender away, so that the
ranks of the others stay. With failing appends the invariant includes that of the chain,
by which the failed block leaves no trace in the indices.

### Ledger

What a block does is a fold over transactions, accounts, stakes and unbondings. The folds of
`LedgerOps` are recursive functions (`AfterTxs`, `FundsUndone`, `StakesUndone`, `BlocksUndone`),
and induction over them is by least counterexamples, which are sets and not operators
(`PrefixInduction`, `MinimalSet` in `FiniteFacts`). `FiniteFacts` also has the theory of
`SumFunctionOnSet`: it is well defined, additive, monotone, and invariant under renaming and
exchange of rows and columns.

`LedgerInv` is about the history. The ledger that every block left is `Good` (balances, stakes,
weights, rewards are natural numbers, minted is within the cap, the epoch is that of its
height), its snapshot is the trie of its balances, and the ledger in memory has the money of
the last of them. So a rollback that restores the money restores the invariant, and with the
snapshot the trie. `SupplyInv` adds that each of these ledgers conserves the supply and has
exact weights: fees are split into share and burned part without loss (`FeeParts`), transfers
move (`SumMoves`), maturing moves from the unbonding list (`UnbSelect`), a distribution gives
what it takes (`SumSwap`: the sum over delegators of what each got is the sum over validators
of what each gave) and takes no more than there is (`SharesFacts`).

For the way back, `MadeInv` says that the ledger of block k is what the block makes of that of
block k - 1. `FundsInverse` shows that fee and funds of a transaction are undone by its own
undoing, so that last to first they are all undone (`AllFundsBack`). Stakes are undone first
to last and clamped at zero: after n of N transactions there is the stake before the block and
what the transactions after the n-th added, so that the clamp never strikes
(`AllStakesBack`). The reward is recomputed from the supply after it, and is the
same one where the cap leaves room for two (`RewardBack`). `PlainUndone` puts a block together,
`BlocksBack` any number of them.

`PoolPays` rests on `PoolCovered`: what all pending transactions of an account take together is
within its balance. Through a block, the balance is at least what the transactions of the
pool not yet executed take (`BlockPays`), which is what is left after the drain
(`OwedSelect`); unbondings and rewards only add.

### Store

`QuietStore` is a condition on constants: transactions are transfers and stakes, the chain
ends within the first epoch, and the cap leaves room for one more reward than are paid.
Blocks from others, blocks with a wrong root, rollbacks, forks that are given up and crashes
after any commit are all allowed, in any number. Outside of it, an unbonding that matured in a
block that is rolled back and a distribution to delegators break exact rollback and
`RowsExact` (see the departures); UNSTAKE that has not matured and distributions without
delegators stay with the run.

`TipExact` speaks of a node that is up, and must be carried through a crash. So `StoreInv` says
where a crash may leave the tables: the commits still waiting (`todo`) lead (`Leads`) from
the tables as they are to those of the ledger in memory, and every state of the tables on the
way is `Sound`: its blocks are those of a chain in which every root is the right one, but for
the last, which may be unstamped or wrong (`Stored`), its minted supply is at most what
is due at that height, and without blocks there are rows that cannot be verified or no supply.
Nothing is asked of the rows: the reload compares them with the last root, so that the only ones it
accepts are the balances of that block. A load that compares nothing, or runs on without supply,
ends in another `mode`, which the model does not follow.

The path is put together from its pieces (`LeadsThen`, `FlattenLeads`): a block appended, its
stakes, the balances in any order (a commit contains any of the writes that may come next, `PayCommit`), the
supply. `ApplyLeads`, `PersistLeads`, `AppendLeads`, `ProduceLeads`, `DeleteLeads`,
`RefuseLeads` and `ReappendLeads` do this for each operation of the node, and `CommitLeads`
takes the first commit off. `PersistLeads` needs that whoever a block affects is in `Affected`
(`UntouchedSame`). `RestartKeeps` follows from where each path ends: at the end of the queue the supply row is
that of memory or there is none yet (`Counts`; a load without it is not one that `LoadsWell` accepts),
and within the first epoch the tables hold no frozen validator and no slashing (`Tables`). What memory holds after a rollback is shown by `RolledIs` and `UndoneTo`: the blocks
taken off, one by one, lead back to the balances that the root below is of (`At`). A fork that is given
up appends the old chain again, and `ForkOk` says that it is one in which all roots are right.
`StoreStep` has one step per action.

### Gossip implements Replica

The log is the highest chain (`Top`). A step could fail to be one of `Replica` in two ways: a
node jumps above the log, or the validator in turn makes a block while behind it.
`GossipInv` excludes the first by bounding the blocks on the wire, relayed or in
answers, by `Top`, and the second by `SingleWriter`: who made
the block of a height has at least that height. Told heights need no bound, since nobody
appends because of one. Then there is one step per handler.

### Sync

`OneBranch` is inductive with the types and `Chunked` (chunks are counted from one
while they are downloaded). The lemma `Grow` is the core: whatever header list and whatever
bodies arrive, a block that `add_block` accepts links to the tip, and a chain of some peer
that is extended by a block of a peer linking to it is again the chain of some peer.

### Session

`RegistryInv` (types; a responder is known by a temporary key exactly while it waits for the
first line; an entry of the registry is that of a live end of this node, under the key of
that end) gives `NobodyGone`. `Smaller` says that a
connection was closed as a duplicate only if the node with the smaller address dialled
the other one, so that two connections cannot both be given up (`NeverBoth`). `HandshakeInv` relates the two ends of
a connection and the two queues between them (`Agreed`): the responder is never ahead of the
initiator, and on the wire the confirmation comes before the session key and that before
data (`Ordered`). Whatever is under way then arrives at an end that will
have read what it needs by that time (`NothingTrustedLost`).

### Notify

`NoGhost` is inductive with the types: what keeps it so is that every removal takes a client
out of all sets between two awaits.

### Only model-checked

- Liveness (`PoolDrains`, `Delivered`, `HandshakeEnds`, `HalfOpenEnds`,
  `ProductionResumes`, `CatchesUp`, `NotifyEnds`, `LeftAlone`), which the prover does not reach.
- `DisplacedKept` of `Blockchain`, a property of the order in which a whole set of transactions
  comes back, and `FirstPenaltyOnly` of `Gossip`, which holds in networks without cycles and would
  need a theory of paths.
- `StakesRebuilt` of `Store`, and its other three invariants outside of
  `QuietStore`; the two of `Registry`. Stakes and registries are rebuilt by library folds over all
  blocks of the chain, which the prover cannot unfold, and compared with what was kept
  incrementally.
- The ledger outside the hypotheses of section 4: what rollbacks leave when an unbonding
  matured or a stake was taken back, which the run `LedgerReorg` checks for one UNSTAKE per
  block, and `SupplyConserved` when a block raises in `produce_block` (run `LedgerEpoch`).

## 5. Plan

Done: `Blockchain`, `Ledger`, `Gossip` with `Replica`, `Session`, `Sync`, `Notify` and
`Store` with their proofs, `Registry`. Left, in this order:

1. Proofs: UNSTAKE in `RollbackExact` and `QuietStore`.
2. `Consensus`: the frozen set, revocation and slashing against the draw; does the
   chain always have a producer? `Fees`: base fee and selection, and the pool under
   dynamic fees.
3. `Store` further: receipts, tokens and registries; refinement of an abstract store
   whose append is atomic.

## 6. Not modelled

- Cryptography, hashing, serialization and proofs: signatures verify or not, hashes are
  injective; nothing about their bytes is within TLC's reach.
- RPC and REST: they translate requests into the methods modelled here. The locks on
  wallets enclose no await, so a handler is atomic up to its broadcast. Command line,
  SDK and web clients are callers.
- Wallet files, TLS renewal, metrics: input and output without protocol state.
- The arithmetic of token buckets, the decay of scores and the limit on handshakes per
  address: the models leave open when a limit strikes. Of the exchange of peer addresses
  there is what it leads to, dials at any time; the messages are not modelled.
- The draw of a validator, time stamps, skipped slots, base fee and block weight (plan, 2);
  the tables of SQLite that `Store` does not have, the JSON file and its migration; finality.
