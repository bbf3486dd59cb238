------------------------------ MODULE Registry ------------------------------
(***************************************************************************)
(* What blocks leave in the registries of a node (core/blockchain.py):     *)
(* notarizations, encryption keys, validators and revocations, tokens, and *)
(* receipts with their events; how _rollback_block takes it out again      *)
(* (core/rollback.py); and what submit_tx asks of the token transactions   *)
(* in the pool (core/tx_pool.py).  Balances, nonces and the revocation of  *)
(* signing keys are in Ledger and Blockchain; the node keeps its chain in  *)
(* memory, and every token is transferable.                                *)
(*                                                                         *)
(* A transaction is [type, sender, nonce, arg, to, amount], where arg is   *)
(* the document, key, key type, symbol or token id.  The id of a token is  *)
(* <<issuer, symbol, nonce>>: the hash is taken to be injective.           *)
(***************************************************************************)
EXTENDS Integers, Sequences, SequencesExt, FiniteSets, FiniteSetsExt

CONSTANTS
    Addr,
    Tx,
    None,
    MAX_TX_PER_BLOCK,
    MAX_REORG_DEPTH,
    MAX_TOKEN_AMOUNT,   \* the most that may be minted of a token: 2**63 - 1
    MaxHeight,          \* bound: blocks on the chain
    MaxPool,            \* bound: transactions in the pool
    MaxRollback         \* bound: blocks that a reorganization takes back

Types == {"NOTARIZE", "REGISTER_KEY", "REGISTER_VALIDATOR", "REVOKE_KEY",
          "ISSUE_TOKEN", "MINT_TOKEN", "TRANSFER_TOKEN"}

ASSUME RegistryAssumption ==
    /\ \A t \in Tx : /\ t.type \in Types /\ t.sender \in Addr
                     /\ t.nonce \in Nat /\ t.amount \in Nat
    /\ {MAX_TX_PER_BLOCK, MAX_REORG_DEPTH, MAX_TOKEN_AMOUNT} \subseteq Nat \ {0}
    /\ {MaxHeight, MaxPool} \subseteq Nat
    /\ MaxRollback \in 0..MAX_REORG_DEPTH

VARIABLES
    chain,      \* the blocks after genesis, sequences of transactions
    pool,       \* tx_pool
    reg,        \* the registries
    raised      \* has produce_block ever failed?  (for the properties)

vars == <<chain, pool, reg, raised>>

Of(type) == {t \in Tx : t.type = type}

Doc == {t.arg : t \in Of("NOTARIZE")}

Symbol == {t.arg : t \in Of("ISSUE_TOKEN")}

TokenId(t) == <<t.sender, t.arg, t.nonce>>

Token == {TokenId(t) : t \in Of("ISSUE_TOKEN")}

\* The max_supply that a token was issued with, or 0.
max_supply(id) == (CHOOSE t \in Of("ISSUE_TOKEN") : TokenId(t) = id).amount

Empty ==
    [notarizations |-> [d \in Doc |-> None],            \* the first one
     by_hash       |-> [d \in Doc |-> <<>>],            \* all of them
     count         |-> [a \in Addr |-> 0],              \* _notarization_count
     key           |-> [a \in Addr |-> None],           \* _key_registry
     history       |-> [a \in Addr |-> <<>>],           \* _key_history
     validators    |-> {},
     commission    |-> [a \in Addr |-> None],
     revoked       |-> {},
     minted        |-> [i \in Token |-> -1],            \* -1: no such token
     by_symbol     |-> [s \in Symbol |-> None],
     balance       |-> [h \in Token \X Addr |-> 0],
     holders       |-> {},                              \* _holders_by_token
     receipts      |-> [t \in Tx |-> 0],                \* the block, or 0
     events        |-> [y \in Types |-> <<>>]]          \* _events_by_type

-----------------------------------------------------------------------------
(* A transaction of a block *)

\* _update_token_index keeps the holders in step with a balance.
SetBalance(r, h, n) ==
    [r EXCEPT !.balance[h] = n,
              !.holders = IF n > 0 THEN @ \cup {h} ELSE @ \ {h}]

\* ValueError: the block is not appended.
Raises(r, t) ==
    \/ /\ t.type = "ISSUE_TOKEN"
       /\ r.by_symbol[t.arg] # None \/ r.minted[TokenId(t)] >= 0
    \/ /\ t.type = "MINT_TOKEN"
       /\ \/ r.minted[t.arg] < 0
          \/ t.arg[1] # t.sender
          \/ r.minted[t.arg] + t.amount > MAX_TOKEN_AMOUNT
          \/ /\ max_supply(t.arg) > 0
             /\ r.minted[t.arg] + t.amount > max_supply(t.arg)
    \/ /\ t.type = "TRANSFER_TOKEN"
       /\ r.minted[t.arg] < 0 \/ r.balance[<<t.arg, t.sender>>] < t.amount

notarize(r, t) ==
    [r EXCEPT !.notarizations[t.arg] = IF @ = None THEN t ELSE @,
              !.by_hash[t.arg] = Append(@, t),
              !.count[t.sender] = @ + 1]

register_key(r, t) ==
    [r EXCEPT !.history[t.sender] = Append(@, t.arg), !.key[t.sender] = t.arg]

\* The first registration wins; a second one changes the commission only.
register_validator(r, t) ==
    [r EXCEPT !.validators = @ \cup {t.sender}, !.commission[t.sender] = t.amount]

revoke_key(r, t) ==
    [r EXCEPT !.revoked = @ \cup {<<t.sender, t.arg>>},
              !.validators = IF t.arg = "validator" THEN @ \ {t.sender} ELSE @]

issue_token(r, t) ==
    [r EXCEPT !.minted[TokenId(t)] = 0, !.by_symbol[t.arg] = TokenId(t)]

mint_token(r, t) ==
    LET h == <<t.arg, t.to>>
    IN SetBalance([r EXCEPT !.minted[t.arg] = @ + t.amount], h, r.balance[h] + t.amount)

transfer_token(r, t) ==
    LET src == <<t.arg, t.sender>>
        dst == <<t.arg, t.to>>
        q == SetBalance(r, src, r.balance[src] - t.amount)
    IN SetBalance(q, dst, q.balance[dst] + t.amount)

Process(r, t) ==
    CASE t.type = "NOTARIZE"           -> notarize(r, t)
      [] t.type = "REGISTER_KEY"       -> register_key(r, t)
      [] t.type = "REGISTER_VALIDATOR" -> register_validator(r, t)
      [] t.type = "REVOKE_KEY"         -> revoke_key(r, t)
      [] t.type = "ISSUE_TOKEN"        -> issue_token(r, t)
      [] t.type = "MINT_TOKEN"         -> mint_token(r, t)
      [] t.type = "TRANSFER_TOKEN"     -> transfer_token(r, t)

\* The receipts of a block are written when all of it is processed.
add_receipts(r, b, idx) ==
    FoldLeft(LAMBDA q, t : [q EXCEPT !.receipts[t] = idx, !.events[t.type] = Append(@, t)],
             r, b)

Without(s, gone) == SelectSeq(s, LAMBDA t : t \notin gone)

drop_receipts(r, b) ==
    [r EXCEPT !.receipts = [t \in Tx |-> IF t \in ToSet(b) THEN 0 ELSE @[t]],
              !.events = [y \in Types |-> Without(@[y], ToSet(b))]]

\* What is older than a reorganization can reach goes from memory.
prune(r, c) ==
    LET old == Len(c) - MAX_REORG_DEPTH - 1
    IN IF old > 0 THEN drop_receipts(r, c[old]) ELSE r

-----------------------------------------------------------------------------
(* Taking a transaction out again; scan is the chain that is looked through *)

undo_notarize(r, t) ==
    LET left == RemoveFirst(r.by_hash[t.arg], t)
        held == IF r.notarizations[t.arg] = t THEN None ELSE r.notarizations[t.arg]
    IN [r EXCEPT !.by_hash[t.arg] = left,
                 !.notarizations[t.arg] =
                     IF held = None /\ left # <<>> THEN Head(left) ELSE held,
                 !.count[t.sender] = Max({@ - 1, 0})]

undo_register_key(r, t) ==
    LET left == RemoveFirst(r.history[t.sender], t.arg)
    IN [r EXCEPT !.history[t.sender] = left,
                 !.key[t.sender] = IF left = <<>> THEN None ELSE Last(left)]

undo_register_validator(r, t) == [r EXCEPT !.validators = @ \ {t.sender}]

\* _find_validator_pk_in_chain
Registered(a, scan) ==
    \E i \in 1..Len(scan) : \E t \in ToSet(scan[i]) :
        t.type = "REGISTER_VALIDATOR" /\ t.sender = a

\* Fault: the validator is not put back.
undo_revoke_key_only(r, t, scan) == [r EXCEPT !.revoked = @ \ {<<t.sender, t.arg>>}]

undo_revoke_key(r, t, scan) ==
    LET was == <<t.sender, t.arg>> \in r.revoked
    IN [r EXCEPT !.revoked = @ \ {<<t.sender, t.arg>>},
                 !.validators = IF was /\ t.arg = "validator" /\ Registered(t.sender, scan)
                                THEN @ \cup {t.sender} ELSE @]

undo_issue_token(r, t) ==
    [r EXCEPT !.minted[TokenId(t)] = -1,
              !.by_symbol[t.arg] = None,
              !.balance = [h \in Token \X Addr |-> IF h[1] = TokenId(t) THEN 0 ELSE @[h]],
              !.holders = {h \in @ : h[1] # TokenId(t)}]

undo_mint_token(r, t) ==
    LET h == <<t.arg, t.to>>
    IN SetBalance([r EXCEPT !.minted[t.arg] = IF @ >= 0 THEN Max({@ - t.amount, 0}) ELSE @],
                  h, Max({r.balance[h] - t.amount, 0}))

\* Fault: the recipient keeps what it got.
undo_transfer_token_credit(r, t) ==
    LET src == <<t.arg, t.sender>> IN SetBalance(r, src, r.balance[src] + t.amount)

undo_transfer_token(r, t) ==
    LET src == <<t.arg, t.sender>>
        dst == <<t.arg, t.to>>
        q == SetBalance(r, dst, Max({r.balance[dst] - t.amount, 0}))
    IN SetBalance(q, src, q.balance[src] + t.amount)

Undo(r, t, scan) ==
    CASE t.type = "NOTARIZE"           -> undo_notarize(r, t)
      [] t.type = "REGISTER_KEY"       -> undo_register_key(r, t)
      [] t.type = "REGISTER_VALIDATOR" -> undo_register_validator(r, t)
      [] t.type = "REVOKE_KEY"         -> undo_revoke_key(r, t, scan)
      [] t.type = "ISSUE_TOKEN"        -> undo_issue_token(r, t)
      [] t.type = "MINT_TOKEN"         -> undo_mint_token(r, t)
      [] t.type = "TRANSFER_TOKEN"     -> undo_transfer_token(r, t)

\* _rollback_block takes the transactions in the order of the block.
rollback_block(r, b, scan) ==
    FoldLeft(LAMBDA q, t : Undo(q, t, scan), drop_receipts(r, b), b)

-----------------------------------------------------------------------------
(* Blocks *)

\* A node that has appended or failed to append: [reg, chain, ok].
Node(r, c, ok) == [reg |-> r, chain |-> c, ok |-> ok]

\* The part of the state root that tokens have.
Root(r) == <<r.minted, r.balance>>

\* _append_block_inner_safe: when a transaction raises, or the root is not
\* the one that the block claims, the whole block is rolled back, also the
\* transactions that were not reached.  A produced block claims no root.
append_block(n, b, root) ==
    LET c == Append(n.chain, b)
        step(q, t) == IF ~ q.ok \/ Raises(q.reg, t) THEN [q EXCEPT !.ok = FALSE]
                      ELSE [q EXCEPT !.reg = Process(q.reg, t)]
        done == FoldLeft(step, Node(n.reg, c, TRUE), b)
        logged == IF done.ok THEN add_receipts(done.reg, b, Len(c)) ELSE done.reg
    IN IF done.ok /\ root \in {None, Root(logged)}
       THEN Node(prune(logged, c), c, TRUE)
       ELSE Node(rollback_block(logged, b, c), n.chain, FALSE)

Mined(c) == UNION {ToSet(c[i]) : i \in 1..Len(c)}

\* get_nonce: one more than the last one on the chain (see Blockchain).
get_nonce(c, a) == Cardinality({t \in Mined(c) : t.sender = a})

From(s, a) == SelectSeq(s, LAMBDA t : t.sender = a)

\* What validate_block asks of the transactions: they are new, and the
\* nonces of each sender go on from the chain.
validate_block(c, b) ==
    /\ b # <<>>
    /\ ToSet(b) \cap Mined(c) = {}
    /\ \A k \in 1..Len(b) :
          b[k].nonce = get_nonce(c, b[k].sender) + Len(From(SubSeq(b, 1, k - 1), b[k].sender))

Total(s) == FoldLeft(LAMBDA n, t : n + t.amount, 0, s)

Pending(p, type, arg) == SelectSeq(p, LAMBDA t : t.type = type /\ t.arg = arg)

\* What submit_tx asks with p in the pool.
admits(r, c, p, t) ==
    /\ t \notin ToSet(p) \cup Mined(c)
    /\ t.nonce = get_nonce(c, t.sender) + Len(From(p, t.sender))
    /\ t.type = "REVOKE_KEY" => <<t.sender, t.arg>> \notin r.revoked
    /\ t.type = "ISSUE_TOKEN" =>
          r.by_symbol[t.arg] = None /\ Pending(p, "ISSUE_TOKEN", t.arg) = <<>>
    /\ t.type = "MINT_TOKEN" =>
          /\ r.minted[t.arg] >= 0 /\ t.arg[1] = t.sender
          /\ max_supply(t.arg) > 0 =>
                r.minted[t.arg] + Total(Pending(p, "MINT_TOKEN", t.arg)) + t.amount
                    <= max_supply(t.arg)
    /\ t.type = "TRANSFER_TOKEN" =>
          /\ r.minted[t.arg] >= 0
          /\ r.balance[<<t.arg, t.sender>>]
                - Total(From(Pending(p, "TRANSFER_TOKEN", t.arg), t.sender)) >= t.amount

\* The chain replayed from genesis: what the registries should hold, and
\* what the node has that produced the last block of c.
Replay(c) == FoldLeft(LAMBDA n, b : append_block(n, b, None), Node(Empty, <<>>, TRUE), c)

\* The blocks that another validator with chain c may produce next.
Foreign(c) ==
    LET n == Replay(c)
        near == {t \in Tx : t.nonce - get_nonce(c, t.sender) \in 0..(MAX_TX_PER_BLOCK - 1)}
    IN {b \in BoundedSeq(near, MAX_TX_PER_BLOCK) :
            /\ validate_block(c, b)
            /\ \A k \in 1..Len(b) : admits(n.reg, c, SubSeq(b, 1, k - 1), b[k])
            /\ append_block(n, b, None).ok}

\* A block from the network: its header carries the root of its producer.
receive(n, b) == append_block(n, b, Root(Replay(Append(n.chain, b)).reg))

-----------------------------------------------------------------------------
Init ==
    /\ chain = <<>> /\ pool = <<>>
    /\ reg = Empty
    /\ raised = FALSE

Here == Node(reg, chain, TRUE)

Become(n) == reg' = n.reg /\ chain' = n.chain

drain_pool(b) == Without(pool, ToSet(b))

submit_tx(t) ==
    /\ Len(pool) < MaxPool
    /\ admits(reg, chain, pool, t)
    /\ pool' = Append(pool, t)
    /\ UNCHANGED <<chain, reg, raised>>

\* An error is logged, and the pool stays as it is.
produce_block ==
    LET b == SubSeq(pool, 1, Min({Len(pool), MAX_TX_PER_BLOCK}))
        n == append_block(Here, b, None)
    IN /\ Len(chain) < MaxHeight
       /\ validate_block(chain, b)
       /\ Become(n)
       /\ pool' = IF n.ok THEN drain_pool(b) ELSE pool
       /\ raised' = (raised \/ ~ n.ok)

add_block ==
    /\ Len(chain) < MaxHeight
    /\ \E b \in Foreign(chain) :
          LET n == receive(Here, b)
          IN /\ Become(n)
             /\ pool' = IF n.ok THEN drain_pool(b) ELSE pool
    /\ UNCHANGED raised

\* _rollback_to: from the tip down; a block is off the chain when it is
\* rolled back.
rollback_to(n, k) ==
    FoldLeft(LAMBDA m, b : Node(rollback_block(m.reg, b, Front(m.chain)), Front(m.chain), m.ok),
             n, Reverse(SubSeq(n.chain, k + 1, Len(n.chain))))

\* Forks of d blocks from chain c on.
Forks(c, d) ==
    IF d = 1 THEN {<<b>> : b \in Foreign(c)}
    ELSE UNION {{<<b>> \o <<e>> : e \in Foreign(Append(c, b))} : b \in Foreign(c)}

\* The displaced transactions that go back to the pool, by sender and nonce.
returned(n, displaced) ==
    FoldLeft(LAMBDA p, t :
                IF t \notin Mined(n.chain)
                   /\ t.nonce = get_nonce(n.chain, t.sender) + Len(From(p, t.sender))
                THEN Append(p, t) ELSE p,
             pool, SetToSortSeq(displaced, LAMBDA t, u : t.nonce < u.nonce))

\* The fork is one block longer.  If a block of it is refused, the node goes
\* back to the block it had.  In the code that block still has the roots it was
\* stamped with and is compared with them; the model's chain keeps no roots.
try_reorg ==
    /\ MaxRollback > 0 /\ Len(chain) \in 1..(MaxHeight - 1)
    /\ LET fork_start == Len(chain) - 1
           displaced == ToSet(Last(chain))
           back == rollback_to(Here, fork_start)
       IN \E fork \in Forks(back.chain, 2) :
            LET n1 == receive(back, fork[1])
                n2 == receive(n1, fork[2])
                base == IF n1.ok THEN rollback_to(n1, fork_start) ELSE n1
            IN IF n1.ok /\ n2.ok
               THEN Become(n2) /\ pool' = returned(n2, displaced)
               ELSE Become(append_block(base, Last(chain), None)) /\ UNCHANGED pool
    /\ UNCHANGED raised

Next == (\E t \in Tx : submit_tx(t)) \/ produce_block \/ add_block \/ try_reorg

Spec == Init /\ [][Next]_vars

-----------------------------------------------------------------------------
(* Properties *)

Exact(fields) == LET r == Replay(chain).reg IN \A f \in fields : reg[f] = r[f]

\* Until produce_block fails, the registries are what the blocks on the chain
\* say, whatever was applied and rolled back before: the first notarization,
\* the last key, the validators and their revocations.  A receipt is that of
\* a transaction on the chain, in its block, and the events are in order.
RegistriesExact ==
    ~ raised =>
        /\ Exact({"notarizations", "by_hash", "count", "key", "history",
                  "validators", "revoked"})
        /\ \A t \in Tx : reg.receipts[t] # 0 => t \in ToSet(chain[reg.receipts[t]])
        /\ chain # <<>> => \A t \in ToSet(Last(chain)) : reg.receipts[t] = Len(chain)
        /\ \A y \in Types :
              /\ ToSet(reg.events[y]) = {t \in Of(y) : reg.receipts[t] # 0}
              /\ \A i, j \in 1..Len(reg.events[y]) :
                    i < j => /\ reg.events[y][i] # reg.events[y][j]
                             /\ reg.receipts[reg.events[y][i]] <= reg.receipts[reg.events[y][j]]

\* Until produce_block fails, tokens, symbols, balances and holders are what the
\* blocks on the chain say.
TokensExact ==
    ~ raised => Exact({"minted", "by_symbol", "balance", "holders"})

=============================================================================
