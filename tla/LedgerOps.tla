----------------------------- MODULE LedgerOps ------------------------------
(***************************************************************************)
(* The financial state of a node as a value, and each piece of the code    *)
(* that changes it as an operator from ledgers to ledgers: how             *)
(* _append_block_inner applies a block and _rollback_block takes one back  *)
(* (core/blockchain.py, rollback.py, ledger.py, staking.py, state_ops.py). *)
(*                                                                         *)
(* A ValueError is the field ok turning FALSE, after which the rest of the *)
(* forward path does nothing: the record is then what the exception leaves *)
(* behind.                                                                 *)
(*                                                                         *)
(* A transaction is a record [type, from, to, amount, nonce]; "to" is the  *)
(* recipient of a TRANSFER and the validator of the staking types.  STAKE  *)
(* stands for DELEGATE too.  The nonces on a chain are counted here;       *)
(* module Blockchain shows that counting them is what the code does.       *)
(***************************************************************************)
EXTENDS Integers, SequencesExt, Selection

CONSTANTS
    Addr, Validator,        \* addresses, and the registered validators
    Self,                   \* the genesis validator
    Tx,                     \* the transactions that clients may sign
    TX_FEES,                \* [type -> fee]
    DynamicFee,             \* TRUE: fees go to the validator, none is burned
    INITIAL_BLOCK_REWARD, HALVING_INTERVAL, MAX_SUPPLY, GENESIS_BALANCE,
    UNBONDING_PERIOD, EPOCH_LENGTH, COMMISSION, SLASH_PERCENTAGE, MIN_STAKE,
    MAX_REORG_DEPTH

Types == {"TRANSFER", "STAKE", "UNSTAKE", "EVIDENCE"}

ASSUME LedgerAssumption ==
    /\ Self \in Validator /\ Validator \subseteq Addr /\ IsFiniteSet(Addr)
    /\ \A t \in Tx : /\ t.type \in Types /\ t.from \in Addr
                     /\ t.amount \in Nat /\ t.nonce \in Nat
                     /\ t.to \in IF t.type = "TRANSFER" THEN Addr ELSE Validator
    /\ TX_FEES \in [Types -> Nat]
    /\ DynamicFee \in BOOLEAN
    /\ INITIAL_BLOCK_REWARD \in Nat /\ HALVING_INTERVAL \in Nat \ {0}
    /\ MAX_SUPPLY \in Nat /\ GENESIS_BALANCE \in 0..MAX_SUPPLY
    /\ UNBONDING_PERIOD \in Nat /\ EPOCH_LENGTH \in Nat \ {0} /\ MIN_STAKE \in Nat
    /\ COMMISSION \in 0..100 /\ SLASH_PERCENTAGE \in 0..100
    /\ MAX_REORG_DEPTH \in Nat

-----------------------------------------------------------------------------
(* The transactions on a chain of blocks *)

Mined(chain) == UNION {Range(chain[i].txs) : i \in 1..Len(chain)}

NextNonce(chain, a) == Cardinality({t \in Mined(chain) : t.from = a})

\* The rule of validate_block: what a sender has in a block goes on from what
\* it has on the chain.
NoncesFollow(chain, txs) ==
    \A i \in 1..Len(txs) :
        LET before == {j \in 1..(i - 1) : txs[j].from = txs[i].from}
        IN  txs[i].nonce = NextNonce(chain, txs[i].from) + Cardinality(before)

-----------------------------------------------------------------------------
(* Balances *)

_credit(L, a, n) == IF L.ok THEN [L EXCEPT !.bal[a] = @ + n] ELSE L

_debit(L, a, n) ==
    IF L.ok /\ L.bal[a] >= n THEN [L EXCEPT !.bal[a] = @ - n]
                             ELSE [L EXCEPT !.ok = FALSE]

\* Balances may be negative in the middle of a rollback.
_rollback_debit(L, a, n) == [L EXCEPT !.bal[a] = @ - n]

\* Faulty variants, named after the definition each would stand in for, are
\* plausible bugs of that definition; no specification uses them.

\* INITIAL_BLOCK_REWARD >> n
Halved[n \in Nat] == IF n = 0 THEN INITIAL_BLOCK_REWARD ELSE Halved[n - 1] \div 2

\* Fault: the supply cap is forgotten.
_calc_block_reward_NoCap(L, idx) == Halved[idx \div HALVING_INTERVAL]

\* The reward that is due at idx when L.minted has been minted already.
_calc_block_reward(L, idx) ==
    Min({Halved[idx \div HALVING_INTERVAL], Max({0, MAX_SUPPLY - L.minted})})

ValidatorShare(fee) == IF DynamicFee THEN fee ELSE fee \div 2

Burn(fee) == IF DynamicFee THEN 0 ELSE fee - fee \div 2

PayFee(L, v, t) ==
    LET fee  == TX_FEES[t.type]
        paid == _debit(L, t.from, fee)
    IN  IF paid.ok
        THEN [_credit(paid, v, ValidatorShare(fee)) EXCEPT !.burned = @ + Burn(fee)]
        ELSE paid

MoveFunds(L, t) ==
    CASE t.type = "TRANSFER" -> _credit(_debit(L, t.from, t.amount), t.to, t.amount)
      [] t.type = "STAKE"    -> _debit(L, t.from, t.amount)
      [] OTHER               -> L

-----------------------------------------------------------------------------
(* Stakes *)

Stake(L, t) ==
    [L EXCEPT !.stakes[t.to][t.from] = @ + t.amount, !.total[t.to] = @ + t.amount]

Unbonding(t, idx) == [staker |-> t.from, validator |-> t.to, amount |-> t.amount,
                      release |-> idx + UNBONDING_PERIOD]

\* Fault: the weight of the validator keeps what was taken back.
Unstake_KeepTotal(L, t, idx) ==
    [L EXCEPT !.stakes[t.to][t.from] = Max({0, @ - t.amount}),
              !.unbonding = Append(@, Unbonding(t, idx))]

\* The stake is clamped at zero, the unbonding entry holds the full amount.
Unstake(L, t, idx) ==
    [L EXCEPT !.stakes[t.to][t.from] = Max({0, @ - t.amount}),
              !.total[t.to] = Max({0, @ - t.amount}),
              !.unbonding = Append(@, Unbonding(t, idx))]

\* Half, rounded down, but at least one.
SlashOf(n) == IF n > 0 THEN Max({1, (n * SLASH_PERCENTAGE) \div 100}) ELSE 0

\* _process_evidence_tx, once both signatures are verified.  A validator left
\* below MIN_STAKE loses every stake.
Slash(L, t) ==
    LET v == t.to
        left == L.total[v] - SlashOf(L.total[v])
        kept == [s \in Addr |-> L.stakes[v][s] - SlashOf(L.stakes[v][s])]
        out == left < MIN_STAKE
    IN  IF v \in L.slashed
        THEN L
        ELSE [L EXCEPT !.total[v] = IF out THEN 0 ELSE left,
                       !.stakes[v] = IF out THEN [s \in Addr |-> 0] ELSE kept,
                       !.slashed = @ \cup {v},
                       !.known = IF out THEN @ \ {v} ELSE @,
                       !.frozen = IF out THEN @ \ {v} ELSE @]

\* Each mature entry is credited to its staker.
_process_mature_unbondings(L, idx) ==
    LET all    == 1..Len(L.unbonding)
        mature == {i \in all : L.unbonding[i].release <= idx}
        due(a) == SumFunction([i \in {j \in mature : L.unbonding[j].staker = a} |->
                                    L.unbonding[i].amount])
    IN  [L EXCEPT !.bal = [a \in Addr |-> @[a] + due(a)],
                  !.unbonding = Select(@, all \ mature)]

\* What the delegators of v are owed out of its epoch rewards: the part after
\* commission, or the balance of v if that is less, in proportion to stakes.
Shares(L, v) ==
    LET delegators == {a \in Addr \ {v} : L.stakes[v][a] > 0}
        delegated  == SumFunctionOnSet(L.stakes[v], delegators)
        pool == Min({L.rewards[v] - (L.rewards[v] * COMMISSION) \div 100, L.bal[v]})
    IN  [a \in Addr |-> IF a \in delegators
                        THEN (pool * L.stakes[v][a]) \div delegated ELSE 0]

\* Fault: the validator keeps what its delegators receive.
_distribute_epoch_rewards_NoDebit(L, epoch) ==
    LET share == [v \in Validator |-> Shares(L, v)]
        got(a)  == SumFunction([v \in Validator |-> share[v][a]])
    IN  [L EXCEPT !.bal = [a \in Addr |-> @[a] + got(a)],
                  !.rewards = [v \in Validator |-> 0],
                  !.dists = [e \in DOMAIN @ \cup {epoch} |->
                        IF e = epoch THEN share ELSE @[e]]]

\* Only delegators of a validator receive from it, so that its own balance is
\* not below the snapshot when its turn comes and the order does not matter.
_distribute_epoch_rewards(L, epoch) ==
    LET share == [v \in Validator |-> Shares(L, v)]
        got(a)  == SumFunction([v \in Validator |-> share[v][a]])
        gave(a) == IF a \in Validator THEN SumFunction(share[a]) ELSE 0
    IN  [L EXCEPT !.bal = [a \in Addr |-> @[a] + got(a) - gave(a)],
                  !.rewards = [v \in Validator |-> 0],
                  !.dists = [e \in DOMAIN @ \cup {epoch} |->
                        IF e = epoch THEN share ELSE @[e]]]

_get_live_validators(L) == {v \in Validator : L.total[v] > 0}

\* A new epoch pays out the rewards of the last one and freezes the validators.
_check_epoch_transition(L, idx) ==
    LET new == idx \div EPOCH_LENGTH
    IN  IF new > L.epoch
        THEN [_distribute_epoch_rewards(L, new - 1) EXCEPT
                !.epoch = new,
                !.frozen = _get_live_validators(L),
                !.epochs = [e \in DOMAIN @ \cup {new} |->
                    IF e = new THEN _get_live_validators(L) ELSE @[e]]]
        ELSE L

\* Whose turn it may be: the draw is by stake among the frozen or the live
\* validators; without any, the turns go round by index and time.
select_validator(L) ==
    LET live == _get_live_validators(L)
    IN  IF L.frozen # {} THEN L.frozen ELSE IF live # {} THEN live ELSE L.known

\* A block that validate_block accepts on top of chain and L, as far as it looks
\* at validators and nonces.
validate_block(L, chain, b) ==
    /\ DynamicFee \/ b.txs # <<>>
    /\ b.validator \in select_validator(L) \cap L.known
    /\ NoncesFollow(chain, b.txs)

-----------------------------------------------------------------------------
(* A block, forwards *)

ApplyTx(L, v, idx, t) ==
    LET M == MoveFunds(PayFee(L, v, t), t)
    IN  CASE M.ok /\ t.type = "STAKE"    -> Stake(M, t)
          [] M.ok /\ t.type = "UNSTAKE"  -> Unstake(M, t, idx)
          [] M.ok /\ t.type = "EVIDENCE" -> Slash(M, t)
          [] OTHER                       -> M

PayReward(L, v, idx) ==
    LET reward == _calc_block_reward(L, idx)
    IN  IF L.ok THEN [L EXCEPT !.bal[v] = @ + reward, !.minted = @ + reward,
                               !.rewards[v] = @ + reward]
                ELSE L

\* The ledgers that the first n transactions of a block leave, for each n.
AfterTxs(L, v, idx, txs) ==
    LET after[n \in 0..Len(txs)] ==
            IF n = 0 THEN L ELSE ApplyTx(after[n - 1], v, idx, txs[n])
    IN  after

\* _append_block_inner up to the comparison of the roots: unbondings and the
\* epoch come before the transactions (R32-F04), the reward after them.
Applied(L, b, idx) ==
    LET M == _check_epoch_transition(_process_mature_unbondings(L, idx), idx)
        N == AfterTxs(M, b.validator, idx, b.txs)[Len(b.txs)]
    IN  PayReward(N, b.validator, idx)

\* The records of the epochs numbered below a block index are forgotten.
PruneDistributions(L, idx) ==
    LET before == idx - MAX_REORG_DEPTH - 1
    IN  IF before >= 0
        THEN [L EXCEPT !.dists = [e \in {d \in DOMAIN @ : d >= before} |-> @[e]]]
        ELSE L

-----------------------------------------------------------------------------
(* A block, backwards *)

UndoReward(L, v, idx) ==
    LET reward == _calc_block_reward(L, idx)
    IN  [_rollback_debit(L, v, reward) EXCEPT
            !.minted = @ - reward, !.rewards[v] = Max({0, @ - reward})]

UndoFee(L, v, t) ==
    LET fee == TX_FEES[t.type]
        M == _rollback_debit(L, v, ValidatorShare(fee))
    IN  [M EXCEPT !.burned = @ - Burn(fee), !.bal[t.from] = @ + fee]

UndoFunds(L, t) ==
    CASE t.type = "TRANSFER" ->
            [_rollback_debit(L, t.to, t.amount) EXCEPT !.bal[t.from] = @ + t.amount]
      [] t.type = "STAKE" -> [L EXCEPT !.bal[t.from] = @ + t.amount]
      [] OTHER -> L

\* Taking back an EVIDENCE only forgets that the validator was slashed.
UndoStake(L, idx, t) ==
    CASE t.type = "STAKE" ->
            [L EXCEPT !.stakes[t.to][t.from] = Max({0, @ - t.amount}),
                      !.total[t.to] = Max({0, @ - t.amount})]
      [] t.type = "UNSTAKE" ->
            [Stake(L, t) EXCEPT !.unbonding =
                Select(@, {i \in 1..Len(@) : @[i] # Unbonding(t, idx)})]
      [] t.type = "EVIDENCE" -> [L EXCEPT !.slashed = @ \ {t.to}]
      [] OTHER -> L

\* The distribution made when the epoch began is reversed if still on record.
UndoEpoch(L, idx) ==
    LET last == idx \div EPOCH_LENGTH - 1
        share == IF last \in DOMAIN L.dists THEN L.dists[last]
                 ELSE [v \in Validator |-> [a \in Addr |-> 0]]
        got(a)  == SumFunction([v \in Validator |-> share[v][a]])
        gave(a) == IF a \in Validator THEN SumFunction(share[a]) ELSE 0
    IN  IF idx % EPOCH_LENGTH = 0
        THEN [L EXCEPT !.bal = [a \in Addr |-> @[a] - got(a) + gave(a)],
                       !.dists = [e \in DOMAIN @ \ {last} |-> @[e]],
                       !.epoch = last,
                       !.frozen = IF last \in DOMAIN L.epochs THEN L.epochs[last] ELSE {},
                       !.epochs = [e \in DOMAIN @ \ {last + 1} |-> @[e]]]
        ELSE L

\* The ledgers that are left when the funds and fees of the last n transactions
\* of a block are taken back, the last one first.
FundsUndone(L, v, txs) ==
    LET undone[n \in 0..Len(txs)] ==
            IF n = 0 THEN L
            ELSE LET t == txs[Len(txs) + 1 - n]
                 IN  UndoFee(UndoFunds(undone[n - 1], t), v, t)
    IN  undone

\* Those that are left when the stakes of the first n are.
StakesUndone(L, idx, txs) ==
    LET undone[n \in 0..Len(txs)] ==
            IF n = 0 THEN L ELSE UndoStake(undone[n - 1], idx, txs[n])
    IN  undone

\* The reward, the funds and fees last to first, the stakes first to last, the
\* epoch.  Matured unbondings are not brought back.
_rollback_block(L, b, idx) ==
    LET K == UndoReward(L, b.validator, idx)
        M == FundsUndone(K, b.validator, b.txs)[Len(b.txs)]
        N == StakesUndone(M, idx, b.txs)[Len(b.txs)]
    IN  UndoEpoch(N, idx)

\* The ledgers that are left when n blocks of a chain are rolled back.
BlocksUndone(L, chain) ==
    LET undone[n \in 0..Len(chain)] ==
            IF n = 0 THEN L
            ELSE LET i == Len(chain) + 1 - n
                 IN  _rollback_block(undone[n - 1], chain[i], i)
    IN  undone

-----------------------------------------------------------------------------
(* The trie *)

\* The balances that _rebuild_state_trie stores: it skips negative ones.
Trie(L) == [a \in Addr |-> Max({0, L.bal[a]})]

-----------------------------------------------------------------------------
(* The pool and genesis *)

Debit(t) == TX_FEES[t.type] + IF t.type \in {"TRANSFER", "STAKE"} THEN t.amount ELSE 0

\* Genesis gives the validator a stake that nothing is debited for (init_chain)
\* and a balance (activate_financial_layer).  Its own epoch was frozen before
\* there was a stake.
Genesis ==
    [ok |-> TRUE,
     bal |-> [a \in Addr |-> IF a = Self THEN GENESIS_BALANCE ELSE 0],
     stakes |-> [v \in Validator |-> [a \in Addr |->
                    IF v = Self /\ a = Self THEN MIN_STAKE ELSE 0]],
     total |-> [v \in Validator |-> IF v = Self THEN MIN_STAKE ELSE 0],
     unbonding |-> <<>>,
     minted |-> GENESIS_BALANCE,
     burned |-> 0,
     rewards |-> [v \in Validator |-> 0],
     dists |-> [e \in {} |-> 0],
     epoch |-> 0,
     frozen |-> {},
     epochs |-> [e \in {0} |-> {}],
     slashed |-> {},
     known |-> Validator]

=============================================================================
