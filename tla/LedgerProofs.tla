---------------------------- MODULE LedgerProofs ----------------------------
(***************************************************************************)
(* Theorems about module Ledger.                                           *)
(***************************************************************************)
EXTENDS Ledger, FiniteFacts

-----------------------------------------------------------------------------
(* What a ledger is *)

Fields == {"ok", "bal", "stakes", "total", "unbonding", "minted", "burned", "rewards",
           "dists", "epoch", "frozen", "epochs", "slashed", "known"}

Entry == [staker : Addr, validator : Validator, amount : Nat, release : Int]

\* The ledgers between blocks, and between the transactions of a block.
Good(L) ==
    /\ DOMAIN L = Fields
    /\ L.ok \in BOOLEAN
    /\ L.bal \in [Addr -> Nat]
    /\ L.stakes \in [Validator -> [Addr -> Nat]]
    /\ L.total \in [Validator -> Nat]
    /\ L.unbonding \in Seq(Entry)
    /\ L.minted \in 0..MAX_SUPPLY
    /\ L.burned \in Nat
    /\ L.rewards \in [Validator -> Nat]
    /\ L.epoch \in Nat

\* What the constants are.
LEMMA TxType ==
    ASSUME NEW t \in Tx
    PROVE  /\ t.type \in Types /\ t.from \in Addr /\ t.to \in Addr
           /\ t.amount \in Nat /\ t.nonce \in Nat
           /\ t.type # "TRANSFER" => t.to \in Validator
           /\ TX_FEES[t.type] \in Nat
BY LedgerAssumption

\* An amount that is clamped at zero.
LEMMA Clamp ==
    ASSUME NEW d \in Int
    PROVE  /\ Max({0, d}) \in Nat
           /\ Max({0, d}) = IF 0 <= d THEN d ELSE 0
<1>1. Max({0, d}) = IF 0 <= d THEN d ELSE 0
    BY MinMaxPair
<1> QED BY <1>1

-----------------------------------------------------------------------------
(* Rewards *)

\* Halving is defined for every n and stays a natural number.
LEMMA HalvedType ==
    /\ Halved \in [Nat -> Nat]
    /\ \A n \in Nat : Halved[n] = IF n = 0 THEN INITIAL_BLOCK_REWARD ELSE Halved[n - 1] \div 2
<1> DEFINE I == INITIAL_BLOCK_REWARD
<1>1. I \in Nat
    BY LedgerAssumption
<1>2. (\E h : h = [n \in Nat |-> IF n = 0 THEN I ELSE h[n - 1] \div 2])
        => Halved = [n \in Nat |-> IF n = 0 THEN I ELSE Halved[n - 1] \div 2]
    BY DEF Halved
<1> HIDE DEF I
<1>3. Halved \in [Nat -> Nat] /\ \A n \in Nat : Halved[n] = IF n = 0 THEN I ELSE Halved[n - 1] \div 2
    BY <1>1, <1>2, HalvingIs
<1> QED BY <1>3 DEF I

\* A reward never brings what is minted above MAX_SUPPLY.
LEMMA RewardBounds ==
    ASSUME NEW L, L.minted \in Int, NEW idx \in Nat
    PROVE  /\ _calc_block_reward(L, idx) \in Nat
           /\ L.minted <= MAX_SUPPLY => L.minted + _calc_block_reward(L, idx) <= MAX_SUPPLY
           /\ _calc_block_reward(L, idx) <= Halved[idx \div HALVING_INTERVAL]
<1> DEFINE n == idx \div HALVING_INTERVAL
           room == Max({0, MAX_SUPPLY - L.minted})
<1>1. n \in Nat /\ MAX_SUPPLY \in Nat
    BY LedgerAssumption
<1>2. Halved[n] \in Nat
    BY <1>1, HalvedType
<1>3. room \in Nat /\ (L.minted <= MAX_SUPPLY => room = MAX_SUPPLY - L.minted)
    <2>1. 0 \in Int /\ MAX_SUPPLY - L.minted \in Int
        BY <1>1
    <2>2. room = IF 0 <= MAX_SUPPLY - L.minted THEN MAX_SUPPLY - L.minted ELSE 0
        BY <2>1, MinMaxPair
    <2> HIDE DEF room
    <2> QED BY <1>1, <2>2
<1> HIDE DEF n, room
<1>4. Min({Halved[n], room}) = IF Halved[n] <= room THEN Halved[n] ELSE room
    BY <1>2, <1>3, MinMaxPair
<1>5. _calc_block_reward(L, idx) = Min({Halved[n], room})
    BY DEF _calc_block_reward, n, room
<1> QED BY <1>1, <1>2, <1>3, <1>4, <1>5 DEF n

-----------------------------------------------------------------------------
(* Transactions *)

\* A fee is divided without loss.
LEMMA FeeParts ==
    ASSUME NEW fee \in Nat
    PROVE  /\ ValidatorShare(fee) \in Nat /\ Burn(fee) \in Nat
           /\ ValidatorShare(fee) + Burn(fee) = fee
BY LedgerAssumption DEF ValidatorShare, Burn

\* Of M and L only balances, what is burned and ok differ.
SameElse(M, L) ==
    /\ M.stakes = L.stakes /\ M.total = L.total /\ M.unbonding = L.unbonding
    /\ M.minted = L.minted /\ M.rewards = L.rewards /\ M.dists = L.dists
    /\ M.epoch = L.epoch /\ M.frozen = L.frozen /\ M.epochs = L.epochs
    /\ M.slashed = L.slashed /\ M.known = L.known

\* A debit happens entirely or not at all.
LEMMA DebitFacts ==
    ASSUME NEW L, Good(L), NEW b \in Addr, NEW n \in Nat
    PROVE  LET D == _debit(L, b, n)
           IN  /\ Good(D) /\ SameElse(D, L) /\ D.burned = L.burned
               /\ D.ok <=> L.ok /\ L.bal[b] >= n
               /\ D.ok => \A a \in Addr : D.bal[a] = L.bal[a] - (IF a = b THEN n ELSE 0)
               /\ ~ D.ok => D.bal = L.bal
<1> DEFINE D == _debit(L, b, n)
<1>1. CASE L.ok /\ L.bal[b] >= n
    <2>1. D = [L EXCEPT !.bal[b] = @ - n]
        BY <1>1 DEF _debit
    <2>2. L.bal[b] \in Nat
        BY DEF Good
    <2>3. L.bal[b] - n \in Nat
        BY <1>1, <2>2
    <2> HIDE DEF D
    <2>4. D.bal \in [Addr -> Nat] /\ DOMAIN D = Fields
        BY <2>1, <2>3 DEF Good, Fields
    <2>5. Good(D) /\ SameElse(D, L) /\ D.burned = L.burned /\ D.ok = L.ok
        BY <2>1, <2>4 DEF Good, SameElse, Fields
    <2>6. \A a \in Addr : D.bal[a] = L.bal[a] - (IF a = b THEN n ELSE 0)
        BY <2>1 DEF Good, Fields
    <2> QED BY <1>1, <2>5, <2>6 DEF D
<1>2. CASE ~ (L.ok /\ L.bal[b] >= n)
    <2>1. D = [L EXCEPT !.ok = FALSE]
        BY <1>2 DEF _debit
    <2> HIDE DEF D
    <2>2. Good(D) /\ SameElse(D, L) /\ D.burned = L.burned /\ ~ D.ok /\ D.bal = L.bal
        BY <2>1 DEF Good, SameElse, Fields
    <2> QED BY <1>2, <2>2 DEF D
<1> QED BY <1>1, <1>2

LEMMA CreditFacts ==
    ASSUME NEW L, Good(L), NEW b \in Addr, NEW n \in Nat
    PROVE  LET C == _credit(L, b, n)
           IN  /\ Good(C) /\ SameElse(C, L) /\ C.burned = L.burned /\ C.ok = L.ok
               /\ C.ok => \A a \in Addr : C.bal[a] = L.bal[a] + (IF a = b THEN n ELSE 0)
               /\ ~ C.ok => C = L
<1> DEFINE C == _credit(L, b, n)
<1>1. CASE L.ok
    <2>1. C = [L EXCEPT !.bal[b] = @ + n]
        BY <1>1 DEF _credit
    <2>2. L.bal[b] \in Nat
        BY DEF Good
    <2>3. L.bal[b] + n \in Nat
        BY <2>2
    <2> HIDE DEF C
    <2>4. C.bal \in [Addr -> Nat] /\ DOMAIN C = Fields
        BY <2>1, <2>3 DEF Good, Fields
    <2>5. Good(C) /\ SameElse(C, L) /\ C.burned = L.burned /\ C.ok = L.ok
        BY <2>1, <2>4 DEF Good, SameElse, Fields
    <2>6. \A a \in Addr : C.bal[a] = L.bal[a] + (IF a = b THEN n ELSE 0)
        BY <2>1 DEF Good, Fields
    <2> QED BY <1>1, <2>5, <2>6 DEF C
<1>2. CASE ~ L.ok
    <2>1. C = L
        BY <1>2 DEF _credit
    <2> HIDE DEF C
    <2> QED BY <1>2, <2>1 DEF SameElse, C
<1> QED BY <1>1, <1>2

\* What the fee of t does.
LEMMA PayFeeFacts ==
    ASSUME NEW L, Good(L), NEW v \in Addr, NEW t \in Tx
    PROVE  LET M == PayFee(L, v, t)
               fee == TX_FEES[t.type]
           IN  /\ Good(M) /\ SameElse(M, L)
               /\ M.ok <=> L.ok /\ L.bal[t.from] >= fee
               /\ M.ok =>
                    /\ M.burned = L.burned + Burn(fee)
                    /\ \A a \in Addr :
                        M.bal[a] = L.bal[a] - (IF a = t.from THEN fee ELSE 0)
                                            + (IF a = v THEN ValidatorShare(fee) ELSE 0)
               /\ ~ M.ok => M.bal = L.bal /\ M.burned = L.burned
<1> DEFINE fee == TX_FEES[t.type]
           D == _debit(L, t.from, fee)
           share == ValidatorShare(fee)
           C == _credit(D, v, share)
           M == PayFee(L, v, t)
<1>1. fee \in Nat /\ t.from \in Addr
    BY TxType
<1>2. /\ Good(D) /\ SameElse(D, L) /\ D.burned = L.burned
      /\ D.ok <=> L.ok /\ L.bal[t.from] >= fee
      /\ D.ok => \A a \in Addr : D.bal[a] = L.bal[a] - (IF a = t.from THEN fee ELSE 0)
      /\ ~ D.ok => D.bal = L.bal
    <2> HIDE DEF fee
    <2> QED BY <1>1, DebitFacts
<1>3. ValidatorShare(fee) \in Nat /\ Burn(fee) \in Nat
    BY <1>1, FeeParts
<1> HIDE DEF fee, D
<1>4. /\ Good(C) /\ SameElse(C, D) /\ C.burned = D.burned /\ C.ok = D.ok
      /\ C.ok => \A a \in Addr : C.bal[a] = D.bal[a] + (IF a = v THEN ValidatorShare(fee) ELSE 0)
    <2>1. Good(D) /\ share \in Nat
        BY <1>2, <1>3
    <2> HIDE DEF share
    <2>2. /\ Good(C) /\ SameElse(C, D) /\ C.burned = D.burned /\ C.ok = D.ok
          /\ C.ok => \A a \in Addr : C.bal[a] = D.bal[a] + (IF a = v THEN share ELSE 0)
        BY ONLY <2>1, v \in Addr, CreditFacts
    <2> QED BY <2>2 DEF share
<1> HIDE DEF C
<1>5. CASE D.ok
    <2>1. M = [C EXCEPT !.burned = @ + Burn(fee)]
        BY <1>5 DEF PayFee, C, D, fee
    <2>2. C.burned \in Nat
        BY <1>4 DEF Good
    <2>3. C.burned + Burn(fee) \in Nat
        BY <2>2, <1>3
    <2> HIDE DEF M
    <2>4. /\ Good(M) /\ SameElse(M, C) /\ M.ok = C.ok
          /\ M.burned = C.burned + Burn(fee) /\ M.bal = C.bal
        BY <1>4, <2>1, <2>3 DEF Good, SameElse, Fields
    <2> QED BY <1>2, <1>4, <1>5, <2>4 DEF SameElse, M, fee
<1>6. CASE ~ D.ok
    <2>1. M = D
        BY <1>6 DEF PayFee, D, fee
    <2> HIDE DEF M
    <2> QED BY <1>2, <1>6, <2>1 DEF M, fee
<1> QED BY <1>5, <1>6

\* What the amount of t does to balances.
LEMMA MoveFundsFacts ==
    ASSUME NEW L, Good(L), NEW t \in Tx
    PROVE  LET M == MoveFunds(L, t)
               out == IF t.type \in {"TRANSFER", "STAKE"} THEN t.amount ELSE 0
               in == IF t.type = "TRANSFER" THEN t.amount ELSE 0
           IN  /\ Good(M) /\ SameElse(M, L) /\ M.burned = L.burned
               /\ M.ok => L.ok
               /\ L.ok /\ L.bal[t.from] >= out => M.ok
               /\ M.ok => \A a \in Addr :
                    M.bal[a] = L.bal[a] - (IF a = t.from THEN out ELSE 0)
                                        + (IF a = t.to THEN in ELSE 0)
               /\ ~ M.ok => M.bal = L.bal
<1> DEFINE M == MoveFunds(L, t)
           D == _debit(L, t.from, t.amount)
           C == _credit(D, t.to, t.amount)
<1>1. t.from \in Addr /\ t.to \in Addr /\ t.amount \in Nat /\ t.type \in Types
    BY TxType
<1>2. /\ Good(D) /\ SameElse(D, L) /\ D.burned = L.burned
      /\ D.ok <=> L.ok /\ L.bal[t.from] >= t.amount
      /\ D.ok => \A a \in Addr : D.bal[a] = L.bal[a] - (IF a = t.from THEN t.amount ELSE 0)
      /\ ~ D.ok => D.bal = L.bal
    BY <1>1, DebitFacts
<1> HIDE DEF D
<1>3. /\ Good(C) /\ SameElse(C, D) /\ C.burned = D.burned /\ C.ok = D.ok
      /\ C.ok => \A a \in Addr : C.bal[a] = D.bal[a] + (IF a = t.to THEN t.amount ELSE 0)
      /\ ~ C.ok => C = D
    BY <1>1, <1>2, CreditFacts
<1> HIDE DEF C
<1>4. \A a \in Addr : L.bal[a] \in Nat
    BY DEF Good
<1>5. CASE t.type = "TRANSFER"
    <2>1. M = C
        BY <1>5 DEF MoveFunds, C, D
    <2> HIDE DEF M
    <2> QED BY <1>2, <1>3, <1>5, <2>1 DEF SameElse, M
<1>6. CASE t.type = "STAKE"
    <2>1. M = D
        BY <1>6 DEF MoveFunds, D
    <2>2. D.ok => \A a \in Addr :
             D.bal[a] = L.bal[a] - (IF a = t.from THEN t.amount ELSE 0) + (IF a = t.to THEN 0 ELSE 0)
        BY <1>1, <1>2, <1>4
    <2> HIDE DEF M
    <2> QED BY <1>2, <1>6, <2>1, <2>2 DEF SameElse, M
<1>7. CASE t.type \notin {"TRANSFER", "STAKE"}
    <2>1. M = L
        BY <1>7 DEF MoveFunds
    <2>2. \A a \in Addr :
             L.bal[a] = L.bal[a] - (IF a = t.from THEN 0 ELSE 0) + (IF a = t.to THEN 0 ELSE 0)
        BY <1>4
    <2> HIDE DEF M
    <2> QED BY <1>7, <2>1, <2>2 DEF SameElse, M
<1> QED BY <1>5, <1>6, <1>7

\* Of M and L only what a transaction does to stakes differs.
SameFunds(M, L) ==
    /\ M.ok = L.ok /\ M.bal = L.bal /\ M.burned = L.burned
    /\ M.minted = L.minted /\ M.rewards = L.rewards /\ M.dists = L.dists
    /\ M.epoch = L.epoch /\ M.epochs = L.epochs

LEMMA StakeFacts ==
    ASSUME NEW L, Good(L), NEW t \in Tx, t.to \in Validator
    PROVE  LET M == Stake(L, t)
           IN  /\ Good(M) /\ SameFunds(M, L) /\ M.unbonding = L.unbonding
               /\ M.stakes = [L.stakes EXCEPT ![t.to][t.from] = @ + t.amount]
               /\ M.total = [L.total EXCEPT ![t.to] = @ + t.amount]
               /\ M.frozen = L.frozen /\ M.slashed = L.slashed /\ M.known = L.known
<1> DEFINE M == Stake(L, t)
<1>1. t.from \in Addr /\ t.amount \in Nat
    BY TxType
<1>2. L.stakes \in [Validator -> [Addr -> Nat]] /\ L.total \in [Validator -> Nat]
    BY DEF Good
<1>3. /\ L.stakes[t.to][t.from] + t.amount \in Nat
      /\ L.total[t.to] + t.amount \in Nat
    BY <1>1, <1>2
<1>4. /\ M.stakes = [L.stakes EXCEPT ![t.to][t.from] = @ + t.amount]
      /\ M.total = [L.total EXCEPT ![t.to] = @ + t.amount]
      /\ M.unbonding = L.unbonding /\ DOMAIN M = Fields
      /\ M.frozen = L.frozen /\ M.slashed = L.slashed /\ M.known = L.known
      /\ SameFunds(M, L)
    BY DEF Stake, Good, SameFunds, Fields
<1> HIDE DEF M
<1>5. M.stakes \in [Validator -> [Addr -> Nat]] /\ M.total \in [Validator -> Nat]
    BY <1>1, <1>2, <1>3, <1>4
<1>6. Good(M)
    BY <1>4, <1>5 DEF Good, SameFunds
<1> QED BY <1>4, <1>6 DEF M

\* M is L after t took a stake back.
Unstaked(M, L, t, idx) ==
    /\ Good(M) /\ SameFunds(M, L)
    /\ M.unbonding = Append(L.unbonding, Unbonding(t, idx))
    /\ M.stakes = [L.stakes EXCEPT ![t.to][t.from] = Max({0, @ - t.amount})]
    /\ M.total = [L.total EXCEPT ![t.to] = Max({0, @ - t.amount})]
    /\ M.frozen = L.frozen /\ M.slashed = L.slashed /\ M.known = L.known

LEMMA UnstakeFacts ==
    ASSUME NEW L, Good(L), NEW t \in Tx, t.to \in Validator, NEW idx \in Int
    PROVE  Unstaked(Unstake(L, t, idx), L, t, idx) /\ Unbonding(t, idx) \in Entry
<1> DEFINE M == Unstake(L, t, idx)
<1>1. t.from \in Addr /\ t.amount \in Nat /\ UNBONDING_PERIOD \in Nat
    BY TxType, LedgerAssumption
<1>2. /\ L.stakes \in [Validator -> [Addr -> Nat]] /\ L.total \in [Validator -> Nat]
      /\ L.unbonding \in Seq(Entry)
    BY DEF Good
<1>3. ASSUME NEW n \in Nat PROVE Max({0, n - t.amount}) \in Nat
    <2> DEFINE d == n - t.amount
    <2>1. d \in Int
        BY <1>1
    <2> HIDE DEF d
    <2>2. Max({0, d}) \in Nat
        BY <2>1, Clamp
    <2> QED BY <2>2 DEF d
<1>4. /\ M.stakes = [L.stakes EXCEPT ![t.to][t.from] = Max({0, @ - t.amount})]
      /\ M.total = [L.total EXCEPT ![t.to] = Max({0, @ - t.amount})]
      /\ M.unbonding = Append(L.unbonding, Unbonding(t, idx)) /\ DOMAIN M = Fields
      /\ M.frozen = L.frozen /\ M.slashed = L.slashed /\ M.known = L.known
      /\ SameFunds(M, L)
    BY DEF Unstake, Good, SameFunds, Fields
<1> HIDE DEF M
<1>5. M.stakes \in [Validator -> [Addr -> Nat]] /\ M.total \in [Validator -> Nat]
    <2>1. /\ Max({0, L.stakes[t.to][t.from] - t.amount}) \in Nat
          /\ Max({0, L.total[t.to] - t.amount}) \in Nat
        BY <1>1, <1>2, <1>3
    <2> QED BY <1>1, <1>2, <1>4, <2>1
<1>6. Unbonding(t, idx) \in Entry
    BY <1>1 DEF Unbonding, Entry
<1>7. M.unbonding \in Seq(Entry)
    BY <1>2, <1>4, <1>6, AppendProperties
<1>8. Good(M)
    BY <1>4, <1>5, <1>7 DEF Good, SameFunds
<1> QED BY <1>4, <1>6, <1>8 DEF M, Unstaked

\* A slash takes no more than there is.
LEMMA SlashBound ==
    ASSUME NEW n \in Nat
    PROVE  n - SlashOf(n) \in Nat
<1> DEFINE p == SLASH_PERCENTAGE
           k == (n * p) \div 100
<1>1. p \in Nat /\ p <= 100
    BY LedgerAssumption
<1> HIDE DEF p
<1>2. k \in Nat /\ k <= n
    <2>1. n * p \in Nat /\ n * p <= n * 100
        BY <1>1
    <2> DEFINE m == n * p
    <2>2. m \in Nat /\ m <= n * 100
        BY <2>1
    <2> HIDE DEF m
    <2>3. m \div 100 \in Nat /\ m \div 100 <= n
        BY <2>2
    <2> QED BY <2>3 DEF m
<1> HIDE DEF k
<1>3. Max({1, k}) = IF 1 <= k THEN k ELSE 1
    BY <1>2, MinMaxPair
<1>4. SlashOf(n) = IF n > 0 THEN Max({1, k}) ELSE 0
    BY DEF SlashOf, k, p
<1> QED BY <1>2, <1>3, <1>4

LEMMA SlashFacts ==
    ASSUME NEW L, Good(L), NEW t \in Tx, t.to \in Validator
    PROVE  LET M == Slash(L, t)
           IN  Good(M) /\ SameFunds(M, L) /\ M.unbonding = L.unbonding
<1> DEFINE M == Slash(L, t)
           v == t.to
           left == L.total[v] - SlashOf(L.total[v])
           kept == [s \in Addr |-> L.stakes[v][s] - SlashOf(L.stakes[v][s])]
           none == [s \in Addr |-> 0]
           out == left < MIN_STAKE
           tot == IF out THEN 0 ELSE left
           stk == IF out THEN none ELSE kept
           kn == IF out THEN L.known \ {v} ELSE L.known
           fr == IF out THEN L.frozen \ {v} ELSE L.frozen
<1>1. L.stakes \in [Validator -> [Addr -> Nat]] /\ L.total \in [Validator -> Nat]
    BY DEF Good
<1>2. left \in Nat
    BY <1>1, SlashBound
<1>3. kept \in [Addr -> Nat] /\ none \in [Addr -> Nat]
    BY <1>1, SlashBound
<1>4. tot \in Nat /\ stk \in [Addr -> Nat]
    <2> HIDE DEF left, kept, none
    <2> QED BY <1>2, <1>3
<1>5. CASE v \in L.slashed
    <2>1. M = L
        BY <1>5 DEF Slash
    <2> HIDE DEF M
    <2> QED BY <2>1 DEF SameFunds, M
<1>6. CASE v \notin L.slashed
    <2>1. M = [L EXCEPT !.total[v] = tot, !.stakes[v] = stk,
                        !.slashed = @ \cup {v}, !.known = kn, !.frozen = fr]
        BY <1>6 DEF Slash
    <2> HIDE DEF M, tot, stk, kn, fr
    <2>2. /\ M.total = [L.total EXCEPT ![v] = tot] /\ M.stakes = [L.stakes EXCEPT ![v] = stk]
          /\ SameFunds(M, L) /\ M.unbonding = L.unbonding /\ DOMAIN M = Fields
        BY <2>1 DEF Good, Fields, SameFunds
    <2>3. M.stakes \in [Validator -> [Addr -> Nat]] /\ M.total \in [Validator -> Nat]
        BY <1>1, <1>4, <2>2
    <2>4. Good(M)
        BY <2>2, <2>3 DEF Good, SameFunds
    <2> QED BY <2>2, <2>4 DEF M
<1> QED BY <1>5, <1>6

\* What t does to the stakes and the unbondings of L, if it succeeds.
StakesMoved(M, L, idx, t) ==
    CASE t.type = "STAKE" ->
            /\ M.stakes = [L.stakes EXCEPT ![t.to][t.from] = @ + t.amount]
            /\ M.total = [L.total EXCEPT ![t.to] = @ + t.amount]
            /\ M.unbonding = L.unbonding
      [] t.type = "UNSTAKE" ->
            /\ M.stakes = [L.stakes EXCEPT ![t.to][t.from] = Max({0, @ - t.amount})]
            /\ M.total = [L.total EXCEPT ![t.to] = Max({0, @ - t.amount})]
            /\ M.unbonding = Append(L.unbonding, Unbonding(t, idx))
      [] t.type = "TRANSFER" ->
            M.stakes = L.stakes /\ M.total = L.total /\ M.unbonding = L.unbonding
      [] OTHER -> M.unbonding = L.unbonding

Inflow(t) == IF t.type = "TRANSFER" THEN t.amount ELSE 0

\* What t does to a ledger: it is paid for out of the balance of its sender, and
\* succeeds if that covers its debit.
LEMMA ApplyTxFacts ==
    ASSUME NEW L, Good(L), NEW v \in Addr, NEW idx \in Int, NEW t \in Tx
    PROVE  LET M == ApplyTx(L, v, idx, t)
               fee == TX_FEES[t.type]
           IN  /\ Good(M) /\ (M.ok => L.ok)
               /\ L.ok /\ L.bal[t.from] >= Debit(t) => M.ok
               /\ M.minted = L.minted /\ M.rewards = L.rewards /\ M.dists = L.dists
               /\ M.epoch = L.epoch /\ M.epochs = L.epochs
               /\ t.type # "EVIDENCE" =>
                    M.frozen = L.frozen /\ M.slashed = L.slashed /\ M.known = L.known
               /\ M.ok =>
                    /\ StakesMoved(M, L, idx, t)
                    /\ M.burned = L.burned + Burn(fee)
                    /\ \A a \in Addr :
                        M.bal[a] = L.bal[a] - (IF a = t.from THEN Debit(t) ELSE 0)
                                            + (IF a = v THEN ValidatorShare(fee) ELSE 0)
                                            + (IF a = t.to THEN Inflow(t) ELSE 0)
<1> DEFINE fee == TX_FEES[t.type]
           out == IF t.type \in {"TRANSFER", "STAKE"} THEN t.amount ELSE 0
           in == Inflow(t)
           share == ValidatorShare(fee)
           P == PayFee(L, v, t)
           N == MoveFunds(P, t)
           M == ApplyTx(L, v, idx, t)
<1>1. /\ fee \in Nat /\ out \in Nat /\ in \in Nat /\ share \in Nat /\ t.from \in Addr
      /\ t.type # "TRANSFER" => t.to \in Validator
      /\ t.type \in Types
    BY TxType, FeeParts DEF Inflow
<1>2. Debit(t) = fee + out
    BY DEF Debit
<1>3. /\ Good(P) /\ SameElse(P, L)
      /\ P.ok <=> L.ok /\ L.bal[t.from] >= fee
      /\ P.ok =>
           /\ P.burned = L.burned + Burn(fee)
           /\ \A a \in Addr : P.bal[a] = L.bal[a] - (IF a = t.from THEN fee ELSE 0)
                                                  + (IF a = v THEN share ELSE 0)
    BY PayFeeFacts
<1> HIDE DEF P
<1>4. /\ Good(N) /\ SameElse(N, P) /\ N.burned = P.burned
      /\ N.ok => P.ok
      /\ P.ok /\ P.bal[t.from] >= out => N.ok
      /\ N.ok => \A a \in Addr : N.bal[a] = P.bal[a] - (IF a = t.from THEN out ELSE 0)
                                                     + (IF a = t.to THEN in ELSE 0)
    BY <1>3, MoveFundsFacts DEF Inflow
<1> HIDE DEF N, out, in, share, fee
<1>5. \A a \in Addr : L.bal[a] \in Nat /\ P.bal[a] \in Nat
    BY <1>3 DEF Good
<1>6. L.ok /\ L.bal[t.from] >= Debit(t) => N.ok
    <2>1. SUFFICES ASSUME L.ok, L.bal[t.from] >= Debit(t) PROVE N.ok
        OBVIOUS
    <2>2. L.bal[t.from] \in Nat
        BY <1>1, <1>5
    <2>3. P.ok
        BY <1>1, <1>2, <1>3, <2>1, <2>2
    <2>4. P.bal[t.from] = L.bal[t.from] - fee + (IF t.from = v THEN share ELSE 0)
        BY <1>1, <1>3, <2>3
    <2>5. P.bal[t.from] >= out
        BY <1>1, <1>2, <2>1, <2>2, <2>4
    <2> QED BY <1>4, <2>3, <2>5
<1>7. N.ok => \A a \in Addr :
        N.bal[a] = L.bal[a] - (IF a = t.from THEN Debit(t) ELSE 0)
                            + (IF a = v THEN share ELSE 0) + (IF a = t.to THEN in ELSE 0)
    <2>1. SUFFICES ASSUME N.ok, NEW a \in Addr
                   PROVE  N.bal[a] = L.bal[a] - (IF a = t.from THEN Debit(t) ELSE 0)
                                + (IF a = v THEN share ELSE 0) + (IF a = t.to THEN in ELSE 0)
        OBVIOUS
    <2>2. P.bal[a] = L.bal[a] - (IF a = t.from THEN fee ELSE 0) + (IF a = v THEN share ELSE 0)
        BY <1>3, <1>4, <2>1
    <2>3. N.bal[a] = P.bal[a] - (IF a = t.from THEN out ELSE 0) + (IF a = t.to THEN in ELSE 0)
        BY <1>4, <2>1
    <2>4. L.bal[a] \in Nat
        BY <1>5
    <2> QED BY <1>1, <1>2, <2>2, <2>3, <2>4
<1>8. N.ok => N.burned = L.burned + Burn(fee)
    BY <1>3, <1>4
<1>9. SameElse(N, L) /\ (N.ok => L.ok)
    BY <1>3, <1>4 DEF SameElse
<1>10. CASE ~ N.ok
    <2>1. M = N
        BY <1>10 DEF ApplyTx, N, P
    <2> HIDE DEF M
    <2> QED BY <1>4, <1>6, <1>9, <1>10, <2>1 DEF SameElse, M
<1>11. CASE N.ok /\ t.type = "STAKE"
    <2>1. M = Stake(N, t)
        BY <1>11 DEF ApplyTx, N, P
    <2> HIDE DEF M
    <2>2. t.to \in Validator
        BY <1>1, <1>11
    <2>3. /\ Good(M) /\ SameFunds(M, N) /\ M.unbonding = N.unbonding
          /\ M.stakes = [N.stakes EXCEPT ![t.to][t.from] = @ + t.amount]
          /\ M.total = [N.total EXCEPT ![t.to] = @ + t.amount]
          /\ M.frozen = N.frozen /\ M.slashed = N.slashed /\ M.known = N.known
        BY <1>4, <2>1, <2>2, StakeFacts
    <2>4. StakesMoved(M, L, idx, t)
        BY <1>9, <1>11, <2>3 DEF StakesMoved, SameElse
    <2>5. M.bal = N.bal /\ M.burned = N.burned /\ M.ok = N.ok
        BY <2>3 DEF SameFunds
    <2> QED BY <1>7, <1>8, <1>9, <1>11, <2>3, <2>4, <2>5 DEF SameElse, SameFunds, M, in, share, fee
<1>12. CASE N.ok /\ t.type = "UNSTAKE"
    <2>1. M = Unstake(N, t, idx)
        BY <1>12 DEF ApplyTx, N, P
    <2> HIDE DEF M
    <2>2. t.to \in Validator
        BY <1>1, <1>12
    <2>3. /\ Good(M) /\ SameFunds(M, N)
          /\ M.unbonding = Append(N.unbonding, Unbonding(t, idx))
          /\ M.stakes = [N.stakes EXCEPT ![t.to][t.from] = Max({0, @ - t.amount})]
          /\ M.total = [N.total EXCEPT ![t.to] = Max({0, @ - t.amount})]
          /\ M.frozen = N.frozen /\ M.slashed = N.slashed /\ M.known = N.known
        <3>1. Good(N)
            BY <1>4
        <3>2. Unstaked(Unstake(N, t, idx), N, t, idx)
            BY ONLY <3>1, <2>2, t \in Tx, idx \in Int, UnstakeFacts
        <3> QED BY <2>1, <3>2 DEF Unstaked
    <2>4. StakesMoved(M, L, idx, t)
        BY <1>9, <1>12, <2>3 DEF StakesMoved, SameElse
    <2>5. M.bal = N.bal /\ M.burned = N.burned /\ M.ok = N.ok
        BY <2>3 DEF SameFunds
    <2> QED BY <1>7, <1>8, <1>9, <1>12, <2>3, <2>4, <2>5 DEF SameElse, SameFunds, M, in, share, fee
<1>13. CASE N.ok /\ t.type = "EVIDENCE"
    <2>1. M = Slash(N, t)
        BY <1>13 DEF ApplyTx, N, P
    <2> HIDE DEF M
    <2>2. t.to \in Validator
        BY <1>1, <1>13
    <2>3. Good(M) /\ SameFunds(M, N) /\ M.unbonding = N.unbonding
        BY <1>4, <2>1, <2>2, SlashFacts
    <2>4. StakesMoved(M, L, idx, t)
        BY <1>9, <1>13, <2>3 DEF StakesMoved, SameElse
    <2>5. M.bal = N.bal /\ M.burned = N.burned /\ M.ok = N.ok
        BY <2>3 DEF SameFunds
    <2> QED BY <1>7, <1>8, <1>9, <1>13, <2>3, <2>4, <2>5 DEF SameElse, SameFunds, M, in, share, fee
<1>14. CASE N.ok /\ t.type = "TRANSFER"
    <2>1. M = N
        BY <1>14 DEF ApplyTx, N, P
    <2> HIDE DEF M
    <2>4. StakesMoved(M, L, idx, t)
        BY <1>9, <1>14, <2>1 DEF StakesMoved, SameElse
    <2> QED BY <1>4, <1>7, <1>8, <1>9, <1>14, <2>1, <2>4 DEF SameElse, M, in, share, fee
<1> QED BY <1>1, <1>10, <1>11, <1>12, <1>13, <1>14 DEF Types

-----------------------------------------------------------------------------
(* Blocks *)

\* The transactions of a block, one by one.
LEMMA AfterTxsIs ==
    ASSUME NEW L, NEW v, NEW idx, NEW txs, Len(txs) \in Nat
    PROVE  LET A == AfterTxs(L, v, idx, txs)
           IN  /\ A[0] = L
               /\ \A n \in 1..Len(txs) :
                    A[n] = ApplyTx(A[n - 1], v, idx, txs[n])
<1> DEFINE N == Len(txs)
           Step(g, n) == IF n = 0 THEN L ELSE ApplyTx(g[n - 1], v, idx, txs[n])
           Upto(g, n) == /\ g = [m \in 0..N |-> g[m]]
                         /\ \A m \in 0..n : g[m] = Step(g, m)
           T == {n \in 0..N : ~ \E g : Upto(g, n)}
<1>1. N \in Nat
    OBVIOUS
<1> HIDE DEF N
<1>2. T = {}
    <2>1. SUFFICES ASSUME T # {} PROVE FALSE
        OBVIOUS
    <2>2. PICK n \in T : \A m \in T : n <= m
        <3>1. T \subseteq Nat
            BY <1>1
        <3> HIDE DEF T
        <3> QED BY <2>1, <3>1, LeastNat
    <2>3. n # 0
        <3> DEFINE z == [m \in 0..N |-> L]
        <3>1. Upto(z, 0)
            BY <1>1
        <3> HIDE DEF z, Upto
        <3> QED BY <2>2, <3>1
    <2>4. n \in 0..N /\ n - 1 \in 0..N /\ ~ (n <= n - 1)
        BY <1>1, <2>3
    <2>5. n - 1 \notin T
        <3> HIDE DEF T
        <3> QED BY <2>2, <2>4
    <2>6. PICK g : Upto(g, n - 1)
        <3> HIDE DEF Upto
        <3> QED BY <2>4, <2>5
    <2> DEFINE h == [m \in 0..N |-> IF m = n THEN Step(g, n) ELSE g[m]]
    <2> HIDE DEF Step
    <2>7. ASSUME NEW m \in 0..n PROVE h[m] = Step(h, m)
        <3>1. CASE m = n
            <4>1. h[n - 1] = g[n - 1] /\ h[m] = Step(g, n)
                BY <2>4, <3>1
            <4> HIDE DEF h
            <4> QED BY <3>1, <4>1 DEF Step
        <3>2. CASE m # n
            <4>1. m \in 0..(n - 1) /\ m \in 0..N
                BY <1>1, <2>4, <3>2
            <4>2. h[m] = Step(g, m)
                BY <2>6, <3>2, <4>1
            <4>3. m # 0 => h[m - 1] = g[m - 1]
                <5>1. m # 0 => m - 1 \in 0..N /\ m - 1 # n
                    BY <1>1, <2>4, <4>1
                <5> QED BY <5>1
            <4> HIDE DEF h
            <4> QED BY <4>2, <4>3 DEF Step
        <3> QED BY <3>1, <3>2
    <2>8. Upto(h, n)
        BY <2>7
    <2> HIDE DEF h, Upto
    <2> QED BY <2>2, <2>8
<1>3. PICK g : Upto(g, N)
    <2>1. N \in 0..N
        BY <1>1
    <2>2. N \notin T
        BY <1>2
    <2> HIDE DEF Upto
    <2> QED BY <2>1, <2>2
<1>4. g = [n \in 0..N |-> Step(g, n)]
    BY <1>1, <1>3
<1> DEFINE A == AfterTxs(L, v, idx, txs)
<1>5. A = [n \in 0..N |-> Step(A, n)]
    BY <1>4 DEF AfterTxs, N
<1>6. A[0] = L /\ \A n \in 1..N : A[n] = Step(A, n)
    <2> HIDE DEF A, Step
    <2>1. \A n \in 0..N : A[n] = Step(A, n)
        BY <1>5
    <2>2. 0 \in 0..N /\ 1..N \subseteq 0..N
        BY <1>1
    <2> QED BY <2>1, <2>2 DEF Step
<1>7. \A n \in 1..N : n # 0
    BY <1>1
<1> QED BY <1>6, <1>7 DEF N

\* The funds of a block taken back, one transaction at a time.
LEMMA FundsUndoneIs ==
    ASSUME NEW L, NEW v, NEW txs, Len(txs) \in Nat
    PROVE  LET A == FundsUndone(L, v, txs)
           IN  /\ A[0] = L
               /\ \A n \in 1..Len(txs) :
                    A[n] = UndoFee(UndoFunds(A[n - 1], txs[Len(txs) + 1 - n]), v, txs[Len(txs) + 1 - n])
<1> DEFINE N == Len(txs)
           Step(g, n) == IF n = 0 THEN L ELSE UndoFee(UndoFunds(g[n - 1], txs[Len(txs) + 1 - n]), v, txs[Len(txs) + 1 - n])
           Upto(g, n) == /\ g = [m \in 0..N |-> g[m]]
                         /\ \A m \in 0..n : g[m] = Step(g, m)
           T == {n \in 0..N : ~ \E g : Upto(g, n)}
<1>1. N \in Nat
    OBVIOUS
<1> HIDE DEF N
<1>2. T = {}
    <2>1. SUFFICES ASSUME T # {} PROVE FALSE
        OBVIOUS
    <2>2. PICK n \in T : \A m \in T : n <= m
        <3>1. T \subseteq Nat
            BY <1>1
        <3> HIDE DEF T
        <3> QED BY <2>1, <3>1, LeastNat
    <2>3. n # 0
        <3> DEFINE z == [m \in 0..N |-> L]
        <3>1. Upto(z, 0)
            BY <1>1
        <3> HIDE DEF z, Upto
        <3> QED BY <2>2, <3>1
    <2>4. n \in 0..N /\ n - 1 \in 0..N /\ ~ (n <= n - 1)
        BY <1>1, <2>3
    <2>5. n - 1 \notin T
        <3> HIDE DEF T
        <3> QED BY <2>2, <2>4
    <2>6. PICK g : Upto(g, n - 1)
        <3> HIDE DEF Upto
        <3> QED BY <2>4, <2>5
    <2> DEFINE h == [m \in 0..N |-> IF m = n THEN Step(g, n) ELSE g[m]]
    <2> HIDE DEF Step
    <2>7. ASSUME NEW m \in 0..n PROVE h[m] = Step(h, m)
        <3>1. CASE m = n
            <4>1. h[n - 1] = g[n - 1] /\ h[m] = Step(g, n)
                BY <2>4, <3>1
            <4> HIDE DEF h
            <4> QED BY <3>1, <4>1 DEF Step
        <3>2. CASE m # n
            <4>1. m \in 0..(n - 1) /\ m \in 0..N
                BY <1>1, <2>4, <3>2
            <4>2. h[m] = Step(g, m)
                BY <2>6, <3>2, <4>1
            <4>3. m # 0 => h[m - 1] = g[m - 1]
                <5>1. m # 0 => m - 1 \in 0..N /\ m - 1 # n
                    BY <1>1, <2>4, <4>1
                <5> QED BY <5>1
            <4> HIDE DEF h
            <4> QED BY <4>2, <4>3 DEF Step
        <3> QED BY <3>1, <3>2
    <2>8. Upto(h, n)
        BY <2>7
    <2> HIDE DEF h, Upto
    <2> QED BY <2>2, <2>8
<1>3. PICK g : Upto(g, N)
    <2>1. N \in 0..N
        BY <1>1
    <2>2. N \notin T
        BY <1>2
    <2> HIDE DEF Upto
    <2> QED BY <2>1, <2>2
<1>4. g = [n \in 0..N |-> Step(g, n)]
    BY <1>1, <1>3
<1> DEFINE A == FundsUndone(L, v, txs)
<1>5. A = [n \in 0..N |-> Step(A, n)]
    BY <1>4 DEF FundsUndone, N
<1>6. A[0] = L /\ \A n \in 1..N : A[n] = Step(A, n)
    <2> HIDE DEF A, Step
    <2>1. \A n \in 0..N : A[n] = Step(A, n)
        BY <1>5
    <2>2. 0 \in 0..N /\ 1..N \subseteq 0..N
        BY <1>1
    <2> QED BY <2>1, <2>2 DEF Step
<1>7. \A n \in 1..N : n # 0
    BY <1>1
<1> QED BY <1>6, <1>7 DEF N

\* The stakes of a block taken back, one transaction at a time.
LEMMA StakesUndoneIs ==
    ASSUME NEW L, NEW idx, NEW txs, Len(txs) \in Nat
    PROVE  LET A == StakesUndone(L, idx, txs)
           IN  /\ A[0] = L
               /\ \A n \in 1..Len(txs) :
                    A[n] = UndoStake(A[n - 1], idx, txs[n])
<1> DEFINE N == Len(txs)
           Step(g, n) == IF n = 0 THEN L ELSE UndoStake(g[n - 1], idx, txs[n])
           Upto(g, n) == /\ g = [m \in 0..N |-> g[m]]
                         /\ \A m \in 0..n : g[m] = Step(g, m)
           T == {n \in 0..N : ~ \E g : Upto(g, n)}
<1>1. N \in Nat
    OBVIOUS
<1> HIDE DEF N
<1>2. T = {}
    <2>1. SUFFICES ASSUME T # {} PROVE FALSE
        OBVIOUS
    <2>2. PICK n \in T : \A m \in T : n <= m
        <3>1. T \subseteq Nat
            BY <1>1
        <3> HIDE DEF T
        <3> QED BY <2>1, <3>1, LeastNat
    <2>3. n # 0
        <3> DEFINE z == [m \in 0..N |-> L]
        <3>1. Upto(z, 0)
            BY <1>1
        <3> HIDE DEF z, Upto
        <3> QED BY <2>2, <3>1
    <2>4. n \in 0..N /\ n - 1 \in 0..N /\ ~ (n <= n - 1)
        BY <1>1, <2>3
    <2>5. n - 1 \notin T
        <3> HIDE DEF T
        <3> QED BY <2>2, <2>4
    <2>6. PICK g : Upto(g, n - 1)
        <3> HIDE DEF Upto
        <3> QED BY <2>4, <2>5
    <2> DEFINE h == [m \in 0..N |-> IF m = n THEN Step(g, n) ELSE g[m]]
    <2> HIDE DEF Step
    <2>7. ASSUME NEW m \in 0..n PROVE h[m] = Step(h, m)
        <3>1. CASE m = n
            <4>1. h[n - 1] = g[n - 1] /\ h[m] = Step(g, n)
                BY <2>4, <3>1
            <4> HIDE DEF h
            <4> QED BY <3>1, <4>1 DEF Step
        <3>2. CASE m # n
            <4>1. m \in 0..(n - 1) /\ m \in 0..N
                BY <1>1, <2>4, <3>2
            <4>2. h[m] = Step(g, m)
                BY <2>6, <3>2, <4>1
            <4>3. m # 0 => h[m - 1] = g[m - 1]
                <5>1. m # 0 => m - 1 \in 0..N /\ m - 1 # n
                    BY <1>1, <2>4, <4>1
                <5> QED BY <5>1
            <4> HIDE DEF h
            <4> QED BY <4>2, <4>3 DEF Step
        <3> QED BY <3>1, <3>2
    <2>8. Upto(h, n)
        BY <2>7
    <2> HIDE DEF h, Upto
    <2> QED BY <2>2, <2>8
<1>3. PICK g : Upto(g, N)
    <2>1. N \in 0..N
        BY <1>1
    <2>2. N \notin T
        BY <1>2
    <2> HIDE DEF Upto
    <2> QED BY <2>1, <2>2
<1>4. g = [n \in 0..N |-> Step(g, n)]
    BY <1>1, <1>3
<1> DEFINE A == StakesUndone(L, idx, txs)
<1>5. A = [n \in 0..N |-> Step(A, n)]
    BY <1>4 DEF StakesUndone, N
<1>6. A[0] = L /\ \A n \in 1..N : A[n] = Step(A, n)
    <2> HIDE DEF A, Step
    <2>1. \A n \in 0..N : A[n] = Step(A, n)
        BY <1>5
    <2>2. 0 \in 0..N /\ 1..N \subseteq 0..N
        BY <1>1
    <2> QED BY <2>1, <2>2 DEF Step
<1>7. \A n \in 1..N : n # 0
    BY <1>1
<1> QED BY <1>6, <1>7 DEF N

\* The blocks of a chain rolled back, one at a time.
LEMMA BlocksUndoneIs ==
    ASSUME NEW L, NEW c, Len(c) \in Nat
    PROVE  LET A == BlocksUndone(L, c)
           IN  /\ A[0] = L
               /\ \A n \in 1..Len(c) :
                    A[n] = _rollback_block(A[n - 1], c[Len(c) + 1 - n], Len(c) + 1 - n)
<1> DEFINE N == Len(c)
           Step(g, n) == IF n = 0 THEN L ELSE _rollback_block(g[n - 1], c[Len(c) + 1 - n], Len(c) + 1 - n)
           Upto(g, n) == /\ g = [m \in 0..N |-> g[m]]
                         /\ \A m \in 0..n : g[m] = Step(g, m)
           T == {n \in 0..N : ~ \E g : Upto(g, n)}
<1>1. N \in Nat
    OBVIOUS
<1> HIDE DEF N
<1>2. T = {}
    <2>1. SUFFICES ASSUME T # {} PROVE FALSE
        OBVIOUS
    <2>2. PICK n \in T : \A m \in T : n <= m
        <3>1. T \subseteq Nat
            BY <1>1
        <3> HIDE DEF T
        <3> QED BY <2>1, <3>1, LeastNat
    <2>3. n # 0
        <3> DEFINE z == [m \in 0..N |-> L]
        <3>1. Upto(z, 0)
            BY <1>1
        <3> HIDE DEF z, Upto
        <3> QED BY <2>2, <3>1
    <2>4. n \in 0..N /\ n - 1 \in 0..N /\ ~ (n <= n - 1)
        BY <1>1, <2>3
    <2>5. n - 1 \notin T
        <3> HIDE DEF T
        <3> QED BY <2>2, <2>4
    <2>6. PICK g : Upto(g, n - 1)
        <3> HIDE DEF Upto
        <3> QED BY <2>4, <2>5
    <2> DEFINE h == [m \in 0..N |-> IF m = n THEN Step(g, n) ELSE g[m]]
    <2> HIDE DEF Step
    <2>7. ASSUME NEW m \in 0..n PROVE h[m] = Step(h, m)
        <3>1. CASE m = n
            <4>1. h[n - 1] = g[n - 1] /\ h[m] = Step(g, n)
                BY <2>4, <3>1
            <4> HIDE DEF h
            <4> QED BY <3>1, <4>1 DEF Step
        <3>2. CASE m # n
            <4>1. m \in 0..(n - 1) /\ m \in 0..N
                BY <1>1, <2>4, <3>2
            <4>2. h[m] = Step(g, m)
                BY <2>6, <3>2, <4>1
            <4>3. m # 0 => h[m - 1] = g[m - 1]
                <5>1. m # 0 => m - 1 \in 0..N /\ m - 1 # n
                    BY <1>1, <2>4, <4>1
                <5> QED BY <5>1
            <4> HIDE DEF h
            <4> QED BY <4>2, <4>3 DEF Step
        <3> QED BY <3>1, <3>2
    <2>8. Upto(h, n)
        BY <2>7
    <2> HIDE DEF h, Upto
    <2> QED BY <2>2, <2>8
<1>3. PICK g : Upto(g, N)
    <2>1. N \in 0..N
        BY <1>1
    <2>2. N \notin T
        BY <1>2
    <2> HIDE DEF Upto
    <2> QED BY <2>1, <2>2
<1>4. g = [n \in 0..N |-> Step(g, n)]
    BY <1>1, <1>3
<1> DEFINE A == BlocksUndone(L, c)
<1>5. A = [n \in 0..N |-> Step(A, n)]
    BY <1>4 DEF BlocksUndone, N
<1>6. A[0] = L /\ \A n \in 1..N : A[n] = Step(A, n)
    <2> HIDE DEF A, Step
    <2>1. \A n \in 0..N : A[n] = Step(A, n)
        BY <1>5
    <2>2. 0 \in 0..N /\ 1..N \subseteq 0..N
        BY <1>1
    <2> QED BY <2>1, <2>2 DEF Step
<1>7. \A n \in 1..N : n # 0
    BY <1>1
<1> QED BY <1>6, <1>7 DEF N

\* What the transactions of a block leave alone.
SameRewards(M, L) ==
    /\ M.minted = L.minted /\ M.rewards = L.rewards /\ M.dists = L.dists
    /\ M.epoch = L.epoch /\ M.epochs = L.epochs

\* The ledgers between the transactions of a block are good.
LEMMA AfterTxsGood ==
    ASSUME NEW L, Good(L), NEW v \in Addr, NEW idx \in Int, NEW txs \in Seq(Tx)
    PROVE  \A n \in 0..Len(txs) :
             LET A == AfterTxs(L, v, idx, txs) IN Good(A[n]) /\ SameRewards(A[n], L)
<1> DEFINE A == AfterTxs(L, v, idx, txs)
           N == Len(txs)
           S == {n \in 0..N : Good(A[n]) /\ SameRewards(A[n], L)}
<1>1. N \in Nat /\ \A n \in 1..N : txs[n] \in Tx
    BY LenProperties, ElementOfSeq
<1>2. A[0] = L /\ \A n \in 1..N : A[n] = ApplyTx(A[n - 1], v, idx, txs[n])
    BY <1>1, AfterTxsIs
<1> HIDE DEF A, N
<1>3. 0 \in S
    BY <1>1, <1>2 DEF SameRewards
<1>4. ASSUME NEW n \in 1..N, n - 1 \in S PROVE n \in S
    <2> DEFINE K == A[n - 1]
               t == txs[n]
    <2>1. Good(K) /\ SameRewards(K, L)
        BY <1>4
    <2>2. t \in Tx /\ A[n] = ApplyTx(K, v, idx, t)
        BY <1>1, <1>2
    <2> HIDE DEF K, t
    <2>3. Good(ApplyTx(K, v, idx, t)) /\ SameRewards(ApplyTx(K, v, idx, t), K)
        BY <2>1, <2>2, ApplyTxFacts DEF SameRewards
    <2>4. Good(A[n]) /\ SameRewards(A[n], L)
        BY <2>1, <2>2, <2>3 DEF SameRewards
    <2>5. n \in 0..N
        BY <1>1
    <2> QED BY <2>4, <2>5
<1>5. \A n \in 0..N : n \in S
    <2> HIDE DEF S
    <2> QED BY <1>1, <1>3, <1>4, PrefixInduction
<1> QED BY <1>5 DEF A, N

-----------------------------------------------------------------------------
(* Unbondings *)

Mature(L, idx) == {i \in 1..Len(L.unbonding) : L.unbonding[i].release <= idx}

\* What "a" is due from the unbondings that are mature.
Due(L, idx, a) ==
    SumFunction([i \in {j \in Mature(L, idx) : L.unbonding[j].staker = a} |->
                    L.unbonding[i].amount])

\* Only balances and unbondings change.
SameStakes(M, L) ==
    /\ M.ok = L.ok /\ M.stakes = L.stakes /\ M.total = L.total /\ M.minted = L.minted
    /\ M.burned = L.burned /\ M.slashed = L.slashed /\ M.known = L.known

LEMMA DueType ==
    ASSUME NEW L, Good(L), NEW idx \in Int, NEW a
    PROVE  Due(L, idx, a) \in Nat
<1> DEFINE D == {j \in Mature(L, idx) : L.unbonding[j].staker = a}
           f == [i \in D |-> L.unbonding[i].amount]
<1>1. L.unbonding \in Seq(Entry)
    BY DEF Good
<1>2. Len(L.unbonding) \in Nat /\ \A i \in 1..Len(L.unbonding) : L.unbonding[i] \in Entry
    BY <1>1, LenProperties, ElementOfSeq
<1>3. D \subseteq 1..Len(L.unbonding)
    BY DEF Mature
<1>4. IsFiniteSet(D)
    BY <1>2, <1>3, PositionsFinite
<1>5. \A i \in D : f[i] \in Nat
    BY <1>2, <1>3 DEF Entry
<1>6. SumFunctionOnSet(f, D) \in Nat
    <2> HIDE DEF f, D
    <2> QED BY <1>4, <1>5, SumNat
<1>7. DOMAIN f = D
    OBVIOUS
<1> QED BY <1>6, <1>7 DEF Due, SumFunction

LEMMA MatureFacts ==
    ASSUME NEW L, Good(L), NEW idx \in Int
    PROVE  LET M == _process_mature_unbondings(L, idx)
           IN  /\ Good(M) /\ SameStakes(M, L)
               /\ M.rewards = L.rewards /\ M.dists = L.dists /\ M.epoch = L.epoch
               /\ M.epochs = L.epochs /\ M.frozen = L.frozen
               /\ \A a \in Addr : M.bal[a] = L.bal[a] + Due(L, idx, a)
               /\ M.unbonding = Select(L.unbonding, (1..Len(L.unbonding)) \ Mature(L, idx))
<1> DEFINE M == _process_mature_unbondings(L, idx)
           new == [a \in Addr |-> L.bal[a] + Due(L, idx, a)]
           rest == Select(L.unbonding, (1..Len(L.unbonding)) \ Mature(L, idx))
<1>1. M = [L EXCEPT !.bal = new, !.unbonding = rest]
    BY DEF _process_mature_unbondings, Due, Mature, Good
<1>2. new \in [Addr -> Nat]
    <2>1. \A a \in Addr : L.bal[a] \in Nat /\ Due(L, idx, a) \in Nat
        BY DueType DEF Good
    <2> QED BY <2>1
<1>3. rest \in Seq(Entry)
    BY SelectType DEF Good
<1> HIDE DEF M, rest
<1>4. /\ M.bal = new /\ M.unbonding = rest /\ DOMAIN M = Fields /\ SameStakes(M, L)
      /\ M.rewards = L.rewards /\ M.dists = L.dists /\ M.epoch = L.epoch
      /\ M.epochs = L.epochs /\ M.frozen = L.frozen
    <2> HIDE DEF new
    <2> QED BY <1>1 DEF Good, Fields, SameStakes
<1>5. \A a \in Addr : M.bal[a] = L.bal[a] + Due(L, idx, a)
    BY <1>4
<1>6. Good(M)
    <2> HIDE DEF new
    <2> QED BY <1>2, <1>3, <1>4 DEF Good, SameStakes
<1> QED BY <1>4, <1>5, <1>6 DEF M, rest

-----------------------------------------------------------------------------
(* Epochs *)

\* What is left after commission.
LEMMA AfterCommission ==
    ASSUME NEW n \in Nat
    PROVE  n - (n * COMMISSION) \div 100 \in Nat
<1> DEFINE m == n * COMMISSION
<1>1. COMMISSION \in Nat /\ COMMISSION <= 100
    BY LedgerAssumption
<1>2. m \in Nat /\ m <= n * 100
    BY <1>1
<1> HIDE DEF m
<1>3. m \div 100 \in Nat /\ m \div 100 <= n
    BY <1>2
<1> QED BY <1>3 DEF m

\* A product cancelled.
LEMMA Cancelled ==
    ASSUME NEW d \in Nat, d > 0, NEW s \in Nat, NEW p \in Nat, d * s <= p * d
    PROVE  s <= p
<1>1. SUFFICES ASSUME p + 1 <= s PROVE FALSE
    OBVIOUS
<1>2. PICK k \in Nat : s = p + 1 + k
    <2>1. s - p - 1 \in Nat /\ s = p + 1 + (s - p - 1)
        BY <1>1
    <2> QED BY <2>1
<1>3. d * s = p * d + d + d * k
    BY <1>2
<1>4. d * k \in Nat /\ p * d \in Nat
    OBVIOUS
<1> QED BY <1>3, <1>4

\* A quotient, multiplied again, is not more than what was divided.
LEMMA Quotient ==
    ASSUME NEW n \in Nat, NEW d \in Nat, d > 0
    PROVE  n \div d \in Nat /\ d * (n \div d) <= n
<1>1. n \div d \in Nat
    OBVIOUS
<1>2. d * (n \div d) <= n
    OBVIOUS
<1> QED BY <1>1, <1>2

\* What the delegators of a validator receive is no more than its balance.
LEMMA SharesFacts ==
    ASSUME NEW L, Good(L), NEW v \in Validator
    PROVE  /\ Shares(L, v) \in [Addr -> Nat]
           /\ SumFunctionOnSet(Shares(L, v), Addr) \in Nat
           /\ SumFunctionOnSet(Shares(L, v), Addr) <= L.bal[v]
<1> DEFINE s == L.stakes[v]
           D == {a \in Addr \ {v} : s[a] > 0}
           d == SumFunctionOnSet(s, D)
           left == L.rewards[v] - (L.rewards[v] * COMMISSION) \div 100
           p == Min({left, L.bal[v]})
           q == [a \in Addr |-> IF a \in D THEN (p * s[a]) \div d ELSE 0]
<1>1. /\ s \in [Addr -> Nat] /\ L.bal[v] \in Nat /\ L.rewards[v] \in Nat
      /\ IsFiniteSet(Addr) /\ D \subseteq Addr
    BY LedgerAssumption DEF Good
<1>2. left \in Nat
    BY <1>1, AfterCommission
<1>3. p \in Nat /\ p <= L.bal[v]
    <2> DEFINE c == L.bal[v]
    <2>1. left \in Nat /\ c \in Nat
        BY <1>1, <1>2
    <2> HIDE DEF left, c
    <2>2. p = IF left <= c THEN left ELSE c
        BY <2>1, MinMaxPair DEF c
    <2> HIDE DEF p
    <2>3. p \in Nat /\ p <= c
        BY <2>1, <2>2
    <2> QED BY <2>3 DEF c
<1>4. Shares(L, v) = q
    BY DEF Shares
<1> HIDE DEF left, p
<1>5. IsFiniteSet(D) /\ d \in Nat /\ \A a \in D : s[a] \in Nat /\ s[a] > 0 /\ s[a] <= d
    <2>1. IsFiniteSet(D) /\ \A a \in D : s[a] \in Nat
        BY <1>1, FS_Subset
    <2> HIDE DEF s
    <2>2. \A a \in D : s[a] > 0
        OBVIOUS
    <2> HIDE DEF D
    <2> QED BY <2>1, <2>2, SumNat
<1> HIDE DEF s, D, d
<1>6. ASSUME NEW a \in D
      PROVE  q[a] \in Nat /\ d * q[a] <= p * s[a] /\ p * s[a] \in Nat
    <2>1. s[a] \in Nat /\ d \in Nat /\ d > 0
        BY <1>5
    <2>2. p * s[a] \in Nat
        BY <1>3, <2>1
    <2>3. q[a] = (p * s[a]) \div d
        BY <1>1
    <2> DEFINE n == p * s[a]
    <2> HIDE DEF n
    <2>4. n \div d \in Nat /\ d * (n \div d) <= n
        BY <2>1, <2>2, Quotient DEF n
    <2> HIDE DEF q
    <2> QED BY <2>2, <2>3, <2>4 DEF n
<1>7. \A a \in Addr \ D : q[a] = 0
    OBVIOUS
<1>8. q \in [Addr -> Nat]
    BY <1>1, <1>6, <1>7
<1> HIDE DEF q
<1> DEFINE S == SumFunctionOnSet(q, D)
<1>9. S \in Nat /\ SumFunctionOnSet(q, Addr) = S
    <2>1. /\ IsFiniteSet(Addr \ D) /\ Addr = D \cup (Addr \ D) /\ D \cap (Addr \ D) = {}
          /\ \A a \in Addr : q[a] \in Int
        BY <1>1, <1>8, FS_Subset
    <2>2. SumFunctionOnSet(q, Addr) = S + SumFunctionOnSet(q, Addr \ D)
        BY <1>1, <2>1, SumDisjoint
    <2>3. SumFunctionOnSet(q, Addr \ D) = 0
        BY <2>1, <1>7, SumZero
    <2>4. S \in Nat
        BY <1>5, <1>6, SumNat
    <2> HIDE DEF S
    <2> QED BY <2>2, <2>3, <2>4
<1> HIDE DEF S
<1>10. S <= p
    <2>1. CASE D = {}
        BY <2>1, <1>3, SumEmpty DEF S
    <2>2. CASE D # {}
        <3> DEFINE l == [a \in D |-> d * q[a]]
                   r == [a \in D |-> p * s[a]]
        <3>1. d > 0
            BY <1>5, <2>2
        <3>2. \A a \in D : l[a] \in Int /\ r[a] \in Int /\ l[a] <= r[a]
            BY <1>5, <1>6
        <3>3. SumFunctionOnSet(l, D) <= SumFunctionOnSet(r, D)
            <4> HIDE DEF l, r
            <4> QED BY <1>5, <3>2, SumLeq
        <3>4. SumFunctionOnSet(l, D) = d * S
            <4>1. \A a \in D : q[a] \in Int /\ l[a] = d * q[a]
                BY <1>6
            <4>2. d \in Int
                BY <1>5
            <4> HIDE DEF l
            <4> QED BY <1>5, <4>1, <4>2, SumTimes DEF S
        <3>5. SumFunctionOnSet(r, D) = p * d
            <4>1. \A a \in D : s[a] \in Int /\ r[a] = p * s[a]
                BY <1>5
            <4>2. p \in Int
                BY <1>3
            <4> HIDE DEF r
            <4> QED BY <1>5, <4>1, <4>2, SumTimes DEF d
        <3> HIDE DEF l, r
        <3> QED BY <1>3, <1>5, <1>9, <3>1, <3>3, <3>4, <3>5, Cancelled
    <2> QED BY <2>1, <2>2
<1>11. S <= L.bal[v]
    BY <1>1, <1>3, <1>9, <1>10
<1> QED BY <1>4, <1>8, <1>9, <1>11

\* What "a" receives from validators at the end of an epoch, and gives as one.
Got(L, a) == SumFunctionOnSet([v \in Validator |-> Shares(L, v)[a]], Validator)

Gave(L, a) == IF a \in Validator THEN SumFunctionOnSet(Shares(L, a), Addr) ELSE 0

LEMMA GotGave ==
    ASSUME NEW L, Good(L), NEW a \in Addr
    PROVE  /\ Got(L, a) \in Nat /\ Gave(L, a) \in Nat
           /\ L.bal[a] + Got(L, a) - Gave(L, a) \in Nat
<1> DEFINE f == [v \in Validator |-> Shares(L, v)[a]]
<1>1. \A v \in Validator : f[v] \in Nat
    BY SharesFacts
<1>2. IsFiniteSet(Validator)
    BY LedgerAssumption, FS_Subset
<1>3. Got(L, a) \in Nat
    <2> HIDE DEF f
    <2>1. SumFunctionOnSet(f, Validator) \in Nat
        BY <1>1, <1>2, SumNat
    <2> QED BY <2>1 DEF Got, f
<1>4. L.bal[a] \in Nat
    BY DEF Good
<1>5. Gave(L, a) \in Nat /\ Gave(L, a) <= L.bal[a]
    BY <1>4, SharesFacts DEF Gave
<1> QED BY <1>3, <1>4, <1>5

LEMMA DistributeFacts ==
    ASSUME NEW L, Good(L), NEW e
    PROVE  LET M == _distribute_epoch_rewards(L, e)
           IN  /\ Good(M) /\ SameStakes(M, L) /\ M.unbonding = L.unbonding
               /\ M.epoch = L.epoch
               /\ \A a \in Addr : M.bal[a] = L.bal[a] + Got(L, a) - Gave(L, a)
<1> DEFINE M == _distribute_epoch_rewards(L, e)
           share == [v \in Validator |-> Shares(L, v)]
           new == [a \in Addr |-> L.bal[a] + Got(L, a) - Gave(L, a)]
           none == [v \in Validator |-> 0]
           ds == [x \in (DOMAIN L.dists) \cup {e} |-> IF x = e THEN share ELSE L.dists[x]]
           got(a)  == SumFunction([v \in Validator |-> share[v][a]])
           gave(a) == IF a \in Validator THEN SumFunction(share[a]) ELSE 0
<1>1. \A a \in Addr : got(a) = Got(L, a)
    BY DEF Got, SumFunction
<1>2. ASSUME NEW a \in Addr PROVE gave(a) = Gave(L, a)
    <2>1. CASE a \in Validator
        <3>1. share[a] = Shares(L, a) /\ DOMAIN Shares(L, a) = Addr
            BY <2>1, SharesFacts
        <3> QED BY <2>1, <3>1 DEF Gave, SumFunction
    <2>2. CASE a \notin Validator
        BY <2>2 DEF Gave
    <2> QED BY <2>1, <2>2
<1>3. M = [L EXCEPT !.bal = [a \in Addr |-> L.bal[a] + got(a) - gave(a)],
                    !.rewards = none, !.dists = ds]
    BY DEF _distribute_epoch_rewards, Good, Fields
<1>4. [a \in Addr |-> L.bal[a] + got(a) - gave(a)] = new
    <2> HIDE DEF got, gave
    <2> QED BY <1>1, <1>2
<1>5. M = [L EXCEPT !.bal = new, !.rewards = none, !.dists = ds]
    BY <1>3, <1>4
<1>6. new \in [Addr -> Nat] /\ none \in [Validator -> Nat]
    BY GotGave
<1>7. \A a \in Addr : new[a] = L.bal[a] + Got(L, a) - Gave(L, a)
    OBVIOUS
<1> HIDE DEF M, new, none, ds
<1>8. /\ M.bal = new /\ M.rewards = none /\ DOMAIN M = Fields
      /\ SameStakes(M, L) /\ M.unbonding = L.unbonding /\ M.epoch = L.epoch
    BY <1>5 DEF Good, Fields, SameStakes
<1>9. Good(M)
    BY <1>6, <1>8 DEF Good, SameStakes
<1> QED BY <1>7, <1>8, <1>9 DEF M

\* The balances of L after its epoch has ended.
Distributed(M, L) ==
    \A a \in Addr : M.bal[a] = L.bal[a] + Got(L, a) - Gave(L, a)

LEMMA EpochFacts ==
    ASSUME NEW L, Good(L), NEW idx \in Nat
    PROVE  LET M == _check_epoch_transition(L, idx)
               new == idx \div EPOCH_LENGTH
           IN  /\ Good(M) /\ SameStakes(M, L) /\ M.unbonding = L.unbonding
               /\ M.epoch = IF new > L.epoch THEN new ELSE L.epoch
               /\ new > L.epoch => Distributed(M, L)
               /\ ~ (new > L.epoch) => M = L
<1> DEFINE M == _check_epoch_transition(L, idx)
           new == idx \div EPOCH_LENGTH
           D == _distribute_epoch_rewards(L, new - 1)
           fr == _get_live_validators(L)
           ep == [e \in (DOMAIN D.epochs) \cup {new} |-> IF e = new THEN fr ELSE D.epochs[e]]
<1>1. new \in Nat
    BY LedgerAssumption
<1>2. CASE new > L.epoch
    <2>1. M = [D EXCEPT !.epoch = new, !.frozen = fr, !.epochs = ep]
        BY <1>2 DEF _check_epoch_transition
    <2>2. /\ Good(D) /\ SameStakes(D, L) /\ D.unbonding = L.unbonding
          /\ Distributed(D, L)
        BY DistributeFacts DEF Distributed
    <2> HIDE DEF M, D, fr, ep, new
    <2>3. /\ M.epoch = new /\ M.bal = D.bal /\ M.unbonding = D.unbonding /\ SameStakes(M, D)
          /\ DOMAIN M = Fields /\ M.rewards = D.rewards
        BY <2>1, <2>2 DEF Good, Fields, SameStakes
    <2>4. Good(M)
        BY <1>1, <2>2, <2>3 DEF Good, SameStakes
    <2>5. SameStakes(M, L) /\ M.unbonding = L.unbonding /\ Distributed(M, L)
        BY <2>2, <2>3 DEF SameStakes, Distributed
    <2> QED BY <1>2, <2>3, <2>4, <2>5 DEF M, new
<1>3. CASE ~ (new > L.epoch)
    <2>1. M = L
        BY <1>3 DEF _check_epoch_transition
    <2> HIDE DEF M, new
    <2> QED BY <1>3, <2>1 DEF SameStakes, M, new
<1> QED BY <1>2, <1>3

-----------------------------------------------------------------------------
(* A whole block *)

\* M is L after v received the reward r, if nothing failed.
Paid(M, L, v, r) ==
    /\ M.ok = L.ok /\ M.epoch = L.epoch
    /\ M.stakes = L.stakes /\ M.total = L.total /\ M.unbonding = L.unbonding
    /\ M.burned = L.burned /\ M.slashed = L.slashed /\ M.known = L.known
    /\ M.frozen = L.frozen
    /\ L.ok => /\ M.bal = [L.bal EXCEPT ![v] = @ + r]
               /\ M.minted = L.minted + r
               /\ M.rewards = [L.rewards EXCEPT ![v] = @ + r]

LEMMA PayRewardFacts ==
    ASSUME NEW L, Good(L), NEW v \in Validator, NEW idx \in Nat
    PROVE  /\ Good(PayReward(L, v, idx))
           /\ Paid(PayReward(L, v, idx), L, v, _calc_block_reward(L, idx))
           /\ _calc_block_reward(L, idx) \in Nat
<1> DEFINE M == PayReward(L, v, idx)
           r == _calc_block_reward(L, idx)
<1>1. /\ L.minted \in 0..MAX_SUPPLY /\ L.bal \in [Addr -> Nat]
      /\ L.rewards \in [Validator -> Nat] /\ MAX_SUPPLY \in Nat
      /\ v \in Addr
    BY LedgerAssumption DEF Good
<1>2. L.minted \in Int /\ L.minted <= MAX_SUPPLY /\ L.minted \in Nat
    BY <1>1
<1>3. r \in Nat /\ L.minted + r <= MAX_SUPPLY
    BY <1>2, RewardBounds
<1>4. L.minted + r \in 0..MAX_SUPPLY
    <2> HIDE DEF r
    <2> QED BY <1>1, <1>2, <1>3
<1>5. CASE L.ok
    <2>1. M = [L EXCEPT !.bal[v] = @ + r, !.minted = @ + r, !.rewards[v] = @ + r]
        BY <1>5 DEF PayReward
    <2> HIDE DEF M, r
    <2>2. /\ M.bal = [L.bal EXCEPT ![v] = @ + r] /\ M.minted = L.minted + r
          /\ M.rewards = [L.rewards EXCEPT ![v] = @ + r] /\ DOMAIN M = Fields
          /\ M.ok = L.ok /\ M.epoch = L.epoch
          /\ M.stakes = L.stakes /\ M.total = L.total /\ M.unbonding = L.unbonding
          /\ M.burned = L.burned /\ M.slashed = L.slashed /\ M.known = L.known
          /\ M.frozen = L.frozen
        BY <2>1 DEF Good, Fields
    <2>3. M.bal \in [Addr -> Nat] /\ M.rewards \in [Validator -> Nat]
        <3>1. L.bal[v] + r \in Nat /\ L.rewards[v] + r \in Nat
            BY <1>1, <1>3
        <3> QED BY <1>1, <2>2, <3>1
    <2>4. Good(M)
        BY <1>4, <2>2, <2>3 DEF Good
    <2> QED BY <1>3, <2>2, <2>4 DEF M, r, Paid
<1>6. CASE ~ L.ok
    <2>1. M = L
        BY <1>6 DEF PayReward
    <2> HIDE DEF M, r
    <2> QED BY <1>3, <1>6, <2>1 DEF M, r, Paid
<1> QED BY <1>5, <1>6

Blocks == [validator : Validator, txs : Seq(Tx)]

\* The ledgers on the way through a block.
Begun(L, idx) == _check_epoch_transition(_process_mature_unbondings(L, idx), idx)

Transacted(L, b, idx) == AfterTxs(Begun(L, idx), b.validator, idx, b.txs)[Len(b.txs)]

\* A block leaves a good ledger.
LEMMA AppliedFacts ==
    ASSUME NEW L, Good(L), NEW b \in Blocks, NEW idx \in Nat
    PROVE  LET M == Applied(L, b, idx)
               new == idx \div EPOCH_LENGTH
           IN  /\ Good(M) /\ M = PayReward(Transacted(L, b, idx), b.validator, idx)
               /\ Good(Begun(L, idx)) /\ Begun(L, idx).ok = L.ok
               /\ Good(Transacted(L, b, idx))
               /\ SameRewards(Transacted(L, b, idx), Begun(L, idx))
               /\ M.epoch = IF new > L.epoch THEN new ELSE L.epoch
<1> DEFINE K == _process_mature_unbondings(L, idx)
           B == Begun(L, idx)
           T == Transacted(L, b, idx)
           v == b.validator
<1>1. /\ v \in Validator /\ v \in Addr /\ b.txs \in Seq(Tx) /\ idx \in Int
      /\ Len(b.txs) \in Nat
    BY LedgerAssumption, LenProperties DEF Blocks
<1>2. Good(K) /\ K.epoch = L.epoch /\ K.ok = L.ok
    BY <1>1, MatureFacts DEF SameStakes
<1> HIDE DEF K
<1>3. /\ Good(B) /\ B.ok = L.ok
      /\ B.epoch = IF idx \div EPOCH_LENGTH > L.epoch THEN idx \div EPOCH_LENGTH ELSE L.epoch
    BY <1>2, EpochFacts DEF SameStakes, Begun, K
<1> HIDE DEF B
<1>4. Good(T) /\ SameRewards(T, B)
    <2>1. Len(b.txs) \in 0..Len(b.txs)
        BY <1>1
    <2> QED BY <1>1, <1>3, <2>1, AfterTxsGood DEF Transacted, B
<1> HIDE DEF T
<1>5. Applied(L, b, idx) = PayReward(T, v, idx)
    BY DEF Applied, T, Transacted, Begun
<1> HIDE DEF v
<1>6. Good(PayReward(T, v, idx)) /\ PayReward(T, v, idx).epoch = T.epoch
    BY <1>1, <1>4, PayRewardFacts DEF Paid
<1>7. T.epoch = B.epoch
    BY <1>4 DEF SameRewards
<1> QED BY <1>3, <1>4, <1>5, <1>6, <1>7 DEF B, T, v

\* Forgetting old distributions changes no money.
LEMMA PruneFacts ==
    ASSUME NEW L, DOMAIN L = Fields, NEW idx
    PROVE  LET M == PruneDistributions(L, idx)
           IN  DOMAIN M = Fields /\ M.ok = L.ok /\ Money(M) = Money(L)
<1> DEFINE M == PruneDistributions(L, idx)
           before == idx - MAX_REORG_DEPTH - 1
           ds == [e \in {d \in DOMAIN L.dists : d >= before} |-> L.dists[e]]
<1>1. CASE before >= 0
    <2>1. M = [L EXCEPT !.dists = ds]
        BY <1>1 DEF PruneDistributions
    <2> HIDE DEF M, ds
    <2>2. DOMAIN M = Fields /\ M.ok = L.ok /\ Money(M) = Money(L)
        BY <2>1 DEF Money, Fields
    <2> QED BY <2>2 DEF M
<1>2. CASE ~ (before >= 0)
    BY <1>2 DEF PruneDistributions
<1> QED BY <1>1, <1>2

\* Good is about money, and whether the ledger is a ledger.
LEMMA GoodMoney ==
    ASSUME NEW L, Good(L), NEW M, DOMAIN M = Fields, M.ok \in BOOLEAN, Money(M) = Money(L)
    PROVE  /\ Good(M) /\ Trie(M) = Trie(L)
           /\ M.bal = L.bal /\ M.stakes = L.stakes /\ M.total = L.total
           /\ M.unbonding = L.unbonding /\ M.minted = L.minted /\ M.burned = L.burned
           /\ M.rewards = L.rewards /\ M.epoch = L.epoch /\ M.frozen = L.frozen
           /\ M.slashed = L.slashed /\ M.known = L.known
<1>1. /\ M.bal = L.bal /\ M.stakes = L.stakes /\ M.total = L.total
      /\ M.unbonding = L.unbonding /\ M.minted = L.minted /\ M.burned = L.burned
      /\ M.rewards = L.rewards /\ M.epoch = L.epoch /\ M.frozen = L.frozen
      /\ M.slashed = L.slashed /\ M.known = L.known
    BY DEF Money
<1>2. Good(M)
    BY <1>1 DEF Good
<1> QED BY <1>1, <1>2 DEF Trie

-----------------------------------------------------------------------------
(* A block taken back: what holds whatever is in it *)

\* M is a record of the same fields as the ledgers, and fails if L does.
Shape(M, L) == DOMAIN M = Fields /\ M.ok = L.ok

LEMMA UndoFundsShape ==
    ASSUME NEW L, DOMAIN L = Fields, NEW v, NEW t
    PROVE  Shape(UndoFee(UndoFunds(L, t), v, t), L)
<1> DEFINE K == UndoFunds(L, t)
<1>1. Shape(K, L)
    <2>1. CASE t.type = "TRANSFER"
        BY <2>1 DEF UndoFunds, _rollback_debit, Shape, Fields
    <2>2. CASE t.type = "STAKE"
        BY <2>2 DEF UndoFunds, Shape, Fields
    <2>3. CASE t.type \notin {"TRANSFER", "STAKE"}
        BY <2>3 DEF UndoFunds, Shape
    <2> QED BY <2>1, <2>2, <2>3
<1> HIDE DEF K
<1>2. Shape(UndoFee(K, v, t), K)
    BY <1>1 DEF UndoFee, _rollback_debit, Shape, Fields
<1> QED BY <1>1, <1>2 DEF Shape, K

LEMMA UndoStakeShape ==
    ASSUME NEW L, DOMAIN L = Fields, NEW idx, NEW t
    PROVE  Shape(UndoStake(L, idx, t), L)
<1>1. CASE t.type = "STAKE"
    BY <1>1 DEF UndoStake, Shape, Fields
<1>2. CASE t.type = "UNSTAKE"
    <2> DEFINE S == Stake(L, t)
               rest == Select(S.unbonding, {i \in 1..Len(S.unbonding) :
                                                S.unbonding[i] # Unbonding(t, idx)})
    <2>1. Shape(S, L)
        BY DEF Stake, Shape, Fields
    <2>2. UndoStake(L, idx, t) = [S EXCEPT !.unbonding = rest]
        BY <1>2 DEF UndoStake
    <2> HIDE DEF S, rest
    <2> QED BY <2>1, <2>2 DEF Shape, Fields
<1>3. CASE t.type = "EVIDENCE"
    BY <1>3 DEF UndoStake, Shape, Fields
<1>4. CASE t.type \notin {"STAKE", "UNSTAKE", "EVIDENCE"}
    BY <1>4 DEF UndoStake, Shape
<1> QED BY <1>1, <1>2, <1>3, <1>4

LEMMA FundsUndoneShape ==
    ASSUME NEW L, DOMAIN L = Fields, NEW v, NEW txs, Len(txs) \in Nat
    PROVE  \A n \in 0..Len(txs) : Shape(FundsUndone(L, v, txs)[n], L)
<1> DEFINE A == FundsUndone(L, v, txs)
           N == Len(txs)
           S == {n \in 0..N : Shape(A[n], L)}
           t(n) == txs[Len(txs) + 1 - n]
<1>1. A[0] = L /\ \A n \in 1..N : A[n] = UndoFee(UndoFunds(A[n - 1], t(n)), v, t(n))
    BY FundsUndoneIs
<1> HIDE DEF A, t
<1>2. 0 \in S
    BY <1>1 DEF Shape
<1>3. ASSUME NEW n \in 1..N, n - 1 \in S PROVE n \in S
    <2>1. Shape(A[n - 1], L)
        BY <1>3
    <2>2. Shape(A[n], A[n - 1])
        BY <1>1, <2>1, UndoFundsShape DEF Shape
    <2>3. n \in 0..N
        OBVIOUS
    <2> HIDE DEF N
    <2> QED BY <2>1, <2>2, <2>3 DEF Shape
<1>4. \A n \in 0..N : n \in S
    <2> HIDE DEF S
    <2> QED BY <1>2, <1>3, PrefixInduction
<1> QED BY <1>4 DEF A

LEMMA StakesUndoneShape ==
    ASSUME NEW L, DOMAIN L = Fields, NEW idx, NEW txs, Len(txs) \in Nat
    PROVE  \A n \in 0..Len(txs) : Shape(StakesUndone(L, idx, txs)[n], L)
<1> DEFINE A == StakesUndone(L, idx, txs)
           N == Len(txs)
           S == {n \in 0..N : Shape(A[n], L)}
<1>1. A[0] = L /\ \A n \in 1..N : A[n] = UndoStake(A[n - 1], idx, txs[n])
    BY StakesUndoneIs
<1> HIDE DEF A
<1>2. 0 \in S
    BY <1>1 DEF Shape
<1>3. ASSUME NEW n \in 1..N, n - 1 \in S PROVE n \in S
    <2>1. Shape(A[n - 1], L)
        BY <1>3
    <2>2. Shape(A[n], A[n - 1])
        BY <1>1, <2>1, UndoStakeShape DEF Shape
    <2>3. n \in 0..N
        OBVIOUS
    <2> HIDE DEF N
    <2> QED BY <2>1, <2>2, <2>3 DEF Shape
<1>4. \A n \in 0..N : n \in S
    <2> HIDE DEF S
    <2> QED BY <1>2, <1>3, PrefixInduction
<1> QED BY <1>4 DEF A

\* The parts of _rollback_block.
RewardUndone(L, b, idx) == UndoReward(L, b.validator, idx)

FundsBack(L, b, idx) ==
    FundsUndone(RewardUndone(L, b, idx), b.validator, b.txs)[Len(b.txs)]

StakesBack(L, b, idx) == StakesUndone(FundsBack(L, b, idx), idx, b.txs)[Len(b.txs)]

LEMMA RollbackShape ==
    ASSUME NEW L, DOMAIN L = Fields, NEW b, NEW idx, Len(b.txs) \in Nat
    PROVE  /\ Shape(_rollback_block(L, b, idx), L)
           /\ _rollback_block(L, b, idx) = UndoEpoch(StakesBack(L, b, idx), idx)
           /\ Shape(RewardUndone(L, b, idx), L)
           /\ Shape(FundsBack(L, b, idx), L)
           /\ Shape(StakesBack(L, b, idx), L)
<1> DEFINE R == RewardUndone(L, b, idx)
           F == FundsBack(L, b, idx)
           K == StakesBack(L, b, idx)
<1>0. Len(b.txs) \in 0..Len(b.txs)
    OBVIOUS
<1>1. Shape(R, L)
    BY DEF RewardUndone, UndoReward, _rollback_debit, Shape, Fields
<1> HIDE DEF R
<1>2. Shape(F, R)
    BY <1>0, <1>1, FundsUndoneShape DEF Shape, FundsBack, R
<1> HIDE DEF F
<1>3. Shape(K, F)
    BY <1>0, <1>2, StakesUndoneShape DEF Shape, StakesBack, F
<1>4. _rollback_block(L, b, idx) = UndoEpoch(K, idx)
    BY DEF _rollback_block, K, StakesBack, FundsBack, RewardUndone
<1> HIDE DEF K
<1>5. Shape(UndoEpoch(K, idx), K)
    BY <1>3 DEF UndoEpoch, Shape, Fields
<1> QED BY <1>1, <1>2, <1>3, <1>4, <1>5 DEF Shape, R, F, K

LEMMA BlocksUndoneShape ==
    ASSUME NEW L, DOMAIN L = Fields, NEW c, Len(c) \in Nat,
           \A i \in 1..Len(c) : Len(c[i].txs) \in Nat
    PROVE  \A n \in 0..Len(c) : Shape(BlocksUndone(L, c)[n], L)
<1> DEFINE A == BlocksUndone(L, c)
           N == Len(c)
           S == {n \in 0..N : Shape(A[n], L)}
<1>1. A[0] = L /\ \A n \in 1..N : A[n] = _rollback_block(A[n - 1], c[N + 1 - n], N + 1 - n)
    BY BlocksUndoneIs
<1> HIDE DEF A
<1>2. 0 \in S
    BY <1>1 DEF Shape
<1>3. ASSUME NEW n \in 1..N, n - 1 \in S PROVE n \in S
    <2>1. Shape(A[n - 1], L)
        BY <1>3
    <2>2. N + 1 - n \in 1..N
        OBVIOUS
    <2> DEFINE i == N + 1 - n
               K == A[n - 1]
               b == c[i]
    <2>3. A[n] = _rollback_block(K, b, i) /\ Len(b.txs) \in Nat /\ DOMAIN K = Fields
        BY <1>1, <2>1, <2>2 DEF Shape
    <2> HIDE DEF i, K, b
    <2>4. Shape(_rollback_block(K, b, i), K)
        BY <2>3, RollbackShape
    <2> QED BY <2>1, <2>3, <2>4 DEF Shape, K
<1>4. \A n \in 0..N : n \in S
    <2> HIDE DEF S
    <2> QED BY <1>2, <1>3, PrefixInduction
<1> QED BY <1>4 DEF A

-----------------------------------------------------------------------------
(* The ledger follows its history *)

\* The ledger that block k - 1 left, and its snapshot.
Remembered(k) ==
    /\ Good(past[k]) /\ past[k].ok
    /\ past[k].epoch = (k - 1) \div EPOCH_LENGTH
    /\ snapshots[k] = Trie(past[k])

\* The history, the snapshots and the trie are those of the chain, and the ledger
\* has the money of the last block.
LedgerInv ==
    /\ chain \in Seq(Blocks) /\ txPool \in Seq(Tx)
    /\ \E S : past \in Seq(S) /\ snapshots \in Seq(S)
    /\ Len(past) = height + 1 /\ Len(snapshots) = height + 1
    /\ \A k \in 1..(height + 1) : Remembered(k)
    /\ DOMAIN ledger = Fields /\ ledger.ok = TRUE
    /\ Money(ledger) = Money(past[height + 1])
    /\ trie = snapshots[height + 1]

\* A block that was appended.
LEMMA NextEpoch ==
    ASSUME NEW n \in Nat
    PROVE  /\ n \div EPOCH_LENGTH \in Nat /\ (n + 1) \div EPOCH_LENGTH \in Nat
           /\ n \div EPOCH_LENGTH <= (n + 1) \div EPOCH_LENGTH
<1> DEFINE d == EPOCH_LENGTH
           p == n \div d
           q == (n + 1) \div d
<1>1. d \in Nat /\ d > 0
    BY LedgerAssumption
<1> HIDE DEF d
<1>2. p \in Nat /\ q \in Nat
    BY <1>1
<1>3. d * p <= n
    BY <1>1
<1>4. n + 1 < d * (q + 1)
    BY <1>1
<1> HIDE DEF p, q
<1>5. SUFFICES ASSUME q + 1 <= p PROVE FALSE
    BY <1>2 DEF p, q, d
<1>6. d * (q + 1) <= d * p
    <2>1. PICK k \in Nat : p = q + 1 + k
        <3>1. p - q - 1 \in Nat /\ p = q + 1 + (p - q - 1)
            BY <1>2, <1>5
        <3> QED BY <3>1
    <2>2. d * p = d * (q + 1) + d * k /\ d * k \in Nat /\ d * (q + 1) \in Nat
        BY <1>1, <1>2, <2>1
    <2> QED BY <2>2
<1>7. d * p \in Nat /\ d * (q + 1) \in Nat
    BY <1>1, <1>2
<1> QED BY <1>3, <1>4, <1>6, <1>7

\* The ledger itself is good.
LEMMA LedgerGood ==
    ASSUME LedgerInv
    PROVE  /\ Good(ledger) /\ ledger.epoch = height \div EPOCH_LENGTH
           /\ trie = Trie(ledger) /\ height \in Nat
           /\ past[height + 1].bal = ledger.bal
<1>1. height \in Nat /\ height + 1 \in 1..(height + 1)
    BY LenProperties DEF LedgerInv, height
<1>2. Remembered(height + 1)
    BY <1>1 DEF LedgerInv
<1> DEFINE P == past[height + 1]
<1>3. /\ Good(P) /\ snapshots[height + 1] = Trie(P)
      /\ P.epoch = height \div EPOCH_LENGTH
    BY <1>1, <1>2 DEF Remembered
<1>4. DOMAIN ledger = Fields /\ ledger.ok \in BOOLEAN /\ Money(ledger) = Money(P)
    BY DEF LedgerInv
<1> HIDE DEF P
<1>5. Good(ledger) /\ Trie(ledger) = Trie(P) /\ ledger.epoch = P.epoch /\ ledger.bal = P.bal
    BY <1>3, <1>4, GoodMoney
<1> QED BY <1>1, <1>3, <1>5 DEF LedgerInv, P

LEMMA GenesisGood ==
    /\ Good(Genesis) /\ Genesis.ok = TRUE /\ Genesis.epoch = 0
<1>1. /\ Self \in Validator /\ Validator \subseteq Addr /\ MIN_STAKE \in Nat
      /\ GENESIS_BALANCE \in 0..MAX_SUPPLY /\ GENESIS_BALANCE \in Nat
    BY LedgerAssumption
<1> DEFINE b == [a \in Addr |-> IF a = Self THEN GENESIS_BALANCE ELSE 0]
           s == [v \in Validator |-> [a \in Addr |->
                    IF v = Self /\ a = Self THEN MIN_STAKE ELSE 0]]
           t == [v \in Validator |-> IF v = Self THEN MIN_STAKE ELSE 0]
           r == [v \in Validator |-> 0]
<1>2. /\ b \in [Addr -> Nat] /\ s \in [Validator -> [Addr -> Nat]]
      /\ t \in [Validator -> Nat] /\ r \in [Validator -> Nat]
    BY <1>1
<1>3. /\ DOMAIN Genesis = Fields /\ Genesis.ok = TRUE /\ Genesis.epoch = 0
      /\ Genesis.bal = b /\ Genesis.stakes = s /\ Genesis.total = t /\ Genesis.rewards = r
      /\ Genesis.unbonding = <<>> /\ Genesis.minted = GENESIS_BALANCE
      /\ Genesis.burned = 0
    BY DEF Genesis, Fields
<1> HIDE DEF b, s, t, r
<1>4. <<>> \in Seq(Entry)
    BY EmptySeq
<1>5. /\ Genesis.ok \in BOOLEAN /\ Genesis.burned \in Nat /\ Genesis.epoch \in Nat
      /\ Genesis.minted \in 0..MAX_SUPPLY /\ Genesis.unbonding \in Seq(Entry)
    <2>1. Genesis.ok \in BOOLEAN
        BY <1>3
    <2>2. Genesis.burned \in Nat /\ Genesis.epoch \in Nat
        BY <1>3
    <2>3. Genesis.minted \in 0..MAX_SUPPLY /\ Genesis.unbonding \in Seq(Entry)
        BY <1>1, <1>3, <1>4
    <2> QED BY <2>1, <2>2, <2>3
<1>6. Good(Genesis)
    BY <1>2, <1>3, <1>5 DEF Good
<1> QED BY <1>3, <1>6

LEMMA LedgerInit == Init => LedgerInv
<1> SUFFICES ASSUME Init PROVE LedgerInv
    OBVIOUS
<1>1. /\ chain = <<>> /\ ledger = Genesis /\ trie = Trie(Genesis)
      /\ snapshots = <<Trie(Genesis)>> /\ txPool = <<>> /\ past = <<Genesis>>
    BY DEF Init
<1>2. height = 0 /\ chain \in Seq(Blocks) /\ txPool \in Seq(Tx)
    BY <1>1, EmptySeq DEF height
<1>3. \E S : past \in Seq(S) /\ snapshots \in Seq(S)
    <2>1. past \in Seq({Genesis, Trie(Genesis)}) /\ snapshots \in Seq({Genesis, Trie(Genesis)})
        BY <1>1
    <2> QED BY <2>1
<1>4. Len(past) = 1 /\ Len(snapshots) = 1 /\ past[1] = Genesis /\ snapshots[1] = Trie(Genesis)
    BY <1>1
<1>5. 0 \div EPOCH_LENGTH = 0
    BY LedgerAssumption
<1>6. ASSUME NEW k \in 1..1 PROVE Remembered(k)
    <2>1. k = 1 /\ (k - 1) \div EPOCH_LENGTH = 0
        BY <1>5
    <2> QED BY <1>4, <2>1, GenesisGood DEF Remembered
<1>7. DOMAIN Genesis = Fields
    BY GenesisGood DEF Good
<1> QED BY <1>1, <1>2, <1>3, <1>4, <1>6, <1>7, GenesisGood DEF LedgerInv

\* A sequence after an element more, whatever its elements are.
LEMMA OneMore ==
    ASSUME NEW S, NEW q \in Seq(S), NEW x
    PROVE  /\ Append(q, x) \in Seq(S \cup {x})
           /\ Len(Append(q, x)) = Len(q) + 1
           /\ \A i \in 1..Len(q) : Append(q, x)[i] = q[i]
           /\ Append(q, x)[Len(q) + 1] = x
<1> DEFINE T == S \cup {x}
<1>1. x \in T /\ q \in Seq(T)
    <2>1. \A i \in 1..Len(q) : q[i] \in T
        BY ElementOfSeq
    <2> QED BY <2>1
<1> HIDE DEF T
<1> QED BY <1>1, AppendProperties DEF T

\* The first n elements.
LEMMA FirstOnes ==
    ASSUME NEW S, NEW q \in Seq(S), NEW n \in 0..Len(q)
    PROVE  /\ SubSeq(q, 1, n) \in Seq(S) /\ Len(SubSeq(q, 1, n)) = n
           /\ \A i \in 1..n : SubSeq(q, 1, n)[i] = q[i]
<1>1. Len(q) \in Nat /\ n \in Int /\ 1 \in Int /\ n \in Nat
    BY LenProperties
<1>2. \A i \in 1..n : q[i] \in S
    BY <1>1, ElementOfSeq
<1>3. /\ SubSeq(q, 1, n) \in Seq(S)
      /\ Len(SubSeq(q, 1, n)) = IF 1 <= n THEN n - 1 + 1 ELSE 0
      /\ \A i \in 1..(n - 1 + 1) : SubSeq(q, 1, n)[i] = q[1 + i - 1]
    BY <1>1, <1>2, SubSeqProperties
<1> HIDE DEF SubSeq
<1>4. \A i \in 1..n : i \in 1..(n - 1 + 1) /\ 1 + i - 1 = i
    BY <1>1
<1> QED BY <1>1, <1>3, <1>4

\* The blocks that are appended are blocks.
LEMMA BlocksType ==
    ASSUME txPool \in Seq(Tx)
    PROVE  NextBlock \in Blocks /\ Incoming \subseteq Blocks
<1>1. Self \in Validator /\ MAX_TX_PER_BLOCK \in Nat /\ Len(txPool) \in Nat
    BY LedgerAssumption, BoundAssumption, LenProperties
<1> DEFINE n == Min({Len(txPool), MAX_TX_PER_BLOCK})
<1>2. n \in 0..Len(txPool)
    <2>1. n = IF Len(txPool) <= MAX_TX_PER_BLOCK THEN Len(txPool) ELSE MAX_TX_PER_BLOCK
        BY <1>1, MinMaxPair
    <2> QED BY <1>1, <2>1
<1> HIDE DEF n
<1>3. SubSeq(txPool, 1, n) \in Seq(Tx)
    BY <1>2, FirstOnes
<1>4. NextBlock \in Blocks
    BY <1>1, <1>3 DEF NextBlock, Blocks, n
<1>5. ASSUME NEW b \in Incoming PROVE b \in Blocks
    <2>1. /\ b = [validator |-> b.validator, txs |-> b.txs]
          /\ b.validator \in Validator
          /\ b.txs \in UNION {[1..k -> Tx] : k \in 0..MAX_TX_PER_BLOCK}
        BY DEF Incoming
    <2>2. b.txs \in Seq(Tx)
        <3>1. PICK k \in 0..MAX_TX_PER_BLOCK : b.txs \in [1..k -> Tx]
            BY <2>1
        <3>2. k \in Nat
            BY <1>1
        <3> QED BY <3>1, <3>2
    <2> HIDE DEF Incoming
    <2> QED BY <2>1, <2>2 DEF Blocks
<1> QED BY <1>4, <1>5

\* A step that leaves chain and history alone, and the money of the ledger.
LEMMA StepStays ==
    ASSUME LedgerInv, UNCHANGED <<chain, past, snapshots>>, txPool' \in Seq(Tx),
           DOMAIN ledger' = Fields, ledger'.ok = TRUE, Money(ledger') = Money(ledger),
           trie' = snapshots[height + 1]
    PROVE  LedgerInv'
<1>1. chain' = chain /\ past' = past /\ snapshots' = snapshots /\ height' = height
    BY DEF height
<1>2. ASSUME NEW k \in 1..(height' + 1) PROVE Remembered(k)'
    <2>1. Remembered(k)
        BY <1>1 DEF LedgerInv
    <2> QED BY <1>1, <2>1 DEF Remembered
<1> QED BY <1>1, <1>2 DEF LedgerInv

\* A block that is appended.
LEMMA StepAppends ==
    ASSUME LedgerInv, NEW b \in Blocks, _append_block(b), txPool' \in Seq(Tx)
    PROVE  LedgerInv'
<1> DEFINE L == Applied(ledger, b, height + 1)
           n == height + 1
<1>1. /\ Good(ledger) /\ ledger.epoch = height \div EPOCH_LENGTH
      /\ height \in Nat /\ n \in Nat
    BY LedgerGood
<1>2. Good(L) /\ L.epoch = n \div EPOCH_LENGTH
    <2>1. /\ Good(L)
          /\ L.epoch = IF n \div EPOCH_LENGTH > ledger.epoch
                       THEN n \div EPOCH_LENGTH ELSE ledger.epoch
        BY <1>1, AppliedFacts
    <2>2. /\ height \div EPOCH_LENGTH \in Nat /\ n \div EPOCH_LENGTH \in Nat
          /\ height \div EPOCH_LENGTH <= n \div EPOCH_LENGTH
        BY <1>1, NextEpoch
    <2> DEFINE p == height \div EPOCH_LENGTH
               q == n \div EPOCH_LENGTH
    <2>3. L.epoch = (IF q > p THEN q ELSE p) /\ p \in Nat /\ q \in Nat /\ p <= q
        BY <1>1, <2>1, <2>2
    <2> HIDE DEF p, q
    <2>4. L.epoch = q
        BY <2>3
    <2> QED BY <2>1, <2>4 DEF q
<1>3. /\ L.ok /\ chain' = Append(chain, b) /\ ledger' = PruneDistributions(L, n)
      /\ trie' = Trie(L) /\ snapshots' = Append(snapshots, Trie(L))
      /\ past' = Append(past, ledger')
    BY DEF _append_block
<1> HIDE DEF L
<1>4. DOMAIN ledger' = Fields /\ ledger'.ok = L.ok /\ Money(ledger') = Money(L)
    BY <1>2, <1>3, PruneFacts DEF Good
<1>5. ledger'.ok = TRUE
    BY <1>2, <1>3, <1>4 DEF Good
<1>6. Good(ledger') /\ Trie(ledger') = Trie(L) /\ ledger'.epoch = n \div EPOCH_LENGTH
    BY <1>2, <1>4, <1>5, GoodMoney
<1>7. PICK S : past \in Seq(S) /\ snapshots \in Seq(S)
    BY DEF LedgerInv
<1>8. chain \in Seq(Blocks) /\ Len(past) = n /\ Len(snapshots) = n
    BY DEF LedgerInv
<1>9. /\ chain' \in Seq(Blocks) /\ height' = n
    BY <1>1, <1>3, <1>8, AppendProperties DEF height
<1>10. /\ past' \in Seq(S \cup {ledger'}) /\ Len(past') = n + 1 /\ past'[n + 1] = ledger'
       /\ \A i \in 1..n : past'[i] = past[i]
    BY <1>3, <1>7, <1>8, OneMore
<1>11. /\ snapshots' \in Seq(S \cup {Trie(L)}) /\ Len(snapshots') = n + 1
       /\ snapshots'[n + 1] = Trie(L) /\ \A i \in 1..n : snapshots'[i] = snapshots[i]
    BY <1>3, <1>7, <1>8, OneMore
<1>12. \E R : past' \in Seq(R) /\ snapshots' \in Seq(R)
    <2> DEFINE R == S \cup {ledger', Trie(L)}
    <2>1. \A i \in 1..Len(past') : past'[i] \in R
        BY <1>10, ElementOfSeq
    <2>2. \A i \in 1..Len(snapshots') : snapshots'[i] \in R
        BY <1>11, ElementOfSeq
    <2> HIDE DEF R
    <2>3. past' \in Seq(R) /\ snapshots' \in Seq(R)
        BY <2>1, <2>2, <1>10, <1>11
    <2> QED BY <2>3
<1>13. ASSUME NEW k \in 1..(n + 1) PROVE Remembered(k)'
    <2>1. CASE k = n + 1
        <3>1. k - 1 = n
            BY <1>1, <2>1
        <3> QED BY <1>5, <1>6, <1>10, <1>11, <2>1, <3>1 DEF Remembered
    <2>2. CASE k # n + 1
        <3>1. k \in 1..n
            BY <1>1, <2>2
        <3>2. Remembered(k)
            BY <3>1 DEF LedgerInv
        <3> QED BY <1>10, <1>11, <3>1, <3>2 DEF Remembered
    <2> QED BY <2>1, <2>2
<1>14. Money(ledger') = Money(past'[n + 1]) /\ trie' = snapshots'[n + 1]
    BY <1>3, <1>10, <1>11
<1> QED BY <1>4, <1>5, <1>9, <1>10, <1>11, <1>12, <1>13, <1>14 DEF LedgerInv

\* Blocks that are rolled back, with the money of the ledger then.
LEMMA StepRollsBack ==
    ASSUME LedgerInv, NEW n \in 1..MaxRollback, _rollback_to(n),
           Money(ledger') = Money(past[Len(chain') + 1])
    PROVE  LedgerInv'
<1> DEFINE h == height - n
<1>1. /\ n \in 1..height /\ height \in Nat
      /\ ledger' = BlocksUndone(ledger, chain)[n]
      /\ trie' = snapshots[h + 1] /\ chain' = SubSeq(chain, 1, h)
      /\ snapshots' = SubSeq(snapshots, 1, h + 1) /\ past' = SubSeq(past, 1, h + 1)
      /\ txPool' = txPool
    BY LedgerGood DEF _rollback_to
<1>2. h \in 0..height /\ h + 1 \in 0..(height + 1) /\ h \in Nat
    BY <1>1
<1> HIDE DEF h
<1>3. PICK S : past \in Seq(S) /\ snapshots \in Seq(S)
    BY DEF LedgerInv
<1>4. /\ chain \in Seq(Blocks) /\ Len(past) = height + 1 /\ Len(snapshots) = height + 1
      /\ DOMAIN ledger = Fields /\ ledger.ok = TRUE /\ txPool \in Seq(Tx)
    BY DEF LedgerInv
<1>5. chain' \in Seq(Blocks) /\ Len(chain') = h
    BY <1>1, <1>2, <1>4, FirstOnes DEF height
<1>6. /\ past' \in Seq(S) /\ Len(past') = h + 1
      /\ \A i \in 1..(h + 1) : past'[i] = past[i]
    BY <1>1, <1>2, <1>3, <1>4, FirstOnes
<1>7. /\ snapshots' \in Seq(S) /\ Len(snapshots') = h + 1
      /\ \A i \in 1..(h + 1) : snapshots'[i] = snapshots[i]
    BY <1>1, <1>2, <1>3, <1>4, FirstOnes
<1>8. DOMAIN ledger' = Fields /\ ledger'.ok = TRUE
    <2>1. \A i \in 1..Len(chain) : Len(chain[i].txs) \in Nat
        <3>1. \A i \in 1..Len(chain) : chain[i] \in Blocks
            BY <1>4, ElementOfSeq
        <3> QED BY <3>1, LenProperties DEF Blocks
    <2>2. Len(chain) \in Nat /\ n \in 0..Len(chain)
        BY <1>1 DEF height
    <2>3. Shape(BlocksUndone(ledger, chain)[n], ledger)
        BY <1>4, <2>1, <2>2, BlocksUndoneShape
    <2> QED BY <1>1, <1>4, <2>3 DEF Shape
<1>9. ASSUME NEW k \in 1..(h + 1) PROVE Remembered(k)'
    <2>1. k \in 1..(height + 1)
        BY <1>1, <1>2
    <2>2. Remembered(k)
        BY <2>1 DEF LedgerInv
    <2> QED BY <1>6, <1>7, <2>2 DEF Remembered
<1>10. h + 1 \in 1..(h + 1)
    BY <1>2
<1>11. height' = h
    BY <1>5 DEF height
<1> QED BY <1>1, <1>4, <1>5, <1>6, <1>7, <1>8, <1>9, <1>10, <1>11 DEF LedgerInv

\* The pool stays a sequence of transactions.
LEMMA PoolType ==
    ASSUME txPool \in Seq(Tx), NEW txs, _drain_pool(txs)
    PROVE  txPool' \in Seq(Tx)
<1> DEFINE K == {i \in 1..Len(txPool) : txPool[i] \notin Range(txs)}
<1>1. txPool' = Select(txPool, K)
    BY DEF _drain_pool
<1>2. K \subseteq 1..Len(txPool)
    OBVIOUS
<1> HIDE DEF K
<1> QED BY <1>1, <1>2, SelectType

\* A block that fails leaves a ledger.
LEMMA UndoneShape ==
    ASSUME LedgerInv, NEW b \in Blocks, _append_block_undone(b)
    PROVE  /\ DOMAIN ledger' = Fields /\ ledger'.ok = TRUE
           /\ trie' = snapshots[height + 1] /\ UNCHANGED <<chain, snapshots, past>>
<1> DEFINE L == Applied(ledger, b, height + 1)
           R == _rollback_block(L, b, height + 1)
<1>1. Good(ledger) /\ height + 1 \in Nat /\ Len(b.txs) \in Nat
    <2>1. b.txs \in Seq(Tx)
        BY DEF Blocks
    <2>2. Good(ledger) /\ height \in Nat
        BY LedgerGood
    <2>3. Len(b.txs) \in Nat
        BY <2>1, LenProperties
    <2>4. height + 1 \in Nat
        BY <2>2
    <2> QED BY <2>2, <2>3, <2>4
<1>2. DOMAIN L = Fields
    <2>1. Good(L)
        BY <1>1, AppliedFacts
    <2> QED BY <2>1 DEF Good
<1>3. DOMAIN R = Fields
    <2> HIDE DEF L
    <2> QED BY <1>1, <1>2, RollbackShape DEF Shape
<1>4. ledger' = [R EXCEPT !.ok = TRUE]
    BY DEF _append_block_undone
<1> HIDE DEF R
<1>5. DOMAIN ledger' = Fields /\ ledger'.ok = TRUE
    BY <1>3, <1>4 DEF Fields
<1> QED BY <1>5 DEF _append_block_undone

\* A step preserves the invariant, if what it takes back it takes back exactly.
LEMMA LedgerStep ==
    ASSUME LedgerInv, [Next]_vars,
           [Len(chain') < Len(chain) => Money(ledger') = Money(past[Len(chain') + 1])]_vars,
           [chain' = chain => Money(ledger') = Money(ledger)]_vars
    PROVE  LedgerInv'
<1>1. /\ txPool \in Seq(Tx) /\ NextBlock \in Blocks /\ Incoming \subseteq Blocks
      /\ height \in Nat
    BY BlocksType, LedgerGood DEF LedgerInv
<1>2. DOMAIN ledger = Fields /\ ledger.ok = TRUE /\ trie = snapshots[height + 1]
    BY DEF LedgerInv
<1>3. CASE UNCHANGED vars
    BY <1>1, <1>2, <1>3, StepStays DEF vars
<1>4. CASE \E t \in Tx : submit_tx(t)
    <2>1. PICK t \in Tx : submit_tx(t)
        BY <1>4
    <2>2. txPool' = Append(txPool, t) /\ UNCHANGED <<chain, ledger, trie, snapshots, past>>
        BY <2>1 DEF submit_tx
    <2>3. txPool' \in Seq(Tx)
        BY <1>1, <2>2, AppendProperties
    <2> QED BY <1>2, <2>2, <2>3, StepStays
<1>5. CASE produce_block
    <2>1. _append_block(NextBlock) /\ _drain_pool(NextBlock.txs)
        BY <1>5 DEF produce_block
    <2>2. txPool' \in Seq(Tx)
        BY <1>1, <2>1, PoolType
    <2> HIDE DEF NextBlock
    <2> QED BY <1>1, <2>1, <2>2, StepAppends
<1>6. ASSUME NEW b \in Blocks, _append_block_undone(b), UNCHANGED txPool PROVE LedgerInv'
    <2>1. /\ DOMAIN ledger' = Fields /\ ledger'.ok = TRUE
          /\ trie' = snapshots[height + 1] /\ UNCHANGED <<chain, snapshots, past>>
        BY <1>6, UndoneShape
    <2>2. chain' = chain
        BY <2>1
    <2>3. Money(ledger') = Money(ledger)
        BY <2>2 DEF vars
    <2> QED BY <1>1, <1>6, <2>1, <2>3, StepStays
<1>7. CASE produce_block_raises
    BY <1>1, <1>6, <1>7 DEF produce_block_raises
<1>8. CASE \E b \in Incoming : add_block(b) \/ add_block_rejects(b)
    <2>1. PICK b \in Incoming : add_block(b) \/ add_block_rejects(b)
        BY <1>8
    <2>2. b \in Blocks
        BY <1>1
    <2>3. CASE add_block(b)
        <3>1. _append_block(b) /\ _drain_pool(b.txs)
            BY <2>3 DEF add_block
        <3>2. txPool' \in Seq(Tx)
            BY <1>1, <3>1, PoolType
        <3> QED BY <2>2, <3>1, <3>2, StepAppends
    <2>4. CASE add_block_rejects(b)
        BY <1>6, <2>2, <2>4 DEF add_block_rejects
    <2> QED BY <2>1, <2>3, <2>4
<1>9. CASE \E n \in 1..MaxRollback : _rollback_to(n)
    <2>1. PICK n \in 1..MaxRollback : _rollback_to(n)
        BY <1>9
    <2>2. n \in 1..height /\ chain' = SubSeq(chain, 1, height - n) /\ chain \in Seq(Blocks)
        BY <2>1 DEF _rollback_to, LedgerInv
    <2>3. height - n \in 0..Len(chain) /\ height - n < height
        BY <1>1, <2>2 DEF height
    <2>4. Len(chain') = height - n
        BY <2>2, <2>3, FirstOnes
    <2>5. Len(chain') < Len(chain) /\ chain' # chain
        BY <2>3, <2>4 DEF height
    <2>6. Money(ledger') = Money(past[Len(chain') + 1])
        BY <2>5 DEF vars
    <2> QED BY <2>1, <2>6, StepRollsBack
<1> QED BY <1>3, <1>4, <1>5, <1>7, <1>8, <1>9 DEF Next

\* What the invariant means.
LEMMA LedgerMeans == LedgerInv => TypeOK /\ TrieExact
<1> SUFFICES ASSUME LedgerInv PROVE TypeOK /\ TrieExact
    OBVIOUS
<1>1. /\ Good(ledger) /\ ledger.epoch = height \div EPOCH_LENGTH /\ trie = Trie(ledger)
    BY LedgerGood
<1>2. ledger.ok /\ Len(snapshots) = height + 1 /\ Len(past) = height + 1
    BY DEF LedgerInv
<1> QED BY <1>1, <1>2 DEF TypeOK, TrieExact, Good

\* As long as failed blocks are undone and rollbacks restore what was there, no
\* balance, weight or reward becomes negative, what is minted stays within
\* MAX_SUPPLY, the epoch is that of the height, and the history and the
\* snapshots are as long as the chain: through every transaction, unbonding,
\* epoch distribution and reward, in any number of blocks.
THEOREM LedgerTypes == Spec /\ RollbackRestores /\ FailedAppendUndone => []TypeOK
<1>1. /\ LedgerInv /\ [Next]_vars
      /\ [Len(chain') < Len(chain) => Money(ledger') = Money(past[Len(chain') + 1])]_vars
      /\ [chain' = chain => Money(ledger') = Money(ledger)]_vars
      => LedgerInv'
    BY LedgerStep
<1>2. LedgerInv => TypeOK
    BY LedgerMeans
<1> QED BY <1>1, <1>2, LedgerInit, PTL DEF Spec, RollbackRestores, FailedAppendUndone

\* Under the same premises the state trie, restored from a snapshot whenever
\* blocks are taken back, is always that of the ledger.
THEOREM TrieFollows == Spec /\ RollbackRestores /\ FailedAppendUndone => []TrieExact
<1>1. /\ LedgerInv /\ [Next]_vars
      /\ [Len(chain') < Len(chain) => Money(ledger') = Money(past[Len(chain') + 1])]_vars
      /\ [chain' = chain => Money(ledger') = Money(ledger)]_vars
      => LedgerInv'
    BY LedgerStep
<1>2. LedgerInv => TrieExact
    BY LedgerMeans
<1> QED BY <1>1, <1>2, LedgerInit, PTL DEF Spec, RollbackRestores, FailedAppendUndone

-----------------------------------------------------------------------------
(* Supply *)

Amounts(q) == [i \in 1..Len(q) |-> q[i].amount]

\* The sums that make up the supply.
Bals(L) == SumFunctionOnSet(L.bal, Addr)
Tots(L) == SumFunctionOnSet(L.total, Validator)
Unb(q) == SumFunctionOnSet(Amounts(q), 1..Len(q))

Held(L) == Bals(L) + Tots(L) + L.burned + Unb(L.unbonding)

\* The weight of each validator is the sum of the stakes behind it.
Exact(L) == \A v \in Validator : L.total[v] = SumFunctionOnSet(L.stakes[v], Addr)

LEMMA AmountsType ==
    ASSUME NEW q \in Seq(Entry)
    PROVE  /\ Len(q) \in Nat /\ IsFiniteSet(1..Len(q))
           /\ \A i \in 1..Len(q) : Amounts(q)[i] \in Nat /\ Amounts(q)[i] = q[i].amount
           /\ Unb(q) \in Nat
<1>1. Len(q) \in Nat /\ \A i \in 1..Len(q) : q[i] \in Entry
    BY LenProperties, ElementOfSeq
<1>2. IsFiniteSet(1..Len(q))
    BY <1>1, PositionsFinite
<1>3. \A i \in 1..Len(q) : Amounts(q)[i] \in Nat /\ Amounts(q)[i] = q[i].amount
    BY <1>1 DEF Amounts, Entry
<1>4. Unb(q) \in Nat
    BY <1>2, <1>3, SumNat DEF Unb
<1> QED BY <1>1, <1>2, <1>3, <1>4

LEMMA SupplyIs ==
    ASSUME NEW L, Good(L)
    PROVE  /\ Supply(L) = Held(L) - L.minted
           /\ Bals(L) \in Nat /\ Tots(L) \in Nat /\ Unb(L.unbonding) \in Nat
           /\ L.burned \in Nat /\ L.minted \in Nat
           /\ IsFiniteSet(Addr) /\ IsFiniteSet(Validator)
<1>1. IsFiniteSet(Addr) /\ IsFiniteSet(Validator) /\ MAX_SUPPLY \in Nat
    BY LedgerAssumption, FS_Subset
<1>2. /\ L.bal \in [Addr -> Nat] /\ L.total \in [Validator -> Nat]
      /\ L.unbonding \in Seq(Entry) /\ L.burned \in Nat /\ L.minted \in 0..MAX_SUPPLY
    BY DEF Good
<1>3. L.minted \in Nat
    BY <1>1, <1>2
<1>4. Bals(L) \in Nat
    BY <1>1, <1>2, SumNat DEF Bals
<1>5. Tots(L) \in Nat
    BY <1>1, <1>2, SumNat DEF Tots
<1>6. Unb(L.unbonding) \in Nat
    BY <1>2, AmountsType
<1>7. /\ SumFunction(L.bal) = Bals(L) /\ SumFunction(L.total) = Tots(L)
      /\ SumFunction([i \in 1..Len(L.unbonding) |-> L.unbonding[i].amount]) = Unb(L.unbonding)
    <2>1. DOMAIN L.bal = Addr /\ DOMAIN L.total = Validator
        BY <1>2
    <2>2. DOMAIN Amounts(L.unbonding) = 1..Len(L.unbonding)
        BY DEF Amounts
    <2>3. SumFunction(Amounts(L.unbonding)) = Unb(L.unbonding)
        BY <2>2 DEF SumFunction, Unb
    <2> QED BY <2>1, <2>3 DEF SumFunction, Bals, Tots, Amounts
<1>8. Supply(L) = Held(L) - L.minted
    <2> DEFINE un == SumFunction([i \in 1..Len(L.unbonding) |-> L.unbonding[i].amount])
    <2>1. Supply(L) = SumFunction(L.bal) + SumFunction(L.total) + L.burned + un - L.minted
        BY DEF Supply
    <2>2. un = Unb(L.unbonding)
        BY <1>7
    <2>3. SumFunction(L.bal) = Bals(L) /\ SumFunction(L.total) = Tots(L)
        BY <1>7
    <2> HIDE DEF un
    <2>4. un \in Nat
        BY <1>6, <2>2
    <2> QED BY ONLY <1>2, <1>3, <1>4, <1>5, <2>1, <2>2, <2>3, <2>4 DEF Held
<1> QED BY <1>1, <1>2, <1>3, <1>4, <1>5, <1>6, <1>8

\* An entry more.
LEMMA UnbAppend ==
    ASSUME NEW q \in Seq(Entry), NEW e \in Entry
    PROVE  Unb(Append(q, e)) = Unb(q) + e.amount
<1> DEFINE p == Append(q, e)
           n == Len(q)
           S == 1..(n + 1)
<1>1. /\ p \in Seq(Entry) /\ Len(p) = n + 1 /\ n \in Nat
      /\ p[n + 1] = e /\ \A i \in 1..n : p[i] = q[i]
    BY AppendProperties, LenProperties
<1> HIDE DEF p
<1>2. /\ IsFiniteSet(S) /\ IsFiniteSet(1..n) /\ n + 1 \in S /\ S \ {n + 1} = 1..n
      /\ \A i \in S : Amounts(p)[i] \in Int /\ Amounts(p)[i] = p[i].amount
      /\ \A i \in 1..n : Amounts(q)[i] \in Int /\ Amounts(q)[i] = q[i].amount
      /\ 1..n \subseteq S
    <2>1. /\ IsFiniteSet(1..Len(p)) /\ IsFiniteSet(1..Len(q))
          /\ \A i \in 1..Len(p) : Amounts(p)[i] \in Nat /\ Amounts(p)[i] = p[i].amount
          /\ \A i \in 1..Len(q) : Amounts(q)[i] \in Nat /\ Amounts(q)[i] = q[i].amount
        BY <1>1, AmountsType
    <2>2. n + 1 \in S /\ S \ {n + 1} = 1..n /\ 1..n \subseteq S
        BY <1>1
    <2> QED BY <1>1, <2>1, <2>2
<1>3. SumFunctionOnSet(Amounts(p), S)
        = Amounts(p)[n + 1] + SumFunctionOnSet(Amounts(p), 1..n)
    <2> HIDE DEF S
    <2>1. SumFunctionOnSet(Amounts(p), S)
            = Amounts(p)[n + 1] + SumFunctionOnSet(Amounts(p), S \ {n + 1})
        BY <1>2, SumRemove
    <2> QED BY <1>2, <2>1
<1>4. SumFunctionOnSet(Amounts(p), 1..n) = SumFunctionOnSet(Amounts(q), 1..n)
    <2>1. \A i \in 1..n : Amounts(q)[i] \in Int /\ Amounts(p)[i] = Amounts(q)[i]
        BY <1>1, <1>2
    <2> QED BY <1>2, <2>1, SumEqual
<1>5. Amounts(p)[n + 1] = e.amount
    BY <1>1, <1>2
<1>6. e.amount \in Nat /\ Unb(q) \in Nat
    BY AmountsType DEF Entry
<1>7. Unb(p) = SumFunctionOnSet(Amounts(p), S) /\ Unb(q) = SumFunctionOnSet(Amounts(q), 1..n)
    BY <1>1 DEF Unb
<1> QED BY <1>3, <1>4, <1>5, <1>6, <1>7 DEF p

\* t takes back no more than is staked.
Covered(L, t) == t.type = "UNSTAKE" => t.amount <= L.stakes[t.to][t.from]

\* A stake of M set to n and the weight of its validator to m.
StakeSet(M, L, w, a, n, m) ==
    M.stakes = [L.stakes EXCEPT ![w][a] = n] /\ M.total = [L.total EXCEPT ![w] = m]

\* A stake changed together with the weight of its validator.
LEMMA WeightChange ==
    ASSUME NEW L, Good(L), NEW M, Good(M), Exact(L), NEW w \in Validator, NEW a \in Addr,
           NEW n \in Nat, NEW m \in Nat,
           StakeSet(M, L, w, a, n, m),
           m - L.total[w] = n - L.stakes[w][a]
    PROVE  Exact(M) /\ Tots(M) = Tots(L) + (n - L.stakes[w][a])
<1>1. IsFiniteSet(Addr) /\ IsFiniteSet(Validator)
    BY SupplyIs
<1>2. /\ L.stakes \in [Validator -> [Addr -> Nat]] /\ L.total \in [Validator -> Nat]
      /\ M.stakes \in [Validator -> [Addr -> Nat]] /\ M.total \in [Validator -> Nat]
    BY DEF Good
<1>3. /\ M.stakes[w][a] = n /\ M.total[w] = m
      /\ \A b \in Addr : b # a => M.stakes[w][b] = L.stakes[w][b]
      /\ \A v \in Validator : v # w => M.stakes[v] = L.stakes[v] /\ M.total[v] = L.total[v]
    BY <1>2 DEF StakeSet
<1>4. SumFunctionOnSet(M.total, Validator)
        = SumFunctionOnSet(L.total, Validator) + (M.total[w] - L.total[w])
    <2> DEFINE f == L.total
               g == M.total
    <2>1. \A v \in Validator : f[v] \in Int /\ g[v] \in Int /\ (v # w => g[v] = f[v])
        BY <1>2, <1>3
    <2> HIDE DEF f, g
    <2>2. SumFunctionOnSet(g, Validator) = SumFunctionOnSet(f, Validator) + (g[w] - f[w])
        BY ONLY <1>1, <2>1, w \in Validator, SumChange
    <2> QED BY <2>2 DEF f, g
<1>5. SumFunctionOnSet(M.stakes[w], Addr)
        = SumFunctionOnSet(L.stakes[w], Addr) + (n - L.stakes[w][a])
    <2> DEFINE f == L.stakes[w]
               g == M.stakes[w]
    <2>1. \A b \in Addr : f[b] \in Int /\ g[b] \in Int /\ (b # a => g[b] = f[b])
        BY <1>2, <1>3
    <2>3. g[a] = n
        BY <1>3
    <2> HIDE DEF f, g
    <2>2. SumFunctionOnSet(g, Addr) = SumFunctionOnSet(f, Addr) + (g[a] - f[a])
        BY ONLY <1>1, <2>1, a \in Addr, SumChange
    <2> QED BY <2>2, <2>3 DEF f, g
<1>6. L.total[w] \in Int /\ L.stakes[w][a] \in Int
    BY <1>2
<1>7. ASSUME NEW v \in Validator PROVE M.total[v] = SumFunctionOnSet(M.stakes[v], Addr)
    <2>1. L.total[v] = SumFunctionOnSet(L.stakes[v], Addr)
        BY DEF Exact
    <2>2. CASE v # w
        BY <1>3, <2>1, <2>2
    <2>3. CASE v = w
        <3>1. L.total[w] = SumFunctionOnSet(L.stakes[w], Addr) /\ M.total[w] = m
            BY <1>3, <2>1, <2>3
        <3>2. M.total[w] = SumFunctionOnSet(M.stakes[w], Addr)
            BY <1>5, <1>6, <3>1
        <3> QED BY <2>3, <3>2
    <2> QED BY <2>2, <2>3
<1>8. Tots(M) = Tots(L) + (n - L.stakes[w][a])
    BY <1>3, <1>4 DEF Tots
<1> QED BY <1>7, <1>8 DEF Exact

\* A transaction other than EVIDENCE creates and destroys nothing.
LEMMA TxSupply ==
    ASSUME NEW L, Good(L), Exact(L), NEW v \in Addr, NEW idx \in Int, NEW t \in Tx,
           t.type # "EVIDENCE", Covered(L, t), ApplyTx(L, v, idx, t).ok
    PROVE  LET M == ApplyTx(L, v, idx, t) IN Exact(M) /\ Held(M) = Held(L)
<1> DEFINE M == ApplyTx(L, v, idx, t)
           fee == TX_FEES[t.type]
           share == ValidatorShare(fee)
           burn == Burn(fee)
           in == Inflow(t)
           d == Debit(t)
           out == IF t.type \in {"TRANSFER", "STAKE"} THEN t.amount ELSE 0
<1>1. /\ t.from \in Addr /\ t.to \in Addr /\ t.amount \in Nat /\ t.type \in Types
      /\ t.type # "TRANSFER" => t.to \in Validator
      /\ fee \in Nat
    BY TxType
<1>2. /\ Good(M) /\ StakesMoved(M, L, idx, t) /\ M.burned = L.burned + burn
      /\ \A a \in Addr :
            M.bal[a] = L.bal[a] - (IF a = t.from THEN d ELSE 0)
                                + (IF a = v THEN share ELSE 0)
                                + (IF a = t.to THEN in ELSE 0)
    BY ApplyTxFacts
<1>3. share \in Nat /\ burn \in Nat /\ share + burn = fee
    BY <1>1, FeeParts
<1>4. out \in Nat /\ in \in Nat /\ d = fee + out
    BY <1>1 DEF Inflow, Debit
<1> HIDE DEF M, share, burn, fee, in, d, out
<1>5. Bals(M) = Bals(L) - d + share + in
    <2>1. \A a \in Addr : L.bal[a] \in Int
        BY DEF Good
    <2>2. IsFiniteSet(Addr) /\ d \in Int /\ share \in Int /\ in \in Int
        BY <1>1, <1>3, <1>4, SupplyIs
    <2> DEFINE f == L.bal
               g == M.bal
               x == t.from
               y == t.to
    <2>3. /\ x \in Addr /\ y \in Addr
          /\ Moves(g, f, Addr, x, d, v, share, y, in)
        BY <1>1, <1>2, <2>1 DEF Moves
    <2> HIDE DEF f, g, x, y
    <2>4. SumFunctionOnSet(g, Addr) = SumFunctionOnSet(f, Addr) - d + share + in
        BY ONLY <2>2, <2>3, v \in Addr, SumMoves
    <2> QED BY <2>4 DEF Bals, f, g
<1>6. /\ Bals(L) \in Nat /\ Tots(L) \in Nat /\ Unb(L.unbonding) \in Nat /\ L.burned \in Nat
      /\ Tots(M) \in Nat /\ Unb(M.unbonding) \in Nat
    BY <1>2, SupplyIs
<1>7. SUFFICES Exact(M) /\ Tots(M) + Unb(M.unbonding) = Tots(L) + Unb(L.unbonding) + out - in
    <2>1. ASSUME Tots(M) + Unb(M.unbonding) = Tots(L) + Unb(L.unbonding) + out - in
          PROVE  Held(M) = Held(L)
        BY ONLY <1>1, <1>2, <1>3, <1>4, <1>5, <1>6, <2>1 DEF Held
    <2> QED BY <2>1 DEF M
<1>8. L.stakes \in [Validator -> [Addr -> Nat]] /\ L.total \in [Validator -> Nat]
    BY DEF Good
<1>9. CASE t.type = "TRANSFER"
    <2>1. out = in
        BY <1>9 DEF out, in, Inflow
    <2>2. M.stakes = L.stakes /\ M.total = L.total /\ M.unbonding = L.unbonding
        BY <1>2, <1>9 DEF StakesMoved
    <2>3. Tots(M) = Tots(L) /\ Exact(M)
        BY <2>2 DEF Tots, Exact
    <2> QED BY <1>4, <1>6, <2>1, <2>2, <2>3
<1>10. CASE t.type = "STAKE"
    <2> DEFINE w == t.to
               n == L.stakes[w][t.from] + t.amount
               m == L.total[w] + t.amount
    <2>1. w \in Validator
        BY <1>1, <1>10
    <2>2. L.stakes[w][t.from] \in Nat /\ L.total[w] \in Nat
        BY <1>1, <1>8, <2>1
    <2>3. n \in Nat /\ m \in Nat /\ m - L.total[w] = n - L.stakes[w][t.from]
          /\ n - L.stakes[w][t.from] = t.amount
        BY <1>1, <2>2
    <2>4. /\ M.stakes = [L.stakes EXCEPT ![w][t.from] = n]
          /\ M.total = [L.total EXCEPT ![w] = m] /\ M.unbonding = L.unbonding
        BY <1>2, <1>10 DEF StakesMoved
    <2> HIDE DEF w, n, m
    <2>5. Exact(M) /\ Tots(M) = Tots(L) + (n - L.stakes[w][t.from])
        <3>1. StakeSet(M, L, w, t.from, n, m)
            BY <2>4 DEF StakeSet
        <3>2. Good(M) /\ t.from \in Addr
            BY <1>1, <1>2
        <3> QED BY ONLY Good(L), Exact(L), <2>1, <2>3, <3>1, <3>2, WeightChange
    <2>6. out = t.amount /\ in = 0
        BY <1>10 DEF out, in, Inflow
    <2> QED BY <1>1, <1>6, <2>3, <2>4, <2>5, <2>6
<1>11. CASE t.type = "UNSTAKE"
    <2> DEFINE w == t.to
               n == L.stakes[w][t.from] - t.amount
               m == L.total[w] - t.amount
               e == Unbonding(t, idx)
    <2>1. w \in Validator /\ IsFiniteSet(Addr)
        BY <1>1, <1>11, SupplyIs
    <2>2. L.stakes[w] \in [Addr -> Nat] /\ L.stakes[w][t.from] \in Nat /\ L.total[w] \in Nat
        BY <1>1, <1>8, <2>1
    <2>3. t.amount <= L.stakes[w][t.from]
        BY <1>11 DEF Covered
    <2>4. L.stakes[w][t.from] <= L.total[w]
        <3> DEFINE f == L.stakes[w]
        <3>1. (\A a \in Addr : f[a] \in Nat) /\ L.total[w] = SumFunctionOnSet(f, Addr)
            BY <2>1, <2>2 DEF Exact
        <3> HIDE DEF f
        <3>2. f[t.from] <= SumFunctionOnSet(f, Addr)
            BY <1>1, <2>1, <3>1, SumNat
        <3> QED BY <3>1, <3>2 DEF f
    <2>5. /\ n \in Nat /\ m \in Nat /\ m - L.total[w] = n - L.stakes[w][t.from]
          /\ n - L.stakes[w][t.from] = -t.amount
        BY <1>1, <2>2, <2>3, <2>4
    <2>6. Max({0, n}) = n /\ Max({0, m}) = m
        <3>1. n \in Int /\ m \in Int /\ 0 <= n /\ 0 <= m /\ 0 \in Int
            BY <2>5
        <3> HIDE DEF n, m
        <3> QED BY ONLY <3>1, MinMaxPair
    <2>7. /\ M.stakes = [L.stakes EXCEPT ![w][t.from] = n]
          /\ M.total = [L.total EXCEPT ![w] = m]
          /\ M.unbonding = Append(L.unbonding, e)
        <3>1. /\ M.stakes = [L.stakes EXCEPT ![w][t.from] = Max({0, L.stakes[w][t.from] - t.amount})]
              /\ M.total = [L.total EXCEPT ![w] = Max({0, L.total[w] - t.amount})]
              /\ M.unbonding = Append(L.unbonding, e)
            BY <1>2, <1>11 DEF StakesMoved
        <3> QED BY <2>6, <3>1
    <2>8. e \in Entry /\ e.amount = t.amount /\ L.unbonding \in Seq(Entry)
        BY <2>1, UnstakeFacts DEF Good, Unbonding
    <2> HIDE DEF w, n, m, e
    <2>9. Exact(M) /\ Tots(M) = Tots(L) + (n - L.stakes[w][t.from])
        <3>1. StakeSet(M, L, w, t.from, n, m)
            BY <2>7 DEF StakeSet
        <3>2. Good(M) /\ t.from \in Addr
            BY <1>1, <1>2
        <3> QED BY ONLY Good(L), Exact(L), <2>1, <2>5, <3>1, <3>2, WeightChange
    <2>10. Unb(M.unbonding) = Unb(L.unbonding) + t.amount
        BY <2>7, <2>8, UnbAppend
    <2>11. out = 0 /\ in = 0
        BY <1>11 DEF out, in, Inflow
    <2> QED BY <1>1, <1>6, <2>5, <2>9, <2>10, <2>11
<1> QED BY <1>1, <1>9, <1>10, <1>11 DEF Types

\* Unbondings that are not mature stay.
LEMMA UnbSelect ==
    ASSUME NEW q \in Seq(Entry), NEW K, K \subseteq 1..Len(q)
    PROVE  Unb(Select(q, K)) = SumFunctionOnSet(Amounts(q), K)
<1> DEFINE p == Select(q, K)
           P == Amounts(p)
           Q == Amounts(q)
<1>1. p \in Seq(Entry)
    BY SelectIs
<1>2. \A j \in 1..Len(q) : Q[j] \in Nat /\ Q[j] = q[j].amount
    BY AmountsType
<1>3. \A i \in 1..Len(p) : P[i] = p[i].amount
    BY <1>1, AmountsType
<1> HIDE DEF P, Q
<1>4. \A j \in K : Q[j] \in Int
    BY <1>2
<1>5. \A i \in 1..Len(p) : \A j \in K : p[i] = q[j] => P[i] = Q[j]
    BY <1>2, <1>3
<1>6. SumFunctionOnSet(P, 1..Len(p)) = SumFunctionOnSet(Q, K)
    BY <1>4, <1>5, SumSelect
<1> QED BY <1>6 DEF Unb, P, Q

\* Unbondings that are mature become balances.
LEMMA MatureSupply ==
    ASSUME NEW L, Good(L), NEW idx \in Int
    PROVE  LET M == _process_mature_unbondings(L, idx)
           IN  Held(M) = Held(L) /\ (Exact(L) => Exact(M))
<1> DEFINE M == _process_mature_unbondings(L, idx)
           q == L.unbonding
           S == 1..Len(q)
           R == Mature(L, idx)
           Q == Amounts(q)
           D == [a \in Addr |-> Due(L, idx, a)]
<1>1. /\ Good(M) /\ SameStakes(M, L) /\ \A a \in Addr : M.bal[a] = L.bal[a] + Due(L, idx, a)
      /\ M.unbonding = Select(q, S \ R)
    BY MatureFacts
<1>2. /\ q \in Seq(Entry) /\ L.bal \in [Addr -> Nat] /\ IsFiniteSet(Addr)
      /\ \A a \in Addr : Due(L, idx, a) \in Nat
    BY DueType, SupplyIs DEF Good
<1>3. /\ IsFiniteSet(S) /\ R \subseteq S /\ S \ R \subseteq S
      /\ \A i \in S : Q[i] \in Nat /\ Q[i] = q[i].amount
      /\ \A i \in S : q[i] \in Entry
    BY <1>2, AmountsType, ElementOfSeq DEF Mature
<1>4. IsFiniteSet(R)
    BY <1>3, FS_Subset
<1>5. Bals(M) = Bals(L) + SumFunctionOnSet(D, Addr)
    <2> DEFINE f == L.bal
               g == M.bal
    <2>1. \A a \in Addr : f[a] \in Int /\ D[a] \in Int /\ g[a] = f[a] + D[a]
        BY <1>1, <1>2
    <2> HIDE DEF f, g, D
    <2>2. SumFunctionOnSet(g, Addr) = SumFunctionOnSet(f, Addr) + SumFunctionOnSet(D, Addr)
        BY ONLY <1>2, <2>1, SumPlus
    <2> QED BY <2>2 DEF Bals, f, g
<1>6. SumFunctionOnSet(D, Addr) = SumFunctionOnSet(Q, R)
    <2> DEFINE m == [i \in R |-> [a \in Addr |-> IF q[i].staker = a THEN Q[i] ELSE 0]]
    <2>1. \A i \in R : \A a \in Addr : m[i][a] \in Int
        BY <1>3
    <2>2. ASSUME NEW i \in R PROVE Q[i] = SumFunctionOnSet(m[i], Addr)
        <3> DEFINE x == q[i].staker
                   f == m[i]
        <3>1. x \in Addr /\ Q[i] \in Int
            BY <1>3 DEF Entry
        <3>2. \A a \in Addr : f[a] = IF a = x THEN Q[i] ELSE 0
            OBVIOUS
        <3> HIDE DEF x, f, Q
        <3>3. SumFunctionOnSet(f, Addr) = Q[i]
            BY ONLY <1>2, <3>1, <3>2, SumPoint
        <3> QED BY <3>3 DEF f
    <2>3. ASSUME NEW a \in Addr
          PROVE  D[a] = SumFunctionOnSet([i \in R |-> m[i][a]], R)
        <3> DEFINE O == {j \in R : q[j].staker = a}
                   f == [i \in R |-> m[i][a]]
                   g == [i \in O |-> q[i].amount]
        <3>1. /\ O \subseteq R /\ R \ O \subseteq R /\ R = O \cup (R \ O)
              /\ O \cap (R \ O) = {}
            OBVIOUS
        <3>2. IsFiniteSet(O) /\ IsFiniteSet(R \ O)
            BY <1>4, <3>1, FS_Subset
        <3>3. \A i \in R : f[i] \in Int
            BY <2>1
        <3>4. \A i \in O : f[i] \in Int /\ g[i] = f[i]
            BY <1>3
        <3>5. \A i \in R \ O : f[i] = 0
            BY <1>3
        <3>6. D[a] = SumFunctionOnSet(g, O)
            <4>1. DOMAIN g = O
                OBVIOUS
            <4> QED BY <4>1 DEF Due, SumFunction
        <3> HIDE DEF O, f, g, D
        <3>7. SumFunctionOnSet(f, R) = SumFunctionOnSet(f, O) + SumFunctionOnSet(f, R \ O)
            BY ONLY <1>4, <3>1, <3>3, SumDisjoint
        <3>8. SumFunctionOnSet(f, R \ O) = 0
            BY ONLY <3>2, <3>5, SumZero
        <3>9. SumFunctionOnSet(g, O) = SumFunctionOnSet(f, O)
            BY ONLY <3>2, <3>4, SumEqual
        <3>10. SumFunctionOnSet(f, O) \in Int
            BY <3>2, <3>4, SumInt
        <3>11. D[a] = SumFunctionOnSet(f, R)
            BY ONLY <3>6, <3>7, <3>8, <3>9, <3>10
        <3> QED BY <3>11 DEF f
    <2> HIDE DEF m, D, Q, R
    <2>4. RowSums(Q, m, R, Addr)
        BY <2>2 DEF RowSums
    <2>5. ColumnSums(D, m, R, Addr)
        BY <2>3 DEF ColumnSums
    <2>6. IsFiniteSet(Addr)
        BY <1>2
    <2> QED BY ONLY <1>4, <2>1, <2>4, <2>5, <2>6, SumSwap
<1>7. Unb(q) = SumFunctionOnSet(Q, R) + SumFunctionOnSet(Q, S \ R)
    <2>1. S = R \cup (S \ R) /\ R \cap (S \ R) = {} /\ \A i \in S : Q[i] \in Int
        BY <1>3
    <2> HIDE DEF Q, S
    <2>2. SumFunctionOnSet(Q, S) = SumFunctionOnSet(Q, R) + SumFunctionOnSet(Q, S \ R)
        BY ONLY <1>3, <2>1, SumDisjoint
    <2> QED BY <2>2 DEF Unb, Q, S
<1>8. Unb(M.unbonding) = SumFunctionOnSet(Q, S \ R)
    BY <1>1, <1>2, <1>3, UnbSelect
<1>9. SumFunctionOnSet(Q, R) \in Int /\ SumFunctionOnSet(Q, S \ R) \in Int
    <2>1. IsFiniteSet(S \ R) /\ (\A i \in R : Q[i] \in Int) /\ \A i \in S \ R : Q[i] \in Int
        BY <1>3, FS_Subset
    <2> HIDE DEF Q, S, R
    <2> QED BY <1>4, <2>1, SumInt
<1>10. M.total = L.total /\ M.burned = L.burned /\ M.stakes = L.stakes
    BY <1>1 DEF SameStakes
<1>11. Bals(L) \in Nat /\ Tots(L) \in Nat /\ L.burned \in Nat /\ Tots(M) = Tots(L)
    BY <1>10, SupplyIs DEF Tots
<1> HIDE DEF M, Q, D, S, R
<1>12. Held(M) = Held(L)
    BY <1>5, <1>6, <1>7, <1>8, <1>9, <1>10, <1>11 DEF Held, q
<1> QED BY <1>10, <1>12 DEF Exact, M

\* What delegators receive is what their validators give.
LEMMA EpochSupply ==
    ASSUME NEW L, Good(L), NEW idx \in Nat
    PROVE  LET M == _check_epoch_transition(L, idx)
           IN  Held(M) = Held(L) /\ (Exact(L) => Exact(M))
<1> DEFINE M == _check_epoch_transition(L, idx)
           m == [v \in Validator |-> Shares(L, v)]
           got == [a \in Addr |-> Got(L, a)]
           gave == [a \in Addr |-> 0 - Gave(L, a)]
           row == [v \in Validator |-> SumFunctionOnSet(Shares(L, v), Addr)]
<1>1. /\ Good(M) /\ SameStakes(M, L) /\ M.unbonding = L.unbonding
      /\ Distributed(M, L) \/ M = L
    BY EpochFacts
<1>2. M.total = L.total /\ M.burned = L.burned /\ M.stakes = L.stakes
    BY <1>1 DEF SameStakes
<1>3. Tots(M) = Tots(L) /\ (Exact(L) => Exact(M))
    BY <1>2 DEF Tots, Exact
<1>4. SUFFICES Bals(M) = Bals(L)
    BY <1>1, <1>2, <1>3 DEF Held
<1>5. CASE M = L
    BY <1>5
<1>6. CASE Distributed(M, L)
    <2>1. IsFiniteSet(Addr) /\ IsFiniteSet(Validator) /\ Validator \subseteq Addr
        BY SupplyIs, LedgerAssumption
    <2>2. \A a \in Addr : Got(L, a) \in Nat /\ Gave(L, a) \in Nat /\ L.bal[a] \in Nat
        BY GotGave DEF Good
    <2>3. \A v \in Validator : row[v] \in Nat
        BY SharesFacts
    <2>4. SumFunctionOnSet(got, Addr) = SumFunctionOnSet(row, Validator)
        <3>1. \A v \in Validator : \A a \in Addr : m[v][a] \in Int
            BY SharesFacts
        <3>2. RowSums(row, m, Validator, Addr)
            BY DEF RowSums
        <3>3. ColumnSums(got, m, Validator, Addr)
            <4>1. ASSUME NEW a \in Addr
                  PROVE  [v \in Validator |-> m[v][a]] = [v \in Validator |-> Shares(L, v)[a]]
                OBVIOUS
            <4>2. ASSUME NEW a \in Addr
                  PROVE  got[a] = SumFunctionOnSet([v \in Validator |-> m[v][a]], Validator)
                BY <4>1 DEF Got
            <4> HIDE DEF m, got
            <4> QED BY <4>2 DEF ColumnSums
        <3> HIDE DEF m, got, row
        <3> QED BY ONLY <2>1, <3>1, <3>2, <3>3, SumSwap
    <2>5. SumFunctionOnSet(gave, Addr) = 0 - SumFunctionOnSet(row, Validator)
        <3> DEFINE R == Addr \ Validator
                   neg == [v \in Validator |-> 0 - row[v]]
        <3>1. /\ IsFiniteSet(R) /\ Addr = Validator \cup R /\ Validator \cap R = {}
              /\ \A a \in Addr : gave[a] \in Int
              /\ \A a \in R : gave[a] = 0
              /\ \A v \in Validator : neg[v] \in Int /\ gave[v] = neg[v]
            <4>1. IsFiniteSet(R) /\ Addr = Validator \cup R /\ Validator \cap R = {}
                BY <2>1, FS_Subset
            <4>2. \A a \in Addr : gave[a] \in Int
                BY <2>2
            <4>3. ASSUME NEW a \in R PROVE gave[a] = 0
                <5>1. a \in Addr /\ Gave(L, a) = 0
                    BY DEF Gave
                <5>2. gave[a] = 0 - Gave(L, a)
                    BY <5>1
                <5> HIDE DEF gave
                <5> QED BY <5>1, <5>2
            <4>4. ASSUME NEW v \in Validator PROVE neg[v] \in Int /\ gave[v] = neg[v]
                <5>1. v \in Addr /\ Gave(L, v) = row[v] /\ row[v] \in Nat
                    BY <2>1, <2>3 DEF Gave
                <5>2. gave[v] = 0 - Gave(L, v) /\ neg[v] = 0 - row[v]
                    BY <5>1
                <5> HIDE DEF gave, neg, row
                <5> QED BY <5>1, <5>2
            <4> QED BY <4>1, <4>2, <4>3, <4>4
        <3>2. \A v \in Validator : row[v] \in Int /\ neg[v] = (-1) * row[v] /\ -1 \in Int
            BY <2>3
        <3> HIDE DEF gave, row, neg, R
        <3>3. SumFunctionOnSet(gave, Addr)
                = SumFunctionOnSet(gave, Validator) + SumFunctionOnSet(gave, R)
            BY ONLY <2>1, <3>1, SumDisjoint
        <3>4. SumFunctionOnSet(gave, R) = 0
            BY ONLY <3>1, SumZero
        <3>5. SumFunctionOnSet(gave, Validator) = SumFunctionOnSet(neg, Validator)
            BY ONLY <2>1, <3>1, SumEqual
        <3>6. -1 \in Int
            OBVIOUS
        <3>7. SumFunctionOnSet(neg, Validator) = (-1) * SumFunctionOnSet(row, Validator)
            BY ONLY <2>1, <3>2, <3>6, SumTimes
        <3>8. SumFunctionOnSet(row, Validator) \in Int
            BY <2>1, <3>2, SumInt
        <3> QED BY ONLY <3>3, <3>4, <3>5, <3>7, <3>8
    <2>6. Bals(M) = Bals(L) + SumFunctionOnSet(got, Addr) + SumFunctionOnSet(gave, Addr)
        <3> DEFINE f == L.bal
                   g == M.bal
                   h == [a \in Addr |-> f[a] + got[a]]
        <3>1. \A a \in Addr : f[a] \in Int /\ got[a] \in Int /\ h[a] = f[a] + got[a]
            BY <2>2
        <3>2. \A a \in Addr : h[a] \in Int /\ gave[a] \in Int /\ g[a] = h[a] + gave[a]
            BY <2>2, <1>6 DEF Distributed
        <3> HIDE DEF f, g, h, got, gave
        <3>3. SumFunctionOnSet(h, Addr) = SumFunctionOnSet(f, Addr) + SumFunctionOnSet(got, Addr)
            BY ONLY <2>1, <3>1, SumPlus
        <3>4. SumFunctionOnSet(g, Addr) = SumFunctionOnSet(h, Addr) + SumFunctionOnSet(gave, Addr)
            BY ONLY <2>1, <3>2, SumPlus
        <3> QED BY <3>3, <3>4 DEF Bals, f, g
    <2>7. Bals(L) \in Nat /\ SumFunctionOnSet(row, Validator) \in Int
        BY <2>1, <2>3, SupplyIs, SumInt
    <2> HIDE DEF M, got, gave, row
    <2> QED BY ONLY <2>4, <2>5, <2>6, <2>7
<1> QED BY <1>1, <1>5, <1>6

\* Every UNSTAKE of block b, appended to L, takes back what is staked then.
BlockCovered(L, b, idx) ==
    \A n \in 1..Len(b.txs) :
        Covered(AfterTxs(Begun(L, idx), b.validator, idx, b.txs)[n - 1], b.txs[n])

\* A whole block conserves the supply, if it has no EVIDENCE.
LEMMA AppliedSupply ==
    ASSUME NEW L, Good(L), NEW b \in Blocks, NEW idx \in Nat, Exact(L),
           Applied(L, b, idx).ok, BlockCovered(L, b, idx),
           \A t \in Tx : t.type # "EVIDENCE"
    PROVE  Exact(Applied(L, b, idx)) /\ Supply(Applied(L, b, idx)) = Supply(L)
<1> DEFINE K == _process_mature_unbondings(L, idx)
           B == Begun(L, idx)
           T == Transacted(L, b, idx)
           M == Applied(L, b, idx)
           v == b.validator
           A == AfterTxs(B, v, idx, b.txs)
           N == Len(b.txs)
<1>1. /\ Good(M) /\ M = PayReward(T, v, idx) /\ Good(B) /\ Good(T)
      /\ SameRewards(T, B)
    BY AppliedFacts
<1>2. /\ v \in Validator /\ v \in Addr /\ b.txs \in Seq(Tx) /\ idx \in Int
      /\ N \in Nat /\ \A n \in 1..N : b.txs[n] \in Tx
    <2>1. v \in Validator /\ v \in Addr /\ b.txs \in Seq(Tx)
        BY LedgerAssumption DEF Blocks
    <2> HIDE DEF v
    <2> QED BY <2>1, LenProperties, ElementOfSeq
<1>3. Exact(B) /\ Held(B) = Held(L) /\ B.minted = L.minted
    <2>1. /\ Good(K) /\ Held(K) = Held(L) /\ Exact(K) /\ K.minted = L.minted
        BY <1>2, MatureSupply, MatureFacts DEF SameStakes
    <2> HIDE DEF K
    <2>2. Held(B) = Held(K) /\ Exact(B) /\ B.minted = K.minted
        BY <2>1, EpochSupply, EpochFacts DEF Begun, K, SameStakes
    <2> QED BY <2>1, <2>2
<1>4. A[0] = B /\ \A n \in 1..N : A[n] = ApplyTx(A[n - 1], v, idx, b.txs[n])
    BY <1>2, AfterTxsIs
<1>5. \A n \in 0..N : Good(A[n])
    BY <1>1, <1>2, AfterTxsGood
<1>6. \A n \in 1..N : Covered(A[n - 1], b.txs[n])
    BY DEF BlockCovered
<1>7. T = A[N]
    BY DEF Transacted
<1> DEFINE S == {n \in 0..N : A[n].ok => Exact(A[n]) /\ Held(A[n]) = Held(B)}
<1> HIDE DEF A, B, T, M, N, v
<1>8. 0 \in S
    BY <1>2, <1>3, <1>4
<1>9. ASSUME NEW n \in 1..N, n - 1 \in S PROVE n \in S
    <2> DEFINE C == A[n - 1]
               t == b.txs[n]
    <2>1. n \in 0..N /\ n - 1 \in 0..N
        BY <1>2
    <2>2. /\ Good(C) /\ t \in Tx /\ A[n] = ApplyTx(C, v, idx, t) /\ Covered(C, t)
          /\ C.ok => Exact(C) /\ Held(C) = Held(B)
        BY <1>2, <1>4, <1>5, <1>6, <1>9, <2>1
    <2>3. t.type # "EVIDENCE"
        BY <2>2
    <2> HIDE DEF C, t
    <2>4. SUFFICES ASSUME A[n].ok PROVE Exact(A[n]) /\ Held(A[n]) = Held(B)
        BY <2>1
    <2>5. ApplyTx(C, v, idx, t).ok
        BY <2>2, <2>4
    <2>6. C.ok
        BY <1>2, <2>2, <2>5, ApplyTxFacts
    <2>7. Exact(ApplyTx(C, v, idx, t)) /\ Held(ApplyTx(C, v, idx, t)) = Held(C)
        BY <1>2, <2>2, <2>3, <2>5, <2>6, TxSupply
    <2> QED BY <2>2, <2>6, <2>7
<1>10. \A n \in 0..N : n \in S
    <2> HIDE DEF S
    <2> QED BY <1>2, <1>8, <1>9, PrefixInduction
<1> DEFINE r == _calc_block_reward(T, idx)
<1>11. /\ M.ok = T.ok /\ M.stakes = T.stakes /\ M.total = T.total
       /\ M.unbonding = T.unbonding /\ M.burned = T.burned
       /\ r \in Nat
       /\ T.ok => M.bal = [T.bal EXCEPT ![v] = @ + r] /\ M.minted = T.minted + r
    <2>1. Paid(M, T, v, r) /\ r \in Nat
        BY <1>1, <1>2, PayRewardFacts
    <2> HIDE DEF r
    <2> QED BY <2>1 DEF Paid
<1>12. T.ok
    BY <1>11 DEF M
<1>13. Exact(T) /\ Held(T) = Held(B)
    <2>1. N \in S
        BY <1>2, <1>10
    <2> QED BY <1>7, <1>12, <2>1
<1>14. T.minted = L.minted
    BY <1>1, <1>3 DEF SameRewards
<1>15. Bals(M) = Bals(T) + r
    <2> DEFINE f == T.bal
               g == M.bal
    <2>1. f \in [Addr -> Nat] /\ g \in [Addr -> Nat] /\ IsFiniteSet(Addr)
        BY <1>1, SupplyIs DEF Good
    <2>2. g[v] = f[v] + r /\ \A a \in Addr : a # v => g[a] = f[a]
        BY <1>2, <1>11, <1>12, <2>1
    <2> HIDE DEF f, g, r
    <2>3. \A a \in Addr : f[a] \in Int /\ g[a] \in Int /\ (a # v => g[a] = f[a])
        BY <2>1, <2>2
    <2>4. v \in Addr /\ f[v] \in Int /\ SumFunctionOnSet(f, Addr) \in Int
        BY <1>2, <2>1, <2>3, SumInt
    <2>5. SumFunctionOnSet(g, Addr) = SumFunctionOnSet(f, Addr) + (g[v] - f[v])
        BY ONLY <2>1, <2>3, <2>4, SumChange
    <2> QED BY <1>11, <2>2, <2>4, <2>5 DEF Bals, f, g
<1>16. /\ Tots(M) = Tots(T) /\ Exact(M) /\ M.burned = T.burned
       /\ M.unbonding = T.unbonding /\ M.minted = T.minted + r
    BY <1>11, <1>12, <1>13 DEF Tots, Exact
<1>17. /\ Bals(T) \in Nat /\ Tots(T) \in Nat /\ T.burned \in Nat /\ T.minted \in Nat
       /\ Unb(T.unbonding) \in Nat
    BY <1>1, SupplyIs
<1>18. Held(L) \in Int /\ L.minted \in Int
    BY SupplyIs DEF Held
<1> HIDE DEF r
<1>19. Held(M) = Held(T) + r
    BY <1>11, <1>15, <1>16, <1>17 DEF Held
<1>20. Held(M) - M.minted = Held(L) - L.minted
    BY <1>3, <1>11, <1>13, <1>14, <1>16, <1>18, <1>19
<1>21. Supply(M) = Held(M) - M.minted /\ Supply(L) = Held(L) - L.minted
    BY <1>1, SupplyIs
<1> QED BY <1>16, <1>20, <1>21 DEF M

\* The supply is a matter of money.
LEMMA SupplyMoney ==
    ASSUME NEW L, Good(L), NEW M, Good(M), Money(M) = Money(L)
    PROVE  Supply(M) = Supply(L) /\ (Exact(L) => Exact(M))
<1>1. /\ M.bal = L.bal /\ M.stakes = L.stakes /\ M.total = L.total
      /\ M.unbonding = L.unbonding /\ M.minted = L.minted /\ M.burned = L.burned
    BY GoodMoney DEF Good
<1>2. Held(M) = Held(L)
    BY <1>1 DEF Held, Bals, Tots
<1>3. Supply(M) = Held(M) - M.minted /\ Supply(L) = Held(L) - L.minted
    BY SupplyIs
<1> QED BY <1>1, <1>2, <1>3 DEF Exact

\* The last entry of the history has the money of the ledger.
LEMMA PastMoney ==
    ASSUME LedgerInv
    PROVE  /\ height + 1 \in 1..(height + 1)
           /\ Good(past[height + 1]) /\ Money(ledger) = Money(past[height + 1])
<1>1. height + 1 \in 1..(height + 1)
    BY LedgerGood
<1>2. Remembered(height + 1) /\ Money(ledger) = Money(past[height + 1])
    BY <1>1 DEF LedgerInv
<1> QED BY <1>1, <1>2 DEF Remembered

\* What a step does to the history.
LEMMA PastStep ==
    ASSUME LedgerInv, [Next]_vars
    PROVE  \/ past' = past /\ chain' = chain
           \/ \E b \in Blocks : _append_block(b)
           \/ /\ height' \in Nat /\ height' < height
              /\ \A k \in 1..(height' + 1) : past'[k] = past[k]
              /\ \A k \in 1..height' : chain'[k] = chain[k]
<1>1. /\ txPool \in Seq(Tx) /\ NextBlock \in Blocks /\ Incoming \subseteq Blocks
      /\ height \in Nat
    BY BlocksType, LedgerGood DEF LedgerInv
<1>2. CASE UNCHANGED vars
    BY <1>2 DEF vars
<1>3. CASE \E t \in Tx : submit_tx(t)
    BY <1>3 DEF submit_tx
<1>4. CASE produce_block
    BY <1>1, <1>4 DEF produce_block
<1>5. CASE produce_block_raises
    BY <1>5 DEF produce_block_raises, _append_block_undone
<1>6. CASE \E b \in Incoming : add_block(b) \/ add_block_rejects(b)
    <2>1. PICK b \in Incoming : add_block(b) \/ add_block_rejects(b)
        BY <1>6
    <2>2. b \in Blocks
        BY <1>1
    <2>3. CASE add_block(b)
        BY <2>2, <2>3 DEF add_block
    <2>4. CASE add_block_rejects(b)
        BY <2>4 DEF add_block_rejects, _append_block_undone
    <2> QED BY <2>1, <2>3, <2>4
<1>7. CASE \E n \in 1..MaxRollback : _rollback_to(n)
    <2>1. PICK n \in 1..MaxRollback : _rollback_to(n)
        BY <1>7
    <2> DEFINE h == height - n
    <2>2. /\ n \in 1..height /\ chain' = SubSeq(chain, 1, h)
          /\ past' = SubSeq(past, 1, h + 1)
        BY <2>1 DEF _rollback_to
    <2>3. h \in 0..height /\ h + 1 \in 0..(height + 1) /\ h < height /\ h \in Nat
        BY <1>1, <2>2
    <2> HIDE DEF h
    <2>4. PICK S : past \in Seq(S)
        BY DEF LedgerInv
    <2>5. chain \in Seq(Blocks) /\ Len(past) = height + 1
        BY DEF LedgerInv
    <2>6. Len(chain') = h
        BY <2>2, <2>3, <2>5, FirstOnes DEF height
    <2>7. \A k \in 1..(h + 1) : past'[k] = past[k]
        BY <2>2, <2>3, <2>4, <2>5, FirstOnes
    <2>8. height' = h
        BY <2>6 DEF height
    <2>9. \A k \in 1..h : chain'[k] = chain[k]
        BY <2>2, <2>3, <2>5, FirstOnes DEF height
    <2> QED BY <2>3, <2>7, <2>8, <2>9
<1> QED BY <1>2, <1>3, <1>4, <1>5, <1>6, <1>7 DEF Next

\* No block on the chain takes back more than is staked.  submit_tx holds an
\* UNSTAKE against the stake of the moment, and not against those already
\* pending, and validate_block does not look at stakes.
UnstakesCovered ==
    [][\A b \in Blocks : chain' = Append(chain, b)
                            => BlockCovered(ledger, b, Len(chain) + 1)]_vars

NoEvidence == \A t \in Tx : t.type # "EVIDENCE"

\* Every ledger of the history has conserved the supply.
SupplyInv ==
    \A k \in 1..(height + 1) : Exact(past[k]) /\ Supply(past[k]) = MIN_STAKE

LEMMA SupplyInit == Init => SupplyInv
<1> SUFFICES ASSUME Init PROVE SupplyInv
    OBVIOUS
<1>1. height = 0 /\ past[1] = Genesis
    BY DEF Init, height
<1>2. /\ Self \in Validator /\ Self \in Addr /\ MIN_STAKE \in Nat /\ GENESIS_BALANCE \in Nat
      /\ IsFiniteSet(Addr) /\ IsFiniteSet(Validator)
    BY LedgerAssumption, GenesisGood, SupplyIs
<1> DEFINE b == [a \in Addr |-> IF a = Self THEN GENESIS_BALANCE ELSE 0]
           s(v) == [a \in Addr |-> IF v = Self /\ a = Self THEN MIN_STAKE ELSE 0]
           t == [v \in Validator |-> IF v = Self THEN MIN_STAKE ELSE 0]
<1>3. /\ Genesis.bal = b /\ Genesis.total = t /\ Genesis.unbonding = <<>>
      /\ Genesis.minted = GENESIS_BALANCE /\ Genesis.burned = 0
      /\ \A v \in Validator : Genesis.stakes[v] = s(v)
    BY DEF Genesis
<1>4. SumFunctionOnSet(b, Addr) = GENESIS_BALANCE
    <2>1. (\A a \in Addr : b[a] = IF a = Self THEN GENESIS_BALANCE ELSE 0) /\ GENESIS_BALANCE \in Int
        BY <1>2
    <2> HIDE DEF b
    <2> QED BY ONLY <1>2, <2>1, SumPoint
<1>5. SumFunctionOnSet(t, Validator) = MIN_STAKE
    <2>1. (\A v \in Validator : t[v] = IF v = Self THEN MIN_STAKE ELSE 0) /\ MIN_STAKE \in Int
        BY <1>2
    <2> HIDE DEF t
    <2> QED BY ONLY <1>2, <2>1, SumPoint
<1>6. Unb(<<>>) = 0
    BY SumEmpty DEF Unb
<1>7. ASSUME NEW v \in Validator PROVE SumFunctionOnSet(s(v), Addr) = t[v]
    <2> DEFINE c == IF v = Self THEN MIN_STAKE ELSE 0
               f == s(v)
    <2>1. (\A a \in Addr : f[a] = IF a = Self THEN c ELSE 0) /\ c \in Int
        BY <1>2
    <2>2. t[v] = c
        OBVIOUS
    <2> HIDE DEF c, f
    <2>3. SumFunctionOnSet(f, Addr) = c
        BY ONLY <1>2, <2>1, SumPoint
    <2> QED BY <2>2, <2>3 DEF f
<1>8. Exact(Genesis)
    <2> HIDE DEF s, t
    <2> QED BY <1>3, <1>7 DEF Exact
<1>9. Held(Genesis) = GENESIS_BALANCE + MIN_STAKE
    <2> HIDE DEF b, t
    <2>1. Bals(Genesis) = GENESIS_BALANCE /\ Tots(Genesis) = MIN_STAKE
        BY <1>3, <1>4, <1>5 DEF Bals, Tots
    <2>2. Unb(Genesis.unbonding) = 0 /\ Genesis.burned = 0
        BY <1>3, <1>6
    <2> QED BY <1>2, <2>1, <2>2 DEF Held
<1>10. Supply(Genesis) = Held(Genesis) - Genesis.minted /\ Genesis.minted = GENESIS_BALANCE
    BY <1>3, GenesisGood, SupplyIs
<1>11. Supply(Genesis) = MIN_STAKE
    BY <1>2, <1>9, <1>10
<1>12. \A k \in 1..(height + 1) : k = 1
    BY <1>1
<1> QED BY <1>1, <1>8, <1>11, <1>12 DEF SupplyInv

LEMMA SupplyStep ==
    ASSUME NoEvidence, LedgerInv, SupplyInv, [Next]_vars, LedgerInv',
           [\A b \in Blocks : chain' = Append(chain, b)
                                => BlockCovered(ledger, b, Len(chain) + 1)]_vars
    PROVE  SupplyInv'
<1>1. height \in Nat
    BY LedgerGood
<1>2. CASE past' = past /\ chain' = chain
    BY <1>2 DEF SupplyInv, height
<1>3. CASE \E b \in Blocks : _append_block(b)
    <2>1. PICK b \in Blocks : _append_block(b)
        BY <1>3
    <2> DEFINE n == height + 1
               L == Applied(ledger, b, n)
    <2>2. /\ L.ok /\ chain' = Append(chain, b) /\ ledger' = PruneDistributions(L, n)
          /\ past' = Append(past, ledger')
        BY <2>1 DEF _append_block
    <2>3. Good(ledger) /\ n \in Nat /\ Good(past[n]) /\ Money(ledger) = Money(past[n])
        BY <1>1, LedgerGood, PastMoney
    <2>4. Exact(past[n]) /\ Supply(past[n]) = MIN_STAKE
        BY <1>1 DEF SupplyInv
    <2>5. Exact(ledger) /\ Supply(ledger) = MIN_STAKE
        BY <2>3, <2>4, SupplyMoney
    <2>6. BlockCovered(ledger, b, n)
        <3>1. chain' # chain
            <4>1. chain \in Seq(Blocks)
                BY DEF LedgerInv
            <4>2. Len(chain') = Len(chain) + 1 /\ Len(chain) \in Nat
                BY <2>2, <4>1, AppendProperties, LenProperties
            <4> QED BY <4>2
        <3> QED BY <2>2, <3>1 DEF vars, height
    <2>7. Good(L) /\ Exact(L) /\ Supply(L) = Supply(ledger)
        BY <2>2, <2>3, <2>5, <2>6, AppliedFacts, AppliedSupply DEF NoEvidence
    <2> HIDE DEF L, n
    <2>8. DOMAIN ledger' = Fields /\ ledger'.ok = L.ok /\ Money(ledger') = Money(L)
        BY <2>2, <2>7, PruneFacts DEF Good
    <2>9. Good(ledger')
        BY <2>7, <2>8, GoodMoney DEF Good
    <2>10. Exact(ledger') /\ Supply(ledger') = MIN_STAKE
        BY <2>5, <2>7, <2>8, <2>9, SupplyMoney
    <2>11. PICK S : past \in Seq(S)
        BY DEF LedgerInv
    <2>12. Len(past) = n /\ height' = n
        <3>1. chain \in Seq(Blocks) /\ Len(past) = n
            BY DEF LedgerInv, n
        <3> QED BY <2>2, <3>1, AppendProperties DEF height, n
    <2>13. past'[n + 1] = ledger' /\ \A i \in 1..n : past'[i] = past[i]
        BY <2>2, <2>11, <2>12, OneMore
    <2>14. ASSUME NEW k \in 1..(n + 1)
           PROVE  Exact(past'[k]) /\ Supply(past'[k]) = MIN_STAKE
        <3>1. CASE k = n + 1
            BY <2>10, <2>13, <3>1
        <3>2. CASE k # n + 1
            <4>1. k \in 1..n
                BY <2>3, <3>2
            <4> QED BY <2>13, <4>1 DEF SupplyInv, n
        <3> QED BY <3>1, <3>2
    <2> QED BY <2>12, <2>14 DEF SupplyInv
<1>4. CASE /\ height' \in Nat /\ height' < height
           /\ \A k \in 1..(height' + 1) : past'[k] = past[k]
    <2> DEFINE h == height'
    <2>1. h \in Nat /\ h < height /\ \A k \in 1..(h + 1) : past'[k] = past[k]
        BY <1>4
    <2> HIDE DEF h
    <2>2. \A k \in 1..(h + 1) : k \in 1..(height + 1)
        BY <1>1, <2>1
    <2>3. \A k \in 1..(h + 1) : Exact(past'[k]) /\ Supply(past'[k]) = MIN_STAKE
        BY <2>1, <2>2 DEF SupplyInv
    <2> QED BY <2>3 DEF SupplyInv, h
<1> QED BY <1>2, <1>3, <1>4, PastStep

LEMMA SupplyMeans == LedgerInv /\ SupplyInv => SupplyConserved /\ TotalStakeExact
<1> SUFFICES ASSUME LedgerInv, SupplyInv PROVE SupplyConserved /\ TotalStakeExact
    OBVIOUS
<1> DEFINE P == past[height + 1]
<1>1. /\ Good(ledger) /\ Good(P) /\ Money(ledger) = Money(P) /\ height + 1 \in 1..(height + 1)
    BY LedgerGood, PastMoney
<1>2. Exact(P) /\ Supply(P) = MIN_STAKE
    BY <1>1 DEF SupplyInv
<1> HIDE DEF P
<1>3. Exact(ledger) /\ Supply(ledger) = MIN_STAKE
    BY <1>1, <1>2, SupplyMoney
<1>4. ASSUME NEW v \in Validator PROVE ledger.total[v] = SumFunction(ledger.stakes[v])
    <2>1. DOMAIN ledger.stakes[v] = Addr
        BY <1>1 DEF Good
    <2> QED BY <1>3, <2>1 DEF Exact, SumFunction
<1> QED BY <1>3, <1>4 DEF SupplyConserved, TotalStakeExact

\* What there is and what was burned, less what was minted, is the stake of
\* genesis for good: no transaction, unbonding, distribution or reward, and no
\* number of blocks of any content, makes or loses a coin.  The premises are the
\* three things that no handler checks by itself: that what is taken back restores
\* the money, that an UNSTAKE on the chain is covered, and that no stake is
\* slashed below what its delegators recorded.
THEOREM SupplyKept ==
    ASSUME NoEvidence
    PROVE  Spec /\ RollbackRestores /\ FailedAppendUndone /\ UnstakesCovered
             => []SupplyConserved
<1>1. /\ LedgerInv /\ SupplyInv /\ [Next]_vars
      /\ [Len(chain') < Len(chain) => Money(ledger') = Money(past[Len(chain') + 1])]_vars
      /\ [chain' = chain => Money(ledger') = Money(ledger)]_vars
      /\ [\A b \in Blocks : chain' = Append(chain, b)
                                => BlockCovered(ledger, b, Len(chain) + 1)]_vars
      => LedgerInv' /\ SupplyInv'
    BY LedgerStep, SupplyStep
<1>2. LedgerInv /\ SupplyInv => SupplyConserved
    BY SupplyMeans
<1> QED BY <1>1, <1>2, LedgerInit, SupplyInit, PTL
        DEF Spec, RollbackRestores, FailedAppendUndone, UnstakesCovered

\* Under the same premises total_stake of every validator, which weighs the
\* election of the proposer, is the sum of what its delegators have staked.
THEOREM WeightsExact ==
    ASSUME NoEvidence
    PROVE  Spec /\ RollbackRestores /\ FailedAppendUndone /\ UnstakesCovered
             => []TotalStakeExact
<1>1. /\ LedgerInv /\ SupplyInv /\ [Next]_vars
      /\ [Len(chain') < Len(chain) => Money(ledger') = Money(past[Len(chain') + 1])]_vars
      /\ [chain' = chain => Money(ledger') = Money(ledger)]_vars
      /\ [\A b \in Blocks : chain' = Append(chain, b)
                                => BlockCovered(ledger, b, Len(chain) + 1)]_vars
      => LedgerInv' /\ SupplyInv'
    BY LedgerStep, SupplyStep
<1>2. LedgerInv /\ SupplyInv => TotalStakeExact
    BY SupplyMeans
<1> QED BY <1>1, <1>2, LedgerInit, SupplyInit, PTL
        DEF Spec, RollbackRestores, FailedAppendUndone, UnstakesCovered
-----------------------------------------------------------------------------
(* A block taken back exactly *)

\* Of M and L only balances and what is burned differ.
SameRest(M, L) ==
    /\ M.stakes = L.stakes /\ M.total = L.total /\ M.unbonding = L.unbonding
    /\ M.minted = L.minted /\ M.rewards = L.rewards /\ M.epoch = L.epoch
    /\ M.frozen = L.frozen /\ M.slashed = L.slashed /\ M.known = L.known

\* What is undone of t has the balances b and the burned supply n.
LEMMA UndoFundsIs ==
    ASSUME NEW M, DOMAIN M = Fields, M.bal \in [Addr -> Int], M.burned \in Int,
           NEW v \in Addr, NEW t \in Tx
    PROVE  LET U == UndoFee(UndoFunds(M, t), v, t)
               fee == TX_FEES[t.type]
           IN  /\ DOMAIN U = Fields /\ SameRest(U, M)
               /\ U.bal \in [Addr -> Int]
               /\ U.burned = M.burned - Burn(fee)
               /\ \A a \in Addr :
                    U.bal[a] = M.bal[a] + (IF a = t.from THEN Debit(t) ELSE 0)
                                        - (IF a = v THEN ValidatorShare(fee) ELSE 0)
                                        - (IF a = t.to THEN Inflow(t) ELSE 0)
<1> DEFINE F == UndoFunds(M, t)
           fee == TX_FEES[t.type]
           share == ValidatorShare(fee)
           U == UndoFee(F, v, t)
           out == IF t.type \in {"TRANSFER", "STAKE"} THEN t.amount ELSE 0
           in == Inflow(t)
<1>1. /\ t.type \in Types /\ t.from \in Addr /\ t.to \in Addr /\ t.amount \in Nat
      /\ fee \in Nat
    BY TxType
<1>2. share \in Nat /\ Burn(fee) \in Nat
    BY <1>1, FeeParts
<1>3. out \in Nat /\ in \in Nat /\ Debit(t) = fee + out
    BY <1>1 DEF Inflow, Debit
<1>4. /\ DOMAIN F = Fields /\ SameRest(F, M) /\ F.burned = M.burned
      /\ F.bal \in [Addr -> Int]
      /\ \A a \in Addr : F.bal[a] = M.bal[a] + (IF a = t.from THEN out ELSE 0)
                                             - (IF a = t.to THEN in ELSE 0)
    <2>1. CASE t.type = "TRANSFER"
        <3>1. F = [[M EXCEPT !.bal[t.to] = @ - t.amount] EXCEPT !.bal[t.from] = @ + t.amount]
            BY <2>1 DEF UndoFunds, _rollback_debit
        <3> DEFINE G == [M EXCEPT !.bal[t.to] = @ - t.amount]
        <3>2. /\ DOMAIN G = Fields /\ SameRest(G, M) /\ G.burned = M.burned
              /\ G.bal = [M.bal EXCEPT ![t.to] = @ - t.amount]
            BY DEF Fields, SameRest
        <3>3. F = [G EXCEPT !.bal[t.from] = @ + t.amount]
            BY <3>1
        <3> HIDE DEF G, F
        <3>4. /\ DOMAIN F = Fields /\ SameRest(F, G) /\ F.burned = G.burned
              /\ F.bal = [G.bal EXCEPT ![t.from] = @ + t.amount]
            BY <3>2, <3>3 DEF Fields, SameRest
        <3>5. out = t.amount /\ in = t.amount
            BY <2>1 DEF Inflow
        <3>6. G.bal \in [Addr -> Int]
            BY <1>1, <3>2
        <3>7. F.bal \in [Addr -> Int]
            BY <1>1, <3>4, <3>6
        <3>8. \A a \in Addr : F.bal[a] = M.bal[a] + (IF a = t.from THEN t.amount ELSE 0)
                                                  - (IF a = t.to THEN t.amount ELSE 0)
            BY <1>1, <3>2, <3>4, <3>6
        <3> QED BY <3>2, <3>4, <3>5, <3>7, <3>8 DEF SameRest
    <2>2. CASE t.type = "STAKE"
        <3>1. F = [M EXCEPT !.bal[t.from] = @ + t.amount]
            BY <2>2 DEF UndoFunds
        <3> HIDE DEF F
        <3>2. /\ DOMAIN F = Fields /\ SameRest(F, M) /\ F.burned = M.burned
              /\ F.bal = [M.bal EXCEPT ![t.from] = @ + t.amount]
            BY <3>1 DEF Fields, SameRest
        <3>3. out = t.amount /\ in = 0
            BY <2>2 DEF Inflow
        <3>4. /\ F.bal \in [Addr -> Int]
              /\ \A a \in Addr : F.bal[a] = M.bal[a] + (IF a = t.from THEN t.amount ELSE 0)
            BY <1>1, <3>2
        <3>5. \A a \in Addr : M.bal[a] + (IF a = t.from THEN t.amount ELSE 0)
                               = M.bal[a] + (IF a = t.from THEN t.amount ELSE 0)
                                          - (IF a = t.to THEN 0 ELSE 0)
            BY <1>1
        <3> QED BY <3>2, <3>3, <3>4, <3>5
    <2>3. CASE t.type \notin {"TRANSFER", "STAKE"}
        <3>1. F = M
            BY <2>3 DEF UndoFunds
        <3>2. out = 0 /\ in = 0
            BY <2>3 DEF Inflow
        <3>3. \A a \in Addr : M.bal[a] = M.bal[a] + (IF a = t.from THEN 0 ELSE 0)
                                                  - (IF a = t.to THEN 0 ELSE 0)
            OBVIOUS
        <3> QED BY <3>1, <3>2, <3>3 DEF SameRest
    <2> QED BY <2>1, <2>2, <2>3
<1> HIDE DEF F, out, in, share, fee
<1> DEFINE G == [F EXCEPT !.bal[v] = @ - share]
<1>5. /\ DOMAIN G = Fields /\ SameRest(G, F) /\ G.burned = F.burned
      /\ G.bal = [F.bal EXCEPT ![v] = @ - share]
    BY <1>4 DEF Fields, SameRest
<1>6. U = [G EXCEPT !.burned = @ - Burn(fee), !.bal[t.from] = @ + fee]
    BY DEF UndoFee, _rollback_debit, share, fee
<1> HIDE DEF G, U
<1>7. /\ DOMAIN U = Fields /\ SameRest(U, G) /\ U.burned = G.burned - Burn(fee)
      /\ U.bal = [G.bal EXCEPT ![t.from] = @ + fee]
    BY <1>5, <1>6 DEF Fields, SameRest
<1>8. G.bal \in [Addr -> Int]
    BY <1>2, <1>4, <1>5
<1>9. U.bal \in [Addr -> Int]
    BY <1>1, <1>7, <1>8
<1>10. \A a \in Addr : U.bal[a] = F.bal[a] + (IF a = t.from THEN fee ELSE 0)
                                           - (IF a = v THEN share ELSE 0)
    BY <1>1, <1>2, <1>4, <1>5, <1>7, <1>8
<1>11. ASSUME NEW a \in Addr
       PROVE  U.bal[a] = M.bal[a] + (IF a = t.from THEN Debit(t) ELSE 0)
                                  - (IF a = v THEN share ELSE 0)
                                  - (IF a = t.to THEN in ELSE 0)
    <2>1. U.bal[a] = F.bal[a] + (IF a = t.from THEN fee ELSE 0) - (IF a = v THEN share ELSE 0)
        BY <1>10
    <2>2. F.bal[a] = M.bal[a] + (IF a = t.from THEN out ELSE 0) - (IF a = t.to THEN in ELSE 0)
        BY <1>4
    <2>3. M.bal[a] \in Int /\ F.bal[a] \in Int
        BY <1>4
    <2> QED BY <1>1, <1>2, <1>3, <2>1, <2>2, <2>3
<1>12. SameRest(U, M) /\ U.burned = M.burned - Burn(fee)
    BY <1>4, <1>5, <1>7 DEF SameRest
<1> QED BY <1>7, <1>9, <1>11, <1>12 DEF U, F, share, fee, in

\* Undoing the funds of t restores the balances and the burned supply which t
\* found, whatever else happened in between.
LEMMA FundsInverse ==
    ASSUME NEW L, Good(L), NEW v \in Addr, NEW idx \in Int, NEW t \in Tx,
           ApplyTx(L, v, idx, t).ok,
           NEW M, DOMAIN M = Fields, M.bal = ApplyTx(L, v, idx, t).bal,
           M.burned = ApplyTx(L, v, idx, t).burned
    PROVE  LET U == UndoFee(UndoFunds(M, t), v, t)
           IN  DOMAIN U = Fields /\ SameRest(U, M) /\ U.bal = L.bal /\ U.burned = L.burned
<1> DEFINE A == ApplyTx(L, v, idx, t)
           U == UndoFee(UndoFunds(M, t), v, t)
           fee == TX_FEES[t.type]
           share == ValidatorShare(fee)
           d == Debit(t)
           in == Inflow(t)
<1>1. /\ Good(A) /\ A.burned = L.burned + Burn(fee)
      /\ \A a \in Addr : A.bal[a] = L.bal[a] - (IF a = t.from THEN d ELSE 0)
                                             + (IF a = v THEN share ELSE 0)
                                             + (IF a = t.to THEN in ELSE 0)
    BY ApplyTxFacts
<1>2. /\ fee \in Nat /\ share \in Nat /\ Burn(fee) \in Nat /\ d \in Nat /\ in \in Nat
    <2>1. fee \in Nat /\ t.amount \in Nat
        BY TxType
    <2>2. share \in Nat /\ Burn(fee) \in Nat
        BY <2>1, FeeParts
    <2>3. d \in Nat /\ in \in Nat
        BY <2>1 DEF Debit, Inflow
    <2> QED BY <2>1, <2>2, <2>3
<1>3. /\ L.bal \in [Addr -> Nat] /\ L.burned \in Nat /\ A.bal \in [Addr -> Nat] /\ A.burned \in Nat
    BY <1>1 DEF Good
<1>4. M.bal \in [Addr -> Int] /\ M.burned \in Int /\ M.bal = A.bal /\ M.burned = A.burned
    BY <1>3
<1>5. /\ DOMAIN U = Fields /\ SameRest(U, M) /\ U.bal \in [Addr -> Int]
      /\ U.burned = M.burned - Burn(fee)
      /\ \A a \in Addr : U.bal[a] = M.bal[a] + (IF a = t.from THEN d ELSE 0)
                                             - (IF a = v THEN share ELSE 0)
                                             - (IF a = t.to THEN in ELSE 0)
    BY <1>4, UndoFundsIs
<1> HIDE DEF A, U, fee, share, d, in
<1>6. ASSUME NEW a \in Addr PROVE U.bal[a] = L.bal[a]
    <2> DEFINE x == IF a = t.from THEN d ELSE 0
               y == IF a = v THEN share ELSE 0
               z == IF a = t.to THEN in ELSE 0
    <2>1. x \in Nat /\ y \in Nat /\ z \in Nat /\ L.bal[a] \in Nat
        BY <1>2, <1>3
    <2>2. A.bal[a] = L.bal[a] - x + y + z /\ U.bal[a] = M.bal[a] + x - y - z /\ M.bal[a] = A.bal[a]
        BY <1>1, <1>4, <1>5
    <2> HIDE DEF x, y, z
    <2> QED BY <2>1, <2>2
<1>7. U.bal = L.bal
    BY <1>3, <1>5, <1>6
<1>8. U.burned = L.burned
    BY <1>1, <1>2, <1>3, <1>4, <1>5
<1> QED BY <1>5, <1>7, <1>8 DEF U

\* The transactions of a block that succeeds all succeed.
LEMMA AllOk ==
    ASSUME NEW L, Good(L), NEW v \in Addr, NEW idx \in Int, NEW txs \in Seq(Tx),
           AfterTxs(L, v, idx, txs)[Len(txs)].ok
    PROVE  \A n \in 0..Len(txs) : AfterTxs(L, v, idx, txs)[n].ok
<1> DEFINE A == AfterTxs(L, v, idx, txs)
           N == Len(txs)
           S == {k \in 0..N : A[N - k].ok}
<1>1. N \in Nat /\ \A n \in 1..N : txs[n] \in Tx
    BY LenProperties, ElementOfSeq
<1>2. \A n \in 1..N : A[n] = ApplyTx(A[n - 1], v, idx, txs[n])
    BY <1>1, AfterTxsIs
<1>3. \A n \in 0..N : Good(A[n])
    BY AfterTxsGood
<1>4. A[N].ok
    OBVIOUS
<1> HIDE DEF A, N
<1>5. 0 \in S
    BY <1>1, <1>4
<1>6. ASSUME NEW k \in 1..N, k - 1 \in S PROVE k \in S
    <2> DEFINE n == N + 1 - k
    <2>1. n \in 1..N /\ n - 1 \in 0..N /\ N - (k - 1) = n /\ N - k = n - 1 /\ k \in 0..N
        BY <1>1
    <2>2. A[n].ok
        BY <1>6, <2>1
    <2> HIDE DEF n
    <2>3. A[n] = ApplyTx(A[n - 1], v, idx, txs[n]) /\ Good(A[n - 1]) /\ txs[n] \in Tx
        BY <1>1, <1>2, <1>3, <2>1
    <2>4. A[n - 1].ok
        BY <2>2, <2>3, ApplyTxFacts
    <2> QED BY <2>1, <2>4
<1>7. \A k \in 0..N : k \in S
    <2> HIDE DEF S
    <2> QED BY <1>1, <1>5, <1>6, PrefixInduction
<1>8. ASSUME NEW n \in 0..N PROVE A[n].ok
    <2>1. N - n \in 0..N /\ N - (N - n) = n
        BY <1>1
    <2> QED BY <1>7, <2>1
<1> QED BY <1>8 DEF A, N

\* The funds of a block, undone from what it left, are those before it.
LEMMA AllFundsBack ==
    ASSUME NEW L, Good(L), NEW v \in Addr, NEW idx \in Int, NEW txs \in Seq(Tx),
           AfterTxs(L, v, idx, txs)[Len(txs)].ok,
           NEW K, DOMAIN K = Fields,
           K.bal = AfterTxs(L, v, idx, txs)[Len(txs)].bal,
           K.burned = AfterTxs(L, v, idx, txs)[Len(txs)].burned
    PROVE  LET F == FundsUndone(K, v, txs)[Len(txs)]
           IN  DOMAIN F = Fields /\ SameRest(F, K) /\ F.bal = L.bal /\ F.burned = L.burned
<1> DEFINE A == AfterTxs(L, v, idx, txs)
           N == Len(txs)
           F == FundsUndone(K, v, txs)
           Back(k) == /\ DOMAIN F[k] = Fields /\ SameRest(F[k], K)
                      /\ F[k].bal = A[N - k].bal /\ F[k].burned = A[N - k].burned
           S == {k \in 0..N : Back(k)}
<1>1. N \in Nat /\ \A n \in 1..N : txs[n] \in Tx
    BY LenProperties, ElementOfSeq
<1>2. A[0] = L /\ \A n \in 1..N : A[n] = ApplyTx(A[n - 1], v, idx, txs[n])
    BY <1>1, AfterTxsIs
<1>3. \A n \in 0..N : Good(A[n]) /\ A[n].ok
    BY AfterTxsGood, AllOk
<1>4. /\ F[0] = K
      /\ \A k \in 1..N : F[k] = UndoFee(UndoFunds(F[k - 1], txs[N + 1 - k]), v, txs[N + 1 - k])
    BY <1>1, FundsUndoneIs
<1>5. K.bal = A[N].bal /\ K.burned = A[N].burned
    OBVIOUS
<1> HIDE DEF A, N, F
<1>6. 0 \in S
    BY <1>1, <1>4, <1>5 DEF SameRest
<1>7. ASSUME NEW k \in 1..N, k - 1 \in S PROVE k \in S
    <2> DEFINE n == N + 1 - k
               G == F[k - 1]
               C == A[n - 1]
               t == txs[n]
    <2>1. n \in 1..N /\ n - 1 \in 0..N /\ n \in 0..N
          /\ N - (k - 1) = n /\ N - k = n - 1 /\ k \in 0..N
        BY <1>1
    <2>2. DOMAIN G = Fields /\ SameRest(G, K) /\ G.bal = A[n].bal /\ G.burned = A[n].burned
        BY <1>7, <2>1
    <2> HIDE DEF n
    <2>3. /\ A[n] = ApplyTx(C, v, idx, t) /\ Good(C) /\ t \in Tx /\ A[n].ok
        BY <1>1, <1>2, <1>3, <2>1
    <2>4. F[k] = UndoFee(UndoFunds(G, t), v, t)
        BY <1>4 DEF n
    <2> HIDE DEF G, C, t
    <2>5. /\ DOMAIN F[k] = Fields /\ SameRest(F[k], G) /\ F[k].bal = C.bal
          /\ F[k].burned = C.burned
        BY <2>2, <2>3, <2>4, FundsInverse
    <2> QED BY <2>1, <2>2, <2>5 DEF SameRest, C
<1>8. \A k \in 0..N : k \in S
    <2> HIDE DEF S
    <2> QED BY <1>1, <1>6, <1>7, PrefixInduction
<1>9. Back(N) /\ N - N = 0
    BY <1>1, <1>8
<1> QED BY <1>2, <1>9 DEF F, N

\* A block of transfers and stakes: no unbonding is begun, nobody is slashed.
PlainTxs(txs) == \A n \in 1..Len(txs) : txs[n].type \in {"TRANSFER", "STAKE"}

\* Of M and L only stakes and weights, balances and what is burned differ.
SameLocks(M, L) ==
    /\ M.unbonding = L.unbonding /\ M.minted = L.minted /\ M.rewards = L.rewards
    /\ M.epoch = L.epoch /\ M.frozen = L.frozen /\ M.slashed = L.slashed
    /\ M.known = L.known

\* What one of them adds to the stake of "a" at w, and to the weight of w.
Adds(t, w, a) == IF t.type = "STAKE" /\ t.to = w /\ t.from = a THEN t.amount ELSE 0
Weighs(t, w) == IF t.type = "STAKE" /\ t.to = w THEN t.amount ELSE 0

LEMMA PlainTx ==
    ASSUME NEW L, Good(L), NEW v \in Addr, NEW idx \in Int, NEW t \in Tx,
           t.type \in {"TRANSFER", "STAKE"}, ApplyTx(L, v, idx, t).ok
    PROVE  LET M == ApplyTx(L, v, idx, t)
           IN  /\ SameLocks(M, L)
               /\ \A w \in Validator : /\ M.total[w] = L.total[w] + Weighs(t, w)
                                       /\ Weighs(t, w) \in Nat
               /\ \A w \in Validator, a \in Addr :
                    /\ M.stakes[w][a] = L.stakes[w][a] + Adds(t, w, a)
                    /\ Adds(t, w, a) \in Nat
<1> DEFINE M == ApplyTx(L, v, idx, t)
<1>1. /\ StakesMoved(M, L, idx, t) /\ M.minted = L.minted /\ M.rewards = L.rewards
      /\ M.epoch = L.epoch /\ M.frozen = L.frozen /\ M.slashed = L.slashed /\ M.known = L.known
    BY ApplyTxFacts
<1>2. t.from \in Addr /\ t.amount \in Nat /\ (t.type # "TRANSFER" => t.to \in Validator)
    BY TxType
<1>3. /\ L.stakes \in [Validator -> [Addr -> Nat]] /\ L.total \in [Validator -> Nat]
    BY DEF Good
<1> HIDE DEF M
<1>4. CASE t.type = "STAKE"
    <2>1. /\ M.stakes = [L.stakes EXCEPT ![t.to][t.from] = @ + t.amount]
          /\ M.total = [L.total EXCEPT ![t.to] = @ + t.amount]
          /\ M.unbonding = L.unbonding
        BY <1>1, <1>4 DEF StakesMoved
    <2>2. \A w \in Validator : /\ M.total[w] = L.total[w] + Weighs(t, w)
                               /\ Weighs(t, w) \in Nat
        BY <1>2, <1>3, <1>4, <2>1 DEF Weighs
    <2>3. \A w \in Validator, a \in Addr :
            /\ M.stakes[w][a] = L.stakes[w][a] + Adds(t, w, a) /\ Adds(t, w, a) \in Nat
        BY <1>2, <1>3, <1>4, <2>1 DEF Adds
    <2> QED BY <1>1, <2>1, <2>2, <2>3 DEF SameLocks, M
<1>5. CASE t.type = "TRANSFER"
    <2>1. M.stakes = L.stakes /\ M.total = L.total /\ M.unbonding = L.unbonding
        BY <1>1, <1>5 DEF StakesMoved
    <2>2. \A w \in Validator : /\ M.total[w] = L.total[w] + Weighs(t, w)
                               /\ Weighs(t, w) \in Nat
        BY <1>3, <1>5, <2>1 DEF Weighs
    <2>3. \A w \in Validator, a \in Addr :
            /\ M.stakes[w][a] = L.stakes[w][a] + Adds(t, w, a) /\ Adds(t, w, a) \in Nat
        BY <1>3, <1>5, <2>1 DEF Adds
    <2> QED BY <1>1, <2>1, <2>2, <2>3 DEF SameLocks, M
<1> QED BY <1>4, <1>5

\* What t adds is there to be taken off.
Holds(L, t) ==
    /\ L.stakes \in [Validator -> [Addr -> Nat]] /\ L.total \in [Validator -> Nat]
    /\ \A w \in Validator : Weighs(t, w) <= L.total[w]
    /\ \A w \in Validator, a \in Addr : Adds(t, w, a) <= L.stakes[w][a]

\* Undoing t takes it off, and the clamp at zero has no effect.
LEMMA PlainUndo ==
    ASSUME NEW L, DOMAIN L = Fields, NEW idx, NEW t \in Tx, t.type \in {"TRANSFER", "STAKE"},
           Holds(L, t)
    PROVE  LET M == UndoStake(L, idx, t)
           IN  /\ DOMAIN M = Fields /\ SameLocks(M, L) /\ M.bal = L.bal /\ M.burned = L.burned
               /\ M.stakes \in [Validator -> [Addr -> Nat]] /\ M.total \in [Validator -> Nat]
               /\ \A w \in Validator : M.total[w] = L.total[w] - Weighs(t, w)
               /\ \A w \in Validator, a \in Addr :
                    M.stakes[w][a] = L.stakes[w][a] - Adds(t, w, a)
<1> DEFINE M == UndoStake(L, idx, t)
<1>1. t.from \in Addr /\ t.amount \in Nat /\ (t.type # "TRANSFER" => t.to \in Validator)
    BY TxType
<1> USE DEF Holds
<1>2. CASE t.type = "STAKE"
    <2> DEFINE s == L.stakes[t.to][t.from]
               m == L.total[t.to]
               p == Max({0, s - t.amount})
               q == Max({0, m - t.amount})
    <2>1. M = [L EXCEPT !.stakes[t.to][t.from] = p, !.total[t.to] = q]
        BY <1>2 DEF UndoStake
    <2>2. s \in Nat /\ m \in Nat /\ t.amount <= s /\ t.amount <= m
        BY <1>1, <1>2 DEF Adds, Weighs
    <2>3. p = s - t.amount /\ q = m - t.amount /\ p \in Nat /\ q \in Nat
        <3> HIDE DEF s, m
        <3>1. s - t.amount \in Int /\ m - t.amount \in Int /\ 0 <= s - t.amount /\ 0 <= m - t.amount
            BY <1>1, <2>2
        <3> QED BY <3>1, Clamp
    <2> HIDE DEF p, q, M
    <2>4. /\ DOMAIN M = Fields /\ SameLocks(M, L) /\ M.bal = L.bal /\ M.burned = L.burned
          /\ M.stakes = [L.stakes EXCEPT ![t.to][t.from] = p]
          /\ M.total = [L.total EXCEPT ![t.to] = q]
        BY <2>1 DEF Fields, SameLocks
    <2>5. M.stakes \in [Validator -> [Addr -> Nat]] /\ M.total \in [Validator -> Nat]
        BY <1>1, <1>2, <2>3, <2>4
    <2>6. \A w \in Validator : M.total[w] = L.total[w] - Weighs(t, w)
        BY <1>1, <1>2, <2>3, <2>4 DEF Weighs
    <2>7. \A w \in Validator, a \in Addr : M.stakes[w][a] = L.stakes[w][a] - Adds(t, w, a)
        BY <1>1, <1>2, <2>3, <2>4 DEF Adds
    <2> QED BY <2>4, <2>5, <2>6, <2>7 DEF M
<1>3. CASE t.type = "TRANSFER"
    <2>1. M = L
        BY <1>3 DEF UndoStake
    <2>2. \A w \in Validator : L.total[w] = L.total[w] - Weighs(t, w)
        BY <1>3 DEF Weighs
    <2>3. \A w \in Validator, a \in Addr : L.stakes[w][a] = L.stakes[w][a] - Adds(t, w, a)
        BY <1>3 DEF Adds
    <2> QED BY <2>1, <2>2, <2>3 DEF SameLocks
<1> QED BY <1>2, <1>3

\* No stake and no weight of M is above that of L.
NoMore(M, L) ==
    /\ \A w \in Validator : M.total[w] <= L.total[w]
    /\ \A w \in Validator, a \in Addr : M.stakes[w][a] <= L.stakes[w][a]

\* Through such a block stakes only grow, and nothing else is locked or freed.
LEMMA StakesGrow ==
    ASSUME NEW L, Good(L), NEW v \in Addr, NEW idx \in Int, NEW txs \in Seq(Tx),
           PlainTxs(txs), AfterTxs(L, v, idx, txs)[Len(txs)].ok
    PROVE  LET A == AfterTxs(L, v, idx, txs)
           IN  \A n \in 0..Len(txs) : NoMore(A[n], A[Len(txs)]) /\ SameLocks(A[n], L)
<1> DEFINE A == AfterTxs(L, v, idx, txs)
           N == Len(txs)
           S == {k \in 0..N : NoMore(A[N - k], A[N])}
           R == {n \in 0..N : SameLocks(A[n], L)}
<1>1. N \in Nat /\ \A n \in 1..N : txs[n] \in Tx /\ txs[n].type \in {"TRANSFER", "STAKE"}
    BY LenProperties, ElementOfSeq DEF PlainTxs
<1>2. A[0] = L /\ \A n \in 1..N : A[n] = ApplyTx(A[n - 1], v, idx, txs[n])
    BY <1>1, AfterTxsIs
<1>3. \A n \in 0..N : Good(A[n]) /\ A[n].ok
    BY AfterTxsGood, AllOk
<1> HIDE DEF A, N
<1>4. ASSUME NEW n \in 1..N
      PROVE  NoMore(A[n - 1], A[n]) /\ SameLocks(A[n], A[n - 1])
    <2> DEFINE C == A[n - 1]
               t == txs[n]
    <2>1. n - 1 \in 0..N /\ n \in 0..N
        BY <1>1
    <2>2. /\ A[n] = ApplyTx(C, v, idx, t) /\ Good(C) /\ A[n].ok /\ t \in Tx
          /\ t.type \in {"TRANSFER", "STAKE"}
        BY <1>1, <1>2, <1>3, <2>1
    <2> HIDE DEF C, t
    <2>3. /\ SameLocks(A[n], C)
          /\ \A w \in Validator : /\ A[n].total[w] = C.total[w] + Weighs(t, w)
                                  /\ Weighs(t, w) \in Nat
          /\ \A w \in Validator, a \in Addr :
                /\ A[n].stakes[w][a] = C.stakes[w][a] + Adds(t, w, a)
                /\ Adds(t, w, a) \in Nat
        BY <2>2, PlainTx
    <2>4. /\ \A w \in Validator : C.total[w] \in Nat
          /\ \A w \in Validator, a \in Addr : C.stakes[w][a] \in Nat
        BY <2>2 DEF Good
    <2>5. NoMore(C, A[n])
        BY <2>3, <2>4 DEF NoMore
    <2> QED BY <2>3, <2>5 DEF C
<1>5. 0 \in S
    <2>1. N \in 0..N /\ N - 0 = N /\ 0 \in 0..N
        BY <1>1
    <2>2. A[N].total \in [Validator -> Nat] /\ A[N].stakes \in [Validator -> [Addr -> Nat]]
        BY <1>3, <2>1 DEF Good
    <2>3. NoMore(A[N], A[N])
        BY <2>2 DEF NoMore
    <2> QED BY <2>1, <2>3
<1>6. ASSUME NEW k \in 1..N, k - 1 \in S PROVE k \in S
    <2> DEFINE n == N + 1 - k
    <2>1. n \in 1..N /\ n - 1 \in 0..N /\ n \in 0..N /\ N \in 0..N
          /\ N - (k - 1) = n /\ N - k = n - 1 /\ k \in 0..N
        BY <1>1
    <2>2. NoMore(A[n], A[N])
        BY <1>6, <2>1
    <2> HIDE DEF n
    <2>3. NoMore(A[n - 1], A[n]) /\ Good(A[n - 1]) /\ Good(A[n]) /\ Good(A[N])
        BY <1>3, <1>4, <2>1
    <2>4. /\ \A w \in Validator : A[n - 1].total[w] \in Nat /\ A[n].total[w] \in Nat
                                   /\ A[N].total[w] \in Nat
          /\ \A w \in Validator, a \in Addr :
                A[n - 1].stakes[w][a] \in Nat /\ A[n].stakes[w][a] \in Nat
                /\ A[N].stakes[w][a] \in Nat
        BY <2>3 DEF Good
    <2>5. NoMore(A[n - 1], A[N])
        BY <2>2, <2>3, <2>4 DEF NoMore
    <2> QED BY <2>1, <2>5
<1>7. \A k \in 0..N : k \in S
    <2> HIDE DEF S
    <2> QED BY <1>1, <1>5, <1>6, PrefixInduction
<1>8. 0 \in R
    BY <1>1, <1>2 DEF SameLocks
<1>9. ASSUME NEW n \in 1..N, n - 1 \in R PROVE n \in R
    BY <1>1, <1>4, <1>9 DEF SameLocks
<1>10. \A n \in 0..N : n \in R
    <2> HIDE DEF R
    <2> QED BY <1>1, <1>8, <1>9, PrefixInduction
<1>11. ASSUME NEW n \in 0..N PROVE NoMore(A[n], A[N]) /\ SameLocks(A[n], L)
    <2>1. N - n \in 0..N /\ N - (N - n) = n
        BY <1>1
    <2> QED BY <1>7, <1>10, <2>1
<1> QED BY <1>11 DEF A, N

\* The stakes and weights of M are those of Z less what D has more than L.
Without(M, Z, D, L) ==
    /\ M.stakes \in [Validator -> [Addr -> Nat]] /\ M.total \in [Validator -> Nat]
    /\ \A w \in Validator : M.total[w] = Z.total[w] - D.total[w] + L.total[w]
    /\ \A w \in Validator, a \in Addr :
         M.stakes[w][a] = Z.stakes[w][a] - D.stakes[w][a] + L.stakes[w][a]

\* An amount x that takes c to d, taken off what z has more than c, and l.
LEMMA TakenOff ==
    ASSUME NEW c \in Nat, NEW d \in Nat, NEW z \in Nat, NEW l \in Nat, NEW x \in Nat,
           NEW g \in Nat, d = c + x, d <= z, g = z - c + l
    PROVE  x <= g /\ g - x = z - d + l
OBVIOUS

LEMMA WithoutOne ==
    ASSUME NEW L, Good(L), NEW Z, Good(Z), NEW C, Good(C), NEW v \in Addr, NEW idx \in Int,
           NEW t \in Tx, t.type \in {"TRANSFER", "STAKE"}, ApplyTx(C, v, idx, t).ok,
           NoMore(ApplyTx(C, v, idx, t), Z),
           NEW G, DOMAIN G = Fields, Without(G, Z, C, L)
    PROVE  LET H == UndoStake(G, idx, t)
           IN  /\ DOMAIN H = Fields /\ SameLocks(H, G) /\ H.bal = G.bal /\ H.burned = G.burned
               /\ Without(H, Z, ApplyTx(C, v, idx, t), L)
<1> DEFINE D == ApplyTx(C, v, idx, t)
           H == UndoStake(G, idx, t)
<1>1. Good(D)
    BY ApplyTxFacts
<1>2. /\ \A w \in Validator : C.total[w] \in Nat /\ D.total[w] \in Nat /\ Z.total[w] \in Nat
                               /\ L.total[w] \in Nat
      /\ \A w \in Validator, a \in Addr :
            C.stakes[w][a] \in Nat /\ D.stakes[w][a] \in Nat /\ Z.stakes[w][a] \in Nat
            /\ L.stakes[w][a] \in Nat
    <2> HIDE DEF D
    <2> QED BY <1>1 DEF Good
<1>3. /\ \A w \in Validator : D.total[w] = C.total[w] + Weighs(t, w) /\ Weighs(t, w) \in Nat
      /\ \A w \in Validator, a \in Addr :
            D.stakes[w][a] = C.stakes[w][a] + Adds(t, w, a) /\ Adds(t, w, a) \in Nat
    BY PlainTx
<1>4. /\ G.stakes \in [Validator -> [Addr -> Nat]] /\ G.total \in [Validator -> Nat]
      /\ \A w \in Validator : G.total[w] = Z.total[w] - C.total[w] + L.total[w]
      /\ \A w \in Validator, a \in Addr :
            G.stakes[w][a] = Z.stakes[w][a] - C.stakes[w][a] + L.stakes[w][a]
    BY DEF Without
<1>5. /\ \A w \in Validator : D.total[w] <= Z.total[w]
      /\ \A w \in Validator, a \in Addr : D.stakes[w][a] <= Z.stakes[w][a]
    BY DEF NoMore
<1> HIDE DEF D
<1>6. ASSUME NEW w \in Validator
      PROVE  /\ Weighs(t, w) <= G.total[w]
             /\ G.total[w] - Weighs(t, w) = Z.total[w] - D.total[w] + L.total[w]
    <2> DEFINE c == C.total[w]
               d == D.total[w]
               z == Z.total[w]
               l == L.total[w]
               g == G.total[w]
               x == Weighs(t, w)
    <2>1. /\ c \in Nat /\ d \in Nat /\ z \in Nat /\ l \in Nat /\ x \in Nat /\ g \in Nat
          /\ d = c + x /\ d <= z /\ g = z - c + l
        BY <1>2, <1>3, <1>4, <1>5
    <2> HIDE DEF c, d, z, l, g, x
    <2>2. x <= g /\ g - x = z - d + l
        BY <2>1, TakenOff
    <2> QED BY <2>2 DEF c, d, z, l, g, x
<1>7. ASSUME NEW w \in Validator, NEW a \in Addr
      PROVE  /\ Adds(t, w, a) <= G.stakes[w][a]
             /\ G.stakes[w][a] - Adds(t, w, a)
                  = Z.stakes[w][a] - D.stakes[w][a] + L.stakes[w][a]
    <2> DEFINE c == C.stakes[w][a]
               d == D.stakes[w][a]
               z == Z.stakes[w][a]
               l == L.stakes[w][a]
               g == G.stakes[w][a]
               x == Adds(t, w, a)
    <2>1. /\ c \in Nat /\ d \in Nat /\ z \in Nat /\ l \in Nat /\ x \in Nat /\ g \in Nat
          /\ d = c + x /\ d <= z /\ g = z - c + l
        BY <1>2, <1>3, <1>4, <1>5
    <2> HIDE DEF c, d, z, l, g, x
    <2>2. x <= g /\ g - x = z - d + l
        BY <2>1, TakenOff
    <2> QED BY <2>2 DEF c, d, z, l, g, x
<1>8. /\ DOMAIN H = Fields /\ SameLocks(H, G) /\ H.bal = G.bal /\ H.burned = G.burned
      /\ H.stakes \in [Validator -> [Addr -> Nat]] /\ H.total \in [Validator -> Nat]
      /\ \A w \in Validator : H.total[w] = G.total[w] - Weighs(t, w)
      /\ \A w \in Validator, a \in Addr : H.stakes[w][a] = G.stakes[w][a] - Adds(t, w, a)
    <2>1. /\ \A w \in Validator : Weighs(t, w) <= G.total[w]
          /\ \A w \in Validator, a \in Addr : Adds(t, w, a) <= G.stakes[w][a]
        BY <1>6, <1>7
    <2>2. G.stakes \in [Validator -> [Addr -> Nat]] /\ G.total \in [Validator -> Nat]
        BY <1>4
    <2>3. Holds(G, t)
        BY <2>1, <2>2 DEF Holds
    <2> QED BY <2>3, PlainUndo
<1> HIDE DEF H
<1>9. Without(H, Z, D, L)
    BY <1>6, <1>7, <1>8 DEF Without
<1> QED BY <1>8, <1>9 DEF D, H

\* The stakes of such a block, undone in the order in which they were made, are
\* those before it: no clamp at zero takes effect.
LEMMA AllStakesBack ==
    ASSUME NEW L, Good(L), NEW v \in Addr, NEW idx \in Int, NEW txs \in Seq(Tx),
           PlainTxs(txs), AfterTxs(L, v, idx, txs)[Len(txs)].ok,
           NEW F, DOMAIN F = Fields,
           F.stakes = AfterTxs(L, v, idx, txs)[Len(txs)].stakes,
           F.total = AfterTxs(L, v, idx, txs)[Len(txs)].total
    PROVE  LET M == StakesUndone(F, idx, txs)[Len(txs)]
           IN  /\ DOMAIN M = Fields /\ SameLocks(M, F) /\ M.bal = F.bal /\ M.burned = F.burned
               /\ M.stakes = L.stakes /\ M.total = L.total
<1> DEFINE A == AfterTxs(L, v, idx, txs)
           N == Len(txs)
           U == StakesUndone(F, idx, txs)
           Back(n) == /\ DOMAIN U[n] = Fields /\ SameLocks(U[n], F)
                      /\ U[n].bal = F.bal /\ U[n].burned = F.burned
                      /\ Without(U[n], A[N], A[n], L)
           S == {n \in 0..N : Back(n)}
<1>1. N \in Nat /\ \A n \in 1..N : txs[n] \in Tx /\ txs[n].type \in {"TRANSFER", "STAKE"}
    BY LenProperties, ElementOfSeq DEF PlainTxs
<1>2. A[0] = L /\ \A n \in 1..N : A[n] = ApplyTx(A[n - 1], v, idx, txs[n])
    BY <1>1, AfterTxsIs
<1>3. \A n \in 0..N : Good(A[n]) /\ A[n].ok /\ NoMore(A[n], A[N])
    BY AfterTxsGood, AllOk, StakesGrow
<1>4. U[0] = F /\ \A n \in 1..N : U[n] = UndoStake(U[n - 1], idx, txs[n])
    BY <1>1, StakesUndoneIs
<1>5. F.stakes = A[N].stakes /\ F.total = A[N].total
    OBVIOUS
<1> HIDE DEF A, N, U
<1>6. \A n \in 0..N : /\ A[n].total \in [Validator -> Nat]
                      /\ A[n].stakes \in [Validator -> [Addr -> Nat]]
    BY <1>3 DEF Good
<1>7. N \in 0..N /\ 0 \in 0..N
    BY <1>1
<1>8. 0 \in S
    <2>1. /\ \A w \in Validator : A[N].total[w] = A[N].total[w] - L.total[w] + L.total[w]
          /\ \A w \in Validator, a \in Addr :
                A[N].stakes[w][a] = A[N].stakes[w][a] - L.stakes[w][a] + L.stakes[w][a]
        BY <1>2, <1>6, <1>7
    <2>2. A[N].total \in [Validator -> Nat] /\ A[N].stakes \in [Validator -> [Addr -> Nat]]
        BY <1>6, <1>7
    <2>3. SameLocks(F, F) /\ Without(F, A[N], A[0], L)
        <3> DEFINE Z == A[N]
        <3>1. F.total = Z.total /\ F.stakes = Z.stakes
            BY <1>5
        <3>2. /\ \A w \in Validator : Z.total[w] = Z.total[w] - L.total[w] + L.total[w]
              /\ \A w \in Validator, a \in Addr :
                    Z.stakes[w][a] = Z.stakes[w][a] - L.stakes[w][a] + L.stakes[w][a]
            BY <2>1
        <3>3. Z.total \in [Validator -> Nat] /\ Z.stakes \in [Validator -> [Addr -> Nat]]
            BY <2>2
        <3> HIDE DEF Z
        <3>4. Without(F, Z, L, L)
            BY <3>1, <3>2, <3>3 DEF Without
        <3> QED BY <1>2, <3>4 DEF SameLocks, Z
    <2> QED BY <1>4, <1>7, <2>3
<1>9. ASSUME NEW n \in 1..N, n - 1 \in S PROVE n \in S
    <2> DEFINE C == A[n - 1]
               G == U[n - 1]
               t == txs[n]
    <2>1. n - 1 \in 0..N /\ n \in 0..N
        BY <1>1
    <2>2. /\ A[n] = ApplyTx(C, v, idx, t) /\ Good(C) /\ A[n].ok /\ t \in Tx /\ Good(A[N])
          /\ t.type \in {"TRANSFER", "STAKE"} /\ U[n] = UndoStake(G, idx, t)
          /\ NoMore(A[n], A[N])
        BY <1>1, <1>2, <1>3, <1>4, <1>7, <2>1
    <2>3. /\ DOMAIN G = Fields /\ SameLocks(G, F) /\ G.bal = F.bal /\ G.burned = F.burned
          /\ Without(G, A[N], C, L)
        BY <1>9
    <2> HIDE DEF C, G, t
    <2>4. /\ DOMAIN U[n] = Fields /\ SameLocks(U[n], G) /\ U[n].bal = G.bal
          /\ U[n].burned = G.burned /\ Without(U[n], A[N], A[n], L)
        BY <2>2, <2>3, WithoutOne
    <2> QED BY <2>1, <2>3, <2>4 DEF SameLocks
<1>10. \A n \in 0..N : n \in S
    <2> HIDE DEF S
    <2> QED BY <1>1, <1>8, <1>9, PrefixInduction
<1>11. Back(N)
    BY <1>7, <1>10
<1>12. L.total \in [Validator -> Nat] /\ L.stakes \in [Validator -> [Addr -> Nat]]
    BY DEF Good
<1> DEFINE W == U[N]
           Z == A[N]
<1>13. /\ W.total \in [Validator -> Nat] /\ W.stakes \in [Validator -> [Addr -> Nat]]
       /\ Z.total \in [Validator -> Nat] /\ Z.stakes \in [Validator -> [Addr -> Nat]]
       /\ \A w \in Validator : W.total[w] = Z.total[w] - Z.total[w] + L.total[w]
       /\ \A w \in Validator, a \in Addr :
            W.stakes[w][a] = Z.stakes[w][a] - Z.stakes[w][a] + L.stakes[w][a]
    BY <1>6, <1>7, <1>11 DEF Without
<1> HIDE DEF W, Z
<1>14. (\A w \in Validator : W.total[w] = L.total[w])
       /\ \A w \in Validator, a \in Addr : W.stakes[w][a] = L.stakes[w][a]
    <2>1. ASSUME NEW w \in Validator PROVE W.total[w] = L.total[w]
        <3>1. /\ Z.total[w] \in Nat /\ L.total[w] \in Nat
              /\ W.total[w] = Z.total[w] - Z.total[w] + L.total[w]
            BY <1>12, <1>13
        <3> QED BY <3>1
    <2>2. ASSUME NEW w \in Validator, NEW a \in Addr PROVE W.stakes[w][a] = L.stakes[w][a]
        <3>1. /\ Z.stakes[w][a] \in Nat /\ L.stakes[w][a] \in Nat
              /\ W.stakes[w][a] = Z.stakes[w][a] - Z.stakes[w][a] + L.stakes[w][a]
            BY <1>12, <1>13
        <3> QED BY <3>1
    <2> QED BY <2>1, <2>2
<1>15. W.total = L.total
    BY <1>12, <1>13, <1>14
<1>16. W.stakes = L.stakes
    <2>1. \A w \in Validator : W.stakes[w] = L.stakes[w]
        BY <1>12, <1>13, <1>14
    <2> QED BY <1>12, <1>13, <2>1
<1> QED BY <1>11, <1>15, <1>16 DEF W, U, N

\* Choosing every position.
LEMMA SelectAll ==
    ASSUME NEW T, NEW q \in Seq(T)
    PROVE  Select(q, 1..Len(q)) = q
<1> DEFINE n == Len(q)
           K == 1..n
           pick(k) == CHOOSE i \in K : Cardinality({j \in K : j <= i}) = k
<1>1. n \in Nat /\ q \in [K -> T]
    BY LenProperties
<1>2. ASSUME NEW i \in K PROVE Cardinality({j \in K : j <= i}) = i
    <2>1. {j \in K : j <= i} = 1..i
        BY <1>1
    <2>2. Cardinality(1..i) = i
        BY <1>1, FS_Interval
    <2> QED BY <2>1, <2>2
<1>3. Cardinality(K) = n
    BY <1>1, FS_Interval
<1>4. ASSUME NEW k \in K PROVE pick(k) = k
    <2>1. \E i \in K : Cardinality({j \in K : j <= i}) = k
        BY <1>2
    <2>2. pick(k) \in K /\ Cardinality({j \in K : j <= pick(k)}) = k
        BY <2>1
    <2> HIDE DEF pick
    <2> QED BY <1>2, <2>2
<1>5. Select(q, K) = [k \in 1..Cardinality(K) |-> q[pick(k)]]
    BY DEF Select
<1> HIDE DEF pick
<1>6. Select(q, K) = [k \in K |-> q[k]]
    BY <1>3, <1>4, <1>5
<1> QED BY <1>1, <1>6

\* Within an epoch.
LEMMA SameEpoch ==
    ASSUME NEW n \in Nat, (n + 1) % EPOCH_LENGTH # 0
    PROVE  (n + 1) \div EPOCH_LENGTH = n \div EPOCH_LENGTH
<1> DEFINE d == EPOCH_LENGTH
           p == n \div d
           q == (n + 1) \div d
           r == (n + 1) % d
<1>1. d \in Nat /\ d > 0
    BY LedgerAssumption
<1>2. p \in Nat /\ q \in Nat /\ p <= q
    BY NextEpoch
<1>3. r # 0
    OBVIOUS
<1> HIDE DEF d
<1>4. r \in 0..(d - 1)
    BY <1>1
<1>5. n + 1 = d * q + r
    BY <1>1
<1>6. n < d * (p + 1)
    BY <1>1
<1> HIDE DEF p, q, r
<1>7. SUFFICES ASSUME p + 1 <= q PROVE FALSE
    BY <1>2 DEF p, q, d
<1>8. d * (p + 1) <= d * q
    <2>1. PICK k \in Nat : q = p + 1 + k
        <3>1. q - p - 1 \in Nat /\ q = p + 1 + (q - p - 1)
            BY <1>2, <1>7
        <3> QED BY <3>1
    <2>2. d * q = d * (p + 1) + d * k /\ d * k \in Nat /\ d * (p + 1) \in Nat
        BY <1>1, <1>2, <2>1
    <2> QED BY <2>2
<1>9. d * q \in Nat /\ d * (p + 1) \in Nat
    BY <1>1, <1>2
<1> QED BY <1>1, <1>3, <1>4, <1>5, <1>6, <1>8, <1>9

\* A block that can be taken back: transfers and stakes only, no unbonding
\* matures, no epoch begins, and the cap does not cut this reward or the next.
Plain(L, b, idx) ==
    /\ PlainTxs(b.txs)
    /\ \A i \in 1..Len(L.unbonding) : idx < L.unbonding[i].release
    /\ idx % EPOCH_LENGTH # 0
    /\ L.minted + 2 * Halved[idx \div HALVING_INTERVAL] <= MAX_SUPPLY

\* Nothing happens before its transactions.
LEMMA PlainBegun ==
    ASSUME NEW L, Good(L), NEW b, NEW n \in Nat, Plain(L, b, n + 1),
           L.epoch = n \div EPOCH_LENGTH
    PROVE  Good(Begun(L, n + 1)) /\ Money(Begun(L, n + 1)) = Money(L)
<1> DEFINE idx == n + 1
           M == _process_mature_unbondings(L, idx)
<1>1. idx \in Int /\ idx \in Nat
    OBVIOUS
<1>2. L.unbonding \in Seq(Entry) /\ L.bal \in [Addr -> Nat]
    BY DEF Good
<1>3. Mature(L, idx) = {}
    <2>1. \A i \in 1..Len(L.unbonding) : L.unbonding[i].release \in Int
        <3>1. \A i \in 1..Len(L.unbonding) : L.unbonding[i] \in Entry
            BY <1>2, ElementOfSeq
        <3> QED BY <3>1 DEF Entry
    <2> QED BY <1>1, <2>1 DEF Mature, Plain
<1>4. /\ Good(M) /\ SameStakes(M, L) /\ M.rewards = L.rewards /\ M.epoch = L.epoch
      /\ M.frozen = L.frozen
      /\ \A a \in Addr : M.bal[a] = L.bal[a] + Due(L, idx, a)
      /\ M.unbonding = Select(L.unbonding, (1..Len(L.unbonding)) \ Mature(L, idx))
    BY <1>1, MatureFacts
<1>5. \A a \in Addr : Due(L, idx, a) = 0
    <2> SUFFICES ASSUME NEW a \in Addr PROVE Due(L, idx, a) = 0
        OBVIOUS
    <2> DEFINE D == {j \in Mature(L, idx) : L.unbonding[j].staker = a}
               f == [i \in D |-> L.unbonding[i].amount]
    <2>1. D = {} /\ DOMAIN f = D
        BY <1>3
    <2>2. SumFunction(f) = SumFunctionOnSet(f, DOMAIN f)
        BY DEF SumFunction, SumFunctionOnSet, FoldFunction
    <2>3. SumFunctionOnSet(f, {}) = 0
        BY SumEmpty
    <2>4. Due(L, idx, a) = SumFunction(f)
        BY DEF Due
    <2> HIDE DEF f, D
    <2> QED BY <2>1, <2>2, <2>3, <2>4
<1>6. M.unbonding = L.unbonding
    <2>1. (1..Len(L.unbonding)) \ Mature(L, idx) = 1..Len(L.unbonding)
        BY <1>3
    <2> QED BY <1>2, <1>4, <2>1, SelectAll
<1>7. M.bal = L.bal
    <2>1. M.bal \in [Addr -> Nat]
        BY <1>4 DEF Good
    <2>2. \A a \in Addr : M.bal[a] = L.bal[a]
        BY <1>2, <1>4, <1>5
    <2> QED BY <1>2, <2>1, <2>2
<1>8. Begun(L, idx) = M
    <2>1. idx \div EPOCH_LENGTH = M.epoch /\ M.epoch \in Nat
        <3>1. idx \div EPOCH_LENGTH = n \div EPOCH_LENGTH
            BY SameEpoch DEF Plain
        <3> QED BY <1>4, <3>1 DEF Good
    <2> HIDE DEF M, idx
    <2>2. ~ (idx \div EPOCH_LENGTH > M.epoch)
        BY <2>1
    <2>3. Begun(L, idx) = _check_epoch_transition(M, idx)
        BY DEF Begun, M
    <2> QED BY <2>2, <2>3 DEF _check_epoch_transition
<1>9. Money(M) = Money(L)
    <2> HIDE DEF M
    <2> QED BY <1>4, <1>6, <1>7 DEF Money, SameStakes
<1> QED BY <1>4, <1>8, <1>9

\* The reward where the cap does not cut it.
LEMMA FullReward ==
    ASSUME NEW L, L.minted \in Nat, NEW idx \in Nat,
           L.minted + Halved[idx \div HALVING_INTERVAL] <= MAX_SUPPLY
    PROVE  /\ _calc_block_reward(L, idx) = Halved[idx \div HALVING_INTERVAL]
           /\ Halved[idx \div HALVING_INTERVAL] \in Nat
<1> DEFINE h == Halved[idx \div HALVING_INTERVAL]
           rest == MAX_SUPPLY - L.minted
<1>1. MAX_SUPPLY \in Nat /\ HALVING_INTERVAL \in Nat \ {0}
    BY LedgerAssumption
<1>2. idx \div HALVING_INTERVAL \in Nat
    BY <1>1
<1>3. h \in Nat
    BY <1>2, HalvedType
<1>4. _calc_block_reward(L, idx) = Min({h, Max({0, rest})})
    BY DEF _calc_block_reward
<1>5. L.minted + h <= MAX_SUPPLY
    OBVIOUS
<1> HIDE DEF h
<1>6. rest \in Int /\ 0 <= rest /\ h <= rest
    BY <1>1, <1>3, <1>5
<1> HIDE DEF rest
<1>7. Max({0, rest}) = rest
    BY <1>6, Clamp
<1>8. Min({h, rest}) = h
    BY <1>3, <1>6, MinMaxPair
<1> QED BY <1>3, <1>4, <1>7, <1>8 DEF h

\* A reward taken back.
LEMMA RewardBack ==
    ASSUME NEW T, Good(T), NEW v \in Validator, NEW idx \in Nat, NEW r \in Nat,
           NEW P, Paid(P, T, v, r), T.ok,
           NEW M, DOMAIN M = Fields, Money(M) = Money(P), _calc_block_reward(M, idx) = r
    PROVE  LET K == UndoReward(M, v, idx)
           IN  /\ DOMAIN K = Fields /\ K.bal = T.bal /\ K.burned = T.burned
               /\ K.stakes = T.stakes /\ K.total = T.total /\ K.unbonding = T.unbonding
               /\ K.minted = T.minted /\ K.rewards = T.rewards /\ K.epoch = T.epoch
               /\ K.frozen = T.frozen /\ K.slashed = T.slashed /\ K.known = T.known
<1> DEFINE K == UndoReward(M, v, idx)
           m == M.rewards[v]
           c == Max({0, m - r})
<1>1. /\ M.bal = [T.bal EXCEPT ![v] = @ + r] /\ M.minted = T.minted + r
      /\ M.rewards = [T.rewards EXCEPT ![v] = @ + r]
      /\ M.stakes = T.stakes /\ M.total = T.total /\ M.unbonding = T.unbonding
      /\ M.burned = T.burned /\ M.slashed = T.slashed /\ M.known = T.known
      /\ M.frozen = T.frozen /\ M.epoch = T.epoch
    BY DEF Paid, Money
<1>2. /\ T.bal \in [Addr -> Nat] /\ T.rewards \in [Validator -> Nat] /\ T.minted \in 0..MAX_SUPPLY
      /\ MAX_SUPPLY \in Nat /\ v \in Addr
    BY LedgerAssumption DEF Good
<1>3. K = [[M EXCEPT !.bal[v] = @ - r] EXCEPT !.minted = @ - r, !.rewards[v] = Max({0, @ - r})]
    BY DEF UndoReward, _rollback_debit
<1>4. m = T.rewards[v] + r /\ m - r = T.rewards[v] /\ T.rewards[v] \in Nat
    BY <1>1, <1>2
<1>5. c = T.rewards[v]
    <2> HIDE DEF m
    <2>1. m - r \in Int /\ 0 <= m - r
        BY <1>4
    <2> QED BY <1>4, <2>1, Clamp
<1>6. /\ DOMAIN K = Fields /\ K.bal = [M.bal EXCEPT ![v] = @ - r]
      /\ K.minted = M.minted - r /\ K.rewards = [M.rewards EXCEPT ![v] = c]
      /\ K.stakes = M.stakes /\ K.total = M.total /\ K.unbonding = M.unbonding
      /\ K.burned = M.burned /\ K.slashed = M.slashed /\ K.known = M.known
      /\ K.frozen = M.frozen /\ K.epoch = M.epoch
    <2> DEFINE G == [M EXCEPT !.bal[v] = @ - r]
    <2>1. /\ DOMAIN G = Fields /\ G.bal = [M.bal EXCEPT ![v] = @ - r]
          /\ G.minted = M.minted /\ G.rewards = M.rewards
          /\ G.stakes = M.stakes /\ G.total = M.total /\ G.unbonding = M.unbonding
          /\ G.burned = M.burned /\ G.slashed = M.slashed /\ G.known = M.known
          /\ G.frozen = M.frozen /\ G.epoch = M.epoch
        BY DEF Fields
    <2>2. K = [G EXCEPT !.minted = @ - r, !.rewards[v] = Max({0, @ - r})]
        BY <1>3
    <2> HIDE DEF G, K
    <2>3. /\ DOMAIN K = Fields /\ K.bal = G.bal
          /\ K.minted = G.minted - r /\ K.rewards = [G.rewards EXCEPT ![v] = Max({0, @ - r})]
          /\ K.stakes = G.stakes /\ K.total = G.total /\ K.unbonding = G.unbonding
          /\ K.burned = G.burned /\ K.slashed = G.slashed /\ K.known = G.known
          /\ K.frozen = G.frozen /\ K.epoch = G.epoch
        BY <2>1, <2>2 DEF Fields
    <2> QED BY <2>1, <2>3
<1> HIDE DEF K, c, m
<1>7. K.bal = T.bal
    BY <1>1, <1>2, <1>6
<1>8. K.rewards = T.rewards
    BY <1>1, <1>2, <1>5, <1>6
<1>9. K.minted = T.minted
    BY <1>1, <1>2, <1>6
<1> QED BY <1>1, <1>6, <1>7, <1>8, <1>9 DEF K

\* Taking a plain block back restores the money which it found, whatever records
\* of distributions the ledger has kept or forgotten meanwhile.
LEMMA PlainUndone ==
    ASSUME NEW L, Good(L), NEW b \in Blocks, NEW n \in Nat, Plain(L, b, n + 1),
           L.epoch = n \div EPOCH_LENGTH, Applied(L, b, n + 1).ok,
           NEW M, DOMAIN M = Fields, Money(M) = Money(Applied(L, b, n + 1))
    PROVE  Money(_rollback_block(M, b, n + 1)) = Money(L)
<1> DEFINE idx == n + 1
           v == b.validator
           B == Begun(L, idx)
           T == Transacted(L, b, idx)
           P == Applied(L, b, idx)
           h == Halved[idx \div HALVING_INTERVAL]
           K == RewardUndone(M, b, idx)
           F == FundsBack(M, b, idx)
           U == StakesBack(M, b, idx)
<1>1. idx \in Nat /\ idx \in Int
    OBVIOUS
<1>2. /\ v \in Validator /\ v \in Addr /\ b.txs \in Seq(Tx) /\ Len(b.txs) \in Nat
    BY LedgerAssumption, LenProperties DEF Blocks
<1>3. /\ Good(P) /\ P = PayReward(T, v, idx) /\ Good(T) /\ SameRewards(T, B)
    BY <1>1, AppliedFacts
<1>4. Good(B) /\ Money(B) = Money(L)
    BY PlainBegun
<1>5. T = AfterTxs(B, v, idx, b.txs)[Len(b.txs)]
    BY DEF Transacted
<1>6. PlainTxs(b.txs) /\ idx % EPOCH_LENGTH # 0 /\ L.minted + 2 * h <= MAX_SUPPLY
    BY DEF Plain
<1>7. P.ok /\ Money(M) = Money(P)
    OBVIOUS
<1>8. _rollback_block(M, b, idx) = UndoEpoch(U, idx)
    BY <1>2, RollbackShape
<1>9. /\ K = UndoReward(M, v, idx) /\ F = FundsUndone(K, v, b.txs)[Len(b.txs)]
      /\ U = StakesUndone(F, idx, b.txs)[Len(b.txs)]
    BY DEF RewardUndone, FundsBack, StakesBack
<1> HIDE DEF idx, v, B, T, P, K, F, U
<1>10. Paid(P, T, v, _calc_block_reward(T, idx))
    BY <1>1, <1>2, <1>3, PayRewardFacts
<1>11. T.ok
    BY <1>7, <1>10 DEF Paid
<1>12. T.minted = L.minted /\ L.minted \in Nat /\ MAX_SUPPLY \in Nat
    <2>1. B.minted = L.minted
        BY <1>4 DEF Money
    <2>2. L.minted \in 0..MAX_SUPPLY /\ MAX_SUPPLY \in Nat
        BY LedgerAssumption DEF Good
    <2> QED BY <1>3, <2>1, <2>2 DEF SameRewards
<1>13. h \in Nat
    <2>1. idx \div HALVING_INTERVAL \in Nat
        BY <1>1, LedgerAssumption
    <2> QED BY <2>1, HalvedType
<1>14. _calc_block_reward(T, idx) = h
    <2>1. T.minted + h <= MAX_SUPPLY
        <3> HIDE DEF h
        <3> QED BY <1>6, <1>12, <1>13
    <2> QED BY <1>1, <1>12, <2>1, FullReward
<1>15. Paid(P, T, v, h)
    BY <1>10, <1>14
<1>16. M.minted = L.minted + h
    <2>1. P.minted = T.minted + h
        BY <1>11, <1>15 DEF Paid
    <2> QED BY <1>7, <1>12, <2>1 DEF Money
<1>17. _calc_block_reward(M, idx) = h
    <2>1. M.minted \in Nat /\ M.minted + h <= MAX_SUPPLY
        <3> HIDE DEF h
        <3> QED BY <1>6, <1>12, <1>13, <1>16
    <2> QED BY <1>1, <2>1, FullReward
<1> HIDE DEF h
<1>18. /\ DOMAIN K = Fields /\ K.bal = T.bal /\ K.burned = T.burned
       /\ K.stakes = T.stakes /\ K.total = T.total /\ K.unbonding = T.unbonding
       /\ K.minted = T.minted /\ K.rewards = T.rewards /\ K.epoch = T.epoch
       /\ K.frozen = T.frozen /\ K.slashed = T.slashed /\ K.known = T.known
    BY <1>1, <1>2, <1>3, <1>7, <1>9, <1>11, <1>13, <1>15, <1>17, RewardBack
<1>19. DOMAIN F = Fields /\ SameRest(F, K) /\ F.bal = B.bal /\ F.burned = B.burned
    BY <1>1, <1>2, <1>4, <1>5, <1>9, <1>11, <1>18, AllFundsBack
<1>20. /\ DOMAIN U = Fields /\ SameLocks(U, F) /\ U.bal = F.bal /\ U.burned = F.burned
       /\ U.stakes = B.stakes /\ U.total = B.total
    <2>1. F.stakes = T.stakes /\ F.total = T.total
        BY <1>18, <1>19 DEF SameRest
    <2> QED BY <1>1, <1>2, <1>4, <1>5, <1>6, <1>9, <1>11, <1>19, <2>1, AllStakesBack
<1>21. SameLocks(T, B)
    <2>1. Len(b.txs) \in 0..Len(b.txs)
        BY <1>2
    <2> QED BY <1>1, <1>2, <1>4, <1>5, <1>6, <1>11, <2>1, StakesGrow
<1>22. Money(U) = Money(B)
    BY <1>18, <1>19, <1>20, <1>21 DEF Money, SameRest, SameLocks
<1>23. UndoEpoch(U, idx) = U
    BY <1>6 DEF UndoEpoch
<1> QED BY <1>4, <1>8, <1>22, <1>23 DEF idx

-----------------------------------------------------------------------------
(* Rollbacks restore what was there *)

\* Block k of chain c was appended to a ledger with the money that block k - 1
\* left, and left what it makes of that.
Made(p, c, k) ==
    \E X : /\ Good(X) /\ Money(X) = Money(p[k]) /\ Applied(X, c[k], k).ok
           /\ Money(p[k + 1]) = Money(Applied(X, c[k], k))

MadeInv == \A k \in 1..height : Made(past, chain, k)

LEMMA MadeSame ==
    ASSUME NEW p, NEW c, NEW q, NEW d, NEW k, q[k] = p[k], q[k + 1] = p[k + 1], d[k] = c[k],
           Made(p, c, k)
    PROVE  Made(q, d, k)
BY DEF Made

LEMMA MadeInit == Init => MadeInv
BY DEF Init, MadeInv, height

LEMMA MadeStep ==
    ASSUME LedgerInv, MadeInv, [Next]_vars
    PROVE  MadeInv'
<1>1. height \in Nat
    BY LedgerGood
<1>2. CASE past' = past /\ chain' = chain
    BY <1>2 DEF MadeInv, height
<1>3. CASE \E b \in Blocks : _append_block(b)
    <2>1. PICK b \in Blocks : _append_block(b)
        BY <1>3
    <2> DEFINE n == height + 1
               L == Applied(ledger, b, n)
    <2>2. /\ L.ok /\ chain' = Append(chain, b) /\ ledger' = PruneDistributions(L, n)
          /\ past' = Append(past, ledger')
        BY <2>1 DEF _append_block
    <2>3. Good(ledger) /\ n \in Nat /\ Money(ledger) = Money(past[n]) /\ n \in 1..n
        BY <1>1, LedgerGood, PastMoney
    <2>4. Good(L)
        BY <2>3, AppliedFacts
    <2>5. PICK S : past \in Seq(S)
        BY DEF LedgerInv
    <2>6. chain \in Seq(Blocks) /\ Len(past) = n /\ n = height + 1 /\ Len(chain) = height
        BY DEF LedgerInv, height
    <2> HIDE DEF L, n
    <2>7. Money(ledger') = Money(L)
        BY <2>2, <2>4, PruneFacts DEF Good
    <2>8. past'[n + 1] = ledger' /\ \A i \in 1..n : past'[i] = past[i]
        BY <2>2, <2>5, <2>6, OneMore
    <2>9. Len(chain') = n /\ chain'[n] = b /\ \A i \in 1..height : chain'[i] = chain[i]
        BY <2>2, <2>6, OneMore
    <2>10. ASSUME NEW k \in 1..n PROVE Made(past', chain', k)
        <3>1. CASE k = n
            <4>1. /\ Money(ledger) = Money(past'[n]) /\ Applied(ledger, chain'[n], n).ok
                  /\ Money(past'[n + 1]) = Money(Applied(ledger, chain'[n], n))
                BY <2>2, <2>3, <2>7, <2>8, <2>9 DEF L
            <4>2. Made(past', chain', n)
                BY <2>3, <4>1 DEF Made
            <4> QED BY <3>1, <4>2
        <3>2. CASE k # n
            <4>1. k \in 1..height /\ k \in 1..n /\ k + 1 \in 1..n
                BY <1>1, <2>6, <3>2
            <4>2. Made(past, chain, k) /\ past'[k] = past[k] /\ past'[k + 1] = past[k + 1]
                  /\ chain'[k] = chain[k]
                BY <2>8, <2>9, <4>1 DEF MadeInv
            <4> QED BY <4>2, MadeSame
        <3> QED BY <3>1, <3>2
    <2>11. height' = n
        BY <2>9 DEF height
    <2> QED BY <2>10, <2>11 DEF MadeInv
<1>4. CASE /\ height' \in Nat /\ height' < height
           /\ \A k \in 1..(height' + 1) : past'[k] = past[k]
           /\ \A k \in 1..height' : chain'[k] = chain[k]
    <2> DEFINE h == height'
    <2>1. /\ h \in Nat /\ h < height /\ \A k \in 1..(h + 1) : past'[k] = past[k]
          /\ \A k \in 1..h : chain'[k] = chain[k]
        BY <1>4
    <2> HIDE DEF h
    <2>2. ASSUME NEW k \in 1..h PROVE Made(past', chain', k)
        <3>1. k \in 1..height /\ k \in 1..(h + 1) /\ k + 1 \in 1..(h + 1)
            BY <1>1, <2>1
        <3>2. Made(past, chain, k) /\ past'[k] = past[k] /\ past'[k + 1] = past[k + 1]
              /\ chain'[k] = chain[k]
            BY <2>1, <3>1 DEF MadeInv
        <3> QED BY <3>2, MadeSame
    <2> QED BY <2>2 DEF MadeInv, h
<1> QED BY <1>2, <1>3, <1>4, PastStep

\* What makes a block plain is a matter of money.
LEMMA PlainMoney ==
    ASSUME NEW L, NEW M, Money(M) = Money(L), NEW b, NEW idx, Plain(L, b, idx)
    PROVE  Plain(M, b, idx)
BY DEF Plain, Money

\* Taking n plain blocks back, one after the other, restores the money that the
\* block below them left.
LEMMA BlocksBack ==
    ASSUME LedgerInv, MadeInv, NEW n \in 0..height,
           \A k \in (height - n + 1)..height : Plain(past[k], chain[k], k)
    PROVE  Money(BlocksUndone(ledger, chain)[n]) = Money(past[height + 1 - n])
<1> DEFINE A == BlocksUndone(ledger, chain)
           N == height
           S == {m \in 0..n : Money(A[m]) = Money(past[N + 1 - m])}
<1>1. /\ N \in Nat /\ N = Len(chain) /\ chain \in Seq(Blocks) /\ DOMAIN ledger = Fields
      /\ Money(ledger) = Money(past[N + 1])
    BY LedgerGood DEF LedgerInv, height
<1>2. \A i \in 1..N : chain[i] \in Blocks /\ Len(chain[i].txs) \in Nat
    <2>1. \A i \in 1..N : chain[i] \in Blocks
        BY <1>1, ElementOfSeq
    <2>2. \A i \in 1..N : chain[i].txs \in Seq(Tx)
        BY <2>1 DEF Blocks
    <2> QED BY <2>1, <2>2, LenProperties
<1>3. /\ A[0] = ledger
      /\ \A m \in 1..N : A[m] = _rollback_block(A[m - 1], chain[N + 1 - m], N + 1 - m)
    BY <1>1, BlocksUndoneIs
<1>4. \A m \in 0..N : DOMAIN A[m] = Fields
    BY <1>1, <1>2, BlocksUndoneShape DEF Shape
<1>5. \A k \in 1..(N + 1) : Remembered(k)
    BY DEF LedgerInv
<1>6. /\ \A k \in 1..N : Made(past, chain, k)
      /\ \A k \in (N - n + 1)..N : Plain(past[k], chain[k], k)
      /\ n \in 0..N
    BY DEF MadeInv
<1> HIDE DEF A, N
<1>7. 0 \in S
    <2>1. N + 1 - 0 = N + 1 /\ 0 \in 0..n
        BY <1>1, <1>6
    <2> QED BY <1>1, <1>3, <2>1
<1>8. ASSUME NEW m \in 1..n, m - 1 \in S PROVE m \in S
    <2> DEFINE i == N + 1 - m
               M == A[m - 1]
               c == chain[i]
    <2>1. /\ i \in 1..N /\ i \in (N - n + 1)..N /\ i \in 1..(N + 1) /\ m \in 1..N
          /\ m - 1 \in 0..N /\ N + 1 - (m - 1) = i + 1 /\ i - 1 \in Nat /\ (i - 1) + 1 = i
          /\ m \in 0..n
        BY <1>1, <1>6
    <2>2. Money(M) = Money(past[i + 1])
        BY <1>8, <2>1
    <2> HIDE DEF i
    <2>3. A[m] = _rollback_block(M, c, i) /\ DOMAIN M = Fields /\ c \in Blocks
        BY <1>2, <1>3, <1>4, <2>1 DEF i
    <2>4. PICK X : /\ Good(X) /\ Money(X) = Money(past[i]) /\ Applied(X, c, i).ok
                   /\ Money(past[i + 1]) = Money(Applied(X, c, i))
        BY <1>6, <2>1 DEF Made
    <2>5. Plain(past[i], c, i) /\ past[i].epoch = (i - 1) \div EPOCH_LENGTH
        BY <1>5, <1>6, <2>1 DEF Remembered
    <2> HIDE DEF M, c
    <2>6. Plain(X, c, i) /\ X.epoch = (i - 1) \div EPOCH_LENGTH
        <3>1. X.epoch = past[i].epoch
            BY <2>4 DEF Money
        <3> QED BY <2>4, <2>5, <3>1, PlainMoney
    <2>7. Money(_rollback_block(M, c, i)) = Money(X)
        <3> DEFINE j == i - 1
        <3>1. j \in Nat /\ i = j + 1
            BY <2>1
        <3> HIDE DEF j
        <3>2. Plain(X, c, j + 1) /\ X.epoch = j \div EPOCH_LENGTH /\ Applied(X, c, j + 1).ok
              /\ Money(M) = Money(Applied(X, c, j + 1))
            BY <2>2, <2>4, <2>6, <3>1 DEF j
        <3>3. Money(_rollback_block(M, c, j + 1)) = Money(X)
            BY <2>3, <2>4, <3>1, <3>2, PlainUndone
        <3> QED BY <3>1, <3>3
    <2> QED BY <2>1, <2>3, <2>4, <2>7 DEF i
<1>9. \A m \in 0..n : m \in S
    <2>1. n \in Nat
        BY <1>1, <1>6
    <2> HIDE DEF S
    <2> QED BY <1>7, <1>8, <2>1, PrefixInduction
<1>10. n \in S
    BY <1>1, <1>6, <1>9
<1> QED BY <1>10 DEF A, N

\* A plain block whose roots differ is undone.
LEMMA RefusedBack ==
    ASSUME LedgerInv, NEW b \in Blocks, Plain(ledger, b, height + 1),
           Applied(ledger, b, height + 1).ok, _append_block_undone(b)
    PROVE  Money(ledger') = Money(ledger)
<1> DEFINE n == height
           P == Applied(ledger, b, n + 1)
           R == _rollback_block(P, b, n + 1)
<1>1. Good(ledger) /\ ledger.epoch = n \div EPOCH_LENGTH /\ n \in Nat
    BY LedgerGood
<1>2. Plain(ledger, b, n + 1) /\ P.ok /\ ledger' = [R EXCEPT !.ok = TRUE]
    BY DEF _append_block_undone
<1> HIDE DEF n
<1>3. Good(P) /\ n + 1 \in Nat
    BY <1>1, AppliedFacts
<1>4. DOMAIN P = Fields
    BY <1>3 DEF Good
<1>5. b.txs \in Seq(Tx) /\ Len(b.txs) \in Nat
    BY LenProperties DEF Blocks
<1>6. DOMAIN R = Fields
    <2> HIDE DEF P
    <2> QED BY <1>4, <1>5, RollbackShape DEF Shape
<1>7. Money(R) = Money(ledger)
    BY <1>1, <1>2, <1>4, PlainUndone
<1> HIDE DEF R
<1>8. Money(ledger') = Money(R)
    BY <1>2, <1>6 DEF Money, Fields
<1> QED BY <1>7, <1>8

\* The blocks that a step takes back, from the chain or while it refuses them,
\* are plain.
PlainStep ==
    /\ \A k \in (Len(chain') + 1)..Len(chain) : Plain(past[k], chain[k], k)
    /\ \A b \in Incoming : add_block_rejects(b) => Plain(ledger, b, height + 1)

PlainHistory == [][PlainStep]_vars

\* A node that receives blocks, whose senders have the funds.
Follower == ~ Producer /\ ~ UnfundedBlocks

LEMMA UndoStep ==
    ASSUME Follower, LedgerInv, MadeInv, [Next]_vars, [PlainStep]_vars
    PROVE  /\ [Len(chain') < Len(chain) => Money(ledger') = Money(past[Len(chain') + 1])]_vars
           /\ [chain' = chain => Money(ledger') = Money(ledger)]_vars
<1> DEFINE RR == Len(chain') < Len(chain) => Money(ledger') = Money(past[Len(chain') + 1])
           FA == chain' = chain => Money(ledger') = Money(ledger)
<1>1. /\ txPool \in Seq(Tx) /\ Incoming \subseteq Blocks /\ height \in Nat
      /\ chain \in Seq(Blocks) /\ Len(chain) = height
    BY BlocksType, LedgerGood DEF LedgerInv, height
<1>2. CASE UNCHANGED vars
    BY <1>2
<1>3. CASE \E t \in Tx : submit_tx(t)
    <2>1. chain' = chain /\ ledger' = ledger
        BY <1>3 DEF submit_tx
    <2> QED BY <1>1, <2>1
<1>4. CASE produce_block \/ produce_block_raises
    BY <1>4 DEF produce_block, produce_block_raises, Follower
<1>5. CASE \E b \in Incoming : add_block(b)
    <2>1. PICK b \in Incoming : _append_block(b)
        BY <1>5 DEF add_block
    <2>2. chain' = Append(chain, b) /\ b \in Blocks
        BY <1>1, <2>1 DEF _append_block
    <2>3. Len(chain') = Len(chain) + 1
        BY <1>1, <2>2, AppendProperties
    <2>4. chain' # chain /\ ~ (Len(chain') < Len(chain))
        BY <1>1, <2>3
    <2> QED BY <2>4
<1>6. CASE \E b \in Incoming : add_block_rejects(b)
    <2>1. PICK b \in Incoming : add_block_rejects(b)
        BY <1>6
    <2>2. /\ _append_block_undone(b) /\ b \in Blocks /\ chain' = chain
          /\ Applied(ledger, b, height + 1).ok
        BY <1>1, <2>1 DEF add_block_rejects, _append_block_undone, Follower
    <2>3. CASE UNCHANGED vars
        BY <2>3
    <2>4. CASE PlainStep
        <3>1. Plain(ledger, b, height + 1)
            BY <2>1, <2>4 DEF PlainStep
        <3>2. Money(ledger') = Money(ledger)
            BY <2>2, <3>1, RefusedBack
        <3>3. ~ (Len(chain') < Len(chain))
            BY <1>1, <2>2
        <3> QED BY <3>2, <3>3
    <2> QED BY <2>3, <2>4
<1>7. CASE \E n \in 1..MaxRollback : _rollback_to(n)
    <2>1. PICK n \in 1..MaxRollback : _rollback_to(n)
        BY <1>7
    <2> DEFINE h == height - n
    <2>2. /\ n \in 1..height /\ chain' = SubSeq(chain, 1, h)
          /\ ledger' = BlocksUndone(ledger, chain)[n]
        BY <2>1 DEF _rollback_to
    <2>3. /\ h \in 0..height /\ h < height /\ h \in Nat /\ n \in 0..height
          /\ height + 1 - n = h + 1
        BY <1>1, <2>2
    <2>4. Len(chain') = h
        BY <1>1, <2>2, <2>3, FirstOnes
    <2>5. chain' # chain
        BY <1>1, <2>3, <2>4
    <2>6. CASE UNCHANGED vars
        BY <2>6
    <2>7. CASE PlainStep
        <3>1. \A k \in (h + 1)..height : Plain(past[k], chain[k], k)
            BY <1>1, <2>4, <2>7 DEF PlainStep
        <3>2. Money(ledger') = Money(past[height + 1 - n])
            BY <2>2, <2>3, <3>1, BlocksBack
        <3>3. Money(ledger') = Money(past[Len(chain') + 1])
            BY <2>3, <2>4, <3>2
        <3> QED BY <2>5, <3>3
    <2> QED BY <2>6, <2>7
<1> QED BY <1>2, <1>3, <1>4, <1>5, <1>6, <1>7 DEF Next

\* Rolling back any number of plain blocks restores the ledger that the block
\* below them left: fees, burned halves, rewards, transfers and stakes are taken
\* back exactly, though some forwards and some backwards, and with clamps.
THEOREM RollbackExact == Follower => (Spec /\ PlainHistory => RollbackRestores)
<1> SUFFICES ASSUME Follower PROVE Spec /\ PlainHistory => RollbackRestores
    OBVIOUS
<1>1. /\ LedgerInv /\ MadeInv /\ [Next]_vars /\ [PlainStep]_vars
      => /\ LedgerInv' /\ MadeInv'
         /\ [Len(chain') < Len(chain) => Money(ledger') = Money(past[Len(chain') + 1])]_vars
         /\ [chain' = chain => Money(ledger') = Money(ledger)]_vars
    BY UndoStep, LedgerStep, MadeStep
<1> QED BY <1>1, LedgerInit, MadeInit, PTL DEF Spec, PlainHistory, RollbackRestores

\* A plain block that is refused for its roots leaves no trace in the money.
THEOREM RefusalExact == Follower => (Spec /\ PlainHistory => FailedAppendUndone)
<1> SUFFICES ASSUME Follower PROVE Spec /\ PlainHistory => FailedAppendUndone
    OBVIOUS
<1>1. /\ LedgerInv /\ MadeInv /\ [Next]_vars /\ [PlainStep]_vars
      => /\ LedgerInv' /\ MadeInv'
         /\ [Len(chain') < Len(chain) => Money(ledger') = Money(past[Len(chain') + 1])]_vars
         /\ [chain' = chain => Money(ledger') = Money(ledger)]_vars
    BY UndoStep, LedgerStep, MadeStep
<1> QED BY <1>1, LedgerInit, MadeInit, PTL DEF Spec, PlainHistory, FailedAppendUndone

-----------------------------------------------------------------------------
(* A follower in its first epoch *)

\* Transfers and stakes only, within the first epoch, and with the cap out of
\* reach: none of the premises of the theorems above is needed.
Quiet ==
    /\ Follower
    /\ \A t \in Tx : t.type \in {"TRANSFER", "STAKE"}
    /\ MaxHeight + 1 < EPOCH_LENGTH
    /\ GENESIS_BALANCE + (MaxHeight + 2) * INITIAL_BLOCK_REWARD <= MAX_SUPPLY

LEMMA HalvedBound == \A n \in Nat : Halved[n] <= INITIAL_BLOCK_REWARD
<1> DEFINE I == INITIAL_BLOCK_REWARD
           S == {n \in Nat : Halved[n] <= I}
<1>1. I \in Nat /\ Halved \in [Nat -> Nat]
      /\ \A n \in Nat : Halved[n] = IF n = 0 THEN I ELSE Halved[n - 1] \div 2
    BY LedgerAssumption, HalvedType
<1> HIDE DEF I
<1>2. 0 \in S
    BY <1>1
<1>3. ASSUME NEW n \in Nat, n # 0, n - 1 \in S PROVE n \in S
    <2> DEFINE h == Halved[n - 1]
    <2>1. n - 1 \in Nat /\ h \in Nat /\ h <= I /\ Halved[n] = h \div 2
        BY <1>1, <1>3
    <2> HIDE DEF h
    <2>2. h \div 2 <= I
        BY <1>1, <2>1
    <2> QED BY <2>1, <2>2
<1>4. ASSUME NEW N \in Nat PROVE N \in S
    <2>1. \A n \in 1..N : n \in Nat /\ n # 0
        OBVIOUS
    <2>2. N \in 0..N
        OBVIOUS
    <2> HIDE DEF S
    <2> QED BY <1>2, <1>3, <2>1, <2>2, PrefixInduction
<1> QED BY <1>4 DEF I

\* Nothing is unbonding, and no more is minted than k rewards make.
Modest(L, k) ==
    /\ L.unbonding = <<>>
    /\ L.minted <= GENESIS_BALANCE + k * INITIAL_BLOCK_REWARD

QuietInv ==
    /\ height <= MaxHeight
    /\ \A k \in 1..(height + 1) : Modest(past[k], k - 1)

LEMMA QuietPlain ==
    ASSUME Quiet, NEW L, Good(L), NEW k \in 0..MaxHeight, Modest(L, k), NEW b \in Blocks
    PROVE  Plain(L, b, k + 1)
<1> DEFINE I == INITIAL_BLOCK_REWARD
           G == GENESIS_BALANCE
           m == L.minted
           h == Halved[(k + 1) \div HALVING_INTERVAL]
<1>1. /\ I \in Nat /\ G \in Nat /\ MAX_SUPPLY \in Nat /\ MaxHeight \in Nat /\ EPOCH_LENGTH \in Nat
      /\ HALVING_INTERVAL \in Nat \ {0} /\ k \in Nat
    BY LedgerAssumption, BoundAssumption
<1>2. /\ MaxHeight + 1 < EPOCH_LENGTH /\ G + (MaxHeight + 2) * I <= MAX_SUPPLY
      /\ \A t \in Tx : t.type \in {"TRANSFER", "STAKE"}
    BY DEF Quiet
<1>3. m \in Nat /\ m <= G + k * I /\ L.unbonding = <<>>
    BY <1>1 DEF Good, Modest
<1>4. h \in Nat /\ h <= I
    <2>1. (k + 1) \div HALVING_INTERVAL \in Nat
        BY <1>1
    <2> QED BY <2>1, HalvedType, HalvedBound
<1>5. PlainTxs(b.txs)
    <2>1. b.txs \in Seq(Tx)
        BY DEF Blocks
    <2> QED BY <1>2, <2>1, ElementOfSeq DEF PlainTxs
<1>6. (k + 1) % EPOCH_LENGTH # 0
    <2>1. k + 1 \in Nat /\ 0 < k + 1 /\ k + 1 < EPOCH_LENGTH
        BY <1>1, <1>2
    <2>2. (k + 1) % EPOCH_LENGTH = k + 1
        BY <1>1, <2>1
    <2> QED BY <2>1, <2>2
<1>7. m + 2 * h <= MAX_SUPPLY
    <2> HIDE DEF I, G, m, h
    <2>1. PICK j \in Nat : MaxHeight = k + j
        <3>1. MaxHeight - k \in Nat /\ MaxHeight = k + (MaxHeight - k)
            BY <1>1
        <3> QED BY <3>1
    <2>2. (MaxHeight + 2) * I = k * I + j * I + 2 * I
        BY <1>1, <2>1
    <2>3. k * I \in Nat /\ j * I \in Nat
        BY <1>1, <2>1
    <2> QED BY <1>1, <1>2, <1>3, <1>4, <2>2, <2>3
<1>8. \A i \in 1..Len(L.unbonding) : k + 1 < L.unbonding[i].release
    BY <1>3
<1> QED BY <1>5, <1>6, <1>7, <1>8 DEF Plain

\* A block leaves a ledger that is as modest.
LEMMA QuietApplied ==
    ASSUME NEW L, Good(L), NEW b \in Blocks, NEW n \in Nat, Plain(L, b, n + 1),
           L.epoch = n \div EPOCH_LENGTH, Applied(L, b, n + 1).ok, Modest(L, n)
    PROVE  Modest(Applied(L, b, n + 1), n + 1)
<1> DEFINE idx == n + 1
           v == b.validator
           B == Begun(L, idx)
           T == Transacted(L, b, idx)
           P == Applied(L, b, idx)
           r == _calc_block_reward(T, idx)
           I == INITIAL_BLOCK_REWARD
<1>1. idx \in Nat /\ idx \in Int /\ I \in Nat /\ GENESIS_BALANCE \in Nat /\ HALVING_INTERVAL \in Nat \ {0}
    BY LedgerAssumption
<1>2. /\ v \in Validator /\ v \in Addr /\ b.txs \in Seq(Tx) /\ Len(b.txs) \in Nat
    BY LedgerAssumption, LenProperties DEF Blocks
<1>3. /\ Good(P) /\ P = PayReward(T, v, idx) /\ Good(T) /\ SameRewards(T, B)
    BY <1>1, AppliedFacts
<1>4. Good(B) /\ Money(B) = Money(L)
    BY PlainBegun
<1>5. T = AfterTxs(B, v, idx, b.txs)[Len(b.txs)] /\ P.ok /\ PlainTxs(b.txs)
    BY DEF Transacted, Plain
<1>6. L.unbonding = <<>> /\ L.minted <= GENESIS_BALANCE + n * I
    BY DEF Modest
<1> HIDE DEF idx, v, B, T, P
<1>7. Paid(P, T, v, r)
    BY <1>1, <1>2, <1>3, PayRewardFacts
<1>8. T.ok /\ P.minted = T.minted + r /\ P.unbonding = T.unbonding
    <2> HIDE DEF r
    <2> QED BY <1>5, <1>7 DEF Paid
<1>9. T.unbonding = B.unbonding
    <2>1. Len(b.txs) \in 0..Len(b.txs)
        BY <1>2
    <2>2. SameLocks(T, B)
        BY <1>1, <1>2, <1>4, <1>5, <1>8, <2>1, StakesGrow
    <2> QED BY <2>2 DEF SameLocks
<1>10. T.minted = L.minted /\ L.minted \in Nat /\ B.unbonding = L.unbonding
    <2>1. B.minted = L.minted /\ B.unbonding = L.unbonding
        BY <1>4 DEF Money
    <2>2. L.minted \in 0..MAX_SUPPLY /\ MAX_SUPPLY \in Nat
        BY LedgerAssumption DEF Good
    <2> QED BY <1>3, <2>1, <2>2 DEF SameRewards
<1>11. r \in Nat /\ r <= I
    <2>1. T.minted \in Int /\ idx \div HALVING_INTERVAL \in Nat
        BY <1>1, <1>10
    <2> DEFINE h == Halved[idx \div HALVING_INTERVAL]
    <2>2. r \in Nat /\ r <= h /\ h \in Nat /\ h <= I
        BY <1>1, <2>1, RewardBounds, HalvedType, HalvedBound
    <2> HIDE DEF r, h, I
    <2> QED BY <1>1, <2>2
<1>12. P.minted <= GENESIS_BALANCE + (n + 1) * I
    <2> HIDE DEF r, I
    <2>1. (n + 1) * I = n * I + I /\ n * I \in Nat
        BY <1>1
    <2> QED BY <1>1, <1>6, <1>8, <1>10, <1>11, <2>1
<1> QED BY <1>6, <1>8, <1>9, <1>10, <1>12 DEF Modest, P, idx

LEMMA HeightStep ==
    ASSUME LedgerInv, [Next]_vars, height <= MaxHeight
    PROVE  height' <= MaxHeight
<1>1. /\ txPool \in Seq(Tx) /\ NextBlock \in Blocks /\ Incoming \subseteq Blocks
      /\ height \in Nat /\ MaxHeight \in Nat /\ chain \in Seq(Blocks) /\ Len(chain) = height
    BY BlocksType, LedgerGood, BoundAssumption DEF LedgerInv, height
<1>2. CASE chain' = chain
    BY <1>2 DEF height
<1>3. CASE \E b \in Blocks : height < MaxHeight /\ _append_block(b)
    <2>1. PICK b \in Blocks : height < MaxHeight /\ chain' = Append(chain, b)
        BY <1>3 DEF _append_block
    <2>2. Len(chain') = height + 1
        BY <1>1, <2>1, AppendProperties
    <2>3. height + 1 <= MaxHeight
        BY <1>1, <2>1
    <2> QED BY <2>2, <2>3 DEF height
<1>4. CASE \E n \in 1..MaxRollback : _rollback_to(n)
    <2>1. PICK n \in 1..MaxRollback : _rollback_to(n)
        BY <1>4
    <2> DEFINE h == height - n
    <2>2. n \in 1..height /\ chain' = SubSeq(chain, 1, h)
        BY <2>1 DEF _rollback_to
    <2>3. h \in 0..height /\ h <= MaxHeight
        BY <1>1, <2>2
    <2>4. Len(chain') = h
        BY <1>1, <2>2, <2>3, FirstOnes
    <2> QED BY <2>3, <2>4 DEF height
<1>5. CASE UNCHANGED vars \/ \E t \in Tx : submit_tx(t)
    BY <1>2, <1>5 DEF vars, submit_tx
<1>6. CASE produce_block
    BY <1>1, <1>3, <1>6 DEF produce_block
<1>7. CASE produce_block_raises
    BY <1>2, <1>7 DEF produce_block_raises, _append_block_undone
<1>8. CASE \E b \in Incoming : add_block(b)
    BY <1>1, <1>3, <1>8 DEF add_block
<1>9. CASE \E b \in Incoming : add_block_rejects(b)
    BY <1>2, <1>9 DEF add_block_rejects, _append_block_undone
<1> QED BY <1>4, <1>5, <1>6, <1>7, <1>8, <1>9 DEF Next

LEMMA QuietInit == Init => QuietInv
<1> SUFFICES ASSUME Init PROVE QuietInv
    OBVIOUS
<1>1. height = 0 /\ past[1] = Genesis
    BY DEF Init, height
<1>2. /\ MaxHeight \in Nat /\ GENESIS_BALANCE \in Nat /\ INITIAL_BLOCK_REWARD \in Nat
    BY LedgerAssumption, BoundAssumption
<1>3. Genesis.unbonding = <<>> /\ Genesis.minted = GENESIS_BALANCE
    BY DEF Genesis
<1>4. GENESIS_BALANCE <= GENESIS_BALANCE + 0 * INITIAL_BLOCK_REWARD
    BY <1>2
<1>5. Modest(Genesis, 0)
    BY <1>3, <1>4 DEF Modest
<1>6. \A k \in 1..(height + 1) : k = 1 /\ k - 1 = 0
    BY <1>1
<1> QED BY <1>1, <1>2, <1>5, <1>6 DEF QuietInv

\* The ledger itself is modest, and any block plain to it.
LEMMA QuietNow ==
    ASSUME Quiet, LedgerInv, QuietInv
    PROVE  /\ height \in 0..MaxHeight /\ Modest(ledger, height)
           /\ \A b \in Blocks : Plain(ledger, b, height + 1)
           /\ \A k \in 1..height : Plain(past[k], chain[k], k)
<1>1. height \in Nat /\ height + 1 \in 1..(height + 1) /\ MaxHeight \in Nat /\ Good(ledger)
    BY LedgerGood, BoundAssumption
<1>2. height \in 0..MaxHeight
    BY <1>1 DEF QuietInv
<1>3. Modest(past[height + 1], height) /\ Money(ledger) = Money(past[height + 1])
    <2>1. (height + 1) - 1 = height
        BY <1>1
    <2>2. Modest(past[height + 1], (height + 1) - 1)
        BY <1>1 DEF QuietInv
    <2> QED BY <2>1, <2>2, PastMoney
<1>4. Modest(ledger, height)
    BY <1>3 DEF Modest, Money
<1>5. \A b \in Blocks : Plain(ledger, b, height + 1)
    BY <1>1, <1>2, <1>4, QuietPlain
<1>6. ASSUME NEW k \in 1..height PROVE Plain(past[k], chain[k], k)
    <2> DEFINE j == k - 1
    <2>1. k \in 1..(height + 1) /\ j \in 0..MaxHeight /\ j + 1 = k
        BY <1>1, <1>2
    <2>2. Modest(past[k], j) /\ Remembered(k)
        BY <2>1 DEF QuietInv, LedgerInv
    <2>3. chain[k] \in Blocks
        <3>1. chain \in Seq(Blocks)
            BY DEF LedgerInv
        <3> QED BY <3>1, ElementOfSeq DEF height
    <2> HIDE DEF j
    <2>4. Plain(past[k], chain[k], j + 1)
        BY <2>1, <2>2, <2>3, QuietPlain DEF Remembered
    <2> QED BY <2>1, <2>4
<1> QED BY <1>2, <1>4, <1>5, <1>6

LEMMA QuietStep ==
    ASSUME Quiet, LedgerInv, QuietInv, [Next]_vars
    PROVE  QuietInv'
<1>1. height \in Nat /\ height' <= MaxHeight
    BY LedgerGood, HeightStep DEF QuietInv
<1>2. CASE past' = past /\ chain' = chain
    BY <1>1, <1>2 DEF QuietInv, height
<1>3. CASE \E b \in Blocks : _append_block(b)
    <2>1. PICK b \in Blocks : _append_block(b)
        BY <1>3
    <2> DEFINE h == height
               n == h + 1
               L == Applied(ledger, b, n)
    <2>2. /\ L.ok /\ chain' = Append(chain, b) /\ ledger' = PruneDistributions(L, n)
          /\ past' = Append(past, ledger')
        BY <2>1 DEF _append_block
    <2>3. Good(ledger) /\ h \in Nat /\ n \in Nat /\ ledger.epoch = h \div EPOCH_LENGTH
        BY <1>1, LedgerGood
    <2>4. Plain(ledger, b, n) /\ Modest(ledger, h)
        BY QuietNow
    <2>5. PICK S : past \in Seq(S)
        BY DEF LedgerInv
    <2>6. chain \in Seq(Blocks) /\ Len(past) = n /\ Len(chain) = h
        BY DEF LedgerInv, height
    <2> HIDE DEF h
    <2>7. Good(L) /\ Modest(L, n)
        BY <2>2, <2>3, <2>4, AppliedFacts, QuietApplied
    <2> HIDE DEF L, n
    <2>8. Money(ledger') = Money(L)
        BY <2>2, <2>7, PruneFacts DEF Good
    <2>9. Modest(ledger', n)
        BY <2>7, <2>8 DEF Modest, Money
    <2>10. past'[n + 1] = ledger' /\ \A i \in 1..n : past'[i] = past[i]
        BY <2>2, <2>5, <2>6, OneMore
    <2>11. Len(chain') = n
        BY <2>2, <2>6, OneMore DEF n
    <2>12. \A k \in 1..n : Modest(past[k], k - 1)
        BY DEF QuietInv, n, h
    <2>13. ASSUME NEW k \in 1..(n + 1) PROVE Modest(past'[k], k - 1)
        <3>1. CASE k = n + 1
            <4>1. k - 1 = n
                BY <2>3, <3>1
            <4> QED BY <2>9, <2>10, <3>1, <4>1
        <3>2. CASE k # n + 1
            <4>1. k \in 1..n
                BY <2>3, <3>2
            <4> QED BY <2>10, <2>12, <4>1
        <3> QED BY <3>1, <3>2
    <2>14. height' = n
        BY <2>11 DEF height
    <2> QED BY <1>1, <2>13, <2>14 DEF QuietInv
<1>4. CASE /\ height' \in Nat /\ height' < height
           /\ \A k \in 1..(height' + 1) : past'[k] = past[k]
    <2> DEFINE h == height'
    <2>1. h \in Nat /\ h < height /\ \A k \in 1..(h + 1) : past'[k] = past[k]
        BY <1>4
    <2> HIDE DEF h
    <2>2. \A k \in 1..(h + 1) : k \in 1..(height + 1)
        BY <1>1, <2>1
    <2>3. \A k \in 1..(h + 1) : Modest(past'[k], k - 1)
        BY <2>1, <2>2 DEF QuietInv
    <2> QED BY <1>1, <2>3 DEF QuietInv, h
<1> QED BY <1>2, <1>3, <1>4, PastStep

\* Every step is plain, and no stake is taken back.
LEMMA QuietPremises ==
    ASSUME Quiet, LedgerInv, QuietInv, [Next]_vars
    PROVE  /\ [PlainStep]_vars
           /\ [\A b \in Blocks : chain' = Append(chain, b)
                                    => BlockCovered(ledger, b, Len(chain) + 1)]_vars
<1>1. Incoming \subseteq Blocks /\ height \in Nat /\ Len(chain) = height
    BY BlocksType, LedgerGood DEF LedgerInv, height
<1>2. /\ \A b \in Blocks : Plain(ledger, b, height + 1)
      /\ \A k \in 1..height : Plain(past[k], chain[k], k)
    BY QuietNow
<1>3. \A b \in Blocks : BlockCovered(ledger, b, Len(chain) + 1)
    <2> SUFFICES ASSUME NEW b \in Blocks, NEW n \in 1..Len(b.txs)
                 PROVE  b.txs[n].type # "UNSTAKE"
        BY DEF BlockCovered, Covered
    <2>1. b.txs \in Seq(Tx)
        BY DEF Blocks
    <2>2. b.txs[n] \in Tx
        BY <2>1, ElementOfSeq
    <2> QED BY <2>2 DEF Quiet
<1>4. \A b \in Incoming : Plain(ledger, b, height + 1)
    BY <1>1, <1>2
<1>5. \A k \in (Len(chain') + 1)..Len(chain) : Plain(past[k], chain[k], k)
    <2>1. Len(chain') \in Nat
        <3>1. height' \in Nat
            <4>1. CASE past' = past /\ chain' = chain
                BY <1>1, <4>1 DEF height
            <4>2. CASE \E b \in Blocks : _append_block(b)
                <5>1. PICK b \in Blocks : chain' = Append(chain, b)
                    BY <4>2 DEF _append_block
                <5>2. chain \in Seq(Blocks)
                    BY DEF LedgerInv
                <5>3. Len(chain') = height + 1
                    BY <1>1, <5>1, <5>2, AppendProperties
                <5> QED BY <1>1, <5>3 DEF height
            <4> QED BY <4>1, <4>2, PastStep
        <3> QED BY <3>1 DEF height
    <2> DEFINE h == Len(chain')
    <2> HIDE DEF h
    <2>2. h \in Nat
        BY <2>1 DEF h
    <2>3. \A k \in (h + 1)..height : k \in 1..height
        BY <1>1, <2>2
    <2>4. \A k \in (h + 1)..height : Plain(past[k], chain[k], k)
        BY <1>2, <2>3
    <2> QED BY <1>1, <2>4 DEF h
<1> QED BY <1>3, <1>4, <1>5 DEF PlainStep

LEMMA QuietAll ==
    ASSUME Quiet, LedgerInv, MadeInv, SupplyInv, QuietInv, [Next]_vars
    PROVE  /\ LedgerInv' /\ MadeInv' /\ SupplyInv' /\ QuietInv'
           /\ [Len(chain') < Len(chain) => Money(ledger') = Money(past[Len(chain') + 1])]_vars
           /\ [chain' = chain => Money(ledger') = Money(ledger)]_vars
<1>1. /\ [PlainStep]_vars
      /\ [\A b \in Blocks : chain' = Append(chain, b)
                                => BlockCovered(ledger, b, Len(chain) + 1)]_vars
    BY QuietPremises
<1>2. Follower /\ NoEvidence
    BY DEF Quiet, NoEvidence
<1>3. /\ [Len(chain') < Len(chain) => Money(ledger') = Money(past[Len(chain') + 1])]_vars
      /\ [chain' = chain => Money(ledger') = Money(ledger)]_vars
    BY <1>1, <1>2, UndoStep
<1>4. LedgerInv'
    BY <1>3, LedgerStep
<1>5. SupplyInv'
    BY <1>1, <1>2, <1>4, SupplyStep
<1> QED BY <1>3, <1>4, <1>5, MadeStep, QuietStep

\* A follower of transfers and stakes in its first epoch: whatever blocks it
\* receives, refuses and takes back, every rollback is exact, nothing is made or
\* lost, weights are exact and the trie is that of the balances.  Nothing is
\* supposed here but conditions on constants.
THEOREM QuietFollower ==
    Quiet => (Spec => /\ RollbackRestores /\ FailedAppendUndone
                      /\ [](TypeOK /\ TrieExact /\ SupplyConserved /\ TotalStakeExact))
<1> SUFFICES ASSUME Quiet
             PROVE  Spec => /\ RollbackRestores /\ FailedAppendUndone
                            /\ [](TypeOK /\ TrieExact /\ SupplyConserved /\ TotalStakeExact)
    OBVIOUS
<1>1. LedgerInv /\ MadeInv /\ SupplyInv /\ QuietInv /\ [Next]_vars
      => /\ LedgerInv' /\ MadeInv' /\ SupplyInv' /\ QuietInv'
         /\ [Len(chain') < Len(chain) => Money(ledger') = Money(past[Len(chain') + 1])]_vars
         /\ [chain' = chain => Money(ledger') = Money(ledger)]_vars
    BY QuietAll
<1>2. LedgerInv /\ SupplyInv => TypeOK /\ TrieExact /\ SupplyConserved /\ TotalStakeExact
    BY LedgerMeans, SupplyMeans
<1> QED BY <1>1, <1>2, LedgerInit, MadeInit, SupplyInit, QuietInit, PTL
        DEF Spec, RollbackRestores, FailedAppendUndone

-----------------------------------------------------------------------------
(* What the pool admits can be paid for *)

\* What each transaction of q takes from "a", and what all of them take.
Owes(q, a) == [i \in 1..Len(q) |-> IF q[i].from = a THEN Debit(q[i]) ELSE 0]

Owed(q, a) == SumFunctionOnSet(Owes(q, a), 1..Len(q))

\* What the transactions after the first n take.
OwedAfter(q, a, n) == SumFunctionOnSet(Owes(q, a), (n + 1)..Len(q))

LEMMA DebitType ==
    ASSUME NEW t \in Tx
    PROVE  Debit(t) \in Nat
<1>1. TX_FEES[t.type] \in Nat /\ t.amount \in Nat
    BY TxType
<1> QED BY <1>1 DEF Debit

LEMMA OwesType ==
    ASSUME NEW q \in Seq(Tx), NEW a
    PROVE  /\ Len(q) \in Nat /\ IsFiniteSet(1..Len(q))
           /\ \A i \in 1..Len(q) : q[i] \in Tx /\ Owes(q, a)[i] \in Nat
                /\ Owes(q, a)[i] = IF q[i].from = a THEN Debit(q[i]) ELSE 0
           /\ Owed(q, a) \in Nat
<1>1. Len(q) \in Nat /\ \A i \in 1..Len(q) : q[i] \in Tx
    BY LenProperties, ElementOfSeq
<1>2. IsFiniteSet(1..Len(q))
    BY <1>1, PositionsFinite
<1>3. \A i \in 1..Len(q) : Owes(q, a)[i] = IF q[i].from = a THEN Debit(q[i]) ELSE 0
    BY DEF Owes
<1>4. \A i \in 1..Len(q) : Owes(q, a)[i] \in Nat
    BY <1>1, <1>3, DebitType
<1>5. Owed(q, a) \in Nat
    BY <1>2, <1>4, SumNat DEF Owed
<1> QED BY <1>1, <1>2, <1>3, <1>4, <1>5

\* The cache of pending debits, which sums over the transactions of "a" alone.
LEMMA PendingIs ==
    ASSUME txPool \in Seq(Tx), NEW a
    PROVE  _pending_debits(a) = Owed(txPool, a)
<1> DEFINE S == 1..Len(txPool)
           own == {i \in S : txPool[i].from = a}
           rest == S \ own
           f == [i \in own |-> Debit(txPool[i])]
           g == Owes(txPool, a)
<1>1. /\ IsFiniteSet(S) /\ Len(txPool) \in Nat
      /\ \A i \in S : txPool[i] \in Tx /\ g[i] \in Nat
      /\ \A i \in S : g[i] = IF txPool[i].from = a THEN Debit(txPool[i]) ELSE 0
    BY OwesType
<1>2. _pending_debits(a) = SumFunction(f) /\ DOMAIN f = own
    BY DEF _pending_debits
<1>3. SumFunction(f) = SumFunctionOnSet(f, DOMAIN f)
    BY DEF SumFunction
<1>4. S = own \cup rest /\ own \cap rest = {}
    OBVIOUS
<1>5. IsFiniteSet(own) /\ IsFiniteSet(rest)
    BY <1>1, <1>4, FS_Subset
<1>6. \A i \in own : g[i] \in Int /\ f[i] = g[i]
    BY <1>1
<1>7. \A i \in rest : g[i] = 0
    BY <1>1
<1>8. \A i \in S : g[i] \in Int
    BY <1>1
<1>9. Owed(txPool, a) = SumFunctionOnSet(g, S)
    BY DEF Owed
<1> HIDE DEF S, own, rest, f, g
<1>10. SumFunctionOnSet(g, S) = SumFunctionOnSet(g, own) + SumFunctionOnSet(g, rest)
    BY <1>1, <1>4, <1>8, SumDisjoint
<1>11. SumFunctionOnSet(g, rest) = 0
    BY <1>5, <1>7, SumZero
<1>12. SumFunctionOnSet(f, own) = SumFunctionOnSet(g, own)
    BY <1>5, <1>6, SumEqual
<1>13. SumFunctionOnSet(g, own) \in Int
    BY <1>5, <1>6, SumInt
<1> QED BY <1>2, <1>3, <1>9, <1>10, <1>11, <1>12, <1>13

LEMMA OwedAppend ==
    ASSUME NEW q \in Seq(Tx), NEW t \in Tx, NEW a
    PROVE  Owed(Append(q, t), a) = Owed(q, a) + (IF t.from = a THEN Debit(t) ELSE 0)
<1> DEFINE p == Append(q, t)
           n == Len(q)
           S == 1..(n + 1)
           P == Owes(p, a)
           Q == Owes(q, a)
<1>1. /\ p \in Seq(Tx) /\ Len(p) = n + 1 /\ n \in Nat
      /\ p[n + 1] = t /\ \A i \in 1..n : p[i] = q[i]
    BY AppendProperties, LenProperties
<1> HIDE DEF p
<1>2. /\ IsFiniteSet(1..Len(p)) /\ IsFiniteSet(1..n)
      /\ \A i \in 1..Len(p) : P[i] \in Nat /\ P[i] = IF p[i].from = a THEN Debit(p[i]) ELSE 0
      /\ \A i \in 1..n : Q[i] \in Nat /\ Q[i] = IF q[i].from = a THEN Debit(q[i]) ELSE 0
    BY <1>1, OwesType
<1>3. n + 1 \in S /\ S \ {n + 1} = 1..n /\ 1..n \subseteq S /\ 1..Len(p) = S
    BY <1>1
<1>4. P[n + 1] = IF t.from = a THEN Debit(t) ELSE 0
    BY <1>1, <1>2, <1>3
<1>5. \A i \in 1..n : Q[i] \in Int /\ P[i] = Q[i]
    <2> SUFFICES ASSUME NEW i \in 1..n PROVE Q[i] \in Int /\ P[i] = Q[i]
        OBVIOUS
    <2>1. i \in 1..Len(p) /\ p[i] = q[i]
        BY <1>1, <1>3
    <2> QED BY <1>2, <2>1
<1>6. Owed(p, a) = SumFunctionOnSet(P, S) /\ Owed(q, a) = SumFunctionOnSet(Q, 1..n)
    BY <1>1 DEF Owed
<1> HIDE DEF S, P, Q
<1>7. SumFunctionOnSet(P, S) = P[n + 1] + SumFunctionOnSet(P, 1..n)
    <2>1. \A i \in S : P[i] \in Int
        BY <1>2, <1>3
    <2>2. IsFiniteSet(S) /\ n + 1 \in S
        BY <1>2, <1>3
    <2>3. SumFunctionOnSet(P, S) = P[n + 1] + SumFunctionOnSet(P, S \ {n + 1})
        BY ONLY <2>1, <2>2, SumRemove
    <2> QED BY <1>3, <2>3
<1>8. SumFunctionOnSet(P, 1..n) = SumFunctionOnSet(Q, 1..n)
    BY <1>2, <1>5, SumEqual
<1>9. Owed(q, a) \in Nat /\ Debit(t) \in Nat
    BY OwesType, DebitType
<1> QED BY <1>3, <1>4, <1>6, <1>7, <1>8, <1>9 DEF p

\* The block takes the first n positions of the pool, and with them everything
\* that equals one of them: what is left owes no more than the positions after n.
LEMMA OwedSelect ==
    ASSUME NEW q \in Seq(Tx), NEW n \in 0..Len(q), NEW K, K \subseteq (n + 1)..Len(q), NEW a
    PROVE  Owed(Select(q, K), a) <= OwedAfter(q, a, n)
<1> DEFINE p == Select(q, K)
           P == Owes(p, a)
           Q == Owes(q, a)
           R == (n + 1)..Len(q)
<1>1. /\ Len(q) \in Nat /\ IsFiniteSet(1..Len(q))
      /\ \A i \in 1..Len(q) : Q[i] \in Nat /\ Q[i] = IF q[i].from = a THEN Debit(q[i]) ELSE 0
    BY OwesType
<1>2. R \subseteq 1..Len(q)
    BY <1>1
<1>3. K \subseteq 1..Len(q) /\ IsFiniteSet(R) /\ K \in SUBSET R
    BY <1>1, <1>2, FS_Subset
<1>4. p \in Seq(Tx)
    BY <1>3, SelectType
<1>5. \A i \in 1..Len(p) : P[i] = IF p[i].from = a THEN Debit(p[i]) ELSE 0
    BY <1>4, OwesType
<1>6. \A j \in R : Q[j] \in Nat
    BY <1>1, <1>2
<1>7. \A j \in K : Q[j] \in Int
    BY <1>3, <1>6
<1>8. \A i \in 1..Len(p) : \A j \in K : p[i] = q[j] => P[i] = Q[j]
    BY <1>1, <1>3, <1>5
<1> HIDE DEF P, Q, R
<1>9. SumFunctionOnSet(P, 1..Len(p)) = SumFunctionOnSet(Q, K)
    BY <1>3, <1>7, <1>8, SumSelect
<1>10. SumFunctionOnSet(Q, K) <= SumFunctionOnSet(Q, R)
    BY <1>3, <1>6, SumSubset
<1> QED BY <1>9, <1>10 DEF Owed, OwedAfter, P, Q, R

\* The positions after n are the next one and those after it.
LEMMA OwedNext ==
    ASSUME NEW q \in Seq(Tx), NEW a, NEW n \in 0..Len(q)
    PROVE  /\ OwedAfter(q, a, n) \in Nat
           /\ n > 0 => OwedAfter(q, a, n - 1) = Owes(q, a)[n] + OwedAfter(q, a, n)
           /\ n = 0 => OwedAfter(q, a, n) = Owed(q, a)
<1> DEFINE Q == Owes(q, a)
           R == (n + 1)..Len(q)
<1>1. /\ Len(q) \in Nat /\ IsFiniteSet(1..Len(q))
      /\ \A i \in 1..Len(q) : Q[i] \in Nat
    BY OwesType
<1>2. R \subseteq 1..Len(q)
    BY <1>1
<1>3. IsFiniteSet(R) /\ \A i \in R : Q[i] \in Nat
    BY <1>1, <1>2, FS_Subset
<1>4. OwedAfter(q, a, n) \in Nat
    <2> HIDE DEF Q, R
    <2>1. SumFunctionOnSet(Q, R) \in Nat
        BY <1>3, SumNat
    <2> QED BY <2>1 DEF OwedAfter, Q, R
<1>5. ASSUME n > 0 PROVE OwedAfter(q, a, n - 1) = Q[n] + OwedAfter(q, a, n)
    <2> DEFINE U == n..Len(q)
    <2>1. U \subseteq 1..Len(q) /\ n \in U /\ U \ {n} = R /\ (n - 1) + 1 = n
        BY <1>1, <1>5
    <2>2. IsFiniteSet(U) /\ \A i \in U : Q[i] \in Int
        BY <1>1, <2>1, FS_Subset
    <2> HIDE DEF Q, R, U
    <2>3. SumFunctionOnSet(Q, U) = Q[n] + SumFunctionOnSet(Q, U \ {n})
        BY ONLY <2>1, <2>2, SumRemove
    <2>4. OwedAfter(q, a, n - 1) = SumFunctionOnSet(Q, U)
        BY <2>1 DEF OwedAfter, Q, U
    <2> QED BY <2>1, <2>3, <2>4 DEF OwedAfter, Q, R
<1>6. n = 0 => OwedAfter(q, a, n) = Owed(q, a)
    BY DEF OwedAfter, Owed
<1> QED BY <1>4, <1>5, <1>6

\* "L" has at least what the transactions of q after the first n take.
CoversAfter(L, q, n) == \A a \in Addr : OwedAfter(q, a, n) <= L.bal[a]

\* A ledger that covers the pool pays the first transactions of it, and still
\* covers the others.
LEMMA BlockPays ==
    ASSUME NEW L, Good(L), L.ok, NEW v \in Addr, NEW idx \in Int, NEW q \in Seq(Tx),
           NEW N \in 0..Len(q), CoversAfter(L, q, 0)
    PROVE  LET T == AfterTxs(L, v, idx, SubSeq(q, 1, N))[N]
           IN  T.ok /\ CoversAfter(T, q, N)
<1> DEFINE txs == SubSeq(q, 1, N)
           A == AfterTxs(L, v, idx, txs)
           S == {n \in 0..N : A[n].ok /\ CoversAfter(A[n], q, n)}
<1>1. txs \in Seq(Tx) /\ Len(txs) = N /\ \A n \in 1..N : txs[n] = q[n]
    BY FirstOnes
<1>2. N \in Nat /\ Len(q) \in Nat /\ \A n \in 1..Len(q) : q[n] \in Tx
    BY LenProperties, ElementOfSeq
<1> HIDE DEF txs
<1>3. A[0] = L /\ \A n \in 1..N : A[n] = ApplyTx(A[n - 1], v, idx, txs[n])
    BY <1>1, <1>2, AfterTxsIs
<1>4. \A n \in 0..N : Good(A[n])
    BY <1>1, AfterTxsGood
<1> HIDE DEF A
<1>5. 0 \in S
    BY <1>2, <1>3
<1>6. ASSUME NEW n \in 1..N, n - 1 \in S PROVE n \in S
    <2> DEFINE K == A[n - 1]
               M == A[n]
               t == q[n]
               fee == TX_FEES[t.type]
    <2>1. n \in 0..Len(q) /\ n \in 1..Len(q) /\ n > 0 /\ n - 1 \in 0..N /\ n \in 0..N
        BY <1>2
    <2>2. t \in Tx /\ M = ApplyTx(K, v, idx, t) /\ Good(K) /\ Good(M)
        BY <1>1, <1>2, <1>3, <1>4, <2>1
    <2>3. K.ok /\ CoversAfter(K, q, n - 1)
        BY <1>6
    <2>4. \A a \in Addr :
            /\ OwedAfter(q, a, n) \in Nat
            /\ OwedAfter(q, a, n - 1) = (IF t.from = a THEN Debit(t) ELSE 0) + OwedAfter(q, a, n)
        <3> SUFFICES ASSUME NEW a \in Addr
                     PROVE  /\ OwedAfter(q, a, n) \in Nat
                            /\ OwedAfter(q, a, n - 1) = (IF t.from = a THEN Debit(t) ELSE 0)
                                                          + OwedAfter(q, a, n)
            OBVIOUS
        <3>1. Owes(q, a)[n] = IF t.from = a THEN Debit(t) ELSE 0
            BY <2>1, OwesType
        <3> QED BY <2>1, <3>1, OwedNext
    <2> HIDE DEF K, M, t
    <2>5. /\ t.from \in Addr /\ t.to \in Addr /\ Debit(t) \in Nat /\ fee \in Nat
          /\ t.amount \in Nat
        BY <2>2, TxType, DebitType
    <2>6. \A a \in Addr : K.bal[a] \in Nat
        BY <2>2 DEF Good
    <2>7. K.bal[t.from] >= Debit(t)
        <3>1. OwedAfter(q, t.from, n - 1) <= K.bal[t.from]
            BY <2>3, <2>5 DEF CoversAfter
        <3>2. OwedAfter(q, t.from, n) \in Nat
              /\ OwedAfter(q, t.from, n - 1) = Debit(t) + OwedAfter(q, t.from, n)
            BY <2>4, <2>5
        <3>3. K.bal[t.from] \in Nat
            BY <2>5, <2>6
        <3> QED BY <2>5, <3>1, <3>2, <3>3
    <2>8. M.ok /\ \A a \in Addr :
            M.bal[a] = K.bal[a] - (IF a = t.from THEN Debit(t) ELSE 0)
                                + (IF a = v THEN ValidatorShare(fee) ELSE 0)
                                + (IF a = t.to THEN Inflow(t) ELSE 0)
        BY <2>2, <2>3, <2>7, ApplyTxFacts
    <2>9. ValidatorShare(fee) \in Nat /\ Inflow(t) \in Nat
        BY <2>5, FeeParts DEF Inflow
    <2> HIDE DEF fee
    <2>10. ASSUME NEW a \in Addr PROVE OwedAfter(q, a, n) <= M.bal[a]
        <3>1. OwedAfter(q, a, n - 1) <= K.bal[a] /\ K.bal[a] \in Nat
            BY <2>3, <2>6 DEF CoversAfter
        <3> DEFINE w == OwedAfter(q, a, n)
                   d == IF a = t.from THEN Debit(t) ELSE 0
                   s == IF a = v THEN ValidatorShare(fee) ELSE 0
                   i == IF a = t.to THEN Inflow(t) ELSE 0
        <3>2. d \in Nat /\ s \in Nat /\ i \in Nat /\ w \in Nat
            BY <2>4, <2>5, <2>9
        <3>3. d + w <= K.bal[a]
            BY <2>4, <3>1
        <3>4. M.bal[a] = K.bal[a] - d + s + i
            BY <2>8
        <3> HIDE DEF w, d, s, i
        <3>5. w <= M.bal[a]
            BY <3>1, <3>2, <3>3, <3>4
        <3> QED BY <3>5 DEF w
    <2>11. M.ok /\ CoversAfter(M, q, n)
        BY <2>8, <2>10 DEF CoversAfter
    <2> QED BY <2>1, <2>11 DEF M
<1>7. \A n \in 0..N : n \in S
    <2> HIDE DEF S
    <2> QED BY <1>2, <1>5, <1>6, PrefixInduction
<1>8. N \in S
    <2>1. N \in 0..N
        BY <1>2
    <2> QED BY <1>7, <2>1
<1> QED BY <1>8 DEF A, txs

\* Before the transactions of a block that begins no epoch, balances only rise.
LEMMA BegunRises ==
    ASSUME NEW L, Good(L), NEW idx \in Nat, idx \div EPOCH_LENGTH = L.epoch
    PROVE  LET M == Begun(L, idx)
           IN  Good(M) /\ M.ok = L.ok /\ \A a \in Addr : L.bal[a] <= M.bal[a]
<1> DEFINE U == _process_mature_unbondings(L, idx)
<1>0. idx \in Int
    OBVIOUS
<1>1. /\ Good(U) /\ U.ok = L.ok /\ U.epoch = L.epoch
      /\ \A a \in Addr : U.bal[a] = L.bal[a] + Due(L, idx, a)
    BY <1>0, MatureFacts DEF SameStakes
<1>2. \A a \in Addr : L.bal[a] <= U.bal[a]
    <2>1. \A a \in Addr : L.bal[a] \in Nat /\ Due(L, idx, a) \in Nat
        <3>1. \A a \in Addr : L.bal[a] \in Nat
            BY DEF Good
        <3> QED BY <1>0, <3>1, DueType
    <2> QED BY <1>1, <2>1
<1>3. Begun(L, idx) = _check_epoch_transition(U, idx)
    BY DEF Begun
<1> HIDE DEF U
<1>4. ~ (idx \div EPOCH_LENGTH > U.epoch)
    <2>1. U.epoch \in Nat /\ idx \div EPOCH_LENGTH = U.epoch
        BY <1>1 DEF Good
    <2> QED BY <2>1
<1>5. Begun(L, idx) = U
    BY <1>3, <1>4 DEF _check_epoch_transition
<1> QED BY <1>1, <1>2, <1>5

\* A block out of the pool, in the middle of an epoch.
LEMMA PoolBlock ==
    ASSUME NEW L, Good(L), L.ok, NEW v \in Validator, NEW idx \in Nat,
           idx \div EPOCH_LENGTH = L.epoch, NEW q \in Seq(Tx), NEW N \in 0..Len(q),
           CoversAfter(L, q, 0)
    PROVE  LET M == Applied(L, [validator |-> v, txs |-> SubSeq(q, 1, N)], idx)
           IN  Good(M) /\ M.ok /\ CoversAfter(M, q, N)
<1> DEFINE b == [validator |-> v, txs |-> SubSeq(q, 1, N)]
           B == Begun(L, idx)
           T == Transacted(L, b, idx)
           M == Applied(L, b, idx)
           r == _calc_block_reward(T, idx)
<1>1. SubSeq(q, 1, N) \in Seq(Tx) /\ Len(SubSeq(q, 1, N)) = N /\ v \in Addr /\ idx \in Int
    BY FirstOnes, LedgerAssumption
<1>2. b \in Blocks /\ b.validator = v /\ b.txs = SubSeq(q, 1, N)
    BY <1>1 DEF Blocks
<1>3. Good(B) /\ B.ok = L.ok /\ \A a \in Addr : L.bal[a] <= B.bal[a]
    BY BegunRises
<1>4. T = AfterTxs(B, v, idx, SubSeq(q, 1, N))[N]
    BY <1>1, <1>2 DEF Transacted
<1> HIDE DEF b, B
<1>5. M = PayReward(T, v, idx) /\ Good(T) /\ Good(M)
    BY <1>2, AppliedFacts
<1> HIDE DEF T, M
<1>6. \A a \in Addr : OwedAfter(q, a, 0) \in Nat
    <2>1. 0 \in 0..Len(q)
        BY LenProperties
    <2> QED BY <2>1, OwedNext
<1>7. CoversAfter(B, q, 0)
    <2> SUFFICES ASSUME NEW a \in Addr PROVE OwedAfter(q, a, 0) <= B.bal[a]
        BY DEF CoversAfter
    <2>1. L.bal[a] \in Nat /\ B.bal[a] \in Nat
        BY <1>3 DEF Good
    <2>2. OwedAfter(q, a, 0) <= L.bal[a]
        BY DEF CoversAfter
    <2> QED BY <1>3, <1>6, <2>1, <2>2
<1>8. T.ok /\ CoversAfter(T, q, N)
    BY <1>1, <1>3, <1>4, <1>7, BlockPays
<1>9. Paid(M, T, v, r)
    BY <1>1, <1>5, PayRewardFacts
<1>10. r \in Nat
    <2>1. T.minted \in Int
        BY <1>5, LedgerAssumption DEF Good
    <2> QED BY <2>1, RewardBounds
<1>11. M.ok = T.ok /\ M.bal = [T.bal EXCEPT ![v] = @ + r] /\ T.bal \in [Addr -> Nat]
    <2>1. M.ok = T.ok /\ (T.ok => M.bal = [T.bal EXCEPT ![v] = @ + r])
        <3> HIDE DEF r
        <3> QED BY <1>9 DEF Paid
    <2>2. T.bal \in [Addr -> Nat]
        BY <1>5 DEF Good
    <2> QED BY <1>8, <2>1, <2>2
<1>12. CoversAfter(M, q, N)
    <2> SUFFICES ASSUME NEW a \in Addr PROVE OwedAfter(q, a, N) <= M.bal[a]
        BY DEF CoversAfter
    <2>1. OwedAfter(q, a, N) <= T.bal[a] /\ OwedAfter(q, a, N) \in Nat
        BY <1>8, OwedNext DEF CoversAfter
    <2> HIDE DEF r
    <2>2. T.bal[a] \in Nat /\ (M.bal[a] = T.bal[a] \/ M.bal[a] = T.bal[a] + r)
        BY <1>1, <1>11
    <2> QED BY <1>10, <2>1, <2>2
<1> QED BY <1>5, <1>8, <1>11, <1>12 DEF M, b

-----------------------------------------------------------------------------
(* The pool of a lone producer *)

\* The only validator, within an epoch: blocks come from nowhere else, none is
\* taken back, and no distribution takes funds behind the pool's back.  A STAKE
\* has a fee, for without one submit_tx does not look at the balance.
LoneProducer ==
    /\ Producer /\ Validator = {Self} /\ MaxRollback = 0
    /\ TX_FEES["STAKE"] > 0
    /\ MaxHeight + 1 < EPOCH_LENGTH

\* What is pending is covered by the balances, all of it together.
PoolCovered == \A a \in Addr : Owed(txPool, a) <= ledger.bal[a]

LoneInv == LedgerInv /\ PoolCovered /\ height <= MaxHeight

\* The block that would be built now.
LEMMA NextBlockPays ==
    ASSUME LoneProducer, LoneInv
    PROVE  LET M == Applied(ledger, NextBlock, height + 1)
               N == Min({Len(txPool), MAX_TX_PER_BLOCK})
           IN  /\ Good(M) /\ M.ok /\ CoversAfter(M, txPool, N)
               /\ N \in 0..Len(txPool) /\ NextBlock.txs = SubSeq(txPool, 1, N)
<1> DEFINE N == Min({Len(txPool), MAX_TX_PER_BLOCK})
           h == height
           q == txPool
<1>1. q \in Seq(Tx) /\ Len(q) \in Nat /\ MAX_TX_PER_BLOCK \in Nat
    BY LenProperties, BoundAssumption DEF LoneInv, LedgerInv
<1>2. N \in 0..Len(q)
    <2>1. N = IF Len(q) <= MAX_TX_PER_BLOCK THEN Len(q) ELSE MAX_TX_PER_BLOCK
        BY <1>1, MinMaxPair
    <2> HIDE DEF N
    <2> QED BY <1>1, <2>1
<1>3. Good(ledger) /\ ledger.epoch = h \div EPOCH_LENGTH /\ h \in Nat /\ h <= MaxHeight
    BY LedgerGood DEF LoneInv
<1>4. ledger.ok = TRUE
    BY DEF LoneInv, LedgerInv
<1>5. h + 1 \in Nat /\ (h + 1) \div EPOCH_LENGTH = ledger.epoch
    <2>1. EPOCH_LENGTH \in Nat \ {0} /\ MaxHeight \in Nat /\ MaxHeight + 1 < EPOCH_LENGTH
        BY LedgerAssumption, BoundAssumption DEF LoneProducer
    <2>2. h + 1 \in Nat /\ h + 1 < EPOCH_LENGTH /\ h + 1 > 0
        <3> HIDE DEF h
        <3> QED BY <1>3, <2>1
    <2>3. (h + 1) % EPOCH_LENGTH # 0
        <3> HIDE DEF h
        <3> QED BY <1>3, <2>1, <2>2
    <2> HIDE DEF h
    <2> QED BY <1>3, <2>2, <2>3, SameEpoch
<1>6. CoversAfter(ledger, q, 0)
    <2>1. 0 \in 0..Len(q)
        BY <1>1
    <2>2. \A a \in Addr : OwedAfter(q, a, 0) = Owed(q, a)
        BY <1>1, <2>1, OwedNext
    <2> QED BY <2>2 DEF CoversAfter, LoneInv, PoolCovered
<1>7. Self \in Validator
    BY LedgerAssumption
<1> DEFINE b == [validator |-> Self, txs |-> SubSeq(q, 1, N)]
           M == Applied(ledger, b, h + 1)
<1>8. Good(M) /\ M.ok /\ CoversAfter(M, q, N)
    <2> HIDE DEF N, h, q
    <2> QED BY <1>1, <1>2, <1>3, <1>4, <1>5, <1>6, <1>7, PoolBlock
<1>9. NextBlock = b
    BY DEF NextBlock
<1>10. NextBlock.txs = SubSeq(q, 1, N)
    BY <1>9
<1> QED BY <1>2, <1>8, <1>9, <1>10

\* The pool admits what is covered besides what is pending.
LEMMA SubmitCovered ==
    ASSUME LoneProducer, LoneInv, NEW t \in Tx, submit_tx(t)
    PROVE  PoolCovered'
<1>1. /\ txPool \in Seq(Tx) /\ Good(ledger) /\ txPool' = Append(txPool, t) /\ ledger' = ledger
    BY LedgerGood DEF LoneInv, LedgerInv, submit_tx
<1> SUFFICES ASSUME NEW a \in Addr PROVE Owed(txPool, a)' <= ledger'.bal[a]
    BY DEF PoolCovered
<1>2. Owed(txPool, a) <= ledger.bal[a] /\ Owed(txPool, a) \in Nat /\ ledger.bal[a] \in Nat
    <2>1. ledger.bal[a] \in Nat
        BY <1>1 DEF Good
    <2> QED BY <1>1, <2>1, OwesType DEF LoneInv, PoolCovered
<1>3. Owed(txPool, a)' = Owed(Append(txPool, t), a)
    BY <1>1
<1>4. Owed(Append(txPool, t), a) = Owed(txPool, a) + (IF t.from = a THEN Debit(t) ELSE 0)
    BY <1>1, OwedAppend
<1>5. CASE t.from # a
    BY <1>1, <1>2, <1>3, <1>4, <1>5
<1>6. CASE t.from = a
    <2>1. Debit(t) \in Nat /\ TX_FEES[t.type] \in Nat /\ t.type \in Types
        BY DebitType, TxType
    <2>2. CASE TX_FEES[t.type] > 0 \/ t.type = "TRANSFER"
        <3>1. ledger.bal[a] - _pending_debits(a) >= Debit(t)
            BY <1>6, <2>2 DEF submit_tx
        <3>2. _pending_debits(a) = Owed(txPool, a)
            BY <1>1, PendingIs
        <3>3. Owed(txPool, a) + Debit(t) <= ledger.bal[a]
            BY <1>2, <2>1, <3>1, <3>2
        <3> QED BY <1>1, <1>3, <1>4, <1>6, <3>3
    <2>3. CASE ~ (TX_FEES[t.type] > 0 \/ t.type = "TRANSFER")
        <3>1. t.type # "STAKE" /\ t.type # "TRANSFER"
            BY <2>3 DEF LoneProducer
        <3>2. Debit(t) = TX_FEES[t.type] + 0
            BY <3>1 DEF Debit
        <3>3. Debit(t) = 0
            BY <2>1, <2>3, <3>2
        <3> QED BY <1>1, <1>2, <1>3, <1>4, <1>6, <3>3
    <2> QED BY <2>2, <2>3
<1> QED BY <1>5, <1>6

\* The block that is built leaves the rest of the pool covered.
LEMMA ProduceCovered ==
    ASSUME LoneProducer, LoneInv, produce_block
    PROVE  PoolCovered'
<1> DEFINE M == Applied(ledger, NextBlock, height + 1)
           N == Min({Len(txPool), MAX_TX_PER_BLOCK})
           txs == NextBlock.txs
           K == {i \in 1..Len(txPool) : txPool[i] \notin Range(txs)}
<1>1. txPool \in Seq(Tx) /\ Len(txPool) \in Nat
    BY LenProperties DEF LoneInv, LedgerInv
<1>2. /\ Good(M) /\ CoversAfter(M, txPool, N)
      /\ N \in 0..Len(txPool) /\ txs = SubSeq(txPool, 1, N)
    BY NextBlockPays
<1>3. ledger' = PruneDistributions(M, height + 1)
    BY DEF produce_block, _append_block
<1>4. txPool' = Select(txPool, K)
    BY DEF produce_block, _drain_pool
<1> HIDE DEF M, N, txs
<1>5. ledger'.bal = M.bal
    <2>1. Money(ledger') = Money(M)
        BY <1>2, <1>3, PruneFacts DEF Good
    <2> QED BY <2>1 DEF Money
<1>6. K \subseteq (N + 1)..Len(txPool)
    <2> SUFFICES ASSUME NEW i \in K PROVE i \in (N + 1)..Len(txPool)
        OBVIOUS
    <2>1. i \in 1..Len(txPool) /\ txPool[i] \notin Range(txs)
        OBVIOUS
    <2>2. ASSUME i <= N PROVE FALSE
        <3>1. i \in 1..N /\ N \in Nat
            BY <1>1, <1>2, <2>1, <2>2
        <3>2. Len(txs) = N /\ txs[i] = txPool[i] /\ txs \in Seq(Tx)
            BY <1>1, <1>2, <3>1, FirstOnes
        <3>3. i \in DOMAIN txs
            BY <3>1, <3>2
        <3> QED BY <2>1, <3>2, <3>3 DEF Range
    <2> QED BY <1>1, <1>2, <2>1, <2>2
<1> HIDE DEF K
<1> SUFFICES ASSUME NEW a \in Addr PROVE Owed(txPool, a)' <= ledger'.bal[a]
    BY DEF PoolCovered
<1>7. Owed(txPool, a)' = Owed(Select(txPool, K), a)
    BY <1>4
<1>8. Owed(Select(txPool, K), a) <= OwedAfter(txPool, a, N)
    BY <1>1, <1>2, <1>6, OwedSelect
<1>9. OwedAfter(txPool, a, N) <= M.bal[a] /\ M.bal[a] \in Nat
    BY <1>2 DEF CoversAfter, Good
<1>10. OwedAfter(txPool, a, N) \in Nat
    BY <1>1, <1>2, OwedNext
<1>11. Owed(Select(txPool, K), a) \in Nat
    <2>1. K \subseteq 1..Len(txPool)
        BY <1>1, <1>2, <1>6
    <2>2. Select(txPool, K) \in Seq(Tx)
        BY <1>1, <2>1, SelectType
    <2> QED BY <2>2, OwesType
<1> QED BY <1>5, <1>7, <1>8, <1>9, <1>10, <1>11

\* A lone producer only admits transactions and builds blocks.
LEMMA LoneSteps ==
    ASSUME LoneProducer, LoneInv, [Next]_vars
    PROVE  UNCHANGED vars \/ (\E t \in Tx : submit_tx(t)) \/ produce_block
<1>1. ~ produce_block_raises
    BY NextBlockPays DEF produce_block_raises
<1>2. Incoming = {}
    <2>1. (IF Producer THEN Validator \ {Self} ELSE Validator) = {}
        BY DEF LoneProducer
    <2> QED BY <2>1 DEF Incoming
<1>3. 1..MaxRollback = {}
    BY DEF LoneProducer
<1> HIDE DEF Incoming
<1> QED BY <1>1, <1>2, <1>3 DEF Next

LEMMA LoneStep ==
    ASSUME LoneProducer, LoneInv, [Next]_vars
    PROVE  LoneInv'
<1>1. UNCHANGED vars \/ (\E t \in Tx : submit_tx(t)) \/ produce_block
    BY LoneSteps
<1>2. chain \in Seq(Blocks) /\ Len(chain) \in Nat /\ txPool \in Seq(Tx)
    BY LenProperties DEF LoneInv, LedgerInv
<1>3. /\ chain' = chain => ledger' = ledger
      /\ ~ (Len(chain') < Len(chain))
    <2>1. CASE UNCHANGED vars \/ \E t \in Tx : submit_tx(t)
        <3>1. chain' = chain /\ ledger' = ledger
            BY <2>1 DEF vars, submit_tx
        <3> QED BY <1>2, <3>1
    <2>2. CASE produce_block
        <3>1. chain' = Append(chain, NextBlock) /\ NextBlock \in Blocks
            BY <1>2, <2>2, BlocksType DEF produce_block, _append_block
        <3>2. Len(chain') = Len(chain) + 1
            BY <1>2, <3>1, AppendProperties
        <3> QED BY <1>2, <3>2
    <2> QED BY <1>1, <2>1, <2>2
<1>4. LedgerInv'
    <2>1. chain' = chain => Money(ledger') = Money(ledger)
        BY <1>3 DEF Money
    <2> QED BY <1>3, <2>1, LedgerStep DEF LoneInv
<1>5. height' <= MaxHeight
    BY HeightStep DEF LoneInv
<1>6. PoolCovered'
    <2>1. CASE UNCHANGED vars
        <3>1. txPool' = txPool /\ ledger' = ledger
            BY <2>1 DEF vars
        <3>2. PoolCovered
            BY DEF LoneInv
        <3> QED BY <3>1, <3>2 DEF PoolCovered, Owed, Owes
    <2> QED BY <1>1, <2>1, SubmitCovered, ProduceCovered
<1> QED BY <1>4, <1>5, <1>6 DEF LoneInv

LEMMA LoneInit == Init => LoneInv
<1> SUFFICES ASSUME Init PROVE LoneInv
    OBVIOUS
<1>1. LedgerInv
    BY LedgerInit
<1>2. height <= MaxHeight
    BY BoundAssumption DEF Init, height
<1>3. PoolCovered
    <2> SUFFICES ASSUME NEW a \in Addr PROVE Owed(txPool, a) <= ledger.bal[a]
        BY DEF PoolCovered
    <2>1. txPool = <<>> /\ 1..Len(txPool) = {} /\ Good(ledger)
        BY GenesisGood DEF Init
    <2>2. SumFunctionOnSet(Owes(txPool, a), {}) = 0
        BY SumEmpty
    <2>3. Owed(txPool, a) = 0
        BY <2>1, <2>2 DEF Owed
    <2>4. ledger.bal[a] \in Nat
        BY <2>1 DEF Good
    <2> QED BY <2>3, <2>4
<1> QED BY <1>1, <1>2, <1>3 DEF LoneInv

\* Production of a lone validator never comes to a halt over its own pool: with
\* any accounts, amounts, fees, unbondings, slashings and pool, the next block
\* is paid for, to its last transaction.  Admission looks at balances that later
\* blocks change; what makes it enough is that pending transactions are held
\* against them together.
THEOREM PoolPays == LoneProducer => (Spec => [](PoolAffordable /\ TypeOK /\ TrieExact))
<1> SUFFICES ASSUME LoneProducer PROVE Spec => [](PoolAffordable /\ TypeOK /\ TrieExact)
    OBVIOUS
<1>1. LoneInv /\ [Next]_vars => LoneInv'
    BY LoneStep
<1>2. LoneInv => PoolAffordable /\ TypeOK /\ TrieExact
    BY NextBlockPays, LedgerMeans DEF PoolAffordable, LoneInv
<1> QED BY <1>1, <1>2, LoneInit, PTL DEF Spec
=============================================================================
