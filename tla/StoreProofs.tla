---------------------------- MODULE StoreProofs -----------------------------
(***************************************************************************)
(* Theorems about module Store: a node that only sees transfers and stakes *)
(* of its first epoch, and crashes between any two commits.                *)
(***************************************************************************)
EXTENDS Store, FiniteFacts

-----------------------------------------------------------------------------
(* Constants and recursions *)

\* What the constants are.
LEMMA TxType ==
    ASSUME NEW t \in Tx
    PROVE  /\ t.type \in Types /\ t.from \in Addr /\ t.to \in Addr
           /\ t.amount \in Nat /\ t.nonce \in Nat
           /\ t.type # "TRANSFER" => t.to \in Validator
           /\ TX_FEES[t.type] \in Nat
BY LedgerAssumption

\* Halving is defined for every n and stays a natural number.
LEMMA HalvedType ==
    /\ Halved \in [Nat -> Nat]
    /\ \A n \in Nat : Halved[n] = IF n = 0 THEN INITIAL_BLOCK_REWARD ELSE Halved[n - 1] \div 2
<1> DEFINE I == INITIAL_BLOCK_REWARD
<1>1. I \in Nat
    BY LedgerAssumption
<1>2. (\E h : h = [n \in Nat |-> IF n = 0 THEN I ELSE h[n - 1] \div 2])
        => Halved = [n \in Nat |-> IF n = 0 THEN I ELSE Halved[n - 1] \div 2]
    BY DEF Halved
<1> HIDE DEF I
<1>3. Halved \in [Nat -> Nat] /\ \A n \in Nat : Halved[n] = IF n = 0 THEN I ELSE Halved[n - 1] \div 2
    BY <1>1, <1>2, HalvingIs
<1> QED BY <1>3 DEF I

\* A fee is divided without loss.
LEMMA FeeParts ==
    ASSUME NEW fee \in Nat
    PROVE  /\ ValidatorShare(fee) \in Nat /\ Burn(fee) \in Nat
           /\ ValidatorShare(fee) + Burn(fee) = fee
BY LedgerAssumption DEF ValidatorShare, Burn

\* The transactions of a block, one by one.
LEMMA AfterTxsIs ==
    ASSUME NEW L, NEW v, NEW idx, NEW txs, Len(txs) \in Nat
    PROVE  LET A == AfterTxs(L, v, idx, txs)
           IN  /\ A[0] = L
               /\ \A n \in 1..Len(txs) :
                    A[n] = ApplyTx(A[n - 1], v, idx, txs[n])
<1> DEFINE N == Len(txs)
           Step(g, n) == IF n = 0 THEN L ELSE ApplyTx(g[n - 1], v, idx, txs[n])
           Upto(g, n) == /\ g = [m \in 0..N |-> g[m]]
                         /\ \A m \in 0..n : g[m] = Step(g, m)
           T == {n \in 0..N : ~ \E g : Upto(g, n)}
<1>1. N \in Nat
    OBVIOUS
<1> HIDE DEF N
<1>2. T = {}
    <2>1. SUFFICES ASSUME T # {} PROVE FALSE
        OBVIOUS
    <2>2. PICK n \in T : \A m \in T : n <= m
        <3>1. T \subseteq Nat
            BY <1>1
        <3> HIDE DEF T
        <3> QED BY <2>1, <3>1, LeastNat
    <2>3. n # 0
        <3> DEFINE z == [m \in 0..N |-> L]
        <3>1. Upto(z, 0)
            BY <1>1
        <3> HIDE DEF z, Upto
        <3> QED BY <2>2, <3>1
    <2>4. n \in 0..N /\ n - 1 \in 0..N /\ ~ (n <= n - 1)
        BY <1>1, <2>3
    <2>5. n - 1 \notin T
        <3> HIDE DEF T
        <3> QED BY <2>2, <2>4
    <2>6. PICK g : Upto(g, n - 1)
        <3> HIDE DEF Upto
        <3> QED BY <2>4, <2>5
    <2> DEFINE h == [m \in 0..N |-> IF m = n THEN Step(g, n) ELSE g[m]]
    <2> HIDE DEF Step
    <2>7. ASSUME NEW m \in 0..n PROVE h[m] = Step(h, m)
        <3>1. CASE m = n
            <4>1. h[n - 1] = g[n - 1] /\ h[m] = Step(g, n)
                BY <2>4, <3>1
            <4> HIDE DEF h
            <4> QED BY <3>1, <4>1 DEF Step
        <3>2. CASE m # n
            <4>1. m \in 0..(n - 1) /\ m \in 0..N
                BY <1>1, <2>4, <3>2
            <4>2. h[m] = Step(g, m)
                BY <2>6, <3>2, <4>1
            <4>3. m # 0 => h[m - 1] = g[m - 1]
                <5>1. m # 0 => m - 1 \in 0..N /\ m - 1 # n
                    BY <1>1, <2>4, <4>1
                <5> QED BY <5>1
            <4> HIDE DEF h
            <4> QED BY <4>2, <4>3 DEF Step
        <3> QED BY <3>1, <3>2
    <2>8. Upto(h, n)
        BY <2>7
    <2> HIDE DEF h, Upto
    <2> QED BY <2>2, <2>8
<1>3. PICK g : Upto(g, N)
    <2>1. N \in 0..N
        BY <1>1
    <2>2. N \notin T
        BY <1>2
    <2> HIDE DEF Upto
    <2> QED BY <2>1, <2>2
<1>4. g = [n \in 0..N |-> Step(g, n)]
    BY <1>1, <1>3
<1> DEFINE A == AfterTxs(L, v, idx, txs)
<1>5. A = [n \in 0..N |-> Step(A, n)]
    BY <1>4 DEF AfterTxs, N
<1>6. A[0] = L /\ \A n \in 1..N : A[n] = Step(A, n)
    <2> HIDE DEF A, Step
    <2>1. \A n \in 0..N : A[n] = Step(A, n)
        BY <1>5
    <2>2. 0 \in 0..N /\ 1..N \subseteq 0..N
        BY <1>1
    <2> QED BY <2>1, <2>2 DEF Step
<1>7. \A n \in 1..N : n # 0
    BY <1>1
<1> QED BY <1>6, <1>7 DEF N

\* The funds of a block taken back, one transaction at a time.
LEMMA FundsUndoneIs ==
    ASSUME NEW L, NEW v, NEW txs, Len(txs) \in Nat
    PROVE  LET A == FundsUndone(L, v, txs)
           IN  /\ A[0] = L
               /\ \A n \in 1..Len(txs) :
                    A[n] = UndoFee(UndoFunds(A[n - 1], txs[Len(txs) + 1 - n]), v, txs[Len(txs) + 1 - n])
<1> DEFINE N == Len(txs)
           Step(g, n) == IF n = 0 THEN L ELSE UndoFee(UndoFunds(g[n - 1], txs[Len(txs) + 1 - n]), v, txs[Len(txs) + 1 - n])
           Upto(g, n) == /\ g = [m \in 0..N |-> g[m]]
                         /\ \A m \in 0..n : g[m] = Step(g, m)
           T == {n \in 0..N : ~ \E g : Upto(g, n)}
<1>1. N \in Nat
    OBVIOUS
<1> HIDE DEF N
<1>2. T = {}
    <2>1. SUFFICES ASSUME T # {} PROVE FALSE
        OBVIOUS
    <2>2. PICK n \in T : \A m \in T : n <= m
        <3>1. T \subseteq Nat
            BY <1>1
        <3> HIDE DEF T
        <3> QED BY <2>1, <3>1, LeastNat
    <2>3. n # 0
        <3> DEFINE z == [m \in 0..N |-> L]
        <3>1. Upto(z, 0)
            BY <1>1
        <3> HIDE DEF z, Upto
        <3> QED BY <2>2, <3>1
    <2>4. n \in 0..N /\ n - 1 \in 0..N /\ ~ (n <= n - 1)
        BY <1>1, <2>3
    <2>5. n - 1 \notin T
        <3> HIDE DEF T
        <3> QED BY <2>2, <2>4
    <2>6. PICK g : Upto(g, n - 1)
        <3> HIDE DEF Upto
        <3> QED BY <2>4, <2>5
    <2> DEFINE h == [m \in 0..N |-> IF m = n THEN Step(g, n) ELSE g[m]]
    <2> HIDE DEF Step
    <2>7. ASSUME NEW m \in 0..n PROVE h[m] = Step(h, m)
        <3>1. CASE m = n
            <4>1. h[n - 1] = g[n - 1] /\ h[m] = Step(g, n)
                BY <2>4, <3>1
            <4> HIDE DEF h
            <4> QED BY <3>1, <4>1 DEF Step
        <3>2. CASE m # n
            <4>1. m \in 0..(n - 1) /\ m \in 0..N
                BY <1>1, <2>4, <3>2
            <4>2. h[m] = Step(g, m)
                BY <2>6, <3>2, <4>1
            <4>3. m # 0 => h[m - 1] = g[m - 1]
                <5>1. m # 0 => m - 1 \in 0..N /\ m - 1 # n
                    BY <1>1, <2>4, <4>1
                <5> QED BY <5>1
            <4> HIDE DEF h
            <4> QED BY <4>2, <4>3 DEF Step
        <3> QED BY <3>1, <3>2
    <2>8. Upto(h, n)
        BY <2>7
    <2> HIDE DEF h, Upto
    <2> QED BY <2>2, <2>8
<1>3. PICK g : Upto(g, N)
    <2>1. N \in 0..N
        BY <1>1
    <2>2. N \notin T
        BY <1>2
    <2> HIDE DEF Upto
    <2> QED BY <2>1, <2>2
<1>4. g = [n \in 0..N |-> Step(g, n)]
    BY <1>1, <1>3
<1> DEFINE A == FundsUndone(L, v, txs)
<1>5. A = [n \in 0..N |-> Step(A, n)]
    BY <1>4 DEF FundsUndone, N
<1>6. A[0] = L /\ \A n \in 1..N : A[n] = Step(A, n)
    <2> HIDE DEF A, Step
    <2>1. \A n \in 0..N : A[n] = Step(A, n)
        BY <1>5
    <2>2. 0 \in 0..N /\ 1..N \subseteq 0..N
        BY <1>1
    <2> QED BY <2>1, <2>2 DEF Step
<1>7. \A n \in 1..N : n # 0
    BY <1>1
<1> QED BY <1>6, <1>7 DEF N

\* The stakes of a block taken back, one transaction at a time.
LEMMA StakesUndoneIs ==
    ASSUME NEW L, NEW idx, NEW txs, Len(txs) \in Nat
    PROVE  LET A == StakesUndone(L, idx, txs)
           IN  /\ A[0] = L
               /\ \A n \in 1..Len(txs) :
                    A[n] = UndoStake(A[n - 1], idx, txs[n])
<1> DEFINE N == Len(txs)
           Step(g, n) == IF n = 0 THEN L ELSE UndoStake(g[n - 1], idx, txs[n])
           Upto(g, n) == /\ g = [m \in 0..N |-> g[m]]
                         /\ \A m \in 0..n : g[m] = Step(g, m)
           T == {n \in 0..N : ~ \E g : Upto(g, n)}
<1>1. N \in Nat
    OBVIOUS
<1> HIDE DEF N
<1>2. T = {}
    <2>1. SUFFICES ASSUME T # {} PROVE FALSE
        OBVIOUS
    <2>2. PICK n \in T : \A m \in T : n <= m
        <3>1. T \subseteq Nat
            BY <1>1
        <3> HIDE DEF T
        <3> QED BY <2>1, <3>1, LeastNat
    <2>3. n # 0
        <3> DEFINE z == [m \in 0..N |-> L]
        <3>1. Upto(z, 0)
            BY <1>1
        <3> HIDE DEF z, Upto
        <3> QED BY <2>2, <3>1
    <2>4. n \in 0..N /\ n - 1 \in 0..N /\ ~ (n <= n - 1)
        BY <1>1, <2>3
    <2>5. n - 1 \notin T
        <3> HIDE DEF T
        <3> QED BY <2>2, <2>4
    <2>6. PICK g : Upto(g, n - 1)
        <3> HIDE DEF Upto
        <3> QED BY <2>4, <2>5
    <2> DEFINE h == [m \in 0..N |-> IF m = n THEN Step(g, n) ELSE g[m]]
    <2> HIDE DEF Step
    <2>7. ASSUME NEW m \in 0..n PROVE h[m] = Step(h, m)
        <3>1. CASE m = n
            <4>1. h[n - 1] = g[n - 1] /\ h[m] = Step(g, n)
                BY <2>4, <3>1
            <4> HIDE DEF h
            <4> QED BY <3>1, <4>1 DEF Step
        <3>2. CASE m # n
            <4>1. m \in 0..(n - 1) /\ m \in 0..N
                BY <1>1, <2>4, <3>2
            <4>2. h[m] = Step(g, m)
                BY <2>6, <3>2, <4>1
            <4>3. m # 0 => h[m - 1] = g[m - 1]
                <5>1. m # 0 => m - 1 \in 0..N /\ m - 1 # n
                    BY <1>1, <2>4, <4>1
                <5> QED BY <5>1
            <4> HIDE DEF h
            <4> QED BY <4>2, <4>3 DEF Step
        <3> QED BY <3>1, <3>2
    <2>8. Upto(h, n)
        BY <2>7
    <2> HIDE DEF h, Upto
    <2> QED BY <2>2, <2>8
<1>3. PICK g : Upto(g, N)
    <2>1. N \in 0..N
        BY <1>1
    <2>2. N \notin T
        BY <1>2
    <2> HIDE DEF Upto
    <2> QED BY <2>1, <2>2
<1>4. g = [n \in 0..N |-> Step(g, n)]
    BY <1>1, <1>3
<1> DEFINE A == StakesUndone(L, idx, txs)
<1>5. A = [n \in 0..N |-> Step(A, n)]
    BY <1>4 DEF StakesUndone, N
<1>6. A[0] = L /\ \A n \in 1..N : A[n] = Step(A, n)
    <2> HIDE DEF A, Step
    <2>1. \A n \in 0..N : A[n] = Step(A, n)
        BY <1>5
    <2>2. 0 \in 0..N /\ 1..N \subseteq 0..N
        BY <1>1
    <2> QED BY <2>1, <2>2 DEF Step
<1>7. \A n \in 1..N : n # 0
    BY <1>1
<1> QED BY <1>6, <1>7 DEF N

\* The blocks of a chain rolled back, one at a time.
LEMMA BlocksUndoneIs ==
    ASSUME NEW L, NEW c, Len(c) \in Nat
    PROVE  LET A == BlocksUndone(L, c)
           IN  /\ A[0] = L
               /\ \A n \in 1..Len(c) :
                    A[n] = _rollback_block(A[n - 1], c[Len(c) + 1 - n], Len(c) + 1 - n)
<1> DEFINE N == Len(c)
           Step(g, n) == IF n = 0 THEN L ELSE _rollback_block(g[n - 1], c[Len(c) + 1 - n], Len(c) + 1 - n)
           Upto(g, n) == /\ g = [m \in 0..N |-> g[m]]
                         /\ \A m \in 0..n : g[m] = Step(g, m)
           T == {n \in 0..N : ~ \E g : Upto(g, n)}
<1>1. N \in Nat
    OBVIOUS
<1> HIDE DEF N
<1>2. T = {}
    <2>1. SUFFICES ASSUME T # {} PROVE FALSE
        OBVIOUS
    <2>2. PICK n \in T : \A m \in T : n <= m
        <3>1. T \subseteq Nat
            BY <1>1
        <3> HIDE DEF T
        <3> QED BY <2>1, <3>1, LeastNat
    <2>3. n # 0
        <3> DEFINE z == [m \in 0..N |-> L]
        <3>1. Upto(z, 0)
            BY <1>1
        <3> HIDE DEF z, Upto
        <3> QED BY <2>2, <3>1
    <2>4. n \in 0..N /\ n - 1 \in 0..N /\ ~ (n <= n - 1)
        BY <1>1, <2>3
    <2>5. n - 1 \notin T
        <3> HIDE DEF T
        <3> QED BY <2>2, <2>4
    <2>6. PICK g : Upto(g, n - 1)
        <3> HIDE DEF Upto
        <3> QED BY <2>4, <2>5
    <2> DEFINE h == [m \in 0..N |-> IF m = n THEN Step(g, n) ELSE g[m]]
    <2> HIDE DEF Step
    <2>7. ASSUME NEW m \in 0..n PROVE h[m] = Step(h, m)
        <3>1. CASE m = n
            <4>1. h[n - 1] = g[n - 1] /\ h[m] = Step(g, n)
                BY <2>4, <3>1
            <4> HIDE DEF h
            <4> QED BY <3>1, <4>1 DEF Step
        <3>2. CASE m # n
            <4>1. m \in 0..(n - 1) /\ m \in 0..N
                BY <1>1, <2>4, <3>2
            <4>2. h[m] = Step(g, m)
                BY <2>6, <3>2, <4>1
            <4>3. m # 0 => h[m - 1] = g[m - 1]
                <5>1. m # 0 => m - 1 \in 0..N /\ m - 1 # n
                    BY <1>1, <2>4, <4>1
                <5> QED BY <5>1
            <4> HIDE DEF h
            <4> QED BY <4>2, <4>3 DEF Step
        <3> QED BY <3>1, <3>2
    <2>8. Upto(h, n)
        BY <2>7
    <2> HIDE DEF h, Upto
    <2> QED BY <2>2, <2>8
<1>3. PICK g : Upto(g, N)
    <2>1. N \in 0..N
        BY <1>1
    <2>2. N \notin T
        BY <1>2
    <2> HIDE DEF Upto
    <2> QED BY <2>1, <2>2
<1>4. g = [n \in 0..N |-> Step(g, n)]
    BY <1>1, <1>3
<1> DEFINE A == BlocksUndone(L, c)
<1>5. A = [n \in 0..N |-> Step(A, n)]
    BY <1>4 DEF BlocksUndone, N
<1>6. A[0] = L /\ \A n \in 1..N : A[n] = Step(A, n)
    <2> HIDE DEF A, Step
    <2>1. \A n \in 0..N : A[n] = Step(A, n)
        BY <1>5
    <2>2. 0 \in 0..N /\ 1..N \subseteq 0..N
        BY <1>1
    <2> QED BY <2>1, <2>2 DEF Step
<1>7. \A n \in 1..N : n # 0
    BY <1>1
<1> QED BY <1>6, <1>7 DEF N

\* One block of the old chain appended again.
OneMore(old, n) ==
    LET idx == fork.base + n
        b == fork.saved[n]
    IN  [ledger |-> PruneDistributions(Applied(old.ledger, b, idx), idx),
         writes |-> old.writes \o AppendWrites(old.ledger, b, idx)]

\* The old chain, one block at a time.
LEMMA ReappendedIs ==
    ASSUME NEW L, Len(fork.saved) \in Nat
    PROVE  LET A == Reappended(L)
           IN  /\ A[0] = [ledger |-> L, writes |-> <<>>]
               /\ \A n \in 1..Len(fork.saved) : A[n] = OneMore(A[n - 1], n)
<1> DEFINE N == Len(fork.saved)
           Z == [ledger |-> L, writes |-> <<>>]
           Step(g, n) == IF n = 0 THEN Z ELSE OneMore(g[n - 1], n)
           Upto(g, n) == /\ g = [m \in 0..N |-> g[m]]
                         /\ \A m \in 0..n : g[m] = Step(g, m)
           T == {n \in 0..N : ~ \E g : Upto(g, n)}
<1>1. N \in Nat
    OBVIOUS
<1> HIDE DEF N
<1>2. T = {}
    <2>1. SUFFICES ASSUME T # {} PROVE FALSE
        OBVIOUS
    <2>2. PICK n \in T : \A m \in T : n <= m
        <3>1. T \subseteq Nat
            BY <1>1
        <3> HIDE DEF T
        <3> QED BY <2>1, <3>1, LeastNat
    <2>3. n # 0
        <3> DEFINE z == [m \in 0..N |-> Z]
        <3>1. Upto(z, 0)
            BY <1>1
        <3> HIDE DEF z, Upto
        <3> QED BY <2>2, <3>1
    <2>4. n \in 0..N /\ n - 1 \in 0..N /\ ~ (n <= n - 1)
        BY <1>1, <2>3
    <2>5. n - 1 \notin T
        <3> HIDE DEF T
        <3> QED BY <2>2, <2>4
    <2>6. PICK g : Upto(g, n - 1)
        <3> HIDE DEF Upto
        <3> QED BY <2>4, <2>5
    <2> DEFINE h == [m \in 0..N |-> IF m = n THEN Step(g, n) ELSE g[m]]
    <2> HIDE DEF Step
    <2>7. ASSUME NEW m \in 0..n PROVE h[m] = Step(h, m)
        <3>1. CASE m = n
            <4>1. h[n - 1] = g[n - 1] /\ h[m] = Step(g, n)
                BY <2>4, <3>1
            <4> HIDE DEF h
            <4> QED BY <3>1, <4>1 DEF Step
        <3>2. CASE m # n
            <4>1. m \in 0..(n - 1) /\ m \in 0..N
                BY <1>1, <2>4, <3>2
            <4>2. h[m] = Step(g, m)
                BY <2>6, <3>2, <4>1
            <4>3. m # 0 => h[m - 1] = g[m - 1]
                <5>1. m # 0 => m - 1 \in 0..N /\ m - 1 # n
                    BY <1>1, <2>4, <4>1
                <5> QED BY <5>1
            <4> HIDE DEF h
            <4> QED BY <4>2, <4>3 DEF Step
        <3> QED BY <3>1, <3>2
    <2>8. Upto(h, n)
        BY <2>7
    <2> HIDE DEF h, Upto
    <2> QED BY <2>2, <2>8
<1>3. PICK g : Upto(g, N)
    <2>1. N \in 0..N
        BY <1>1
    <2>2. N \notin T
        BY <1>2
    <2> HIDE DEF Upto
    <2> QED BY <2>1, <2>2
<1>4. g = [n \in 0..N |-> Step(g, n)]
    BY <1>1, <1>3
<1> DEFINE A == Reappended(L)
<1>5. A = [n \in 0..N |-> Step(A, n)]
    BY <1>4 DEF Reappended, OneMore, N
<1>6. A[0] = Z /\ \A n \in 1..N : A[n] = Step(A, n)
    <2> HIDE DEF A, Step
    <2>1. \A n \in 0..N : A[n] = Step(A, n)
        BY <1>5
    <2>2. 0 \in 0..N /\ 1..N \subseteq 0..N
        BY <1>1
    <2> QED BY <2>1, <2>2 DEF Step
<1>7. \A n \in 1..N : n # 0
    BY <1>1
<1> QED BY <1>6, <1>7 DEF N

-----------------------------------------------------------------------------
(* A transaction, forwards and backwards *)

Fields == {"ok", "bal", "stakes", "total", "unbonding", "minted", "burned", "rewards",
           "dists", "epoch", "frozen", "epochs", "slashed", "known"}

\* A ledger, as far as its balances go.
Mid(L) == DOMAIN L = Fields /\ L.ok \in BOOLEAN /\ L.bal \in [Addr -> Nat]

\* What neither transactions nor rollbacks of them change.
Kept(M, L) ==
    /\ M.unbonding = L.unbonding /\ M.epoch = L.epoch /\ M.frozen = L.frozen
    /\ M.minted = L.minted

LEMMA DebitMid ==
    ASSUME NEW L, Mid(L), NEW a \in Addr, NEW n \in Nat
    PROVE  LET D == _debit(L, a, n)
           IN  /\ Mid(D) /\ Kept(D, L)
               /\ D.ok <=> L.ok /\ L.bal[a] >= n
               /\ D.ok => D.bal = [L.bal EXCEPT ![a] = @ - n]
<1> DEFINE D == _debit(L, a, n)
<1>0. L.bal[a] \in Nat
    BY DEF Mid
<1>1. CASE L.ok /\ L.bal[a] >= n
    <2>1. D = [L EXCEPT !.bal[a] = @ - n]
        BY <1>1 DEF _debit
    <2> HIDE DEF D
    <2>2. DOMAIN D = Fields /\ D.ok = L.ok /\ Kept(D, L) /\ D.bal = [L.bal EXCEPT ![a] = @ - n]
        BY <2>1 DEF Mid, Fields, Kept
    <2>3. L.bal[a] - n \in Nat
        BY <1>0, <1>1
    <2>4. D.bal \in [Addr -> Nat]
        BY <2>2, <2>3 DEF Mid
    <2> QED BY <1>1, <2>2, <2>4 DEF Mid, D
<1>2. CASE ~ (L.ok /\ L.bal[a] >= n)
    <2>1. D = [L EXCEPT !.ok = FALSE]
        BY <1>2 DEF _debit
    <2> HIDE DEF D
    <2>2. DOMAIN D = Fields /\ D.ok = FALSE /\ Kept(D, L) /\ D.bal = L.bal
        BY <2>1 DEF Mid, Fields, Kept
    <2> QED BY <1>2, <2>2 DEF Mid, D
<1> QED BY <1>1, <1>2

LEMMA CreditMid ==
    ASSUME NEW L, Mid(L), NEW a \in Addr, NEW n \in Nat
    PROVE  LET C == _credit(L, a, n)
           IN  /\ Mid(C) /\ Kept(C, L) /\ C.ok = L.ok
               /\ C.ok => C.bal = [L.bal EXCEPT ![a] = @ + n]
<1> DEFINE C == _credit(L, a, n)
<1>1. CASE L.ok
    <2>1. C = [L EXCEPT !.bal[a] = @ + n]
        BY <1>1 DEF _credit
    <2> HIDE DEF C
    <2>2. DOMAIN C = Fields /\ C.ok = L.ok /\ Kept(C, L) /\ C.bal = [L.bal EXCEPT ![a] = @ + n]
        BY <2>1 DEF Mid, Fields, Kept
    <2>3. L.bal[a] + n \in Nat
        BY DEF Mid
    <2>4. C.bal \in [Addr -> Nat]
        BY <2>2, <2>3 DEF Mid
    <2> QED BY <1>1, <2>2, <2>4 DEF Mid, C
<1>2. CASE ~ L.ok
    BY <1>2 DEF _credit, Kept
<1> QED BY <1>1, <1>2

Share(t) == ValidatorShare(TX_FEES[t.type])

Inflow(t) == IF t.type = "TRANSFER" THEN t.amount ELSE 0

\* What t does to the balances B when v validates it, and whether it can.
Net(B, v, t) ==
    [a \in Addr |-> B[a] - (IF a = t.from THEN Debit(t) ELSE 0)
                         + (IF a = v THEN Share(t) ELSE 0)
                         + (IF a = t.to THEN Inflow(t) ELSE 0)]

Pays(B, v, t) ==
    /\ B[t.from] >= TX_FEES[t.type]
    /\ B[t.from] - TX_FEES[t.type] + (IF t.from = v THEN Share(t) ELSE 0) >= t.amount

IsPlain(t) == t.type \in {"TRANSFER", "STAKE"}

LEMMA ForwardTx ==
    ASSUME NEW L, Mid(L), NEW v \in Addr, NEW idx, NEW t \in Tx, IsPlain(t)
    PROVE  LET M == ApplyTx(L, v, idx, t)
           IN  /\ Mid(M) /\ Kept(M, L)
               /\ M.ok <=> L.ok /\ Pays(L.bal, v, t)
               /\ M.ok => M.bal = Net(L.bal, v, t)
<1> DEFINE fee == TX_FEES[t.type]
           share == Share(t)
           D == _debit(L, t.from, fee)
           C == _credit(D, v, share)
           F == PayFee(L, v, t)
           E == _debit(F, t.from, t.amount)
           G == _credit(E, t.to, t.amount)
           H == MoveFunds(F, t)
           M == ApplyTx(L, v, idx, t)
<1>1. fee \in Nat /\ t.from \in Addr /\ t.to \in Addr /\ t.amount \in Nat
    BY TxType
<1>2. share \in Nat
    BY <1>1, FeeParts DEF Share
<1>3. /\ Mid(D) /\ Kept(D, L) /\ (D.ok <=> L.ok /\ L.bal[t.from] >= fee)
      /\ D.ok => D.bal = [L.bal EXCEPT ![t.from] = @ - fee]
    <2> HIDE DEF fee
    <2> QED BY <1>1, DebitMid
<1>4. Mid(C) /\ Kept(C, D) /\ C.ok = D.ok /\ (C.ok => C.bal = [D.bal EXCEPT ![v] = @ + share])
    <2> HIDE DEF D, share
    <2> QED BY <1>2, <1>3, CreditMid
<1>5. /\ Mid(F) /\ Kept(F, L) /\ (F.ok <=> L.ok /\ L.bal[t.from] >= fee)
      /\ F.ok => F.bal = [[L.bal EXCEPT ![t.from] = @ - fee] EXCEPT ![v] = @ + share]
    <2>1. CASE D.ok
        <3>1. F = [C EXCEPT !.burned = @ + Burn(fee)]
            BY <2>1 DEF PayFee, C, D, fee, share, Share
        <3> HIDE DEF F, C, D, fee, share
        <3>2. Mid(F) /\ Kept(F, C) /\ F.ok = C.ok /\ F.bal = C.bal
            BY <1>4, <3>1 DEF Mid, Kept, Fields
        <3> QED BY <1>3, <1>4, <2>1, <3>2 DEF Kept
    <2>2. CASE ~ D.ok
        <3>1. F = D
            BY <2>2 DEF PayFee, D, fee
        <3> HIDE DEF F, D, fee, share
        <3> QED BY <1>3, <2>2, <3>1
    <2> QED BY <2>1, <2>2
<1>6. /\ Mid(E) /\ Kept(E, F) /\ (E.ok <=> F.ok /\ F.bal[t.from] >= t.amount)
      /\ E.ok => E.bal = [F.bal EXCEPT ![t.from] = @ - t.amount]
    <2> HIDE DEF F
    <2> QED BY <1>1, <1>5, DebitMid
<1>7. Mid(G) /\ Kept(G, E) /\ G.ok = E.ok /\ (G.ok => G.bal = [E.bal EXCEPT ![t.to] = @ + t.amount])
    <2> HIDE DEF E
    <2> QED BY <1>1, <1>6, CreditMid
<1>8. H = IF t.type = "TRANSFER" THEN G ELSE E
    BY DEF MoveFunds, IsPlain, H, G, E
<1>9. /\ DOMAIN M = Fields /\ M.ok = H.ok /\ M.bal = H.bal /\ Kept(M, H)
    <2>1. M = IF H.ok /\ t.type = "STAKE" THEN Stake(H, t) ELSE H
        <3>1. t.type \notin {"UNSTAKE", "EVIDENCE"}
            BY DEF IsPlain
        <3> QED BY <3>1 DEF ApplyTx, H, F
    <2>2. DOMAIN H = Fields
        <3> HIDE DEF H, G, E
        <3> QED BY <1>6, <1>7, <1>8 DEF Mid
    <2> HIDE DEF H, M
    <2>3. CASE M = H
        BY <2>2, <2>3 DEF Kept
    <2>4. CASE M = Stake(H, t)
        BY <2>2, <2>4 DEF Stake, Kept, Fields
    <2> QED BY <2>1, <2>3, <2>4
<1> HIDE DEF D, C, F, E, G, H, M
<1>10. Mid(H) /\ Kept(H, L) /\ H.ok = E.ok
    BY <1>5, <1>6, <1>7, <1>8 DEF Kept
<1>11. Mid(M) /\ Kept(M, L) /\ M.ok = E.ok
    BY <1>9, <1>10 DEF Mid, Kept
<1>12. F.ok => F.bal[t.from] = L.bal[t.from] - fee + (IF t.from = v THEN share ELSE 0)
    <2> HIDE DEF fee, share
    <2> QED BY <1>1, <1>2, <1>5 DEF Mid
<1>13. M.ok <=> L.ok /\ Pays(L.bal, v, t)
    BY <1>5, <1>6, <1>11, <1>12 DEF Pays, fee, share
<1>14. ASSUME M.ok PROVE M.bal = Net(L.bal, v, t)
    <2> DEFINE out == t.amount
               in == Inflow(t)
    <2>1. M.bal \in [Addr -> Nat] /\ L.bal \in [Addr -> Nat]
        BY <1>11 DEF Mid
    <2>2. E.ok /\ F.ok /\ Debit(t) = fee + out /\ Debit(t) \in Nat /\ in \in Nat
        BY <1>1, <1>6, <1>11, <1>14 DEF Debit, Inflow, IsPlain
    <2>3. E.bal = [[[L.bal EXCEPT ![t.from] = @ - fee] EXCEPT ![v] = @ + share]
                        EXCEPT ![t.from] = @ - t.amount]
        BY <1>5, <1>6, <2>2
    <2> HIDE DEF fee, share
    <2>4. \A a \in Addr : E.bal[a] = L.bal[a] - (IF a = t.from THEN Debit(t) ELSE 0)
                                              + (IF a = v THEN share ELSE 0)
        BY <1>1, <1>2, <2>1, <2>2, <2>3
    <2>5. \A a \in Addr : H.bal[a] = E.bal[a] + (IF a = t.to THEN in ELSE 0)
        <3>1. E.bal \in [Addr -> Nat]
            BY <1>6 DEF Mid
        <3>2. CASE t.type = "TRANSFER"
            <4>1. H.bal = [E.bal EXCEPT ![t.to] = @ + t.amount] /\ in = t.amount
                BY <1>7, <1>8, <2>2, <3>2 DEF Inflow
            <4> HIDE DEF in
            <4> QED BY <1>1, <3>1, <4>1
        <3>3. CASE t.type # "TRANSFER"
            <4>1. H.bal = E.bal /\ in = 0
                BY <1>8, <3>3 DEF Inflow
            <4> HIDE DEF in
            <4> QED BY <3>1, <4>1
        <3> QED BY <3>2, <3>3
    <2>6. \A a \in Addr : M.bal[a] = Net(L.bal, v, t)[a]
        BY <1>9, <2>4, <2>5 DEF Net, share
    <2>7. Net(L.bal, v, t) = [a \in Addr |-> Net(L.bal, v, t)[a]]
        BY DEF Net
    <2>8. M.bal = [a \in Addr |-> M.bal[a]]
        BY <2>1
    <2> QED BY <2>6, <2>7, <2>8
<1> QED BY <1>11, <1>13, <1>14 DEF M

\* The funds of t are given back exactly.
LEMMA BackwardTx ==
    ASSUME NEW B \in [Addr -> Nat], NEW v \in Addr, NEW t \in Tx, IsPlain(t),
           NEW M, DOMAIN M = Fields, M.bal = Net(B, v, t)
    PROVE  LET U == UndoFee(UndoFunds(M, t), v, t)
           IN  DOMAIN U = Fields /\ Kept(U, M) /\ U.ok = M.ok /\ U.bal = B
<1> DEFINE fee == TX_FEES[t.type]
           share == Share(t)
           in == Inflow(t)
           F == UndoFunds(M, t)
           G == [F EXCEPT !.bal[v] = @ - share]
           U == UndoFee(F, v, t)
<1>1. /\ fee \in Nat /\ t.from \in Addr /\ t.to \in Addr /\ t.amount \in Nat
      /\ share \in Nat /\ in \in Nat /\ Debit(t) = fee + t.amount
    <2>1. fee \in Nat /\ t.from \in Addr /\ t.to \in Addr /\ t.amount \in Nat
        BY TxType
    <2> QED BY <2>1, FeeParts DEF Share, Inflow, Debit, IsPlain
<1>2. M.bal \in [Addr -> Int]
    <2> HIDE DEF fee, share, in
    <2>1. M.bal = [a \in Addr |-> B[a] - (IF a = t.from THEN Debit(t) ELSE 0)
                                       + (IF a = v THEN share ELSE 0)
                                       + (IF a = t.to THEN in ELSE 0)]
        BY DEF Net, share, in
    <2> QED BY <1>1, <2>1
<1>3. /\ DOMAIN F = Fields /\ Kept(F, M) /\ F.ok = M.ok /\ F.bal \in [Addr -> Int]
      /\ \A a \in Addr : F.bal[a] = M.bal[a] + (IF a = t.from THEN t.amount ELSE 0)
                                             - (IF a = t.to THEN in ELSE 0)
    <2>1. CASE t.type = "TRANSFER"
        <3> DEFINE E == [M EXCEPT !.bal[t.to] = @ - t.amount]
        <3>1. F = [E EXCEPT !.bal[t.from] = @ + t.amount] /\ in = t.amount
            BY <2>1 DEF UndoFunds, _rollback_debit, Inflow
        <3>2. /\ DOMAIN E = Fields /\ Kept(E, M) /\ E.ok = M.ok
              /\ E.bal = [M.bal EXCEPT ![t.to] = @ - t.amount]
            BY DEF Fields, Kept
        <3> HIDE DEF E, F, in
        <3>3. /\ DOMAIN F = Fields /\ Kept(F, E) /\ F.ok = E.ok
              /\ F.bal = [E.bal EXCEPT ![t.from] = @ + t.amount]
            BY <3>1, <3>2 DEF Fields, Kept
        <3>4. E.bal \in [Addr -> Int]
            BY <1>1, <1>2, <3>2
        <3>5. F.bal \in [Addr -> Int]
            BY <1>1, <3>3, <3>4
        <3>6. \A a \in Addr : F.bal[a] = M.bal[a] + (IF a = t.from THEN t.amount ELSE 0)
                                                  - (IF a = t.to THEN t.amount ELSE 0)
            BY <1>1, <1>2, <3>2, <3>3, <3>4
        <3> QED BY <3>1, <3>2, <3>3, <3>5, <3>6 DEF Kept
    <2>2. CASE t.type = "STAKE"
        <3>1. F = [M EXCEPT !.bal[t.from] = @ + t.amount] /\ in = 0
            BY <2>2 DEF UndoFunds, Inflow
        <3> HIDE DEF F, in
        <3>2. /\ DOMAIN F = Fields /\ Kept(F, M) /\ F.ok = M.ok
              /\ F.bal = [M.bal EXCEPT ![t.from] = @ + t.amount]
            BY <3>1 DEF Fields, Kept
        <3>3. F.bal \in [Addr -> Int]
            BY <1>1, <1>2, <3>2
        <3>4. \A a \in Addr : F.bal[a] = M.bal[a] + (IF a = t.from THEN t.amount ELSE 0)
                                                  - (IF a = t.to THEN 0 ELSE 0)
            BY <1>1, <1>2, <3>2
        <3> QED BY <3>1, <3>2, <3>3, <3>4
    <2> QED BY <2>1, <2>2 DEF IsPlain
<1>4. /\ U = [G EXCEPT !.burned = @ - Burn(fee), !.bal[t.from] = @ + fee]
    BY DEF UndoFee, _rollback_debit, share, Share, fee
<1> HIDE DEF F, fee, share, in, U
<1>5. /\ DOMAIN G = Fields /\ Kept(G, F) /\ G.ok = F.ok
      /\ G.bal = [F.bal EXCEPT ![v] = @ - share]
    BY <1>3 DEF Fields, Kept
<1> HIDE DEF G
<1>6. /\ DOMAIN U = Fields /\ Kept(U, G) /\ U.ok = G.ok
      /\ U.bal = [G.bal EXCEPT ![t.from] = @ + fee]
    BY <1>4, <1>5 DEF Fields, Kept
<1>7. G.bal \in [Addr -> Int]
    BY <1>1, <1>3, <1>5
<1>8. U.bal \in [Addr -> Int]
    BY <1>1, <1>6, <1>7
<1>9. ASSUME NEW a \in Addr PROVE U.bal[a] = B[a]
    <2>1. U.bal[a] = F.bal[a] + (IF a = t.from THEN fee ELSE 0) - (IF a = v THEN share ELSE 0)
        BY <1>1, <1>3, <1>5, <1>6, <1>7
    <2>2. M.bal[a] = B[a] - (IF a = t.from THEN Debit(t) ELSE 0)
                          + (IF a = v THEN share ELSE 0)
                          + (IF a = t.to THEN in ELSE 0)
        BY DEF Net, share, in
    <2>3. F.bal[a] = M.bal[a] + (IF a = t.from THEN t.amount ELSE 0)
                              - (IF a = t.to THEN in ELSE 0)
        BY <1>3
    <2>4. B[a] \in Nat
        OBVIOUS
    <2> QED BY <1>1, <2>1, <2>2, <2>3, <2>4
<1>10. U.bal = B
    BY <1>8, <1>9
<1> QED BY <1>3, <1>5, <1>6, <1>10 DEF Kept, U, F

\* Taking a stake back moves no funds.
LEMMA StakeBack ==
    ASSUME NEW t \in Tx, IsPlain(t), NEW M, DOMAIN M = Fields, NEW idx
    PROVE  LET U == UndoStake(M, idx, t)
           IN  DOMAIN U = Fields /\ Kept(U, M) /\ U.ok = M.ok /\ U.bal = M.bal
<1> DEFINE U == UndoStake(M, idx, t)
<1>1. CASE t.type = "TRANSFER"
    BY <1>1 DEF UndoStake, Kept
<1>2. CASE t.type = "STAKE"
    <2>1. U = [M EXCEPT !.stakes[t.to][t.from] = Max({0, @ - t.amount}),
                        !.total[t.to] = Max({0, @ - t.amount})]
        BY <1>2 DEF UndoStake
    <2> QED BY <2>1 DEF Kept, Fields
<1> QED BY <1>1, <1>2 DEF IsPlain

-----------------------------------------------------------------------------
(* Rewards *)

Reward(n) == Halved[n \div HALVING_INTERVAL]

\* What n blocks mint in all, with what genesis gives.
Due(n) == GENESIS_BALANCE + SumFunctionOnSet([i \in 1..MaxHeight |-> Reward(i)], 1..n)

\* A node in its first epoch that sees transfers and stakes only, with the cap out
\* of reach by one reward.
QuietStore ==
    /\ \A t \in Tx : IsPlain(t)
    /\ MaxHeight < EPOCH_LENGTH
    /\ Due(MaxHeight) + INITIAL_BLOCK_REWARD <= MAX_SUPPLY

LEMMA HalvedBound == \A n \in Nat : Halved[n] <= INITIAL_BLOCK_REWARD
<1> DEFINE I == INITIAL_BLOCK_REWARD
           S == {n \in Nat : Halved[n] <= I}
<1>1. I \in Nat /\ Halved \in [Nat -> Nat]
      /\ \A n \in Nat : Halved[n] = IF n = 0 THEN I ELSE Halved[n - 1] \div 2
    BY LedgerAssumption, HalvedType
<1> HIDE DEF I
<1>2. 0 \in S
    BY <1>1
<1>3. ASSUME NEW n \in Nat, n # 0, n - 1 \in S PROVE n \in S
    <2> DEFINE h == Halved[n - 1]
    <2>1. n - 1 \in Nat /\ h \in Nat /\ h <= I /\ Halved[n] = h \div 2
        BY <1>1, <1>3
    <2> HIDE DEF h
    <2>2. h \div 2 <= I
        BY <1>1, <2>1
    <2> QED BY <2>1, <2>2
<1>4. ASSUME NEW N \in Nat PROVE N \in S
    <2>1. \A n \in 1..N : n \in Nat /\ n # 0
        OBVIOUS
    <2>2. N \in 0..N
        OBVIOUS
    <2> HIDE DEF S
    <2> QED BY <1>2, <1>3, <2>1, <2>2, PrefixInduction
<1> QED BY <1>4 DEF I

LEMMA DueFacts ==
    ASSUME QuietStore
    PROVE  /\ \A n \in 0..MaxHeight : Due(n) \in Nat
           /\ \A n \in 1..MaxHeight :
                /\ Reward(n) \in Nat /\ Due(n) = Due(n - 1) + Reward(n)
                /\ Due(n) + Reward(n) <= MAX_SUPPLY
<1> DEFINE f == [i \in 1..MaxHeight |-> Reward(i)]
           Upto(n) == SumFunctionOnSet(f, 1..n)
<1>1. /\ MaxHeight \in Nat /\ GENESIS_BALANCE \in Nat /\ MAX_SUPPLY \in Nat
      /\ INITIAL_BLOCK_REWARD \in Nat /\ HALVING_INTERVAL \in Nat \ {0}
    BY LedgerAssumption, StoreAssumption
<1>2. \A n \in 1..MaxHeight : Reward(n) \in Nat /\ Reward(n) <= INITIAL_BLOCK_REWARD
    <2>1. \A n \in 1..MaxHeight : n \div HALVING_INTERVAL \in Nat
        BY <1>1
    <2> QED BY <2>1, HalvedType, HalvedBound DEF Reward
<1>3. \A i \in 1..MaxHeight : f[i] \in Nat /\ f[i] \in Int /\ f[i] = Reward(i)
    BY <1>2
<1>4. IsFiniteSet(1..MaxHeight)
    BY <1>1, FS_Interval
<1> HIDE DEF f
<1>5. ASSUME NEW n \in 0..MaxHeight PROVE Upto(n) \in Nat /\ Upto(n) <= Upto(MaxHeight)
    <2>1. 1..n \in SUBSET (1..MaxHeight)
        BY <1>1
    <2>2. IsFiniteSet(1..n) /\ \A i \in 1..n : f[i] \in Nat
        BY <1>3, <1>4, <2>1, FS_Subset
    <2>3. Upto(n) \in Nat
        BY <2>2, SumNat
    <2>4. Upto(n) <= Upto(MaxHeight)
        BY <1>3, <1>4, <2>1, SumSubset
    <2> QED BY <2>3, <2>4
<1>6. ASSUME NEW n \in 1..MaxHeight PROVE Upto(n) = Upto(n - 1) + Reward(n)
    <2>1. n \in 1..n /\ 1..n \subseteq 1..MaxHeight /\ (1..n) \ {n} = 1..(n - 1) /\ n - 1 \in 0..MaxHeight
        BY <1>1
    <2>2. IsFiniteSet(1..n) /\ \A i \in 1..n : f[i] \in Int
        BY <1>3, <1>4, <2>1, FS_Subset
    <2>3. Upto(n) = f[n] + SumFunctionOnSet(f, (1..n) \ {n})
        BY <2>1, <2>2, SumRemove
    <2>4. Upto(n) = f[n] + Upto(n - 1)
        BY <2>1, <2>3
    <2>5. f[n] = Reward(n) /\ f[n] \in Nat /\ Upto(n - 1) \in Nat
        BY <1>3, <1>5, <2>1
    <2> HIDE DEF Upto
    <2> QED BY <2>4, <2>5
<1>7. \A n : Due(n) = GENESIS_BALANCE + Upto(n)
    BY DEF Due, f
<1>8. Due(MaxHeight) + INITIAL_BLOCK_REWARD <= MAX_SUPPLY
    BY DEF QuietStore
<1> HIDE DEF Upto
<1>9. ASSUME NEW n \in 1..MaxHeight
      PROVE  Due(n) = Due(n - 1) + Reward(n) /\ Due(n) + Reward(n) <= MAX_SUPPLY
    <2>1. n \in 0..MaxHeight /\ n - 1 \in 0..MaxHeight /\ MaxHeight \in 0..MaxHeight
        BY <1>1
    <2>2. Upto(n) \in Nat /\ Upto(n - 1) \in Nat /\ Upto(MaxHeight) \in Nat /\ Upto(n) <= Upto(MaxHeight)
        BY <1>5, <2>1
    <2> QED BY <1>1, <1>2, <1>6, <1>7, <1>8, <2>2
<1>10. \A n \in 0..MaxHeight : Due(n) \in Nat
    BY <1>1, <1>5, <1>7
<1> QED BY <1>2, <1>9, <1>10

\* The reward where the cap does not cut it.
LEMMA FullReward ==
    ASSUME NEW L, L.minted \in Int, NEW idx \in Nat,
           L.minted + Halved[idx \div HALVING_INTERVAL] <= MAX_SUPPLY
    PROVE  /\ _calc_block_reward(L, idx) = Halved[idx \div HALVING_INTERVAL]
           /\ Halved[idx \div HALVING_INTERVAL] \in Nat
<1> DEFINE h == Halved[idx \div HALVING_INTERVAL]
           rest == MAX_SUPPLY - L.minted
<1>1. MAX_SUPPLY \in Nat /\ HALVING_INTERVAL \in Nat \ {0}
    BY LedgerAssumption
<1>2. idx \div HALVING_INTERVAL \in Nat
    BY <1>1
<1>3. h \in Nat
    BY <1>2, HalvedType
<1>4. _calc_block_reward(L, idx) = Min({h, Max({0, rest})})
    BY DEF _calc_block_reward
<1>5. L.minted + h <= MAX_SUPPLY
    OBVIOUS
<1> HIDE DEF h
<1>6. rest \in Int /\ 0 <= rest /\ h <= rest
    BY <1>1, <1>3, <1>5
<1> HIDE DEF rest
<1>7. Max({0, rest}) = rest
    <2>1. 0 \in Int /\ rest \in Int
        BY <1>6
    <2>2. Max({0, rest}) = (IF 0 <= rest THEN rest ELSE 0)
        BY <2>1, MinMaxPair
    <2> QED BY <1>6, <2>2
<1>8. Min({h, rest}) = h
    BY <1>3, <1>6, MinMaxPair
<1> QED BY <1>3, <1>4, <1>7, <1>8 DEF h

\* The reward of a block, and the same taken back: a node that minted no more than
\* is due is below the cap.
LEMMA RewardIs ==
    ASSUME QuietStore, NEW L, L.minted \in Int, NEW idx \in 1..MaxHeight,
           L.minted <= Due(idx)
    PROVE  _calc_block_reward(L, idx) = Reward(idx) /\ Reward(idx) \in Nat
<1>1. Reward(idx) \in Nat /\ Due(idx) + Reward(idx) <= MAX_SUPPLY
    BY DueFacts
<1>2. Due(idx) \in Nat /\ idx \in Nat /\ MAX_SUPPLY \in Nat
    <2>1. MaxHeight \in Nat /\ MAX_SUPPLY \in Nat
        BY LedgerAssumption, StoreAssumption
    <2>2. idx \in 0..MaxHeight
        BY <2>1
    <2> QED BY <2>1, <2>2, DueFacts
<1>3. L.minted + Reward(idx) <= MAX_SUPPLY
    BY <1>1, <1>2
<1> QED BY <1>1, <1>2, <1>3, FullReward DEF Reward

-----------------------------------------------------------------------------
(* A block, forwards *)

\* The ledger of a node with n blocks.
Formed(L, n) ==
    /\ Mid(L) /\ L.ok
    /\ L.unbonding = <<>> /\ L.epoch = 0 /\ L.frozen = {}
    /\ L.minted \in Int /\ L.minted <= Due(n)

Begun(L, idx) == _check_epoch_transition(_process_mature_unbondings(L, idx), idx)

\* Nothing matures and no epoch begins.
LEMMA BegunIs ==
    ASSUME QuietStore, NEW L, Mid(L), L.unbonding = <<>>, L.epoch = 0,
           NEW idx \in 1..MaxHeight
    PROVE  LET M == Begun(L, idx)
           IN  Mid(M) /\ Kept(M, L) /\ M.ok = L.ok /\ M.bal = L.bal
<1> DEFINE P == _process_mature_unbondings(L, idx)
           mature == {i \in 1..Len(L.unbonding) : L.unbonding[i].release <= idx}
           due(a) == SumFunction([i \in {j \in mature : L.unbonding[j].staker = a} |->
                                    L.unbonding[i].amount])
           new == [a \in Addr |-> L.bal[a] + due(a)]
           left == Select(L.unbonding, (1..Len(L.unbonding)) \ mature)
<1>1. P = [L EXCEPT !.bal = new, !.unbonding = left]
    BY DEF _process_mature_unbondings, Mid
<1>2. 1..Len(L.unbonding) = {} /\ mature = {}
    OBVIOUS
<1>3. ASSUME NEW a \in Addr PROVE due(a) = 0
    <2> DEFINE D == {j \in mature : L.unbonding[j].staker = a}
               f == [i \in D |-> L.unbonding[i].amount]
    <2>1. D = {} /\ DOMAIN f = D
        BY <1>2
    <2>2. SumFunction(f) = SumFunctionOnSet(f, DOMAIN f)
        BY DEF SumFunction, SumFunctionOnSet, FoldFunction
    <2>3. SumFunctionOnSet(f, {}) = 0
        BY SumEmpty
    <2>4. due(a) = SumFunction(f)
        OBVIOUS
    <2> HIDE DEF f, D, due
    <2> QED BY <2>1, <2>2, <2>3, <2>4
<1>4. new = L.bal
    <2>1. \A a \in Addr : L.bal[a] + due(a) = L.bal[a]
        <3> HIDE DEF due
        <3> QED BY <1>3 DEF Mid
    <2> HIDE DEF due
    <2> QED BY <2>1 DEF Mid
<1>5. left = <<>>
    <2>1. left = Select(L.unbonding, {})
        BY <1>2
    <2>2. Cardinality({}) = 0
        BY FS_EmptySet
    <2>3. Select(L.unbonding, {}) = <<>>
        BY <2>2 DEF Select
    <2> QED BY <2>1, <2>3
<1> HIDE DEF P, new, left
<1>6. Mid(P) /\ Kept(P, L) /\ P.ok = L.ok /\ P.bal = L.bal
    BY <1>1, <1>4, <1>5 DEF Mid, Kept, Fields
<1>7. idx \div EPOCH_LENGTH = 0
    <2>1. EPOCH_LENGTH \in Nat \ {0} /\ MaxHeight \in Nat /\ MaxHeight < EPOCH_LENGTH
        BY LedgerAssumption, StoreAssumption DEF QuietStore
    <2>2. idx \in Nat /\ idx < EPOCH_LENGTH
        BY <2>1
    <2> QED BY <2>1, <2>2
<1>8. Begun(L, idx) = P
    <2>1. P.epoch = 0
        BY <1>6 DEF Kept
    <2> QED BY <1>7, <2>1 DEF Begun, _check_epoch_transition, P
<1> QED BY <1>6, <1>8

Block == [validator : Validator, txs : Seq(Tx),
          root : SUBSET (UNION {[D -> Int] : D \in SUBSET Addr})]

\* The ledgers between the transactions of a block.
LEMMA AfterMid ==
    ASSUME QuietStore, NEW L, Mid(L), NEW v \in Addr, NEW idx, NEW txs \in Seq(Tx)
    PROVE  LET A == AfterTxs(L, v, idx, txs)
           IN  \A n \in 0..Len(txs) :
                  /\ Mid(A[n]) /\ Kept(A[n], L)
                  /\ n > 0 => (A[n].ok => A[n - 1].ok /\ A[n].bal = Net(A[n - 1].bal, v, txs[n]))
<1> DEFINE A == AfterTxs(L, v, idx, txs)
           N == Len(txs)
           Q(n) == /\ Mid(A[n]) /\ Kept(A[n], L)
                   /\ n > 0 => (A[n].ok => A[n - 1].ok /\ A[n].bal = Net(A[n - 1].bal, v, txs[n]))
           S == {n \in 0..N : Q(n)}
<1>1. N \in Nat
    BY LenProperties
<1>2. A[0] = L /\ \A n \in 1..N : A[n] = ApplyTx(A[n - 1], v, idx, txs[n])
    BY <1>1, AfterTxsIs
<1>3. \A n \in 1..N : txs[n] \in Tx /\ IsPlain(txs[n])
    BY ElementOfSeq DEF QuietStore
<1> HIDE DEF A, N
<1>4. 0 \in S
    BY <1>1, <1>2 DEF Kept
<1>5. ASSUME NEW n \in 1..N, n - 1 \in S PROVE n \in S
    <2>1. Mid(A[n - 1]) /\ Kept(A[n - 1], L)
        BY <1>5
    <2>2. /\ Mid(A[n]) /\ Kept(A[n], A[n - 1])
          /\ A[n].ok => A[n - 1].ok /\ A[n].bal = Net(A[n - 1].bal, v, txs[n])
        BY <1>2, <1>3, <2>1, ForwardTx
    <2>3. n \in 0..N
        BY <1>1
    <2> QED BY <2>1, <2>2, <2>3 DEF Kept
<1>6. \A n \in 0..N : n \in S
    <2> HIDE DEF S
    <2> QED BY <1>1, <1>4, <1>5, PrefixInduction
<1> QED BY <1>6 DEF A, N

\* Ledgers with the same funds have the same funds after the same transactions.
LEMMA SameFunds ==
    ASSUME QuietStore, NEW L, Mid(L), NEW K, Mid(K), L.ok = K.ok, L.bal = K.bal,
           NEW v \in Addr, NEW idx, NEW txs \in Seq(Tx)
    PROVE  LET A == AfterTxs(L, v, idx, txs)[Len(txs)]
               C == AfterTxs(K, v, idx, txs)[Len(txs)]
           IN  A.ok = C.ok /\ (A.ok => A.bal = C.bal)
<1> DEFINE A == AfterTxs(L, v, idx, txs)
           C == AfterTxs(K, v, idx, txs)
           N == Len(txs)
           S == {n \in 0..N : A[n].ok = C[n].ok /\ (A[n].ok => A[n].bal = C[n].bal)}
<1>1. N \in Nat
    BY LenProperties
<1>2. /\ A[0] = L /\ \A n \in 1..N : A[n] = ApplyTx(A[n - 1], v, idx, txs[n])
      /\ C[0] = K /\ \A n \in 1..N : C[n] = ApplyTx(C[n - 1], v, idx, txs[n])
    BY <1>1, AfterTxsIs
<1>3. \A n \in 1..N : txs[n] \in Tx /\ IsPlain(txs[n])
    BY ElementOfSeq DEF QuietStore
<1>4. \A n \in 0..N : Mid(A[n]) /\ Mid(C[n])
    BY AfterMid
<1> HIDE DEF A, C, N
<1>5. 0 \in S
    BY <1>1, <1>2
<1>6. ASSUME NEW n \in 1..N, n - 1 \in S PROVE n \in S
    <2>1. n \in 0..N /\ n - 1 \in 0..N
        BY <1>1
    <2>2. /\ A[n].ok <=> A[n - 1].ok /\ Pays(A[n - 1].bal, v, txs[n])
          /\ A[n].ok => A[n].bal = Net(A[n - 1].bal, v, txs[n])
        BY <1>2, <1>3, <1>4, <2>1, ForwardTx
    <2>3. /\ C[n].ok <=> C[n - 1].ok /\ Pays(C[n - 1].bal, v, txs[n])
          /\ C[n].ok => C[n].bal = Net(C[n - 1].bal, v, txs[n])
        BY <1>2, <1>3, <1>4, <2>1, ForwardTx
    <2>4. A[n].ok \in BOOLEAN /\ C[n].ok \in BOOLEAN
        BY <1>4, <2>1 DEF Mid
    <2>5. A[n - 1].ok = C[n - 1].ok /\ (A[n - 1].ok => A[n - 1].bal = C[n - 1].bal)
        BY <1>6
    <2>6. A[n].ok <=> C[n].ok
        BY <2>2, <2>3, <2>5
    <2>7. A[n].ok = C[n].ok
        BY <2>4, <2>6
    <2> QED BY <2>1, <2>2, <2>3, <2>5, <2>6, <2>7
<1>7. \A n \in 0..N : n \in S
    <2> HIDE DEF S
    <2> QED BY <1>1, <1>5, <1>6, PrefixInduction
<1>8. N \in 0..N
    BY <1>1
<1> QED BY <1>7, <1>8 DEF A, C, N

\* What a block does to the balances B, whatever else the ledger holds.
Bare(B) == [Genesis EXCEPT !.bal = B]

Run(B, b, idx) == AfterTxs(Bare(B), b.validator, idx, b.txs)

OkAfter(B, b, idx) == Run(B, b, idx)[Len(b.txs)].ok

After(B, b, idx) == [Run(B, b, idx)[Len(b.txs)].bal EXCEPT ![b.validator] = @ + Reward(idx)]

LEMMA BareMid ==
    ASSUME NEW B \in [Addr -> Nat]
    PROVE  Mid(Bare(B)) /\ Bare(B).ok = TRUE /\ Bare(B).bal = B
BY DEF Bare, Mid, Genesis, Fields

LEMMA BlockParts ==
    ASSUME NEW b \in Block
    PROVE  b.validator \in Addr /\ b.validator \in Validator /\ b.txs \in Seq(Tx) /\ Len(b.txs) \in Nat
<1>1. b.validator \in Validator /\ b.txs \in Seq(Tx)
    BY DEF Block
<1> QED BY <1>1, LedgerAssumption, LenProperties

LEMMA AfterType ==
    ASSUME QuietStore, NEW B \in [Addr -> Nat], NEW b \in Block, NEW idx \in 1..MaxHeight
    PROVE  After(B, b, idx) \in [Addr -> Nat]
<1> DEFINE C == Run(B, b, idx)[Len(b.txs)]
<1>1. b.validator \in Addr /\ b.txs \in Seq(Tx) /\ Len(b.txs) \in 0..Len(b.txs)
    BY BlockParts
<1>2. Mid(C)
    BY <1>1, BareMid, AfterMid DEF Run
<1>3. C.bal \in [Addr -> Nat] /\ Reward(idx) \in Nat
    BY <1>2, DueFacts DEF Mid
<1> HIDE DEF C
<1>4. [C.bal EXCEPT ![b.validator] = @ + Reward(idx)] \in [Addr -> Nat]
    BY <1>1, <1>3
<1> QED BY <1>4 DEF After, C

\* Before block idx, and after it.
LEMMA AppliedIs ==
    ASSUME QuietStore, NEW idx \in 1..MaxHeight, NEW L, Formed(L, idx - 1), NEW b \in Block
    PROVE  LET M == Applied(L, b, idx)
           IN  /\ M.ok <=> OkAfter(L.bal, b, idx)
               /\ M.ok => Formed(M, idx) /\ M.bal = After(L.bal, b, idx)
<1> DEFINE v == b.validator
           P == Begun(L, idx)
           N == AfterTxs(P, v, idx, b.txs)[Len(b.txs)]
           C == Run(L.bal, b, idx)[Len(b.txs)]
           r == _calc_block_reward(N, idx)
           M == Applied(L, b, idx)
<1>1. v \in Addr /\ b.txs \in Seq(Tx) /\ Len(b.txs) \in 0..Len(b.txs)
    BY BlockParts
<1>2. Mid(P) /\ Kept(P, L) /\ P.ok = L.ok /\ P.bal = L.bal /\ L.ok = TRUE /\ L.bal \in [Addr -> Nat]
    <2>1. Mid(L) /\ L.unbonding = <<>> /\ L.epoch = 0 /\ L.ok = TRUE
        BY DEF Formed, Mid
    <2> QED BY <2>1, BegunIs DEF Mid
<1> HIDE DEF P
<1>3. Mid(N) /\ Kept(N, P)
    BY <1>1, <1>2, AfterMid
<1>4. N.ok = C.ok /\ (N.ok => N.bal = C.bal)
    <2>1. Mid(Bare(L.bal)) /\ Bare(L.bal).ok = P.ok /\ Bare(L.bal).bal = P.bal
        BY <1>2, BareMid
    <2> QED BY <1>1, <1>2, <2>1, SameFunds DEF Run
<1>5. M = PayReward(N, v, idx)
    BY DEF Applied, N, P, Begun
<1> HIDE DEF N, C, M
<1>6. /\ N.unbonding = <<>> /\ N.epoch = 0 /\ N.frozen = {}
      /\ N.minted \in Int /\ N.minted <= Due(idx - 1)
    BY <1>2, <1>3 DEF Kept, Formed
<1>7. Reward(idx) \in Nat /\ Due(idx) = Due(idx - 1) + Reward(idx) /\ Due(idx - 1) \in Nat
    <2>1. idx - 1 \in 0..MaxHeight
        BY StoreAssumption
    <2> QED BY <2>1, DueFacts
<1>8. r = Reward(idx)
    <2>1. N.minted <= Due(idx)
        BY <1>6, <1>7
    <2> QED BY <1>6, <2>1, RewardIs
<1> HIDE DEF r
<1>9. CASE N.ok
    <2>1. M = [N EXCEPT !.bal[v] = @ + r, !.minted = @ + r, !.rewards[v] = @ + r]
        BY <1>5, <1>9 DEF PayReward, r
    <2>2. /\ DOMAIN M = Fields /\ M.ok = N.ok /\ M.unbonding = N.unbonding /\ M.epoch = N.epoch
          /\ M.frozen = N.frozen /\ M.minted = N.minted + r /\ M.bal = [N.bal EXCEPT ![v] = @ + r]
        BY <1>3, <2>1 DEF Mid, Fields
    <2>3. M.bal \in [Addr -> Nat]
        BY <1>1, <1>3, <1>7, <1>8, <2>2 DEF Mid
    <2>4. M.minted \in Int /\ M.minted <= Due(idx)
        BY <1>6, <1>7, <1>8, <2>2
    <2>5. Formed(M, idx)
        BY <1>3, <1>6, <1>9, <2>2, <2>3, <2>4 DEF Formed, Mid
    <2>6. M.bal = After(L.bal, b, idx)
        BY <1>4, <1>8, <1>9, <2>2 DEF After, C
    <2> QED BY <1>4, <1>9, <2>2, <2>5, <2>6 DEF OkAfter, C, M
<1>10. CASE ~ N.ok
    <2>1. M = N
        BY <1>5, <1>10 DEF PayReward
    <2> QED BY <1>4, <1>10, <2>1 DEF OkAfter, C, M
<1> QED BY <1>9, <1>10

LEMMA PruneIs ==
    ASSUME NEW L, NEW n, Formed(L, n), NEW idx
    PROVE  LET M == PruneDistributions(L, idx)
           IN  Formed(M, n) /\ M.bal = L.bal /\ M.minted = L.minted /\ M.burned = L.burned
<1> DEFINE M == PruneDistributions(L, idx)
           d == [e \in {x \in DOMAIN L.dists : x >= idx - MAX_REORG_DEPTH - 1} |-> L.dists[e]]
<1>1. M = L \/ M = [L EXCEPT !.dists = d]
    BY DEF PruneDistributions, Formed, Mid, Fields
<1> HIDE DEF d, M
<1>2. /\ DOMAIN M = Fields /\ M.ok = L.ok /\ M.bal = L.bal /\ M.unbonding = L.unbonding
      /\ M.epoch = L.epoch /\ M.frozen = L.frozen /\ M.minted = L.minted /\ M.burned = L.burned
    BY <1>1 DEF Formed, Mid, Fields
<1> QED BY <1>2 DEF Formed, Mid, M

\* The ledgers A between the transactions of a block that starts from B.
Passes(A, B, v, txs) ==
    /\ A[0].ok = TRUE /\ A[0].bal = B
    /\ \A n \in 0..Len(txs) :
         /\ Mid(A[n])
         /\ n > 0 => (A[n].ok => A[n - 1].ok /\ A[n].bal = Net(A[n - 1].bal, v, txs[n]))

LEMMA RunMid ==
    ASSUME QuietStore, NEW B \in [Addr -> Nat], NEW b \in Block, NEW idx
    PROVE  Passes(Run(B, b, idx), B, b.validator, b.txs)
<1> DEFINE L == Bare(B)
           A == Run(B, b, idx)
           txs == b.txs
           v == b.validator
<1>1. v \in Addr /\ txs \in Seq(Tx) /\ Len(txs) \in Nat
    BY BlockParts
<1>2. Mid(L) /\ L.ok = TRUE /\ L.bal = B
    BY BareMid
<1>5. A = AfterTxs(L, v, idx, txs)
    BY DEF Run
<1> HIDE DEF L, A, txs, v
<1>3. A[0] = L
    BY <1>1, <1>5, AfterTxsIs
<1>4. \A n \in 0..Len(txs) :
        /\ Mid(A[n])
        /\ n > 0 => (A[n].ok => A[n - 1].ok /\ A[n].bal = Net(A[n - 1].bal, v, txs[n]))
    BY <1>1, <1>2, <1>5, AfterMid
<1>6. Passes(A, B, v, txs)
    BY <1>2, <1>3, <1>4 DEF Passes
<1> QED BY <1>6 DEF A, txs, v

\* The accounts that a block may touch.
Touched(b) ==
    {b.validator} \cup {b.txs[n].from : n \in 1..Len(b.txs)}
        \cup {b.txs[n].to : n \in {m \in 1..Len(b.txs) : b.txs[m].type = "TRANSFER"}}

LEMMA UntouchedSame ==
    ASSUME QuietStore, NEW B \in [Addr -> Nat], NEW b \in Block, NEW idx \in 1..MaxHeight,
           OkAfter(B, b, idx), NEW a \in Addr, a \notin Touched(b)
    PROVE  After(B, b, idx)[a] = B[a]
<1> DEFINE A == Run(B, b, idx)
           N == Len(b.txs)
           txs == b.txs
           v == b.validator
           S == {n \in 0..N : A[n].ok => A[n].bal[a] = B[a]}
<1>1. b.validator \in Addr /\ b.txs \in Seq(Tx) /\ N \in Nat
    BY BlockParts
<1>20. Passes(A, B, v, txs)
    BY RunMid
<1>2. A[0].bal = B
    BY ONLY <1>20 DEF Passes
<1>3. \A n \in 0..N :
        /\ Mid(A[n])
        /\ n > 0 => (A[n].ok => A[n - 1].ok /\ A[n].bal = Net(A[n - 1].bal, v, txs[n]))
    <2>1. N = Len(txs)
        OBVIOUS
    <2> HIDE DEF A, N, txs, v
    <2> QED BY ONLY <1>20, <2>1 DEF Passes
<1> HIDE DEF A, N
<1>4. 0 \in S
    BY <1>1, <1>2
<1>5. ASSUME NEW n \in 1..N, n - 1 \in S PROVE n \in S
    <2> DEFINE t == b.txs[n]
    <2>1. n \in 0..N /\ n - 1 \in 0..N /\ n > 0
        BY <1>1
    <2>2. SUFFICES ASSUME A[n].ok PROVE A[n].bal[a] = B[a]
        BY <2>1
    <2>3. A[n - 1].bal[a] = B[a] /\ A[n].bal = Net(A[n - 1].bal, b.validator, t)
        BY <1>3, <1>5, <2>1, <2>2
    <2>4. a # b.validator /\ a # t.from /\ (t.type = "TRANSFER" => a # t.to)
        BY DEF Touched, N
    <2>5. t \in Tx
        BY <1>1, ElementOfSeq DEF N
    <2>6. A[n].bal[a] = A[n - 1].bal[a] - 0 + 0 + (IF a = t.to THEN Inflow(t) ELSE 0)
        BY <2>3, <2>4 DEF Net
    <2>7. (IF a = t.to THEN Inflow(t) ELSE 0) = 0
        BY <2>4 DEF Inflow
    <2> QED BY <2>3, <2>6, <2>7
<1>6. \A n \in 0..N : n \in S
    <2> HIDE DEF S
    <2> QED BY <1>1, <1>4, <1>5, PrefixInduction
<1>7. N \in 0..N
    BY <1>1
<1>8. A[N].ok /\ A[N].bal[a] = B[a] /\ A[N].bal \in [Addr -> Nat]
    BY <1>3, <1>6, <1>7 DEF OkAfter, A, N, Mid
<1>9. a # b.validator
    BY DEF Touched
<1>10. After(B, b, idx) = [A[N].bal EXCEPT ![b.validator] = @ + Reward(idx)]
    BY DEF After, A, N
<1> QED BY <1>8, <1>9, <1>10

-----------------------------------------------------------------------------
(* A block, backwards *)

\* The funds of a block taken back, from the last transaction to the first.
LEMMA FundsBack ==
    ASSUME QuietStore, NEW B \in [Addr -> Nat], NEW b \in Block, NEW idx, OkAfter(B, b, idx),
           NEW K, DOMAIN K = Fields, K.bal = Run(B, b, idx)[Len(b.txs)].bal
    PROVE  LET U == FundsUndone(K, b.validator, b.txs)[Len(b.txs)]
           IN  DOMAIN U = Fields /\ Kept(U, K) /\ U.ok = K.ok /\ U.bal = B
<1> DEFINE A == Run(B, b, idx)
           U == FundsUndone(K, b.validator, b.txs)
           N == Len(b.txs)
           v == b.validator
           txs == b.txs
           Q(n) == /\ A[N - n].ok
                   /\ DOMAIN U[n] = Fields /\ Kept(U[n], K) /\ U[n].ok = K.ok
                   /\ U[n].bal = A[N - n].bal
           S == {n \in 0..N : Q(n)}
<1>1. v \in Addr /\ b.txs \in Seq(Tx) /\ N \in Nat
    BY BlockParts
<1>20. Passes(A, B, v, txs)
    BY RunMid
<1>2. A[0].bal = B
    BY ONLY <1>20 DEF Passes
<1>3. \A n \in 0..N :
        /\ Mid(A[n])
        /\ n > 0 => (A[n].ok => A[n - 1].ok /\ A[n].bal = Net(A[n - 1].bal, v, txs[n]))
    <2>1. N = Len(txs)
        OBVIOUS
    <2> HIDE DEF A, N, txs, v
    <2> QED BY ONLY <1>20, <2>1 DEF Passes
<1>4. /\ U[0] = K
      /\ \A n \in 1..N : U[n] = UndoFee(UndoFunds(U[n - 1], b.txs[N + 1 - n]), v, b.txs[N + 1 - n])
    BY <1>1, FundsUndoneIs
<1>5. \A n \in 1..N : b.txs[n] \in Tx /\ IsPlain(b.txs[n])
    BY <1>1, ElementOfSeq DEF QuietStore
<1>6. A[N].ok /\ K.bal = A[N].bal
    BY DEF OkAfter
<1> HIDE DEF A, U, N, v
<1>7. 0 \in S
    <2>1. N - 0 = N /\ 0 \in 0..N
        BY <1>1
    <2> QED BY <1>4, <1>6, <2>1 DEF Kept
<1>8. ASSUME NEW n \in 1..N, n - 1 \in S PROVE n \in S
    <2> DEFINE k == N + 1 - n
    <2>1. k \in 1..N /\ k \in 0..N /\ k - 1 \in 0..N /\ N - (n - 1) = k /\ N - n = k - 1 /\ k > 0 /\ n \in 0..N
        BY <1>1
    <2>2. /\ A[k].ok /\ DOMAIN U[n - 1] = Fields /\ Kept(U[n - 1], K) /\ U[n - 1].ok = K.ok
          /\ U[n - 1].bal = A[k].bal
        BY <1>8, <2>1
    <2> HIDE DEF k
    <2>3. A[k - 1].ok /\ A[k].bal = Net(A[k - 1].bal, v, b.txs[k]) /\ A[k - 1].bal \in [Addr -> Nat]
        BY <1>3, <2>1, <2>2 DEF Mid
    <2>4. U[n] = UndoFee(UndoFunds(U[n - 1], b.txs[k]), v, b.txs[k])
        BY <1>4 DEF k
    <2>5. U[n - 1].bal = Net(A[k - 1].bal, v, b.txs[k]) /\ b.txs[k] \in Tx /\ IsPlain(b.txs[k])
        BY <1>5, <2>1, <2>2, <2>3
    <2>6. /\ DOMAIN U[n] = Fields /\ Kept(U[n], U[n - 1]) /\ U[n].ok = U[n - 1].ok
          /\ U[n].bal = A[k - 1].bal
        <3> DEFINE W == U[n - 1]
                   C == A[k - 1].bal
                   t == b.txs[k]
        <3>1. /\ C \in [Addr -> Nat] /\ t \in Tx /\ IsPlain(t) /\ DOMAIN W = Fields
              /\ W.bal = Net(C, v, t) /\ U[n] = UndoFee(UndoFunds(W, t), v, t)
            BY <2>2, <2>3, <2>4, <2>5
        <3> HIDE DEF W, C, t
        <3>2. DOMAIN U[n] = Fields /\ Kept(U[n], W) /\ U[n].ok = W.ok /\ U[n].bal = C
            BY <1>1, <3>1, BackwardTx
        <3> QED BY <3>2 DEF W, C
    <2> QED BY <2>1, <2>2, <2>3, <2>6 DEF Kept
<1>9. \A n \in 0..N : n \in S
    <2> HIDE DEF S
    <2> QED BY <1>1, <1>7, <1>8, PrefixInduction
<1>10. N \in 0..N /\ N - N = 0
    BY <1>1
<1>11. U[N].bal = B /\ DOMAIN U[N] = Fields /\ Kept(U[N], K) /\ U[N].ok = K.ok
    BY <1>2, <1>9, <1>10
<1> QED BY <1>11 DEF U, N, v

LEMMA StakesBack ==
    ASSUME QuietStore, NEW txs \in Seq(Tx), NEW idx, NEW K, DOMAIN K = Fields
    PROVE  LET U == StakesUndone(K, idx, txs)[Len(txs)]
           IN  DOMAIN U = Fields /\ Kept(U, K) /\ U.ok = K.ok /\ U.bal = K.bal
<1> DEFINE U == StakesUndone(K, idx, txs)
           N == Len(txs)
           Q(n) == DOMAIN U[n] = Fields /\ Kept(U[n], K) /\ U[n].ok = K.ok /\ U[n].bal = K.bal
           S == {n \in 0..N : Q(n)}
<1>1. N \in Nat
    BY LenProperties
<1>2. U[0] = K /\ \A n \in 1..N : U[n] = UndoStake(U[n - 1], idx, txs[n])
    BY <1>1, StakesUndoneIs
<1>3. \A n \in 1..N : txs[n] \in Tx /\ IsPlain(txs[n])
    BY ElementOfSeq DEF QuietStore
<1> HIDE DEF U, N
<1>4. 0 \in S
    BY <1>1, <1>2 DEF Kept
<1>5. ASSUME NEW n \in 1..N, n - 1 \in S PROVE n \in S
    <2>1. Q(n - 1) /\ n \in 0..N
        BY <1>1, <1>5
    <2>2. /\ DOMAIN U[n] = Fields /\ Kept(U[n], U[n - 1]) /\ U[n].ok = U[n - 1].ok
          /\ U[n].bal = U[n - 1].bal
        BY <1>2, <1>3, <2>1, StakeBack
    <2> QED BY <2>1, <2>2 DEF Kept
<1>6. \A n \in 0..N : n \in S
    <2> HIDE DEF S
    <2> QED BY <1>1, <1>4, <1>5, PrefixInduction
<1>7. N \in 0..N
    BY <1>1
<1> QED BY <1>6, <1>7 DEF U, N

\* Block idx taken back from a ledger with the balances that it left.
LEMMA RolledIs ==
    ASSUME QuietStore, NEW idx \in 1..MaxHeight, NEW b \in Block, NEW B \in [Addr -> Nat],
           OkAfter(B, b, idx), NEW M, Formed(M, idx), M.bal = After(B, b, idx)
    PROVE  LET R == _rollback_block(M, b, idx) IN Formed(R, idx - 1) /\ R.bal = B
<1> DEFINE v == b.validator
           r == _calc_block_reward(M, idx)
           last == Run(B, b, idx)[Len(b.txs)].bal
           K == UndoReward(M, v, idx)
           F == FundsUndone(K, v, b.txs)[Len(b.txs)]
           T == StakesUndone(F, idx, b.txs)[Len(b.txs)]
           R == _rollback_block(M, b, idx)
<1>1. v \in Addr /\ b.txs \in Seq(Tx) /\ Len(b.txs) \in 0..Len(b.txs)
    BY BlockParts
<1>2. r = Reward(idx) /\ Reward(idx) \in Nat
    BY RewardIs DEF Formed
<1>3. last \in [Addr -> Nat]
    BY <1>1, BareMid, AfterMid DEF Run, Mid
<1>4. K = [[M EXCEPT !.bal[v] = @ - r] EXCEPT !.minted = @ - r, !.rewards[v] = Max({0, @ - r})]
    BY DEF UndoReward, _rollback_debit
<1>5. M.bal = [last EXCEPT ![v] = @ + Reward(idx)]
    BY DEF After
<1> HIDE DEF r, last, K
<1>6. /\ DOMAIN K = Fields /\ K.ok = M.ok /\ K.unbonding = M.unbonding /\ K.epoch = M.epoch
      /\ K.frozen = M.frozen /\ K.minted = M.minted - r /\ K.bal = [M.bal EXCEPT ![v] = @ - r]
    BY <1>4 DEF Formed, Mid, Fields
<1>7. K.bal = last
    <2>1. \A a \in Addr : K.bal[a] = last[a]
        BY <1>1, <1>2, <1>3, <1>5, <1>6
    <2>2. K.bal = [a \in Addr |-> K.bal[a]] /\ last = [a \in Addr |-> last[a]]
        BY <1>3, <1>5, <1>6
    <2> QED BY <2>1, <2>2
<1>8. DOMAIN F = Fields /\ Kept(F, K) /\ F.ok = K.ok /\ F.bal = B
    BY <1>6, <1>7, FundsBack DEF last
<1> HIDE DEF F
<1>9. DOMAIN T = Fields /\ Kept(T, F) /\ T.ok = F.ok /\ T.bal = F.bal
    BY <1>1, <1>8, StakesBack
<1>10. R = T
    <2>1. idx % EPOCH_LENGTH # 0
        <3>1. EPOCH_LENGTH \in Nat \ {0} /\ MaxHeight \in Nat /\ MaxHeight < EPOCH_LENGTH
            BY LedgerAssumption, StoreAssumption DEF QuietStore
        <3>2. idx \in Nat /\ 0 < idx /\ idx < EPOCH_LENGTH
            BY <3>1
        <3> QED BY <3>1, <3>2
    <2>2. R = UndoEpoch(T, idx)
        BY DEF _rollback_block, T, F, K
    <2> HIDE DEF T, R
    <2> QED BY <2>1, <2>2 DEF UndoEpoch
<1> HIDE DEF T, R
<1>11. R.minted \in Int /\ R.minted <= Due(idx - 1)
    <2>1. Due(idx) = Due(idx - 1) + Reward(idx) /\ Due(idx - 1) \in Nat
        <3>1. idx - 1 \in 0..MaxHeight
            BY StoreAssumption
        <3> QED BY <3>1, DueFacts
    <2>2. R.minted = M.minted - Reward(idx) /\ M.minted \in Int /\ M.minted <= Due(idx)
        BY <1>2, <1>6, <1>8, <1>9, <1>10 DEF Kept, Formed
    <2> QED BY <1>2, <2>1, <2>2
<1>12. Formed(R, idx - 1)
    BY <1>6, <1>8, <1>9, <1>10, <1>11 DEF Formed, Mid, Kept
<1> QED BY <1>8, <1>9, <1>10, <1>12 DEF R

-----------------------------------------------------------------------------
(* Chains of stamped blocks *)

\* The entries of a trie, and the balances that a root stands for.
Positive(B) == [a \in {x \in Addr : B[x] > 0} |-> B[a]]

BalOf(root) ==
    LET f == CHOOSE g \in root : TRUE
    IN  [a \in Addr |-> IF a \in DOMAIN f THEN f[a] ELSE 0]

\* The balances after the first i blocks of p.
At(p, i) == IF i = 0 THEN Genesis.bal ELSE BalOf(p[i].root)

\* Block i of p has the root of the balances that it leaves.
IsStamped(p, i) ==
    /\ At(p, i - 1) \in [Addr -> Nat]
    /\ OkAfter(At(p, i - 1), p[i], i)
    /\ p[i].root = {Positive(After(At(p, i - 1), p[i], i))}

\* The blocks of memory, and the blocks of the table: there the last one may wait
\* for its root, or for its refusal.
Full(p) ==
    /\ p \in Seq(Block) /\ Len(p) <= MaxHeight
    /\ \A i \in 1..Len(p) : IsStamped(p, i)

Unstamped == {{}, WrongRoot}

Stored(p) ==
    /\ p \in Seq(Block) /\ Len(p) <= MaxHeight
    /\ \A i \in 1..(Len(p) - 1) : IsStamped(p, i)
    /\ Len(p) > 0 => IsStamped(p, Len(p)) \/ p[Len(p)].root \in Unstamped

LEMMA BalOfRoot ==
    ASSUME NEW B \in [Addr -> Nat]
    PROVE  BalOf({Positive(B)}) = B
<1> DEFINE f == CHOOSE g \in {Positive(B)} : TRUE
<1>1. f \in {Positive(B)}
    BY Zenon
<1>2. BalOf({Positive(B)}) = [a \in Addr |-> IF a \in DOMAIN f THEN f[a] ELSE 0]
    BY DEF BalOf
<1> HIDE DEF f
<1>3. \A a \in Addr : (IF a \in DOMAIN f THEN f[a] ELSE 0) = B[a]
    BY <1>1 DEF Positive
<1>4. BalOf({Positive(B)}) = [a \in Addr |-> B[a]]
    BY <1>2, <1>3
<1> QED BY <1>4

LEMMA RootType ==
    ASSUME NEW B \in [Addr -> Nat]
    PROVE  {Positive(B)} \in SUBSET (UNION {[D -> Int] : D \in SUBSET Addr})
<1> DEFINE D == {x \in Addr : B[x] > 0}
<1>1. Positive(B) \in [D -> Int] /\ D \in SUBSET Addr
    BY DEF Positive
<1> HIDE DEF D
<1> QED BY <1>1

LEMMA GenesisBal == Genesis.bal \in [Addr -> Nat]
BY LedgerAssumption DEF Genesis

\* The balances after a stamped block.
LEMMA StampedAt ==
    ASSUME QuietStore, NEW p \in Seq(Block), NEW i \in 1..Len(p), i <= MaxHeight, IsStamped(p, i)
    PROVE  At(p, i) = After(At(p, i - 1), p[i], i) /\ At(p, i) \in [Addr -> Nat]
<1> DEFINE B == At(p, i - 1)
<1>1. p[i] \in Block /\ i \in 1..MaxHeight /\ i # 0
    <2>1. Len(p) \in Nat /\ MaxHeight \in Nat
        BY LenProperties, StoreAssumption
    <2> QED BY <2>1, ElementOfSeq
<1>2. B \in [Addr -> Nat] /\ p[i].root = {Positive(After(B, p[i], i))}
    BY DEF IsStamped
<1> HIDE DEF B
<1>3. After(B, p[i], i) \in [Addr -> Nat]
    BY <1>1, <1>2, AfterType
<1>4. At(p, i) = BalOf({Positive(After(B, p[i], i))})
    BY <1>1, <1>2 DEF At
<1>5. At(p, i) = After(B, p[i], i)
    BY <1>3, <1>4, BalOfRoot
<1> QED BY <1>3, <1>5 DEF B

LEMMA AtType ==
    ASSUME QuietStore, NEW p, Full(p), NEW i \in 0..Len(p)
    PROVE  At(p, i) \in [Addr -> Nat]
<1>1. CASE i = 0
    BY <1>1, GenesisBal DEF At
<1>2. CASE i # 0
    <2>1. Len(p) \in Nat /\ Len(p) <= MaxHeight /\ MaxHeight \in Nat /\ p \in Seq(Block)
        BY LenProperties, StoreAssumption DEF Full
    <2>2. i \in 1..Len(p) /\ i <= MaxHeight
        BY <1>2, <2>1
    <2>3. IsStamped(p, i)
        BY <2>2 DEF Full
    <2> QED BY <2>1, <2>2, <2>3, StampedAt
<1> QED BY <1>1, <1>2

\* What is true of a chain is true of one that begins with the same blocks.
LEMMA SameStart ==
    ASSUME NEW p, NEW q, NEW n \in Nat, \A i \in 1..n : q[i] = p[i]
    PROVE  /\ \A i \in 0..n : At(q, i) = At(p, i)
           /\ \A i \in 1..n : IsStamped(p, i) => IsStamped(q, i)
<1>1. \A i \in 0..n : At(q, i) = At(p, i)
    <2> TAKE i \in 0..n
    <2>1. i = 0 \/ i \in 1..n
        OBVIOUS
    <2> QED BY <2>1 DEF At
<1>2. ASSUME NEW i \in 1..n, IsStamped(p, i) PROVE IsStamped(q, i)
    <2>1. i - 1 \in 0..n /\ q[i] = p[i]
        OBVIOUS
    <2>2. At(q, i - 1) = At(p, i - 1)
        BY <1>1, <2>1
    <2> QED BY <1>2, <2>1, <2>2 DEF IsStamped
<1> QED BY <1>1, <1>2

LEMMA FullStart ==
    ASSUME NEW p, Full(p), NEW n \in 0..Len(p)
    PROVE  /\ Full(SubSeq(p, 1, n)) /\ Len(SubSeq(p, 1, n)) = n
           /\ \A i \in 0..n : At(SubSeq(p, 1, n), i) = At(p, i)
<1> DEFINE q == SubSeq(p, 1, n)
<1>1. p \in Seq(Block) /\ Len(p) \in Nat /\ Len(p) <= MaxHeight /\ MaxHeight \in Nat
    BY LenProperties, StoreAssumption DEF Full
<1>2. q \in Seq(Block) /\ Len(q) = n /\ \A i \in 1..n : q[i] = p[i]
    BY <1>1, SubSeqProperties
<1> HIDE DEF q
<1>3. n \in Nat /\ n <= MaxHeight /\ \A i \in 1..n : i \in 1..Len(p)
    BY <1>1
<1>4. /\ \A i \in 0..n : At(q, i) = At(p, i)
      /\ \A i \in 1..n : IsStamped(p, i) => IsStamped(q, i)
    BY <1>2, <1>3, SameStart
<1>5. Full(q)
    BY <1>2, <1>3, <1>4 DEF Full
<1> QED BY <1>2, <1>4, <1>5 DEF q

\* Another block, stamped or not yet.
LEMMA OneBlock ==
    ASSUME NEW p, Full(p), NEW b \in Block, Len(p) + 1 <= MaxHeight
    PROVE  LET q == Append(p, b)
           IN  /\ Len(q) = Len(p) + 1 /\ q[Len(p) + 1] = b /\ q \in Seq(Block)
               /\ SubSeq(q, 1, Len(p)) = p
               /\ \A i \in 0..Len(p) : At(q, i) = At(p, i)
               /\ \A i \in 1..Len(p) : IsStamped(q, i)
<1> DEFINE q == Append(p, b)
<1>1. p \in Seq(Block) /\ Len(p) \in Nat
    BY LenProperties DEF Full
<1>2. /\ q \in Seq(Block) /\ Len(q) = Len(p) + 1 /\ \A i \in 1..Len(p) : q[i] = p[i]
      /\ q[Len(p) + 1] = b
    BY <1>1, AppendProperties
<1> HIDE DEF q
<1>3. /\ \A i \in 0..Len(p) : At(q, i) = At(p, i)
      /\ \A i \in 1..Len(p) : IsStamped(p, i) => IsStamped(q, i)
    BY <1>1, <1>2, SameStart
<1>4. SubSeq(q, 1, Len(p)) = p
    <2> DEFINE r == SubSeq(q, 1, Len(p))
    <2>1. r \in Seq(Block) /\ Len(r) = Len(p) /\ \A i \in 1..Len(p) : r[i] = q[i]
        BY <1>1, <1>2, SubSeqProperties
    <2> HIDE DEF r
    <2>2. r = p
        BY <1>1, <1>2, <2>1, SeqEqual
    <2> QED BY <2>2 DEF r
<1> QED BY <1>2, <1>3, <1>4 DEF Full, q

LEMMA StampedBlock ==
    ASSUME QuietStore, NEW p, Full(p), NEW b \in Block, Len(p) + 1 <= MaxHeight,
           OkAfter(At(p, Len(p)), b, Len(p) + 1),
           b.root = {Positive(After(At(p, Len(p)), b, Len(p) + 1))}
    PROVE  /\ Full(Append(p, b))
           /\ At(Append(p, b), Len(p) + 1) = After(At(p, Len(p)), b, Len(p) + 1)
<1> DEFINE q == Append(p, b)
           n == Len(p) + 1
           B == At(p, Len(p))
<1>1. /\ Len(q) = n /\ q[n] = b /\ q \in Seq(Block) /\ At(q, Len(p)) = B
      /\ \A i \in 1..Len(p) : IsStamped(q, i)
    <2>1. Len(p) \in 0..Len(p)
        BY LenProperties DEF Full
    <2> QED BY <2>1, OneBlock
<1>2. B \in [Addr -> Nat] /\ Len(p) \in Nat
    BY AtType, LenProperties DEF Full
<1>3. n - 1 = Len(p) /\ n \in 1..n /\ \A i \in 1..n : i \in 1..Len(p) \/ i = n
    BY <1>2
<1> HIDE DEF q, B
<1>4. IsStamped(q, n)
    <2>1. At(q, n - 1) = B
        BY <1>1, <1>3
    <2>2. OkAfter(B, b, n) /\ b.root = {Positive(After(B, b, n))}
        BY DEF B
    <2> HIDE DEF n
    <2> QED BY <1>1, <1>2, <2>1, <2>2 DEF IsStamped
<1>5. Full(q)
    BY <1>1, <1>3, <1>4 DEF Full
<1>6. At(q, n) = After(B, b, n)
    <2>1. At(q, n - 1) = B
        BY <1>1, <1>3
    <2>2. At(q, n) = After(At(q, n - 1), q[n], n)
        BY <1>1, <1>3, <1>4, StampedAt
    <2> HIDE DEF n
    <2> QED BY <1>1, <2>1, <2>2
<1> QED BY <1>5, <1>6 DEF q, B

LEMMA StoredBlock ==
    ASSUME NEW p, Full(p), NEW b \in Block, Len(p) + 1 <= MaxHeight, b.root \in Unstamped
    PROVE  Stored(Append(p, b))
<1> DEFINE q == Append(p, b)
<1>1. Len(p) \in Nat
    BY LenProperties DEF Full
<1>2. /\ Len(q) = Len(p) + 1 /\ q[Len(p) + 1] = b /\ q \in Seq(Block)
      /\ \A i \in 1..Len(p) : IsStamped(q, i)
    BY OneBlock
<1> HIDE DEF q
<1>3. Stored(q)
    BY <1>1, <1>2 DEF Stored
<1> QED BY <1>3 DEF q

LEMMA FullStored == ASSUME NEW p, Full(p) PROVE Stored(p)
<1>1. Len(p) \in Nat
    BY LenProperties DEF Full
<1> QED BY <1>1 DEF Full, Stored

\* The ledger of a chain, taken back by n blocks.
LEMMA UndoneTo ==
    ASSUME QuietStore, NEW p, Full(p), NEW L, Formed(L, Len(p)), L.bal = At(p, Len(p)),
           NEW k \in 0..Len(p)
    PROVE  LET R == BlocksUndone(L, p)[k]
           IN  Formed(R, Len(p) - k) /\ R.bal = At(p, Len(p) - k)
<1> DEFINE N == Len(p)
           A == BlocksUndone(L, p)
           S == {n \in 0..N : Formed(A[n], N - n) /\ A[n].bal = At(p, N - n)}
<1>1. N \in Nat /\ p \in Seq(Block) /\ N <= MaxHeight /\ MaxHeight \in Nat
    BY LenProperties, StoreAssumption DEF Full
<1>2. A[0] = L /\ \A n \in 1..N : A[n] = _rollback_block(A[n - 1], p[N + 1 - n], N + 1 - n)
    BY <1>1, BlocksUndoneIs
<1>3. \A i \in 1..N : IsStamped(p, i)
    BY DEF Full
<1>4. Formed(L, N) /\ L.bal = At(p, N) /\ k \in 0..N
    OBVIOUS
<1> HIDE DEF A, N
<1>5. 0 \in S
    <2>1. N - 0 = N /\ 0 \in 0..N
        BY <1>1
    <2> QED BY <1>2, <1>4, <2>1
<1>6. ASSUME NEW n \in 1..N, n - 1 \in S PROVE n \in S
    <2> DEFINE i == N + 1 - n
    <2>1. /\ i \in 1..N /\ N - (n - 1) = i /\ N - n = i - 1 /\ n \in 0..N /\ i \in 1..MaxHeight
          /\ i <= MaxHeight
        BY <1>1
    <2>2. Formed(A[n - 1], i) /\ A[n - 1].bal = At(p, i) /\ A[n] = _rollback_block(A[n - 1], p[i], i)
        BY <1>2, <1>6, <2>1
    <2> HIDE DEF i
    <2>3. /\ IsStamped(p, i) /\ p[i] \in Block
          /\ At(p, i - 1) \in [Addr -> Nat] /\ OkAfter(At(p, i - 1), p[i], i)
        BY <1>1, <1>3, <2>1, ElementOfSeq DEF IsStamped, N
    <2>4. At(p, i) = After(At(p, i - 1), p[i], i)
        BY <1>1, <2>1, <2>3, StampedAt DEF N
    <2>5. Formed(A[n], i - 1) /\ A[n].bal = At(p, i - 1)
        BY <2>1, <2>2, <2>3, <2>4, RolledIs
    <2> QED BY <2>1, <2>5
<1>7. \A n \in 0..N : n \in S
    <2> HIDE DEF S
    <2> QED BY <1>1, <1>5, <1>6, PrefixInduction
<1> QED BY <1>4, <1>7 DEF A, N

-----------------------------------------------------------------------------
(* Where the commits of a queue lead *)

\* What matters of the tables here: the blocks, the rows of the balances, the supply.
Point(blocks, bal, supply) == [blocks |-> blocks, bal |-> bal, supply |-> supply]

PointOf(d) == Point(d.blocks, d.bal, d.supply)

NoSupply == [minted |-> 0, burned |-> 0]

\* A point at which the process may end: the blocks are stamped up to the last one,
\* and without a block there is no balance that matches and no supply.
Sound(x) ==
    /\ x = Point(x.blocks, x.bal, x.supply)
    /\ Stored(x.blocks)
    /\ DOMAIN x.bal \subseteq Addr /\ x.bal \in [DOMAIN x.bal -> Nat]
    /\ DOMAIN x.supply = {"minted", "burned"}
    /\ x.supply.minted \in Int /\ x.supply.minted <= Due(Len(x.blocks))
    /\ x.blocks = <<>> => x.supply.minted = 0 \/ x.bal # Nothing

\* A write that changes none of this, and one that has the queue's turn to itself.
IsQuiet(w) == w.op = "put_stake"

IsAlone(w) == \/ w.op \in {"append_block", "update_block", "delete_blocks_from"}
              \/ w.op = "put_supply" /\ w.key \in {"minted", "burned"}

Moved(x, w) ==
    CASE w.op = "append_block" -> Point(Append(x.blocks, w.val), x.bal, x.supply)
      [] w.op = "update_block" -> Point([x.blocks EXCEPT ![w.key] = w.val], x.bal, x.supply)
      [] w.op = "delete_blocks_from" -> Point(SubSeq(x.blocks, 1, w.key - 1), Nothing, NoSupply)
      [] OTHER -> Point(x.blocks, x.bal, [x.supply EXCEPT ![w.key] = w.val])

\* The rows of K written from the balances B.
Paid(x, K, B) ==
    Point(x.blocks,
          [k \in DOMAIN x.bal \cup K |-> IF k \in K THEN B[k] ELSE x.bal[k]], x.supply)

PayWrites(K, B) == {Write("put_balance", a, B[a]) : a \in K}

\* A set of writes takes x to y, in any order.
Effect(S, x, y) ==
    \/ (\A w \in S : IsQuiet(w)) /\ y = x
    \/ \E w : S = {w} /\ IsAlone(w) /\ y = Moved(x, w)
    \/ \E K \in SUBSET Addr, B \in [Addr -> Nat] : S = PayWrites(K, B) /\ y = Paid(x, K, B)

Leads(x, W, y) ==
    \E T, P :
        /\ W \in Seq(T)
        /\ P[0] = x /\ P[Len(W)] = y
        /\ \A i \in 0..Len(W) : Sound(P[i])
        /\ \A i \in 1..Len(W) : Effect(W[i], P[i - 1], P[i])

LEMMA LeadsEnds ==
    ASSUME NEW x, NEW y, NEW W, Leads(x, W, y)
    PROVE  Sound(x) /\ Sound(y) /\ (W = <<>> => y = x)
<1>1. PICK T, P :
        /\ W \in Seq(T) /\ P[0] = x /\ P[Len(W)] = y
        /\ \A i \in 0..Len(W) : Sound(P[i])
    BY DEF Leads
<1>2. Len(W) \in Nat /\ (W = <<>> => Len(W) = 0)
    BY <1>1, LenProperties
<1> QED BY <1>1, <1>2

LEMMA LeadsNil ==
    ASSUME NEW x, Sound(x)
    PROVE  Leads(x, <<>>, x)
<1> DEFINE P == [i \in 0..0 |-> x]
<1>1. <<>> \in Seq({}) /\ Len(<<>>) = 0
    OBVIOUS
<1>2. P[0] = x /\ \A i \in 0..0 : Sound(P[i])
    OBVIOUS
<1> HIDE DEF P
<1> QED BY <1>1, <1>2 DEF Leads

LEMMA LeadsOne ==
    ASSUME NEW x, Sound(x), NEW y, Sound(y), NEW S, Effect(S, x, y)
    PROVE  Leads(x, <<S>>, y)
<1> DEFINE P == [i \in 0..1 |-> IF i = 0 THEN x ELSE y]
           W == <<S>>
<1>1. W \in Seq({S}) /\ Len(W) = 1 /\ W[1] = S
    OBVIOUS
<1>2. P[0] = x /\ P[1] = y /\ \A i \in 0..1 : Sound(P[i])
    OBVIOUS
<1> HIDE DEF P, W
<1>3. \A i \in 1..Len(W) : Effect(W[i], P[i - 1], P[i])
    <2>1. \A i \in 1..Len(W) : i = 1 /\ i - 1 = 0
        BY <1>1
    <2> QED BY <1>1, <1>2, <2>1
<1>4. Leads(x, W, y)
    BY <1>1, <1>2, <1>3 DEF Leads
<1> QED BY <1>4 DEF W

LEMMA LeadsThen ==
    ASSUME NEW x, NEW y, NEW z, NEW V, NEW W, Leads(x, V, y), Leads(y, W, z)
    PROVE  Leads(x, V \o W, z)
<1>1. PICK T, P :
        /\ V \in Seq(T) /\ P[0] = x /\ P[Len(V)] = y
        /\ \A i \in 0..Len(V) : Sound(P[i])
        /\ \A i \in 1..Len(V) : Effect(V[i], P[i - 1], P[i])
    BY DEF Leads
<1>2. PICK U, Q :
        /\ W \in Seq(U) /\ Q[0] = y /\ Q[Len(W)] = z
        /\ \A i \in 0..Len(W) : Sound(Q[i])
        /\ \A i \in 1..Len(W) : Effect(W[i], Q[i - 1], Q[i])
    BY DEF Leads
<1> DEFINE m == Len(V)
           n == Len(W)
           X == V \o W
           R == [i \in 0..(m + n) |-> IF i <= m THEN P[i] ELSE Q[i - m]]
<1>3. V \in Seq(T \cup U) /\ W \in Seq(T \cup U) /\ m \in Nat /\ n \in Nat
    BY <1>1, <1>2, SeqMonotonic, LenProperties
<1>4. /\ X \in Seq(T \cup U) /\ Len(X) = m + n
      /\ \A i \in 1..(m + n) : X[i] = IF i <= m THEN V[i] ELSE W[i - m]
    BY <1>3, ConcatProperties
<1>5. /\ R[0] = x /\ R[m + n] = z
      /\ \A i \in 0..(m + n) : R[i] = IF i <= m THEN P[i] ELSE Q[i - m]
    <2>1. \A i \in 0..(m + n) : R[i] = IF i <= m THEN P[i] ELSE Q[i - m]
        OBVIOUS
    <2>2. P[0] = x /\ P[m] = y /\ Q[0] = y /\ Q[n] = z
        BY <1>1, <1>2
    <2> HIDE DEF m, n, R
    <2>3. 0 \in 0..(m + n) /\ m + n \in 0..(m + n) /\ 0 <= m /\ (m + n) - m = n
          /\ (m + n <= m => n = 0 /\ m + n = m)
        BY <1>3
    <2>4. R[0] = x
        BY <2>1, <2>2, <2>3
    <2>5. R[m + n] = z
        BY <2>1, <2>2, <2>3
    <2> QED BY <2>1, <2>4, <2>5
<1> HIDE DEF X, R
<1>6. \A i \in 0..(m + n) : Sound(R[i])
    <2> TAKE i \in 0..(m + n)
    <2>1. CASE i <= m
        BY <1>1, <1>3, <1>5, <2>1
    <2>2. CASE ~ (i <= m)
        <3>1. i - m \in 0..n
            BY <1>3, <2>2
        <3> QED BY <1>2, <1>5, <2>2, <3>1
    <2> QED BY <2>1, <2>2
<1>7. \A i \in 1..(m + n) : Effect(X[i], R[i - 1], R[i])
    <2> TAKE i \in 1..(m + n)
    <2>0. i \in 0..(m + n) /\ i - 1 \in 0..(m + n)
        BY <1>3
    <2>1. CASE i <= m
        <3>1. i - 1 <= m /\ i \in 1..m
            BY <1>3, <2>1
        <3>2. R[i] = P[i] /\ R[i - 1] = P[i - 1] /\ X[i] = V[i]
            BY <1>4, <1>5, <2>0, <2>1, <3>1
        <3> QED BY <1>1, <3>1, <3>2
    <2>2. CASE ~ (i <= m)
        <3> DEFINE j == i - m
        <3>1. j \in 1..n /\ (i - 1 <= m => i - 1 = m /\ j - 1 = 0) /\ (i - 1) - m = j - 1
            BY <1>3, <2>2
        <3>2. R[i] = Q[j] /\ X[i] = W[j]
            BY <1>4, <1>5, <2>0, <2>2
        <3>3. R[i - 1] = Q[j - 1]
            <4>1. CASE i - 1 <= m
                <5>1. R[i - 1] = P[i - 1]
                    BY <1>5, <2>0, <4>1
                <5> QED BY <1>1, <1>2, <3>1, <4>1, <5>1
            <4>2. CASE ~ (i - 1 <= m)
                <5>1. R[i - 1] = Q[(i - 1) - m]
                    BY <1>5, <2>0, <4>2
                <5> QED BY <3>1, <5>1
            <4> QED BY <4>1, <4>2
        <3> HIDE DEF j
        <3> QED BY <1>2, <3>1, <3>2, <3>3
    <2> QED BY <2>1, <2>2
<1>8. Leads(x, X, z)
    BY <1>4, <1>5, <1>6, <1>7 DEF Leads
<1> QED BY <1>8 DEF X

LEMMA LeadsTail ==
    ASSUME NEW x, NEW y, NEW W, Leads(x, W, y), W # <<>>
    PROVE  \E z : Effect(Head(W), x, z) /\ Sound(z) /\ Leads(z, Tail(W), y)
<1>1. PICK T, P :
        /\ W \in Seq(T) /\ P[0] = x /\ P[Len(W)] = y
        /\ \A i \in 0..Len(W) : Sound(P[i])
        /\ \A i \in 1..Len(W) : Effect(W[i], P[i - 1], P[i])
    BY DEF Leads
<1> DEFINE n == Len(W)
           V == Tail(W)
           Q == [i \in 0..(n - 1) |-> P[i + 1]]
<1>2. /\ n \in Nat /\ n > 0 /\ Head(W) = W[1] /\ V \in Seq(T) /\ Len(V) = n - 1
      /\ \A i \in 1..(n - 1) : V[i] = W[i + 1]
    BY <1>1, LenProperties, HeadTailProperties
<1>3. Q[0] = P[1] /\ Q[n - 1] = y /\ \A i \in 0..(n - 1) : Q[i] = P[i + 1]
    BY <1>1, <1>2
<1>4. Effect(W[1], x, P[1]) /\ Sound(P[1])
    BY <1>1, <1>2
<1> HIDE DEF n, V, Q
<1>5. \A i \in 0..(n - 1) : Sound(Q[i])
    <2> TAKE i \in 0..(n - 1)
    <2>1. i + 1 \in 0..n
        BY <1>2
    <2> QED BY <1>1, <1>3, <2>1 DEF n
<1>6. \A i \in 1..(n - 1) : Effect(V[i], Q[i - 1], Q[i])
    <2> TAKE i \in 1..(n - 1)
    <2>1. /\ i + 1 \in 1..n /\ i \in 0..(n - 1) /\ i - 1 \in 0..(n - 1) /\ (i + 1) - 1 = i
          /\ (i - 1) + 1 = i
        BY <1>2
    <2>2. Q[i] = P[i + 1] /\ Q[i - 1] = P[i] /\ V[i] = W[i + 1]
        BY <1>2, <1>3, <2>1
    <2>3. Effect(W[i + 1], P[(i + 1) - 1], P[i + 1])
        BY <1>1, <2>1 DEF n
    <2> QED BY <2>1, <2>2, <2>3
<1>7. Leads(P[1], V, y)
    BY <1>2, <1>3, <1>5, <1>6 DEF Leads
<1> QED BY <1>2, <1>4, <1>7 DEF V

\* The tables are there, and neither an epoch nor a slashing was ever written.
Tables(d) ==
    /\ DOMAIN d = {"blocks", "bal", "supply", "stakes", "epochs", "slashing"}
    /\ DOMAIN d.supply = {"minted", "burned"}
    /\ DOMAIN d.epochs \subseteq {0} /\ \A e \in DOMAIN d.epochs : d.epochs[e] = {}
    /\ d.slashing = {}

LEMMA QuietCommit ==
    ASSUME NEW d, Tables(d), NEW w, IsQuiet(w)
    PROVE  Tables(Committed(d, w)) /\ PointOf(Committed(d, w)) = PointOf(d)
<1>1. Committed(d, w) = put_stake(d, w.key, w.val)
    BY DEF Committed, IsQuiet
<1> QED BY <1>1 DEF put_stake, Tables, PointOf

LEMMA AloneCommit ==
    ASSUME NEW d, Tables(d), NEW w, IsAlone(w)
    PROVE  Tables(Committed(d, w)) /\ PointOf(Committed(d, w)) = Moved(PointOf(d), w)
<1>1. CASE w.op = "append_block"
    <2>1. Committed(d, w) = append_block(d, w.val)
        BY <1>1 DEF Committed
    <2> QED BY <1>1, <2>1 DEF append_block, Tables, PointOf, Point, Moved
<1>2. CASE w.op = "update_block"
    <2>1. Committed(d, w) = update_block(d, w.key, w.val)
        BY <1>2 DEF Committed
    <2> QED BY <1>2, <2>1 DEF update_block, Tables, PointOf, Point, Moved
<1>3. CASE w.op = "delete_blocks_from"
    <2> DEFINE k == SubSeq(d.blocks, 1, w.key - 1)
               t == StakesFromBlocks(k)
               e == [n \in {m \in DOMAIN d.epochs : m * EPOCH_LENGTH < w.key} |-> d.epochs[n]]
               s == {r \in d.slashing : r.block < w.key}
    <2>1. Committed(d, w) = delete_blocks_from(d, w.key)
        BY <1>3 DEF Committed
    <2>2. delete_blocks_from(d, w.key) =
            [d EXCEPT !.blocks = k, !.bal = Nothing, !.supply = NoSupply, !.stakes = t, !.epochs = e,
                      !.slashing = s]
        BY DEF delete_blocks_from, Tables, NoSupply
    <2>3. DOMAIN e \subseteq {0} /\ (\A n \in DOMAIN e : e[n] = {}) /\ s = {}
        BY DEF Tables
    <2>4. DOMAIN NoSupply = {"minted", "burned"}
        BY DEF NoSupply
    <2>5. Moved(PointOf(d), w) = Point(k, Nothing, NoSupply)
        BY <1>3 DEF Moved, PointOf, Point
    <2> HIDE DEF k, t, e, s
    <2> QED BY <2>1, <2>2, <2>3, <2>4, <2>5 DEF Tables, PointOf, Point
<1>4. CASE w.op = "put_supply" /\ w.key \in {"minted", "burned"}
    <2> DEFINE u == [d.supply EXCEPT ![w.key] = w.val]
    <2>1. Committed(d, w) = put_supply(d, w.key, w.val)
        BY <1>4 DEF Committed
    <2>2. put_supply(d, w.key, w.val) = [d EXCEPT !.supply = u]
        BY DEF put_supply, Tables
    <2>3. DOMAIN u = {"minted", "burned"}
        BY DEF Tables
    <2>4. Moved(PointOf(d), w) = Point(d.blocks, d.bal, u)
        BY <1>4 DEF Moved, PointOf, Point
    <2> HIDE DEF u
    <2> QED BY <2>1, <2>2, <2>3, <2>4 DEF Tables, PointOf, Point
<1> QED BY <1>1, <1>2, <1>3, <1>4 DEF IsAlone

\* What is left of the rows of K when w is written, which takes d to e.
LeftOver(d, e, w, K, B) ==
    \E R \in SUBSET Addr :
        /\ PayWrites(K, B) \ {w} = PayWrites(R, B)
        /\ Paid(PointOf(e), R, B) = Paid(PointOf(d), K, B)
        /\ PayWrites(K, B) = {w} => R = {}

\* One row of the balances, and the others after it.
LEMMA PayCommit ==
    ASSUME NEW d, Tables(d), Sound(PointOf(d)), NEW K \in SUBSET Addr,
           NEW B \in [Addr -> Nat], NEW w \in PayWrites(K, B)
    PROVE  /\ Tables(Committed(d, w)) /\ Sound(PointOf(Committed(d, w)))
           /\ LeftOver(d, Committed(d, w), w, K, B)
<1> DEFINE e == Committed(d, w)
           x == PointOf(d)
<1>1. PICK a \in K : w = Write("put_balance", a, B[a])
    BY DEF PayWrites
<1> DEFINE R == K \ {a}
           f == Replaced(d.bal, a, B[a])
<1>2. e = [d EXCEPT !.bal = f]
    <2>1. w.op = "put_balance" /\ w.key = a /\ w.val = B[a]
        BY <1>1 DEF Write
    <2>2. e = put_balance(d, a, B[a])
        BY <2>1 DEF Committed
    <2> QED BY <2>2 DEF put_balance, Tables
<1> HIDE DEF e
<1>3. Tables(e) /\ PointOf(e) = Point(d.blocks, f, d.supply)
    <2> HIDE DEF f
    <2> QED BY <1>2 DEF Tables, PointOf
<1>4. a \in Addr /\ B[a] \in Nat
    BY <1>1
<1>5. DOMAIN f = DOMAIN d.bal \cup {a} /\ \A k \in DOMAIN f : f[k] = IF k = a THEN B[a] ELSE d.bal[k]
    BY DEF Replaced
<1>6. x.blocks = d.blocks /\ x.bal = d.bal /\ x.supply = d.supply
    BY DEF PointOf, Point
<1> DEFINE y == Point(d.blocks, f, d.supply)
<1>7. y.blocks = d.blocks /\ y.bal = f /\ y.supply = d.supply /\ y = Point(y.blocks, y.bal, y.supply)
    BY DEF Point
<1> HIDE DEF f, y
<1>8. Sound(y)
    <2>1. DOMAIN f \subseteq Addr /\ \A k \in DOMAIN f : f[k] \in Nat
        BY <1>4, <1>5, <1>6 DEF Sound
    <2>3. f \in [DOMAIN f -> Nat]
        BY <2>1 DEF f, Replaced
    <2>2. f # Nothing
        BY <1>5 DEF Nothing
    <2> QED BY <1>6, <1>7, <2>1, <2>2, <2>3 DEF Sound
<1>9. R \in SUBSET Addr /\ (PayWrites(K, B) = {w} => R = {})
    <2> SUFFICES ASSUME PayWrites(K, B) = {w}, NEW k \in R PROVE FALSE
        OBVIOUS
    <2>1. Write("put_balance", k, B[k]) = w
        BY DEF PayWrites
    <2> QED BY <1>1, <2>1 DEF Write
<1>10. PayWrites(K, B) \ {w} = PayWrites(R, B)
    BY <1>1 DEF PayWrites, Write
<1>11. Paid(y, R, B) = Paid(x, K, B)
    <2> DEFINE g == [k \in DOMAIN f \cup R |-> IF k \in R THEN B[k] ELSE f[k]]
               h == [k \in DOMAIN d.bal \cup K |-> IF k \in K THEN B[k] ELSE d.bal[k]]
    <2>1. DOMAIN f \cup R = DOMAIN d.bal \cup K
        BY <1>1, <1>5
    <2>2. \A k \in DOMAIN f \cup R :
            (IF k \in R THEN B[k] ELSE f[k]) = (IF k \in K THEN B[k] ELSE d.bal[k])
        BY <1>1, <1>5
    <2>3. g = h
        BY <2>1, <2>2
    <2> QED BY <1>6, <1>7, <2>3 DEF Paid
<1>12. Sound(PointOf(e)) /\ Paid(PointOf(e), R, B) = Paid(PointOf(d), K, B)
    BY <1>3, <1>8, <1>11 DEF y
<1> HIDE DEF R
<1>13. LeftOver(d, e, w, K, B)
    BY <1>9, <1>10, <1>12 DEF LeftOver
<1> QED BY <1>3, <1>12, <1>13 DEF e

\* What the queue is, after one more commit.
Rest(W, w) == IF Head(W) = {w} THEN Tail(W) ELSE <<Head(W) \ {w}>> \o Tail(W)

\* A commit goes on to where the queue leads.
LEMMA CommitLeads ==
    ASSUME NEW d, Tables(d), NEW W, W # <<>>, NEW y, Leads(PointOf(d), W, y), NEW w \in Head(W)
    PROVE  Tables(Committed(d, w)) /\ Leads(PointOf(Committed(d, w)), Rest(W, w), y)
<1> DEFINE S == Head(W)
           x == PointOf(d)
           e == Committed(d, w)
<1>1. PICK z : Effect(S, x, z) /\ Sound(z) /\ Leads(z, Tail(W), y)
    BY LeadsTail
<1>2. Sound(x)
    BY LeadsEnds
<1>3. Tables(e) /\ (S = {w} => PointOf(e) = z)
        /\ (S # {w} => Sound(PointOf(e)) /\ Effect(S \ {w}, PointOf(e), z))
    <2>1. CASE (\A u \in S : IsQuiet(u)) /\ z = x
        <3>1. Tables(e) /\ PointOf(e) = x
            BY <2>1, QuietCommit
        <3> HIDE DEF e, x
        <3> QED BY <1>2, <2>1, <3>1 DEF Effect
    <2>2. CASE \E u : S = {u} /\ IsAlone(u) /\ z = Moved(x, u)
        <3>1. S = {w} /\ IsAlone(w) /\ z = Moved(x, w)
            BY <2>2
        <3>2. Tables(e) /\ PointOf(e) = Moved(x, w)
            BY <3>1, AloneCommit
        <3> HIDE DEF e, x
        <3> QED BY <3>1, <3>2
    <2>3. CASE \E K \in SUBSET Addr, B \in [Addr -> Nat] : S = PayWrites(K, B) /\ z = Paid(x, K, B)
        <3>1. PICK K \in SUBSET Addr, B \in [Addr -> Nat] : S = PayWrites(K, B) /\ z = Paid(x, K, B)
            BY <2>3
        <3>2. PICK R \in SUBSET Addr :
                /\ Tables(e) /\ Sound(PointOf(e))
                /\ S \ {w} = PayWrites(R, B)
                /\ Paid(PointOf(e), R, B) = Paid(x, K, B)
                /\ S = {w} => R = {}
            <4> DEFINE V == PayWrites(K, B)
            <4>1. w \in V
                BY <3>1
            <4>2. Tables(e) /\ Sound(PointOf(e)) /\ LeftOver(d, e, w, K, B)
                BY <1>2, <4>1, PayCommit
            <4> HIDE DEF e
            <4> QED BY <3>1, <4>2 DEF LeftOver
        <3>3. R = {} => Paid(PointOf(e), R, B) = PointOf(e)
            <4> DEFINE q == PointOf(e)
            <4>1. q = Point(q.blocks, q.bal, q.supply)
                BY <3>2 DEF Sound
            <4>2. q.bal = [k \in DOMAIN q.bal |-> q.bal[k]]
                BY <3>2 DEF Sound
            <4>3. ASSUME R = {} PROVE Paid(q, R, B) = Point(q.blocks, [k \in DOMAIN q.bal |-> q.bal[k]], q.supply)
                BY <4>3 DEF Paid
            <4> HIDE DEF q
            <4> QED BY <4>1, <4>2, <4>3 DEF q
        <3> HIDE DEF e, x
        <3>4. S = {w} => PointOf(e) = z
            BY <3>1, <3>2, <3>3
        <3>5. Effect(S \ {w}, PointOf(e), z)
            BY <3>1, <3>2 DEF Effect
        <3> QED BY <3>2, <3>4, <3>5
    <2> QED BY <1>1, <2>1, <2>2, <2>3 DEF Effect
<1> HIDE DEF e, x
<1>4. CASE S = {w}
    BY <1>1, <1>3, <1>4 DEF Rest, e
<1>5. CASE S # {w}
    <2>1. Leads(PointOf(e), <<S \ {w}>>, z)
        BY <1>1, <1>3, <1>5, LeadsOne
    <2>2. Leads(PointOf(e), <<S \ {w}>> \o Tail(W), y)
        BY <1>1, <2>1, LeadsThen
    <2> QED BY <1>3, <1>5, <2>2 DEF Rest, e
<1> QED BY <1>4, <1>5

-----------------------------------------------------------------------------
(* Flattening *)

LEMMA FlattenIs ==
    ASSUME NEW s, Len(s) \in Nat, Len(s) # 0
    PROVE  \E F : /\ FlattenSeq(s) = F[Len(s)]
                  /\ \A n \in 1..Len(s) : F[n] = IF n = 1 THEN s[n] ELSE F[n - 1] \o s[n]
<1> DEFINE N == Len(s)
           Step(g, n) == IF n = 1 THEN s[n] ELSE g[n - 1] \o s[n]
           Upto(g, n) == /\ g = [m \in 1..N |-> g[m]]
                         /\ \A m \in 1..n : g[m] = Step(g, m)
           T == {n \in 1..N : ~ \E g : Upto(g, n)}
<1>1. N \in Nat /\ N # 0
    OBVIOUS
<1> HIDE DEF N
<1>2. T = {}
    <2>1. SUFFICES ASSUME T # {} PROVE FALSE
        OBVIOUS
    <2>2. PICK n \in T : \A m \in T : n <= m
        <3>1. T \subseteq Nat
            BY <1>1
        <3> HIDE DEF T
        <3> QED BY <2>1, <3>1, LeastNat
    <2>3. n # 1
        <3> DEFINE z == [m \in 1..N |-> s[1]]
        <3>1. Upto(z, 1)
            BY <1>1
        <3> HIDE DEF z, Upto
        <3> QED BY <2>2, <3>1
    <2>4. n \in 1..N /\ n - 1 \in 1..N /\ ~ (n <= n - 1)
        BY <1>1, <2>3
    <2>5. n - 1 \notin T
        <3> HIDE DEF T
        <3> QED BY <2>2, <2>4
    <2>6. PICK g : Upto(g, n - 1)
        <3> HIDE DEF Upto
        <3> QED BY <2>4, <2>5
    <2> DEFINE h == [m \in 1..N |-> IF m = n THEN Step(g, n) ELSE g[m]]
    <2> HIDE DEF Step
    <2>7. ASSUME NEW m \in 1..n PROVE h[m] = Step(h, m)
        <3>1. CASE m = n
            <4>1. h[n - 1] = g[n - 1] /\ h[m] = Step(g, n)
                BY <2>4, <3>1
            <4> HIDE DEF h
            <4> QED BY <3>1, <4>1 DEF Step
        <3>2. CASE m # n
            <4>1. m \in 1..(n - 1) /\ m \in 1..N
                BY <1>1, <2>4, <3>2
            <4>2. h[m] = Step(g, m)
                BY <2>6, <3>2, <4>1
            <4>3. m # 1 => h[m - 1] = g[m - 1]
                <5>1. m # 1 => m - 1 \in 1..N /\ m - 1 # n
                    BY <1>1, <2>4, <4>1
                <5> QED BY <5>1
            <4> HIDE DEF h
            <4> QED BY <4>2, <4>3 DEF Step
        <3> QED BY <3>1, <3>2
    <2>8. Upto(h, n)
        BY <2>7
    <2> HIDE DEF h, Upto
    <2> QED BY <2>2, <2>8
<1>3. PICK g : Upto(g, N)
    <2>1. N \in 1..N
        BY <1>1
    <2>2. N \notin T
        BY <1>2
    <2> HIDE DEF Upto
    <2> QED BY <2>1, <2>2
<1>4. g = [n \in 1..N |-> Step(g, n)]
    BY <1>1, <1>3
<1> DEFINE Rec(F) == F = [n \in 1..N |-> IF n = 1 THEN s[n] ELSE F[n - 1] \o s[n]]
           A == CHOOSE F : Rec(F)
<1>5. Rec(A)
    <2>1. Rec(g)
        BY <1>4
    <2> HIDE DEF Rec
    <2> QED BY <2>1
<1>6. FlattenSeq(s) = A[N]
    BY <1>1 DEF FlattenSeq, N
<1> HIDE DEF A
<1>7. \A n \in 1..N : A[n] = Step(A, n)
    BY <1>5
<1> QED BY <1>6, <1>7 DEF N

LEMMA FlattenNothing ==
    ASSUME NEW s, s \in Seq({<<>>})
    PROVE  FlattenSeq(s) = <<>>
<1> DEFINE N == Len(s)
<1>1. N \in Nat /\ \A n \in 1..N : s[n] = <<>>
    BY LenProperties, ElementOfSeq
<1>2. CASE N = 0
    <2>1. s = <<>>
        BY <1>2, EmptySeq
    <2> QED BY <1>2, <2>1 DEF FlattenSeq
<1>3. CASE N # 0
    <2>1. PICK F : /\ FlattenSeq(s) = F[N]
                   /\ \A n \in 1..N : F[n] = IF n = 1 THEN s[n] ELSE F[n - 1] \o s[n]
        BY <1>1, <1>3, FlattenIs
    <2> DEFINE S == {n \in 0..N : n > 0 => F[n] = <<>>}
    <2> HIDE DEF N
    <2>2. 0 \in S
        BY <1>1
    <2>3. ASSUME NEW n \in 1..N, n - 1 \in S PROVE n \in S
        <3>1. n \in 0..N /\ s[n] = <<>> /\ (n # 1 => n - 1 > 0)
            BY <1>1
        <3>2. F[n] = IF n = 1 THEN <<>> ELSE F[n - 1] \o <<>>
            BY <2>1, <3>1
        <3>3. n # 1 => F[n - 1] = <<>>
            BY <2>3, <3>1
        <3>4. <<>> \o <<>> = <<>>
            OBVIOUS
        <3>5. F[n] = <<>>
            BY <3>2, <3>3, <3>4
        <3> QED BY <3>1, <3>5
    <2>4. \A n \in 0..N : n \in S
        <3> HIDE DEF S
        <3> QED BY <1>1, <2>2, <2>3, PrefixInduction
    <2>5. N \in 0..N /\ N > 0
        BY <1>1, <1>3
    <2> QED BY <2>1, <2>4, <2>5 DEF N
<1> QED BY <1>2, <1>3

LEMMA FlattenLeads ==
    ASSUME NEW x, Sound(x), NEW s, NEW T, s \in Seq(T),
           \A n \in 1..Len(s) : Leads(x, s[n], x)
    PROVE  Leads(x, FlattenSeq(s), x)
<1> DEFINE N == Len(s)
<1>1. N \in Nat /\ \A n \in 1..N : Leads(x, s[n], x)
    BY LenProperties
<1>2. CASE N = 0
    <2>1. s = <<>>
        BY <1>2, EmptySeq
    <2>2. FlattenSeq(s) = <<>>
        BY <1>2, <2>1 DEF FlattenSeq
    <2> QED BY <2>2, LeadsNil
<1>3. CASE N # 0
    <2>1. PICK F : /\ FlattenSeq(s) = F[N]
                   /\ \A n \in 1..N : F[n] = IF n = 1 THEN s[n] ELSE F[n - 1] \o s[n]
        BY <1>1, <1>3, FlattenIs
    <2> DEFINE S == {n \in 0..N : n > 0 => Leads(x, F[n], x)}
    <2> HIDE DEF N
    <2>2. 0 \in S
        BY <1>1
    <2>3. ASSUME NEW n \in 1..N, n - 1 \in S PROVE n \in S
        <3>1. n \in 0..N /\ Leads(x, s[n], x) /\ (n # 1 => n - 1 > 0)
            BY <1>1
        <3>2. F[n] = IF n = 1 THEN s[n] ELSE F[n - 1] \o s[n]
            BY <2>1
        <3>3. n # 1 => Leads(x, F[n - 1], x)
            BY <2>3, <3>1
        <3>4. Leads(x, F[n], x)
            <4>1. CASE n = 1
                BY <3>1, <3>2, <4>1
            <4>2. CASE n # 1
                <5>1. Leads(x, F[n - 1] \o s[n], x)
                    BY <3>1, <3>3, <4>2, LeadsThen
                <5> QED BY <3>2, <4>2, <5>1
            <4> QED BY <4>1, <4>2
        <3> QED BY <3>1, <3>4
    <2>4. \A n \in 0..N : n \in S
        <3> HIDE DEF S
        <3> QED BY <1>1, <2>2, <2>3, PrefixInduction
    <2>5. N \in 0..N /\ N > 0
        BY <1>1, <1>3
    <2> QED BY <2>1, <2>4, <2>5 DEF N
<1> QED BY <1>2, <1>3

\* The rows of the stakes are quiet.
LEMMA StakeRowsLeads ==
    ASSUME NEW x, Sound(x), NEW old, NEW new, NEW v
    PROVE  Leads(x, StakeRows(old, new, v), x)
<1> DEFINE rows == {Write("put_stake", <<v, a>>, new[a]) : a \in {c \in Addr : old[c] # new[c]}}
<1>1. \A w \in rows : IsQuiet(w)
    BY DEF Write, IsQuiet
<1>2. StakeRows(old, new, v) = IF rows = {} THEN <<>> ELSE <<rows>>
    BY DEF StakeRows
<1> HIDE DEF rows
<1>3. Effect(rows, x, x)
    BY <1>1 DEF Effect
<1>4. Leads(x, <<rows>>, x) /\ Leads(x, <<>>, x)
    BY <1>3, LeadsOne, LeadsNil
<1> QED BY <1>2, <1>4

-----------------------------------------------------------------------------
(* The commits of a block *)

Agree(x, B) == \A a \in DOMAIN x.bal : x.bal[a] = B[a]

\* The supply is that of ledger L, if there is one.
Counts(x, L) ==
    x.supply.minted = 0 \/ (x.supply.minted = L.minted /\ x.supply.burned = L.burned)

\* A root says nothing of what a block does.
LEMMA RootApart ==
    ASSUME NEW b, NEW c, c.validator = b.validator, c.txs = b.txs, NEW B, NEW idx
    PROVE  OkAfter(B, c, idx) = OkAfter(B, b, idx) /\ After(B, c, idx) = After(B, b, idx)
BY DEF OkAfter, After, Run

\* Its transactions write quietly.
LEMMA TxWritesLeads ==
    ASSUME QuietStore, NEW x, Sound(x), NEW M, NEW N, NEW t \in Tx, NEW idx
    PROVE  Leads(x, TxWrites(M, N, t, idx), x)
<1>1. t.type \in {"TRANSFER", "STAKE"}
    BY DEF QuietStore, IsPlain
<1>2. \/ TxWrites(M, N, t, idx) = StakeRows(M.stakes[t.to], N.stakes[t.to], t.to)
      \/ TxWrites(M, N, t, idx) = <<>>
    BY <1>1 DEF TxWrites
<1> QED BY <1>2, StakeRowsLeads, LeadsNil

LEMMA ApplyLeads ==
    ASSUME QuietStore, NEW p, Full(p), Len(p) + 1 <= MaxHeight, NEW L, Formed(L, Len(p)),
           NEW b \in Block, Stored(Append(p, b)), NEW x, Sound(x), x.blocks = p
    PROVE  LET y == Point(Append(p, b), x.bal, x.supply)
           IN  Sound(y) /\ Leads(x, ApplyWrites(L, b, Len(p) + 1), y)
<1> DEFINE idx == Len(p) + 1
           y == Point(Append(p, b), x.bal, x.supply)
           M == Begun(L, idx)
           after == AfterTxs(M, b.validator, idx, b.txs)
           s == [i \in 1..Len(b.txs) |-> TxWrites(after[i - 1], after[i], b.txs[i], idx)]
           w == Write("append_block", idx, b)
<1>1. Len(p) \in Nat /\ idx \in 1..MaxHeight /\ Len(p) \in 0..MaxHeight /\ idx - 1 = Len(p)
    BY LenProperties, StoreAssumption DEF Full
<1>2. M.epoch = L.epoch
    BY <1>1, BegunIs DEF Formed, Kept, Mid
<1>3. ApplyWrites(L, b, idx) = <<{w}>> \o <<>> \o FlattenSeq(s)
    BY <1>2 DEF ApplyWrites, Begun
<1>4. b.txs \in Seq(Tx) /\ Len(b.txs) \in Nat /\ \A i \in 1..Len(b.txs) : b.txs[i] \in Tx
    BY BlockParts, ElementOfSeq
<1>5. Len(Append(p, b)) = idx /\ Append(p, b) # <<>>
    <2>1. Len(Append(p, b)) = idx
        BY OneBlock
    <2> QED BY <1>1, <2>1
<1>6. /\ y.blocks = Append(p, b) /\ y.bal = x.bal /\ y.supply = x.supply
      /\ y = Point(y.blocks, y.bal, y.supply)
    BY DEF Point
<1>7. Due(Len(p)) \in Nat /\ Due(idx) = Due(Len(p)) + Reward(idx) /\ Reward(idx) \in Nat
    BY <1>1, DueFacts
<1> HIDE DEF idx, M, after, w
<1>8. Sound(y)
    <2>1. DOMAIN x.supply = {"minted", "burned"} /\ x.supply.minted \in Int
          /\ x.supply.minted <= Due(Len(p)) /\ DOMAIN x.bal \subseteq Addr
          /\ x.bal \in [DOMAIN x.bal -> Nat]
        BY DEF Sound
    <2>2. y.supply.minted \in Int /\ y.supply.minted <= Due(Len(y.blocks))
        BY <1>5, <1>6, <1>7, <2>1
    <2> HIDE DEF y
    <2> QED BY <1>5, <1>6, <2>1, <2>2 DEF Sound
<1>9. Effect({w}, x, y)
    <2>1. IsAlone(w) /\ y = Moved(x, w)
        BY DEF w, Write, IsAlone, Moved
    <2> HIDE DEF y
    <2> QED BY <2>1 DEF Effect
<1> HIDE DEF y
<1>10. Leads(x, <<{w}>>, y)
    BY <1>8, <1>9, LeadsOne
<1>11. Leads(y, FlattenSeq(s), y)
    <2> DEFINE T == {s[i] : i \in 1..Len(b.txs)}
    <2>1. s \in Seq(T) /\ Len(s) = Len(b.txs)
        BY <1>4
    <2>2. \A i \in 1..Len(b.txs) : s[i] = TxWrites(after[i - 1], after[i], b.txs[i], idx)
        OBVIOUS
    <2>3. \A i \in 1..Len(b.txs) : Leads(y, s[i], y)
        <3> HIDE DEF s
        <3> QED BY <1>4, <1>8, <2>2, TxWritesLeads
    <2> HIDE DEF s, T
    <2> QED BY <1>8, <2>1, <2>3, FlattenLeads
<1> HIDE DEF s
<1>12. Leads(x, (<<{w}>> \o <<>>) \o FlattenSeq(s), y)
    <2>1. Leads(x, <<{w}>> \o <<>>, y)
        BY <1>8, <1>10, LeadsNil, LeadsThen
    <2> HIDE DEF Leads
    <2> QED BY <1>11, <2>1, LeadsThen
<1> QED BY <1>3, <1>8, <1>12 DEF y, idx

\* Whose rows are written: everybody whom the block touches.
LEMMA AffectedIs ==
    ASSUME NEW L, L.unbonding = <<>>, NEW M, NEW b \in Block, NEW idx
    PROVE  Affected(L, M, b, idx) \in SUBSET Addr /\ Touched(b) \subseteq Affected(L, M, b, idx)
<1>1. /\ b.validator \in Addr /\ b.txs \in Seq(Tx) /\ Len(b.txs) \in Nat
      /\ \A i \in 1..Len(b.txs) : b.txs[i] \in Tx
    BY BlockParts, ElementOfSeq
<1>2. Range(b.txs) = {b.txs[i] : i \in 1..Len(b.txs)}
    BY <1>1 DEF Range
<1>3. \A t \in Range(b.txs) : t \in Tx /\ t.from \in Addr /\ t.to \in Addr
    BY <1>1, <1>2, TxType, LedgerAssumption
<1>4. Range(L.unbonding) = {}
    BY DEF Range
<1>5. Affected(L, M, b, idx) \in SUBSET Addr
    BY <1>1, <1>3, <1>4 DEF Affected
<1>6. Touched(b) \subseteq Affected(L, M, b, idx)
    BY <1>2 DEF Affected, Touched
<1> QED BY <1>5, <1>6

LEMMA ThreeInOne ==
    ASSUME NEW d, NEW e, NEW f
    PROVE  (<<d>> \o <<e>>) \o <<f>> = <<d, e, f>>
<1> DEFINE S == {d, e, f}
           P == <<d>> \o <<e>>
           Q == P \o <<f>>
           R == <<d, e, f>>
<1>1. <<d>> \in Seq(S) /\ <<e>> \in Seq(S) /\ <<f>> \in Seq(S) /\ R \in Seq(S)
    OBVIOUS
<1>2. P \in Seq(S) /\ Len(P) = 2 /\ P[1] = d /\ P[2] = e
    BY <1>1, ConcatProperties
<1> HIDE DEF P
<1>3. Q \in Seq(S) /\ Len(Q) = 3 /\ Q[1] = d /\ Q[2] = e /\ Q[3] = f
    BY <1>1, <1>2, ConcatProperties
<1>4. Len(R) = 3 /\ R[1] = d /\ R[2] = e /\ R[3] = f
    OBVIOUS
<1> HIDE DEF Q, R, S
<1>5. \A i \in 1..3 : Q[i] = R[i]
    BY <1>3, <1>4
<1>6. Q = R
    BY <1>1, <1>3, <1>4, <1>5, SeqEqual
<1> QED BY <1>6 DEF Q, R, P

LEMMA PersistLeads ==
    ASSUME QuietStore, NEW idx \in 1..MaxHeight, NEW L, Formed(L, idx - 1), NEW b \in Block,
           OkAfter(L.bal, b, idx), NEW x, Sound(x), Len(x.blocks) = idx, Agree(x, L.bal)
    PROVE  \E y : /\ Leads(x, _persist_balances_after_block(L, Applied(L, b, idx), b, idx), y)
                  /\ y.blocks = x.blocks /\ Agree(y, After(L.bal, b, idx))
                  /\ Counts(y, Applied(L, b, idx))
<1> DEFINE M == Applied(L, b, idx)
           K == Affected(L, M, b, idx)
           C == After(L.bal, b, idx)
           y == Paid(x, K, M.bal)
           z == Point(y.blocks, y.bal, [y.supply EXCEPT !["minted"] = M.minted])
           o == Point(z.blocks, z.bal, [z.supply EXCEPT !["burned"] = M.burned])
           w == Write("put_supply", "minted", M.minted)
           u == Write("put_supply", "burned", M.burned)
<1>1. Formed(M, idx) /\ M.bal = C /\ C \in [Addr -> Nat] /\ M.minted \in Int /\ M.minted <= Due(idx)
    <2>1. Formed(M, idx) /\ M.bal = C
        BY AppliedIs
    <2> QED BY <2>1 DEF Formed, Mid
<1>2. L.unbonding = <<>> /\ L.bal \in [Addr -> Nat]
    BY DEF Formed, Mid
<1>3. K \in SUBSET Addr /\ Touched(b) \subseteq K
    BY <1>2, AffectedIs
<1>4. _persist_balances_after_block(L, M, b, idx) = <<PayWrites(K, M.bal), {w}, {u}>>
    BY DEF _persist_balances_after_block, PayWrites
<1> HIDE DEF M, K, C
<1>5. /\ x.blocks # <<>> /\ DOMAIN x.bal \subseteq Addr /\ x.bal \in [DOMAIN x.bal -> Nat]
      /\ Stored(x.blocks) /\ x.supply.minted \in Int /\ x.supply.minted <= Due(Len(x.blocks))
      /\ DOMAIN x.supply = {"minted", "burned"}
    <2>1. idx # 0
        BY StoreAssumption
    <2> QED BY <2>1 DEF Sound
<1>6. /\ y = Point(y.blocks, y.bal, y.supply) /\ y.blocks = x.blocks /\ y.supply = x.supply
      /\ DOMAIN y.bal = DOMAIN x.bal \cup K
      /\ \A k \in DOMAIN y.bal : y.bal[k] = IF k \in K THEN M.bal[k] ELSE x.bal[k]
      /\ y.bal = [k \in DOMAIN x.bal \cup K |-> IF k \in K THEN M.bal[k] ELSE x.bal[k]]
    BY DEF Paid, Point
<1>7. Effect(PayWrites(K, M.bal), x, y)
    <2> HIDE DEF y
    <2>1. y = Paid(x, K, M.bal)
        BY DEF y
    <2> QED BY <1>1, <1>3, <2>1 DEF Effect
<1> HIDE DEF y
<1>8. y.bal \in [DOMAIN y.bal -> Nat] /\ DOMAIN y.bal \subseteq Addr
    <2>1. \A k \in DOMAIN y.bal : y.bal[k] \in Nat
        BY <1>1, <1>3, <1>5, <1>6
    <2>2. y.bal = [k \in DOMAIN y.bal |-> y.bal[k]]
        BY <1>6
    <2> QED BY <1>3, <1>5, <1>6, <2>1, <2>2
<1>9. Sound(y)
    BY <1>5, <1>6, <1>8 DEF Sound
<1>10. Agree(y, C)
    <2> SUFFICES ASSUME NEW k \in DOMAIN y.bal PROVE y.bal[k] = C[k]
        BY DEF Agree
    <2>1. CASE k \in K
        BY <1>1, <1>6, <2>1
    <2>2. CASE k \notin K
        <3>1. y.bal[k] = x.bal[k] /\ k \in DOMAIN x.bal /\ k \in Addr /\ k \notin Touched(b)
            BY <1>3, <1>6, <1>8, <2>2
        <3>2. x.bal[k] = L.bal[k]
            BY <3>1 DEF Agree
        <3>3. C[k] = L.bal[k]
            BY <1>2, <3>1, UntouchedSame DEF C
        <3> QED BY <3>1, <3>2, <3>3
    <2> QED BY <2>1, <2>2
<1>11. /\ z = Point(z.blocks, z.bal, z.supply) /\ z.blocks = x.blocks /\ z.bal = y.bal
       /\ DOMAIN z.supply = {"minted", "burned"} /\ z.supply.minted = M.minted
    BY <1>5, <1>6 DEF Point
<1>12. Effect({w}, y, z)
    <2>1. IsAlone(w) /\ z = Moved(y, w)
        BY DEF Write, IsAlone, Moved
    <2> HIDE DEF z, w
    <2> QED BY <2>1 DEF Effect
<1>13. Effect({u}, z, o)
    <2> HIDE DEF z
    <2>1. IsAlone(u) /\ o = Moved(z, u)
        BY DEF Write, IsAlone, Moved
    <2> HIDE DEF u, o
    <2> QED BY <2>1 DEF Effect
<1> HIDE DEF z, w, u
<1>14. /\ o = Point(o.blocks, o.bal, o.supply) /\ o.blocks = x.blocks /\ o.bal = y.bal
       /\ DOMAIN o.supply = {"minted", "burned"} /\ o.supply.minted = M.minted
       /\ o.supply.burned = M.burned
    BY <1>11 DEF Point
<1> HIDE DEF o
<1>15. Sound(z) /\ Sound(o)
    BY <1>1, <1>5, <1>8, <1>11, <1>14 DEF Sound
<1>16. Leads(x, <<PayWrites(K, M.bal), {w}, {u}>>, o)
    <2> DEFINE V == PayWrites(K, M.bal)
    <2>1. Leads(x, <<V>>, y) /\ Leads(y, <<{w}>>, z) /\ Leads(z, <<{u}>>, o)
        BY <1>7, <1>9, <1>12, <1>13, <1>15, LeadsOne
    <2> HIDE DEF V
    <2>2. Leads(x, <<V>> \o <<{w}>>, z)
        BY <2>1, LeadsThen
    <2>3. Leads(x, (<<V>> \o <<{w}>>) \o <<{u}>>, o)
        BY <2>1, <2>2, LeadsThen
    <2>4. (<<V>> \o <<{w}>>) \o <<{u}>> = <<V, {w}, {u}>>
        BY ThreeInOne
    <2> QED BY <2>3, <2>4 DEF V
<1>17. Agree(o, C) /\ Counts(o, M)
    BY <1>10, <1>14 DEF Agree, Counts
<1> QED BY <1>4, <1>14, <1>16, <1>17 DEF M, C

\* A block that is appended, stamped or still to be stamped.
LEMMA AppendLeads ==
    ASSUME QuietStore, NEW p, Full(p), Len(p) + 1 <= MaxHeight,
           NEW L, Formed(L, Len(p)), NEW b \in Block,
           OkAfter(L.bal, b, Len(p) + 1), Stored(Append(p, b)),
           NEW x, Sound(x), x.blocks = p, Agree(x, L.bal)
    PROVE  \E z : /\ Leads(x, AppendWrites(L, b, Len(p) + 1), z)
                  /\ z.blocks = Append(p, b) /\ Agree(z, After(L.bal, b, Len(p) + 1))
                  /\ Counts(z, Applied(L, b, Len(p) + 1))
<1> DEFINE idx == Len(p) + 1
           y == Point(Append(p, b), x.bal, x.supply)
           V == ApplyWrites(L, b, idx)
           W == _persist_balances_after_block(L, Applied(L, b, idx), b, idx)
<1>1. Sound(y) /\ Leads(x, V, y)
    BY ApplyLeads
<1>2. idx \in 1..MaxHeight /\ idx - 1 = Len(p)
    BY LenProperties, StoreAssumption DEF Full
<1>3. y.blocks = Append(p, b) /\ y.bal = x.bal /\ Len(y.blocks) = idx
    BY OneBlock DEF Point
<1>4. Agree(y, L.bal)
    BY <1>3 DEF Agree
<1>5. AppendWrites(L, b, idx) = V \o W
    BY DEF AppendWrites
<1> HIDE DEF V, y, idx
<1>6. PICK z : /\ Leads(y, W, z) /\ z.blocks = y.blocks /\ Agree(z, After(L.bal, b, idx))
                /\ Counts(z, Applied(L, b, idx))
    <2>1. Formed(L, idx - 1) /\ OkAfter(L.bal, b, idx)
        BY <1>2 DEF idx
    <2> QED BY <1>1, <1>2, <1>3, <1>4, <2>1, PersistLeads
<1> HIDE DEF W
<1>7. Leads(x, V \o W, z)
    BY <1>1, <1>6, LeadsThen
<1> QED BY <1>3, <1>5, <1>6, <1>7 DEF idx

\* A rollback on disk to n blocks.
LEMMA DeleteLeads ==
    ASSUME QuietStore, NEW x, Sound(x), NEW n \in 0..Len(x.blocks), Full(SubSeq(x.blocks, 1, n)), NEW B
    PROVE  LET y == Point(SubSeq(x.blocks, 1, n), Nothing, NoSupply)
           IN  /\ Sound(y) /\ Agree(y, B) /\ y.supply = NoSupply
               /\ Leads(x, <<{Write("delete_blocks_from", n + 1, 0)}>>, y)
<1> DEFINE q == SubSeq(x.blocks, 1, n)
           w == Write("delete_blocks_from", n + 1, 0)
           y == Point(q, Nothing, NoSupply)
<1>1. (n + 1) - 1 = n
    BY LenProperties DEF Sound, Stored
<1>2. IsAlone(w) /\ y = Moved(x, w)
    BY <1>1 DEF Write, IsAlone, Moved
<1>3. y.blocks = q /\ y.bal = Nothing /\ y.supply = NoSupply /\ y = Point(y.blocks, y.bal, y.supply)
    BY DEF Point
<1> HIDE DEF w, y, q
<1>4. Stored(q) /\ Due(Len(q)) \in Nat
    <2>1. Full(q)
        BY DEF q
    <2>2. Len(q) \in 0..MaxHeight
        BY <2>1, LenProperties, StoreAssumption DEF Full
    <2> QED BY <2>1, <2>2, FullStored, DueFacts
<1>5. DOMAIN y.bal = {} /\ y.bal \in [{} -> Nat]
    BY <1>3 DEF Nothing
<1>6. Sound(y)
    BY <1>3, <1>4, <1>5 DEF Sound, NoSupply
<1>7. Effect({w}, x, y)
    BY <1>2 DEF Effect
<1>8. Leads(x, <<{w}>>, y)
    BY <1>6, <1>7, LeadsOne
<1>9. Agree(y, B)
    BY <1>5 DEF Agree
<1> QED BY <1>3, <1>6, <1>8, <1>9 DEF w, y, q

\* A block with another root.
LEMMA RootReplaced ==
    ASSUME NEW b \in Block, NEW r \in SUBSET (UNION {[D -> Int] : D \in SUBSET Addr})
    PROVE  LET c == [b EXCEPT !.root = r]
           IN  c \in Block /\ c.root = r /\ c.validator = b.validator /\ c.txs = b.txs
BY DEF Block

LEMMA UnstampedType == Unstamped \subseteq SUBSET (UNION {[D -> Int] : D \in SUBSET Addr})
<1>1. [a \in Addr |-> -1] \in [Addr -> Int] /\ Addr \in SUBSET Addr
    OBVIOUS
<1>2. WrongRoot \in SUBSET (UNION {[D -> Int] : D \in SUBSET Addr})
    BY <1>1 DEF WrongRoot
<1> QED BY <1>2 DEF Unstamped

\* A block that is produced: stored without a root, and stamped at the end.
LEMMA ProduceLeads ==
    ASSUME QuietStore, NEW p, Full(p), Len(p) + 1 <= MaxHeight,
           NEW L, Formed(L, Len(p)), NEW b \in Block,
           OkAfter(L.bal, b, Len(p) + 1), Full(Append(p, b)),
           NEW x, Sound(x), x.blocks = p, Agree(x, L.bal)
    PROVE  \E z : /\ Leads(x, ProduceWrites(L, b, Len(p) + 1), z)
                  /\ z.blocks = Append(p, b) /\ Agree(z, After(L.bal, b, Len(p) + 1))
                  /\ Counts(z, Applied(L, b, Len(p) + 1))
<1> DEFINE idx == Len(p) + 1
           c == [b EXCEPT !.root = {}]
           W == AppendWrites(L, c, idx)
           w == Write("update_block", idx, b)
<1>1. c \in Block /\ c.root = {} /\ c.validator = b.validator /\ c.txs = b.txs
    <2>1. {} \in SUBSET (UNION {[D -> Int] : D \in SUBSET Addr})
        OBVIOUS
    <2> QED BY <2>1, RootReplaced
<1>2. ProduceWrites(L, b, idx) = W \o <<{w}>>
    BY DEF ProduceWrites
<1> HIDE DEF c
<1>3. /\ OkAfter(L.bal, c, idx) /\ After(L.bal, c, idx) = After(L.bal, b, idx)
      /\ Applied(L, c, idx) = Applied(L, b, idx)
    BY <1>1, RootApart DEF Applied
<1>4. Stored(Append(p, c))
    BY <1>1, StoredBlock DEF Unstamped
<1>5. PICK y : /\ Leads(x, W, y) /\ y.blocks = Append(p, c) /\ Agree(y, After(L.bal, b, idx))
                /\ Counts(y, Applied(L, b, idx))
    BY <1>1, <1>3, <1>4, AppendLeads
<1> DEFINE z == Point([y.blocks EXCEPT ![idx] = b], y.bal, y.supply)
<1>6. IsAlone(w) /\ z = Moved(y, w)
    BY DEF Write, IsAlone, Moved
<1>7. [Append(p, c) EXCEPT ![idx] = b] = Append(p, b)
    <2> DEFINE q == [Append(p, c) EXCEPT ![idx] = b]
               r == Append(p, b)
    <2>1. /\ p \in Seq(Block) /\ Len(p) \in Nat
        BY LenProperties DEF Full
    <2>2. /\ Append(p, c) \in Seq(Block) /\ Len(Append(p, c)) = idx
          /\ \A i \in 1..Len(p) : Append(p, c)[i] = p[i]
        BY <1>1, <2>1, AppendProperties
    <2>3. r \in Seq(Block) /\ Len(r) = idx /\ r[idx] = b /\ \A i \in 1..Len(p) : r[i] = p[i]
        BY <2>1, AppendProperties
    <2> DEFINE s == Append(p, c)
    <2> HIDE DEF s, r
    <2>4. idx \in 1..Len(s) /\ s \in Seq(Block)
        BY <2>1, <2>2 DEF s
    <2>5. /\ q \in Seq(Block) /\ Len(q) = Len(s)
          /\ \A i \in 1..Len(s) : q[i] = IF i = idx THEN b ELSE s[i]
        <3>1. q = [s EXCEPT ![idx] = b]
            BY DEF s
        <3> HIDE DEF q
        <3> QED BY <2>4, <3>1, ExceptSeq
    <2>6. \A i \in 1..idx : q[i] = r[i]
        <3> TAKE i \in 1..idx
        <3>1. i = idx \/ i \in 1..Len(p)
            BY <2>1
        <3> HIDE DEF q
        <3> QED BY <2>2, <2>3, <2>5, <3>1 DEF s
    <2> HIDE DEF q
    <2>7. q = r
        BY <2>2, <2>3, <2>5, <2>6, SeqEqual DEF s
    <2> QED BY <2>7 DEF q, r
<1>8. /\ z.blocks = Append(p, b) /\ z.bal = y.bal /\ z.supply = y.supply
      /\ z = Point(z.blocks, z.bal, z.supply)
    BY <1>5, <1>7 DEF Point
<1> HIDE DEF W, w, z
<1>9. Sound(z)
    <2>1. Sound(y) /\ Len(Append(p, b)) = Len(Append(p, c)) /\ Append(p, b) # <<>>
        <3>1. Len(Append(p, b)) = idx /\ Len(Append(p, c)) = idx /\ Len(p) \in Nat
            <4>1. Len(Append(p, b)) = idx
                BY OneBlock
            <4>2. Len(Append(p, c)) = idx
                BY <1>1, OneBlock
            <4>3. Len(p) \in Nat
                BY LenProperties DEF Full
            <4> QED BY <4>1, <4>2, <4>3
        <3>2. Append(p, b) # <<>>
            BY <3>1
        <3>3. Sound(y)
            BY <1>5, LeadsEnds
        <3> QED BY <3>1, <3>2, <3>3
    <2>2. Stored(Append(p, b))
        BY FullStored
    <2> QED BY <1>5, <1>8, <2>1, <2>2 DEF Sound
<1>10. Effect({w}, y, z)
    BY <1>6 DEF Effect
<1>11. Leads(y, <<{w}>>, z) /\ Sound(y)
    BY <1>5, <1>9, <1>10, LeadsOne, LeadsEnds
<1>12. Leads(x, W \o <<{w}>>, z)
    BY <1>5, <1>11, LeadsThen
<1>13. Agree(z, After(L.bal, b, idx)) /\ Counts(z, Applied(L, b, idx))
    BY <1>5, <1>8 DEF Agree, Counts
<1> QED BY <1>2, <1>8, <1>12, <1>13

\* A block that is refused for its root.
LEMMA RefuseLeads ==
    ASSUME QuietStore, NEW p, Full(p), Len(p) + 1 <= MaxHeight,
           NEW L, Formed(L, Len(p)), NEW b \in Block, b.root = WrongRoot,
           NEW x, Sound(x), x.blocks = p, NEW B
    PROVE  \E z : /\ Leads(x, ApplyWrites(L, b, Len(p) + 1)
                                \o <<{Write("delete_blocks_from", Len(p) + 1, 0)}>>, z)
                  /\ z.blocks = p /\ Agree(z, B) /\ z.supply = NoSupply
<1> DEFINE y == Point(Append(p, b), x.bal, x.supply)
           z == Point(p, Nothing, NoSupply)
           V == ApplyWrites(L, b, Len(p) + 1)
           W == <<{Write("delete_blocks_from", Len(p) + 1, 0)}>>
<1>1. Stored(Append(p, b))
    BY StoredBlock DEF Unstamped
<1>2. Sound(y) /\ Leads(x, V, y)
    BY <1>1, ApplyLeads
<1>3. y.blocks = Append(p, b) /\ SubSeq(Append(p, b), 1, Len(p)) = p /\ Len(p) \in 0..Len(Append(p, b))
    <2>1. Len(p) \in Nat
        BY LenProperties DEF Full
    <2>2. SubSeq(Append(p, b), 1, Len(p)) = p /\ Len(Append(p, b)) = Len(p) + 1
        BY OneBlock
    <2> QED BY <2>1, <2>2 DEF Point
<1>4. z.blocks = p /\ z.supply = NoSupply
    BY DEF Point
<1> HIDE DEF y, z, V, W
<1>5. Sound(z) /\ Agree(z, B) /\ Leads(y, W, z)
    <2> DEFINE u == Point(SubSeq(y.blocks, 1, Len(p)), Nothing, NoSupply)
    <2>1. Sound(u) /\ Agree(u, B) /\ Leads(y, W, u)
        BY <1>2, <1>3, DeleteLeads DEF W
    <2>2. u = z
        BY <1>3 DEF z
    <2> QED BY <2>1, <2>2
<1>6. Leads(x, V \o W, z)
    BY <1>2, <1>5, LeadsThen
<1> QED BY <1>4, <1>5, <1>6 DEF V, W

LEMMA GrowStart ==
    ASSUME NEW q \in Seq(Block), NEW k \in Nat, k + 1 \in 1..Len(q)
    PROVE  Append(SubSeq(q, 1, k), q[k + 1]) = SubSeq(q, 1, k + 1)
<1> DEFINE p == SubSeq(q, 1, k)
           r == SubSeq(q, 1, k + 1)
           b == q[k + 1]
           s == Append(p, b)
<1>1. Len(q) \in Nat /\ k \in 0..Len(q) /\ k + 1 \in 0..Len(q) /\ b \in Block
    BY LenProperties, ElementOfSeq
<1>2. p \in Seq(Block) /\ Len(p) = k /\ \A i \in 1..k : p[i] = q[i]
    BY <1>1, SubSeqProperties
<1>3. r \in Seq(Block) /\ Len(r) = k + 1 /\ \A i \in 1..(k + 1) : r[i] = q[i]
    BY <1>1, SubSeqProperties
<1> HIDE DEF p, r, b
<1>4. s \in Seq(Block) /\ Len(s) = k + 1 /\ s[k + 1] = b /\ \A i \in 1..k : s[i] = p[i]
    BY <1>1, <1>2, AppendProperties
<1> HIDE DEF s
<1>5. \A i \in 1..(k + 1) : s[i] = r[i]
    <2> TAKE i \in 1..(k + 1)
    <2>1. i \in 1..k \/ i = k + 1
        OBVIOUS
    <2> QED BY <1>2, <1>3, <1>4, <2>1 DEF b
<1>6. s = r
    BY <1>3, <1>4, <1>5, SeqEqual
<1> QED BY <1>6 DEF s, r, p, b

\* Ledger L has come to the first n blocks of q with the commits W, from x.
Restored(x, q, n, L, W) ==
    /\ Formed(L, n) /\ L.bal = At(q, n)
    /\ \E z : Leads(x, W, z) /\ z.blocks = SubSeq(q, 1, n) /\ Agree(z, L.bal) /\ Counts(z, L)

\* The next block of q appended again.
LEMMA RestoreOne ==
    ASSUME QuietStore, NEW q, Full(q), NEW n \in 0..(Len(q) - 1), NEW x, NEW L, NEW W,
           Restored(x, q, n, L, W)
    PROVE  Restored(x, q, n + 1, PruneDistributions(Applied(L, q[n + 1], n + 1), n + 1),
                    W \o AppendWrites(L, q[n + 1], n + 1))
<1> DEFINE idx == n + 1
           b == q[n + 1]
           p == SubSeq(q, 1, n)
           M == Applied(L, b, idx)
           N == PruneDistributions(M, idx)
           V == AppendWrites(L, b, idx)
<1>1. q \in Seq(Block) /\ Len(q) \in Nat /\ Len(q) <= MaxHeight /\ MaxHeight \in Nat
    BY LenProperties, StoreAssumption DEF Full
<1>2. /\ idx \in 1..Len(q) /\ n \in 0..Len(q) /\ idx \in 1..MaxHeight /\ idx - 1 = n /\ n \in Nat
      /\ idx <= MaxHeight
    BY <1>1
<1>3. b \in Block /\ IsStamped(q, idx)
    BY <1>1, <1>2, ElementOfSeq DEF Full
<1>4. Full(p) /\ Len(p) = n /\ Append(p, b) = SubSeq(q, 1, idx) /\ Full(SubSeq(q, 1, idx))
    <2>1. Full(p) /\ Len(p) = n
        BY <1>2, FullStart
    <2>2. Full(SubSeq(q, 1, idx))
        BY <1>1, <1>2, FullStart
    <2>3. Append(p, b) = SubSeq(q, 1, idx)
        BY <1>1, <1>2, GrowStart
    <2> QED BY <2>1, <2>2, <2>3
<1>5. PICK z : Leads(x, W, z) /\ z.blocks = p /\ Agree(z, L.bal)
    BY DEF Restored
<1>6. Formed(L, n) /\ L.bal = At(q, n)
    BY DEF Restored
<1> HIDE DEF p, b
<1>7. OkAfter(L.bal, b, idx) /\ At(q, idx) = After(L.bal, b, idx)
    <2>1. OkAfter(At(q, idx - 1), q[idx], idx)
        BY <1>3 DEF IsStamped
    <2>2. At(q, idx) = After(At(q, idx - 1), q[idx], idx)
        BY <1>1, <1>2, <1>3, StampedAt
    <2> QED BY <1>2, <1>6, <2>1, <2>2 DEF b
<1>8. Formed(M, idx) /\ M.bal = After(L.bal, b, idx)
    BY <1>2, <1>3, <1>6, <1>7, AppliedIs
<1>9. Formed(N, idx) /\ N.bal = M.bal /\ N.minted = M.minted /\ N.burned = M.burned
    BY <1>8, PruneIs
<1>10. PICK y : /\ Leads(z, V, y) /\ y.blocks = Append(p, b)
                /\ Agree(y, After(L.bal, b, idx)) /\ Counts(y, M)
    <2>1. Stored(Append(p, b)) /\ Sound(z)
        BY <1>4, <1>5, FullStored, LeadsEnds
    <2>2. Len(p) + 1 = idx /\ Formed(L, Len(p)) /\ OkAfter(L.bal, b, Len(p) + 1) /\ Len(p) + 1 <= MaxHeight
        BY <1>2, <1>4, <1>6, <1>7
    <2>3. \E y : /\ Leads(z, AppendWrites(L, b, Len(p) + 1), y) /\ y.blocks = Append(p, b)
                 /\ Agree(y, After(L.bal, b, Len(p) + 1))
                 /\ Counts(y, Applied(L, b, Len(p) + 1))
        <3> HIDE DEF M, N, V, idx
        <3> QED BY <1>3, <1>4, <1>5, <2>1, <2>2, AppendLeads
    <2> QED BY <2>2, <2>3
<1>0. Counts(y, N)
    BY <1>9, <1>10 DEF Counts
<1> HIDE DEF V, N, M
<1>11. Leads(x, W \o V, y)
    BY <1>5, <1>10, LeadsThen
<1>12. Restored(x, q, idx, N, W \o V)
    BY <1>0, <1>4, <1>7, <1>8, <1>9, <1>10, <1>11 DEF Restored
<1> QED BY <1>12 DEF N, M, V, b

\* The old chain, appended again to what is left of it.
LEMMA ReappendLeads ==
    ASSUME QuietStore, NEW q, Full(q), fork.base \in 0..Len(q),
           Len(fork.saved) = Len(q) - fork.base,
           \A n \in 1..Len(fork.saved) : fork.saved[n] = q[fork.base + n],
           NEW L, Formed(L, fork.base), L.bal = At(q, fork.base),
           NEW x, Sound(x), x.blocks = SubSeq(q, 1, fork.base), Agree(x, L.bal),
           Counts(x, L)
    PROVE  LET old == Reappended(L)[Len(fork.saved)]
           IN  Restored(x, q, Len(q), old.ledger, old.writes)
<1> DEFINE A == Reappended(L)
           N == Len(fork.saved)
           base == fork.base
           S == {n \in 0..N : Restored(x, q, base + n, A[n].ledger, A[n].writes)}
<1>1. Len(q) \in Nat /\ base \in Nat /\ N \in Nat /\ base + N = Len(q)
    BY LenProperties DEF Full
<1>2. A[0] = [ledger |-> L, writes |-> <<>>] /\ \A n \in 1..N : A[n] = OneMore(A[n - 1], n)
    BY <1>1, ReappendedIs
<1>3. \A n \in 1..N : fork.saved[n] = q[base + n]
    OBVIOUS
<1>4. Restored(x, q, base, L, <<>>)
    BY LeadsNil DEF Restored
<1>5. \A n \in 1..N : A[n].ledger = PruneDistributions(Applied(A[n - 1].ledger, q[base + n], base + n), base + n)
                   /\ A[n].writes = A[n - 1].writes \o AppendWrites(A[n - 1].ledger, q[base + n], base + n)
    <2> TAKE n \in 1..N
    <2> DEFINE o == A[n - 1]
               b == fork.saved[n]
    <2>1. A[n] = OneMore(o, n) /\ b = q[base + n]
        BY <1>2, <1>3
    <2> DEFINE M == PruneDistributions(Applied(o.ledger, b, base + n), base + n)
               W == o.writes \o AppendWrites(o.ledger, b, base + n)
    <2>2. OneMore(o, n) = [ledger |-> M, writes |-> W]
        BY DEF OneMore
    <2> HIDE DEF A, o, M, W
    <2>3. A[n].ledger = M /\ A[n].writes = W
        BY <2>1, <2>2
    <2> QED BY <2>1, <2>3 DEF o, M, W
<1> HIDE DEF A, N, base
<1>6. 0 \in S
    <2>1. base + 0 = base /\ 0 \in 0..N
        BY <1>1
    <2> QED BY <1>2, <1>4, <2>1
<1>7. ASSUME NEW n \in 1..N, n - 1 \in S PROVE n \in S
    <2> DEFINE k == base + (n - 1)
    <2>1. k + 1 = base + n /\ n \in 0..N /\ k \in 0..(Len(q) - 1)
        BY <1>1
    <2>2. Restored(x, q, k, A[n - 1].ledger, A[n - 1].writes)
        BY <1>7
    <2> HIDE DEF k
    <2>3. Restored(x, q, k + 1, PruneDistributions(Applied(A[n - 1].ledger, q[k + 1], k + 1), k + 1),
                   A[n - 1].writes \o AppendWrites(A[n - 1].ledger, q[k + 1], k + 1))
        BY <2>1, <2>2, RestoreOne
    <2> QED BY <1>5, <2>1, <2>3
<1>8. \A n \in 0..N : n \in S
    <2> HIDE DEF S
    <2> QED BY <1>1, <1>6, <1>7, PrefixInduction
<1>9. N \in 0..N
    BY <1>1
<1> QED BY <1>1, <1>8, <1>9 DEF A, N, base

-----------------------------------------------------------------------------
(* The invariant *)

\* The chain that a reorganization set out from.
OldChain == SubSeq(chain, 1, fork.base) \o fork.saved

ForkOk ==
    \/ fork = NoFork
    \/ /\ DOMAIN fork = {"owed", "saved", "base"}
       /\ fork.base \in 0..height /\ fork.saved \in Seq(Block)
       /\ Full(OldChain)

\* Every block in memory has the root of the balances it leaves, the ledger has
\* those of the last one, and the commits lead to the same blocks, to rows that agree and
\* to its supply or none, past points from which a restart finds no other balances.
Running ==
    /\ Full(chain) /\ Formed(ledger, height) /\ ledger.bal = At(chain, height)
    /\ ForkOk
    /\ \E y : /\ Leads(PointOf(db), todo, y) /\ y.blocks = chain
              /\ Agree(y, ledger.bal) /\ Counts(y, ledger)

StoreInv ==
    /\ mode \in {"up", "down"} => Tables(db)
    /\ mode = "down" => Sound(PointOf(db)) /\ todo = <<>> /\ fork = NoFork
    /\ mode = "up" => Running

LEMMA FullNothing == Full(<<>>)
<1>1. <<>> \in Seq(Block) /\ Len(<<>>) = 0 /\ 0 <= MaxHeight
    BY StoreAssumption
<1> QED BY <1>1 DEF Full

LEMMA StoreStart ==
    ASSUME QuietStore, Init
    PROVE  StoreInv
<1> DEFINE x == PointOf(db)
           rows == [a \in {Self} |-> GENESIS_BALANCE]
<1>1. Self \in Addr /\ GENESIS_BALANCE \in Nat
    BY LedgerAssumption
<1>2. /\ mode = "up" /\ chain = <<>> /\ ledger = Genesis /\ todo = <<>> /\ fork = NoFork
      /\ db = [blocks |-> <<>>, bal |-> rows,
               supply |-> [minted |-> GENESIS_BALANCE, burned |-> 0],
               stakes |-> Genesis.stakes, epochs |-> Genesis.epochs, slashing |-> {}]
    BY DEF Init
<1>3. Due(0) = GENESIS_BALANCE
    <2>1. 1..0 = {}
        OBVIOUS
    <2>2. SumFunctionOnSet([i \in 1..MaxHeight |-> Reward(i)], 1..0) = 0
        BY <2>1, SumEmpty
    <2> QED BY <1>1, <2>2 DEF Due
<1>4. Tables(db)
    BY <1>2 DEF Tables, Genesis
<1>5. /\ x.blocks = <<>> /\ x.bal = rows /\ x.supply.minted = GENESIS_BALANCE /\ x.supply.burned = 0
      /\ DOMAIN x.supply = {"minted", "burned"}
      /\ x = Point(x.blocks, x.bal, x.supply)
    BY <1>2 DEF PointOf, Point
<1> HIDE DEF x
<1>6. Sound(x)
    <2>1. DOMAIN x.bal = {Self} /\ x.bal \in [{Self} -> Nat]
        BY <1>1, <1>5
    <2>2. x.bal # Nothing
        BY <2>1 DEF Nothing
    <2>3. Stored(<<>>) /\ Len(<<>>) = 0
        BY FullNothing, FullStored
    <2> QED BY <1>1, <1>3, <1>5, <2>1, <2>2, <2>3 DEF Sound
<1>7. Agree(x, ledger.bal) /\ Counts(x, ledger)
    BY <1>1, <1>2, <1>5 DEF Agree, Counts, Genesis
<1>8. Formed(ledger, height) /\ ledger.bal = At(chain, height)
    <2>1. height = 0
        BY <1>2 DEF height
    <2>2. Mid(Genesis)
        BY GenesisBal DEF Mid, Fields, Genesis
    <2>3. Formed(Genesis, 0)
        BY <1>1, <1>3, <2>2 DEF Formed, Genesis
    <2> QED BY <1>2, <2>1, <2>3 DEF At
<1>9. Leads(x, todo, x)
    BY <1>2, <1>6, LeadsNil
<1>10. Running
    BY <1>2, <1>5, <1>7, <1>8, <1>9, FullNothing DEF Running, ForkOk, x
<1> QED BY <1>2, <1>4, <1>10 DEF StoreInv

\* Nobody takes a stake back: no unbonding is replayed.
LEMMA NonePending ==
    ASSUME QuietStore, NEW p \in Seq(Block)
    PROVE  PendingUnbondings(p) = <<>>
<1> DEFINE made(i, t) == IF t.type = "UNSTAKE" THEN <<Unbonding(t, i)>> ELSE <<>>
           part(i) == [k \in 1..Len(p[i].txs) |-> made(i, p[i].txs[k])]
           inBlock(i) == FlattenSeq(part(i))
           s == [i \in 1..Len(p) |-> inBlock(i)]
           all == FlattenSeq(s)
           K == {k \in 1..Len(all) : all[k].release > Len(p)}
<1>1. Len(p) \in Nat
    BY LenProperties
<1>2. ASSUME NEW i \in 1..Len(p) PROVE inBlock(i) = <<>>
    <2>1. p[i] \in Block
        BY ElementOfSeq
    <2>2. Len(p[i].txs) \in Nat /\ \A k \in 1..Len(p[i].txs) : p[i].txs[k] \in Tx
        BY <2>1, BlockParts, ElementOfSeq
    <2>3. \A k \in 1..Len(p[i].txs) : made(i, p[i].txs[k]) = <<>>
        BY <2>2 DEF QuietStore, IsPlain
    <2> HIDE DEF made
    <2>4. part(i) \in Seq({<<>>})
        BY <2>2, <2>3
    <2> HIDE DEF part
    <2> QED BY <2>4, FlattenNothing
<1> HIDE DEF inBlock
<1>3. s \in Seq({<<>>})
    BY <1>1, <1>2
<1> HIDE DEF s
<1>4. all = <<>>
    BY <1>3, FlattenNothing
<1>5. PendingUnbondings(p) = Select(all, K)
    BY DEF PendingUnbondings, all, s, inBlock
<1> HIDE DEF all
<1>6. K = {}
    BY <1>4
<1>7. Select(<<>>, {}) = <<>>
    <2>1. <<>> \in Seq({}) /\ {} \subseteq 1..Len(<<>>)
        OBVIOUS
    <2>2. Select(<<>>, {}) \in Seq({})
        BY <2>1, SelectIs
    <2> HIDE DEF K
    <2> QED BY <2>2
<1> HIDE DEF K
<1> QED BY <1>4, <1>5, <1>6, <1>7

\* A load that succeeds finds the balances that the last block was stamped with.
LEMMA LoadedIs ==
    ASSUME QuietStore, NEW d, Tables(d), Sound(PointOf(d)), LoadsWell(d)
    PROVE  LET L == Loaded(d)
           IN  /\ Full(d.blocks) /\ Formed(L, Len(d.blocks))
               /\ L.bal = At(d.blocks, Len(d.blocks))
               /\ Agree(PointOf(d), L.bal) /\ Counts(PointOf(d), L)
<1> DEFINE x == PointOf(d)
           p == d.blocks
           L == Loaded(d)
<1>1. Tables(d) /\ Sound(x)
    OBVIOUS
<1>2. TipRoot(p) = {d.bal} /\ d.supply.minted > 0
    BY DEF LoadsWell, RootMatches
<1>3. /\ x.blocks = p /\ x.bal = d.bal /\ x.supply = d.supply
    BY DEF PointOf, Point
<1>4. /\ Stored(p) /\ DOMAIN d.bal \subseteq Addr /\ d.bal \in [DOMAIN d.bal -> Nat]
      /\ d.supply.minted \in Int /\ d.supply.minted <= Due(Len(p))
      /\ p = <<>> => d.supply.minted = 0 \/ d.bal # Nothing
    BY <1>1, <1>3 DEF Sound
<1>5. p \in Seq(Block) /\ Len(p) \in Nat /\ Len(p) <= MaxHeight /\ MaxHeight \in Nat
    BY <1>4, LenProperties, StoreAssumption DEF Stored
<1>6. p # <<>>
    <2> SUFFICES ASSUME p = <<>> PROVE FALSE
        OBVIOUS
    <2>1. {Nothing} = {d.bal}
        BY <1>2 DEF TipRoot
    <2>2. d.bal = Nothing
        BY <2>1
    <2> QED BY <1>2, <1>4, <2>2
<1> DEFINE n == Len(p)
           B == At(p, n - 1)
           C == After(B, p[n], n)
<1>7. n \in 1..n /\ n \in 1..MaxHeight /\ n > 0 /\ p[n].root = {d.bal}
    <2>1. n # 0
        BY <1>5, <1>6, EmptySeq
    <2>2. TipRoot(p) = p[n].root
        BY <1>6 DEF TipRoot, Last
    <2> QED BY <1>2, <1>5, <2>1, <2>2
<1>8. IsStamped(p, n)
    <2>1. p[n].root # {}
        BY <1>7
    <2>2. p[n].root # WrongRoot
        <3> SUFFICES ASSUME {d.bal} = {[a \in Addr |-> -1]} PROVE FALSE
            BY <1>7 DEF WrongRoot
        <3>1. d.bal = [a \in Addr |-> -1]
            OBVIOUS
        <3>2. Self \in Addr
            BY LedgerAssumption
        <3>3. d.bal[Self] = -1 /\ Self \in DOMAIN d.bal
            BY <3>1, <3>2
        <3> QED BY <1>4, <3>3
    <2> QED BY <1>4, <1>7, <2>1, <2>2 DEF Stored, Unstamped
<1>9. Full(p)
    <2>1. \A i \in 1..n : i \in 1..(n - 1) \/ i = n
        BY <1>5
    <2> QED BY <1>4, <1>5, <1>8, <2>1 DEF Full, Stored
<1>10. At(p, n) = C /\ C \in [Addr -> Nat]
    BY <1>5, <1>7, <1>8, StampedAt
<1>11. d.bal = Positive(C)
    <2>1. {d.bal} = {Positive(C)}
        BY <1>7, <1>8 DEF IsStamped
    <2> HIDE DEF C
    <2> QED BY <2>1
<1> HIDE DEF C, n
<1>12. L.bal = C
    <2>1. L.bal = [a \in Addr |-> IF a \in DOMAIN d.bal THEN d.bal[a] ELSE 0]
        BY DEF Loaded
    <2>2. \A a \in Addr : (IF a \in DOMAIN d.bal THEN d.bal[a] ELSE 0) = C[a]
        BY <1>10, <1>11 DEF Positive
    <2>3. L.bal = [a \in Addr |-> C[a]]
        BY <2>1, <2>2
    <2> QED BY <1>10, <2>3
<1>13. Formed(L, n)
    <2>1. L.unbonding = <<>>
        BY <1>5, NonePending DEF Loaded
    <2>2. L.epoch = 0
        <3>1. DOMAIN d.epochs \subseteq {0}
            BY <1>1 DEF Tables
        <3>2. {0} \cup DOMAIN d.epochs = {0}
            BY <3>1
        <3>3. L.epoch = Max({0} \cup DOMAIN d.epochs)
            BY DEF Loaded
        <3>4. Max({0}) = 0
            BY MaxIs
        <3> QED BY <3>2, <3>3, <3>4
    <2>3. DOMAIN L = Fields /\ L.ok = TRUE /\ L.minted = d.supply.minted
        BY DEF Loaded, Fields
    <2>4. L.frozen = {}
        <3> DEFINE epoch == Max({0} \cup DOMAIN d.epochs)
                   set == IF epoch \in DOMAIN d.epochs THEN d.epochs[epoch] ELSE {}
        <3>1. set = {}
            BY <1>1 DEF Tables
        <3>2. L.frozen \subseteq set
            BY DEF Loaded
        <3> QED BY <3>1, <3>2
    <2> HIDE DEF L
    <2> QED BY <1>4, <1>10, <1>12, <2>1, <2>2, <2>3, <2>4 DEF Formed, Mid, n
<1>14. Agree(x, L.bal)
    <2>1. \A a \in DOMAIN d.bal : d.bal[a] = C[a]
        BY <1>11 DEF Positive
    <2> QED BY <1>3, <1>12, <2>1 DEF Agree
<1>15. Counts(x, L)
    BY <1>3 DEF Counts, Loaded
<1> QED BY <1>9, <1>10, <1>12, <1>13, <1>14, <1>15 DEF n

LEMMA LoadGoesOn ==
    ASSUME QuietStore, StoreInv, load
    PROVE  StoreInv'
<1> DEFINE d == db
           x == PointOf(d)
           L == Loaded(d)
<1>1. /\ mode' = "up" /\ chain' = d.blocks /\ ledger' = L
      /\ db' = d /\ todo' = <<>> /\ fork' = NoFork /\ Tables(d) /\ Sound(x) /\ LoadsWell(d)
    BY DEF load, Load, StoreInv
<1>2. /\ Full(d.blocks) /\ Formed(L, Len(d.blocks)) /\ L.bal = At(d.blocks, Len(d.blocks))
      /\ Agree(x, L.bal) /\ Counts(x, L)
    BY <1>1, LoadedIs
<1>3. Leads(x, <<>>, x) /\ x.blocks = d.blocks
    BY <1>1, LeadsNil DEF PointOf, Point
<1> HIDE DEF L
<1>4. Running'
    <2>1. Full(chain)' /\ Formed(ledger, height)' /\ (ledger.bal = At(chain, height))'
        BY <1>1, <1>2 DEF height
    <2>2. ForkOk'
        BY <1>1 DEF ForkOk
    <2>3. (\E y : Leads(PointOf(db), todo, y) /\ y.blocks = chain /\ Agree(y, ledger.bal)
                /\ Counts(y, ledger))'
        BY <1>1, <1>2, <1>3
    <2> QED BY <2>1, <2>2, <2>3 DEF Running
<1>5. Tables(db)'
    BY <1>1
<1> QED BY <1>1, <1>4, <1>5 DEF StoreInv

-----------------------------------------------------------------------------
(* The steps *)

LEMMA BlockOf ==
    ASSUME NEW V, V \subseteq Validator, NEW b \in Blocks(V)
    PROVE  b \in Block
<1>1. /\ b.validator \in V /\ b.txs \in UNION {[1..n -> Tx] : n \in 0..MAX_TX_PER_BLOCK}
      /\ b.root = {} /\ b = [validator |-> b.validator, txs |-> b.txs, root |-> b.root]
    BY DEF Blocks
<1>2. b.txs \in Seq(Tx)
    <2>1. PICK n \in 0..MAX_TX_PER_BLOCK : b.txs \in [1..n -> Tx]
        BY <1>1
    <2>2. n \in Nat
        BY StoreAssumption
    <2> QED BY <2>1, <2>2
<1> QED BY <1>1, <1>2 DEF Block

\* What a node can append, and what it comes to.
LEMMA BlockFacts ==
    ASSUME QuietStore, Running, NEW b \in Block, CanAppend(b)
    PROVE  LET c == Stamped(b)
               q == Append(chain, c)
               M == PruneDistributions(Applied(ledger, c, height + 1), height + 1)
           IN  /\ height + 1 <= MaxHeight /\ c \in Block
               /\ OkAfter(ledger.bal, c, height + 1) /\ OkAfter(ledger.bal, b, height + 1)
               /\ Full(q) /\ Len(q) = height + 1
               /\ Formed(M, height + 1) /\ M.bal = After(ledger.bal, c, height + 1)
               /\ M.bal = At(q, height + 1)
<1> DEFINE idx == height + 1
           N == Applied(ledger, b, idx)
           c == Stamped(b)
           C == After(ledger.bal, b, idx)
           q == Append(chain, c)
           O == Applied(ledger, c, idx)
           M == PruneDistributions(O, idx)
<1>1. /\ Full(chain) /\ Formed(ledger, height) /\ ledger.bal = At(chain, height)
      /\ height = Len(chain)
    BY DEF Running, height
<1>2. height \in Nat /\ MaxHeight \in Nat /\ height < MaxHeight /\ N.ok
    BY <1>1, LenProperties, StoreAssumption DEF CanAppend, Full
<1>3. idx \in 1..MaxHeight /\ idx - 1 = height /\ idx <= MaxHeight
    BY <1>2
<1> HIDE DEF idx, N, C
<1>4. OkAfter(ledger.bal, b, idx) /\ N.bal = C
    BY <1>1, <1>2, <1>3, AppliedIs DEF N, C
<1>5. C \in [Addr -> Nat]
    BY <1>1, <1>3, AfterType DEF C, Formed, Mid
<1>6. c.root = {Positive(C)} /\ c \in Block /\ c.validator = b.validator /\ c.txs = b.txs
    <2>1. Root(N) = {Positive(C)}
        BY <1>4 DEF Root, Positive
    <2>2. c = [b EXCEPT !.root = {Positive(C)}]
        BY <2>1 DEF Stamped, N, idx
    <2> DEFINE r == {Positive(C)}
    <2>3. r \in SUBSET (UNION {[D -> Int] : D \in SUBSET Addr})
        BY <1>5, RootType
    <2> HIDE DEF r, c
    <2>4. c = [b EXCEPT !.root = r]
        BY <2>2 DEF r
    <2>5. c.root = r /\ c \in Block /\ c.validator = b.validator /\ c.txs = b.txs
        BY <2>3, <2>4, RootReplaced
    <2> QED BY <2>5 DEF r
<1> HIDE DEF c
<1>7. OkAfter(ledger.bal, c, idx) /\ After(ledger.bal, c, idx) = C
    BY <1>4, <1>6, RootApart DEF C
<1>8. Formed(O, idx) /\ O.bal = C
    BY <1>1, <1>3, <1>6, <1>7, AppliedIs
<1> HIDE DEF O
<1>9. Formed(M, idx) /\ M.bal = C
    BY <1>8, PruneIs
<1> HIDE DEF M
<1>10. Full(q) /\ At(q, idx) = C
    <2>1. OkAfter(At(chain, Len(chain)), c, Len(chain) + 1) /\ Len(chain) + 1 <= MaxHeight
          /\ c.root = {Positive(After(At(chain, Len(chain)), c, Len(chain) + 1))}
        BY <1>1, <1>3, <1>6, <1>7 DEF idx
    <2> QED BY <1>1, <1>6, <1>7, <2>1, StampedBlock DEF idx
<1>11. Len(q) = idx
    <2>1. Len(chain) + 1 <= MaxHeight
        BY <1>1, <1>3 DEF idx
    <2> QED BY <1>1, <1>6, <2>1, OneBlock DEF idx
<1> QED BY <1>3, <1>4, <1>6, <1>7, <1>9, <1>10, <1>11 DEF M, O, c, idx

\* A chain that begins with the same blocks remembers the same old chain.
LEMMA ForkKept ==
    ASSUME Full(chain), ForkOk, NEW c \in Block, height + 1 <= MaxHeight,
           chain' = Append(chain, c), DOMAIN fork' = DOMAIN fork,
           fork'.base = fork.base, fork'.saved = fork.saved
    PROVE  fork' = NoFork \/ fork # NoFork => ForkOk'
<1>1. height = Len(chain)
    BY DEF height
<1>2. SUFFICES ASSUME fork' = NoFork \/ fork # NoFork PROVE ForkOk'
    OBVIOUS
<1>3. CASE fork' = NoFork
    BY <1>3 DEF ForkOk
<1>4. CASE fork # NoFork
    <2> DEFINE k == fork.base
    <2>1. /\ DOMAIN fork = {"owed", "saved", "base"}
          /\ k \in 0..height /\ fork.saved \in Seq(Block) /\ Full(OldChain)
        BY <1>4 DEF ForkOk
    <2>2. chain \in Seq(Block) /\ Len(chain) \in Nat
        BY LenProperties DEF Full
    <2> DEFINE q == Append(chain, c)
    <2>3. q \in Seq(Block) /\ Len(q) = Len(chain) + 1 /\ \A i \in 1..Len(chain) : q[i] = chain[i]
        BY <2>2, AppendProperties
    <2> HIDE DEF q, k
    <2>4. k \in Int /\ \A i \in 1..k : i \in 1..Len(chain) /\ i \in 1..Len(q)
        BY <1>1, <2>1, <2>2, <2>3
    <2>5. SubSeq(q, 1, k) = SubSeq(chain, 1, k)
        <3> DEFINE s == SubSeq(q, 1, k)
                   t == SubSeq(chain, 1, k)
        <3>1. \A i \in 1..k : chain[i] \in Block /\ q[i] \in Block /\ q[i] = chain[i]
            BY <2>2, <2>3, <2>4, ElementOfSeq
        <3>2. s \in Seq(Block) /\ Len(s) = (IF 1 <= k THEN k - 1 + 1 ELSE 0)
              /\ \A i \in 1..(k - 1 + 1) : s[i] = q[1 + i - 1]
            BY <2>4, <3>1, SubSeqProperties
        <3>3. t \in Seq(Block) /\ Len(t) = (IF 1 <= k THEN k - 1 + 1 ELSE 0)
              /\ \A i \in 1..(k - 1 + 1) : t[i] = chain[1 + i - 1]
            BY <2>4, <3>1, SubSeqProperties
        <3> HIDE DEF s, t
        <3>4. \A i \in 1..Len(s) : s[i] = t[i]
            BY <2>1, <2>4, <3>1, <3>2, <3>3
        <3>5. s = t
            BY <3>2, <3>3, <3>4, SeqEqual
        <3> QED BY <3>5 DEF s, t
    <2>6. OldChain' = OldChain
        BY <2>5 DEF OldChain, q, k
    <2>7. k \in 0..Len(q)
        BY <1>1, <2>1, <2>2, <2>3
    <2>8. fork'.base \in 0..height'
        BY <2>7 DEF height, q, k
    <2> QED BY <2>1, <2>6, <2>8 DEF ForkOk
<1> QED BY <1>2, <1>3, <1>4

\* Where an idle node is.
LEMMA IdlePoint ==
    ASSUME StoreInv, Idle
    PROVE  /\ Running /\ Tables(db) /\ mode = "up" /\ Sound(PointOf(db))
           /\ PointOf(db).blocks = chain /\ Agree(PointOf(db), ledger.bal)
           /\ Counts(PointOf(db), ledger)
<1>1. mode = "up" /\ todo = <<>> /\ Running /\ Tables(db)
    BY DEF Idle, StoreInv
<1>2. PICK y : /\ Leads(PointOf(db), <<>>, y) /\ y.blocks = chain
                /\ Agree(y, ledger.bal) /\ Counts(y, ledger)
    BY <1>1 DEF Running
<1>3. Sound(PointOf(db)) /\ y = PointOf(db)
    BY <1>2, LeadsEnds
<1> QED BY <1>1, <1>2, <1>3

LEMMA ProducedBlock == ASSUME NEW b \in Produced PROVE b \in Block
<1> DEFINE V == IF Producer THEN {Self} ELSE {}
<1>1. V \subseteq Validator /\ b \in Blocks(V)
    BY LedgerAssumption DEF Produced
<1> HIDE DEF V
<1> QED BY <1>1, BlockOf

LEMMA IncomingBlock == ASSUME NEW b \in Incoming PROVE b \in Block
<1> DEFINE V == IF Producer THEN Validator \ {Self} ELSE Validator
<1>1. V \subseteq Validator /\ b \in Blocks(V)
    BY DEF Incoming
<1> HIDE DEF V
<1> QED BY <1>1, BlockOf

\* A block is appended, with commits that lead where they should.
LEMMA AppendGoesOn ==
    ASSUME QuietStore, StoreInv, Idle, NEW b \in Block, CanAppend(b), _append_block(Stamped(b)),
           todo' \in {ProduceWrites(ledger, Stamped(b), height + 1),
                      AppendWrites(ledger, Stamped(b), height + 1)},
           ForkOk', mode' = mode, db' = db
    PROVE  StoreInv'
<1> DEFINE idx == height + 1
           c == Stamped(b)
           q == Append(chain, c)
           x == PointOf(db)
           C == After(ledger.bal, c, idx)
<1>1. /\ Running /\ Tables(db) /\ mode = "up" /\ Sound(x) /\ x.blocks = chain
      /\ Agree(x, ledger.bal)
    BY IdlePoint
<1>2. Full(chain) /\ Formed(ledger, Len(chain)) /\ height = Len(chain)
    BY <1>1 DEF Running, height
<1>3. chain' = q /\ ledger' = PruneDistributions(Applied(ledger, c, idx), idx)
    BY DEF _append_block
<1>4. /\ idx <= MaxHeight /\ c \in Block /\ OkAfter(ledger.bal, c, idx)
      /\ Full(q) /\ Len(q) = idx
      /\ Formed(ledger', idx) /\ ledger'.bal = C /\ ledger'.bal = At(q, idx)
    BY <1>1, <1>3, BlockFacts
<1> HIDE DEF c, x, C, q
<1>5. \E y : Leads(x, todo', y) /\ y.blocks = q /\ Agree(y, C) /\ Counts(y, ledger')
    <2>1. Len(chain) + 1 <= MaxHeight /\ OkAfter(ledger.bal, c, Len(chain) + 1)
          /\ Full(Append(chain, c)) /\ Stored(Append(chain, c))
        BY <1>2, <1>4, FullStored DEF q
    <2>2. \E y : /\ Leads(x, ProduceWrites(ledger, c, Len(chain) + 1), y)
                 /\ y.blocks = Append(chain, c) /\ Agree(y, After(ledger.bal, c, Len(chain) + 1))
                 /\ Counts(y, Applied(ledger, c, Len(chain) + 1))
        BY <1>1, <1>2, <1>4, <2>1, ProduceLeads
    <2>3. \E y : /\ Leads(x, AppendWrites(ledger, c, Len(chain) + 1), y)
                 /\ y.blocks = Append(chain, c) /\ Agree(y, After(ledger.bal, c, Len(chain) + 1))
                 /\ Counts(y, Applied(ledger, c, Len(chain) + 1))
        BY <1>1, <1>2, <1>4, <2>1, AppendLeads
    <2>4. \/ todo' = ProduceWrites(ledger, c, Len(chain) + 1)
          \/ todo' = AppendWrites(ledger, c, Len(chain) + 1)
        BY <1>2 DEF c
    <2>5. \A y : Counts(y, Applied(ledger, c, Len(chain) + 1)) => Counts(y, ledger')
        <3> DEFINE M == Applied(ledger, c, Len(chain) + 1)
        <3>1. idx = Len(chain) + 1 /\ idx \in 1..MaxHeight /\ idx - 1 = Len(chain)
            BY <1>2, <1>4, LenProperties, StoreAssumption DEF Full
        <3>2. Formed(M, idx)
            BY <1>2, <1>4, <3>1, AppliedIs
        <3>3. ledger' = PruneDistributions(M, idx)
            BY <1>3, <3>1
        <3> HIDE DEF M
        <3>4. ledger'.minted = M.minted /\ ledger'.burned = M.burned
            BY <3>2, <3>3, PruneIs
        <3> QED BY <3>4 DEF Counts, M
    <2> QED BY <1>2, <2>2, <2>3, <2>4, <2>5 DEF q, C
<1>6. Running'
    <2>1. height' = idx
        BY <1>3, <1>4 DEF height
    <2>2. Full(chain)' /\ Formed(ledger, height)' /\ (ledger.bal = At(chain, height))'
        BY <1>3, <1>4, <2>1
    <2>3. (\E y : Leads(PointOf(db), todo, y) /\ y.blocks = chain /\ Agree(y, ledger.bal)
                /\ Counts(y, ledger))'
        BY <1>3, <1>4, <1>5 DEF x
    <2> QED BY <2>2, <2>3 DEF Running
<1> QED BY <1>1, <1>6 DEF StoreInv

LEMMA AddGoesOn ==
    ASSUME QuietStore, StoreInv, NEW b \in Block, produce_block(b) \/ add_block(b)
    PROVE  StoreInv'
<1>1. /\ Idle /\ CanAppend(b) /\ _append_block(Stamped(b))
      /\ todo' \in {ProduceWrites(ledger, Stamped(b), height + 1),
                    AppendWrites(ledger, Stamped(b), height + 1)}
      /\ mode' = mode /\ db' = db /\ fork' = fork /\ fork.owed = 0
    BY DEF produce_block, add_block
<1>2. Running
    BY <1>1, IdlePoint
<1>3. Full(chain) /\ ForkOk
    BY <1>2 DEF Running
<1>4. Stamped(b) \in Block /\ height + 1 <= MaxHeight
    BY <1>1, <1>2, BlockFacts
<1>5. chain' = Append(chain, Stamped(b))
    BY <1>1 DEF _append_block
<1>6. ForkOk'
    <2>1. fork' = NoFork \/ fork # NoFork
        BY <1>1
    <2> QED BY <1>1, <1>3, <1>4, <1>5, <2>1, ForkKept
<1> QED BY <1>1, <1>6, AppendGoesOn

LEMMA ForkGoesOn ==
    ASSUME QuietStore, StoreInv, NEW b \in Block, reorg_apply(b)
    PROVE  StoreInv'
<1>1. /\ Idle /\ CanAppend(b) /\ _append_block(Stamped(b))
      /\ todo' = AppendWrites(ledger, Stamped(b), height + 1)
      /\ mode' = mode /\ db' = db /\ fork.owed > 0
      /\ fork' = IF fork.owed = 1 THEN NoFork ELSE [fork EXCEPT !.owed = @ - 1]
    BY DEF reorg_apply
<1>2. Running
    BY <1>1, IdlePoint
<1>3. Full(chain) /\ ForkOk
    BY <1>2 DEF Running
<1>4. Stamped(b) \in Block /\ height + 1 <= MaxHeight
    BY <1>1, <1>2, BlockFacts
<1>5. chain' = Append(chain, Stamped(b))
    BY <1>1 DEF _append_block
<1>6. ForkOk'
    <2>1. CASE fork' = NoFork
        BY <2>1 DEF ForkOk
    <2>2. CASE fork' # NoFork
        <3>1. fork # NoFork
            BY <1>1 DEF NoFork
        <3>2. DOMAIN fork = {"owed", "saved", "base"}
            BY <1>3, <3>1 DEF ForkOk
        <3>3. fork' = [fork EXCEPT !.owed = @ - 1]
            BY <1>1, <2>2
        <3>4. DOMAIN fork' = DOMAIN fork /\ fork'.base = fork.base /\ fork'.saved = fork.saved
            BY <3>2, <3>3
        <3> QED BY <1>3, <1>4, <1>5, <3>1, <3>4, ForkKept
    <2> QED BY <2>1, <2>2
<1> QED BY <1>1, <1>6, AppendGoesOn

\* What a refused block leaves in memory and on disk.
LEMMA UndoneIs ==
    ASSUME QuietStore, StoreInv, Idle, NEW b \in Block, CanAppend(b)
    PROVE  /\ Formed(Undone(b), height) /\ Undone(b).bal = ledger.bal
           /\ \E y : /\ Leads(PointOf(db), UndoneWrites(b), y)
                     /\ y.blocks = chain /\ Agree(y, ledger.bal) /\ y.supply = NoSupply
<1> DEFINE idx == height + 1
           N == Applied(ledger, b, idx)
           c == [b EXCEPT !.root = WrongRoot]
           x == PointOf(db)
<1>1. Running /\ Sound(x) /\ x.blocks = chain
    BY IdlePoint
<1>2. Full(chain) /\ Formed(ledger, height) /\ height = Len(chain)
    BY <1>1 DEF Running, height
<1>3. /\ height \in Nat /\ idx <= MaxHeight /\ OkAfter(ledger.bal, b, idx)
    <2>1. height \in Nat
        BY <1>2, LenProperties DEF Full
    <2> QED BY <1>1, <2>1, BlockFacts
<1>4. idx \in 1..MaxHeight /\ idx - 1 = height /\ ledger.bal \in [Addr -> Nat]
    BY <1>2, <1>3, StoreAssumption DEF Formed, Mid
<1> HIDE DEF idx
<1>5. Formed(N, idx) /\ N.bal = After(ledger.bal, b, idx)
    BY <1>2, <1>3, <1>4, AppliedIs
<1> HIDE DEF N
<1>6. Formed(_rollback_block(N, b, idx), height) /\ _rollback_block(N, b, idx).bal = ledger.bal
    BY <1>3, <1>4, <1>5, RolledIs
<1>7. c \in Block /\ c.root = WrongRoot
    <2>1. WrongRoot \in SUBSET (UNION {[D -> Int] : D \in SUBSET Addr})
        BY UnstampedType DEF Unstamped
    <2> QED BY <2>1, RootReplaced
<1>8. UndoneWrites(b) = ApplyWrites(ledger, c, Len(chain) + 1)
                            \o <<{Write("delete_blocks_from", Len(chain) + 1, 0)}>>
    BY <1>2 DEF UndoneWrites
<1> HIDE DEF c, x
<1>9. Len(chain) + 1 <= MaxHeight /\ Formed(ledger, Len(chain))
    BY <1>2, <1>3 DEF idx
<1>10. \E y : /\ Leads(x, ApplyWrites(ledger, c, Len(chain) + 1)
                             \o <<{Write("delete_blocks_from", Len(chain) + 1, 0)}>>, y)
              /\ y.blocks = chain /\ Agree(y, ledger.bal) /\ y.supply = NoSupply
    <2>1. Full(chain) /\ Sound(x) /\ x.blocks = chain
        BY <1>1, <1>2
    <2> QED BY <2>1, <1>7, <1>9, RefuseLeads, SMTT(30)
<1> QED BY <1>6, <1>8, <1>10 DEF Undone, N, x, idx

LEMMA RejectGoesOn ==
    ASSUME QuietStore, StoreInv, NEW b \in Block, add_block_rejects(b)
    PROVE  StoreInv'
<1>1. /\ Idle /\ CanAppend(b) /\ ledger' = Undone(b) /\ todo' = UndoneWrites(b)
      /\ mode' = mode /\ chain' = chain /\ db' = db /\ fork' = fork
    BY DEF add_block_rejects
<1>2. Running /\ Tables(db) /\ mode = "up"
    BY <1>1, IdlePoint
<1>3. /\ Formed(Undone(b), height) /\ Undone(b).bal = ledger.bal
      /\ \E y : /\ Leads(PointOf(db), UndoneWrites(b), y)
                /\ y.blocks = chain /\ Agree(y, ledger.bal) /\ Counts(y, Undone(b))
    BY <1>1, UndoneIs DEF Counts, NoSupply
<1>4. height' = height /\ (ForkOk => ForkOk')
    BY <1>1 DEF height, ForkOk, OldChain
<1>5. Running'
    <2>1. Full(chain)' /\ Formed(ledger, height)' /\ (ledger.bal = At(chain, height))'
        BY <1>1, <1>2, <1>3, <1>4 DEF Running
    <2>2. (\E y : Leads(PointOf(db), todo, y) /\ y.blocks = chain /\ Agree(y, ledger.bal)
                /\ Counts(y, ledger))'
        BY <1>1, <1>3
    <2> QED BY <1>2, <1>4, <2>1, <2>2 DEF Running
<1> QED BY <1>1, <1>2, <1>5 DEF StoreInv

LEMMA ReorgGoesOn ==
    ASSUME QuietStore, StoreInv, NEW n \in 1..MaxRollback, try_reorg(n)
    PROVE  StoreInv'
<1> DEFINE k == height - n
           x == PointOf(db)
           q == SubSeq(chain, 1, k)
           R == BlocksUndone(ledger, chain)[n]
           s == SubSeq(chain, k + 1, height)
<1>1. /\ Idle /\ n \in 1..height /\ chain' = q /\ ledger' = RolledBack(ledger, k)
      /\ todo' = <<{Write("delete_blocks_from", k + 1, 0)}>>
      /\ fork' = [owed |-> n + 1, base |-> k, saved |-> s]
      /\ mode' = mode /\ db' = db
    BY DEF try_reorg
<1>2. /\ Running /\ Tables(db) /\ mode = "up" /\ Sound(x) /\ x.blocks = chain
    BY <1>1, IdlePoint
<1>3. /\ Full(chain) /\ Formed(ledger, Len(chain)) /\ height = Len(chain)
      /\ ledger.bal = At(chain, Len(chain)) /\ chain \in Seq(Block) /\ height \in Nat
    BY <1>2, LenProperties DEF Running, height, Full
<1>4. k \in 0..height /\ n \in 0..Len(chain) /\ height - k = n /\ k \in Int /\ k + 1 \in Int
    BY <1>1, <1>3
<1> HIDE DEF k, s
<1>5. Formed(R, k) /\ R.bal = At(chain, k) /\ ledger' = R
    <2>1. Formed(R, Len(chain) - n) /\ R.bal = At(chain, Len(chain) - n)
        BY <1>3, <1>4, UndoneTo
    <2>2. RolledBack(ledger, k) = R
        BY <1>4 DEF RolledBack
    <2> QED BY <1>1, <1>3, <2>1, <2>2 DEF k
<1>6. Full(q) /\ Len(q) = k /\ At(q, k) = At(chain, k)
    <2>1. k \in 0..Len(chain) /\ k \in 0..k
        BY <1>3, <1>4
    <2> QED BY <1>3, <2>1, FullStart
<1> HIDE DEF R
<1>7. \E y : Leads(x, todo', y) /\ y.blocks = q /\ Agree(y, R.bal) /\ Counts(y, R)
    <2> DEFINE y == Point(SubSeq(x.blocks, 1, k), Nothing, NoSupply)
    <2>1. k \in 0..Len(x.blocks) /\ Full(SubSeq(x.blocks, 1, k))
        BY <1>2, <1>3, <1>4, <1>6
    <2>2. Agree(y, R.bal) /\ Leads(x, <<{Write("delete_blocks_from", k + 1, 0)}>>, y)
        BY <1>2, <2>1, DeleteLeads
    <2>3. y.blocks = q /\ Counts(y, R)
        BY <1>2 DEF Point, Counts, NoSupply
    <2> HIDE DEF y
    <2> QED BY <1>1, <2>2, <2>3
<1>8. s \in Seq(Block) /\ SubSeq(q, 1, k) \o s = chain
    <2>1. \A i \in (k + 1)..height : chain[i] \in Block
        BY <1>3, <1>4, ElementOfSeq
    <2>2. s \in Seq(Block)
        BY <1>3, <1>4, <2>1, SubSeqProperties DEF s
    <2>3. SubSeq(q, 1, Len(q)) = q
        BY <1>6, SubSeqFull DEF Full
    <2>4. SubSeq(chain, 1, k) \o SubSeq(chain, k + 1, Len(chain)) = SubSeq(chain, 1, Len(chain))
        <3>1. /\ 1 \in 1..(Len(chain) + 1) /\ k \in (1 - 1)..Len(chain) /\ Len(chain) \in k..Len(chain)
            BY <1>3, <1>4
        <3> QED BY <1>3, <3>1, ConcatAdjacentSubSeq
    <2>5. SubSeq(chain, 1, Len(chain)) = chain
        BY <1>3, SubSeqFull
    <2> QED BY <1>3, <1>6, <2>2, <2>3, <2>4, <2>5 DEF s
<1> HIDE DEF q
<1>9. ForkOk'
    <2>1. /\ DOMAIN fork' = {"owed", "saved", "base"} /\ fork'.base = k /\ fork'.saved = s
        BY <1>1
    <2>2. OldChain' = chain
        BY <1>1, <1>8, <2>1 DEF OldChain
    <2>3. fork'.base \in 0..height'
        BY <1>1, <1>4, <1>6, <2>1 DEF height
    <2> QED BY <1>3, <1>8, <2>1, <2>2, <2>3 DEF ForkOk
<1>10. Running'
    <2>1. height' = k
        BY <1>1, <1>6 DEF height
    <2>2. Full(chain)' /\ Formed(ledger, height)' /\ (ledger.bal = At(chain, height))'
        BY <1>1, <1>5, <1>6, <2>1
    <2>3. (\E y : Leads(PointOf(db), todo, y) /\ y.blocks = chain /\ Agree(y, ledger.bal)
                /\ Counts(y, ledger))'
        BY <1>1, <1>5, <1>7
    <2> QED BY <1>9, <2>2, <2>3 DEF Running
<1> QED BY <1>1, <1>2, <1>10 DEF StoreInv

\* A fork is given up: the old chain is restored, in memory and then on disk.
LEMMA GiveUpGoesOn ==
    ASSUME QuietStore, StoreInv, Idle, fork.owed > 0, NEW L, Formed(L, height),
           L.bal = ledger.bal, NEW first,
           \E y : /\ Leads(PointOf(db), first, y) /\ y.blocks = chain
                  /\ Agree(y, ledger.bal) /\ Counts(y, L),
           GiveUp(L, first)
    PROVE  StoreInv'
<1> DEFINE k == fork.base
           x == PointOf(db)
           p == SubSeq(chain, 1, k)
           q == OldChain
           R == BlocksUndone(L, chain)[height - k]
           back == IF height > k THEN <<{Write("delete_blocks_from", k + 1, 0)}>> ELSE <<>>
           old == Reappended(R)[Len(fork.saved)]
<1>1. Running /\ Tables(db) /\ mode = "up"
    BY IdlePoint
<1>2. /\ Full(chain) /\ height = Len(chain) /\ L.bal = At(chain, Len(chain)) /\ Formed(L, Len(chain))
      /\ chain \in Seq(Block) /\ height \in Nat
    BY <1>1, LenProperties DEF Running, height, Full
<1>3. fork # NoFork
    BY DEF NoFork
<1>4. k \in 0..height /\ fork.saved \in Seq(Block) /\ Full(q) /\ q = p \o fork.saved
    BY <1>1, <1>3 DEF Running, ForkOk, OldChain
<1>5. /\ chain' = q /\ ledger' = old.ledger /\ todo' = first \o back \o old.writes
      /\ fork' = NoFork /\ mode' = mode /\ db' = db
    <2>1. RolledBack(L, k) = R
        BY DEF RolledBack
    <2> HIDE DEF R
    <2> QED BY <2>1 DEF GiveUp, OldChain
<1>6. PICK y : Leads(x, first, y) /\ y.blocks = chain /\ Agree(y, ledger.bal) /\ Counts(y, L)
    OBVIOUS
<1>7. Full(p) /\ Len(p) = k /\ \A i \in 0..k : At(p, i) = At(chain, i)
    BY <1>2, <1>4, FullStart
<1>8. Formed(R, k) /\ R.bal = At(chain, k)
    <2>1. height - k \in 0..Len(chain) /\ Len(chain) - (height - k) = k
        BY <1>2, <1>4
    <2> DEFINE j == height - k
    <2>2. Formed(BlocksUndone(L, chain)[j], Len(chain) - j)
          /\ BlocksUndone(L, chain)[j].bal = At(chain, Len(chain) - j)
        <3> HIDE DEF j
        <3> QED BY <1>2, <2>1, UndoneTo DEF j
    <2> QED BY <2>1, <2>2
<1>9. /\ k \in 0..Len(q) /\ Len(fork.saved) = Len(q) - k /\ SubSeq(q, 1, k) = p
      /\ \A n \in 1..Len(fork.saved) : fork.saved[n] = q[k + n]
      /\ At(q, k) = At(chain, k)
    <2> DEFINE s == fork.saved
    <2>1. p \in Seq(Block) /\ Len(p) = k /\ k \in Nat /\ s \in Seq(Block) /\ Len(s) \in Nat
        BY <1>2, <1>4, <1>7, LenProperties DEF Full
    <2> HIDE DEF p, q, s, k
    <2>2. /\ q \in Seq(Block) /\ Len(q) = k + Len(s)
          /\ \A i \in 1..(k + Len(s)) : q[i] = IF i <= k THEN p[i] ELSE s[i - k]
        BY <1>4, <2>1, ConcatProperties DEF s
    <2>3. \A n \in 1..Len(s) : s[n] = q[k + n]
        <3> TAKE n \in 1..Len(s)
        <3>1. k + n \in 1..(k + Len(s)) /\ ~ (k + n <= k) /\ (k + n) - k = n
            BY <2>1
        <3> QED BY <2>2, <3>1
    <2>4. k \in 0..Len(q) /\ Len(s) = Len(q) - k
        BY <2>1, <2>2
    <2>5. \A i \in 1..k : q[i] = p[i]
        BY <2>1, <2>2
    <2>6. SubSeq(q, 1, k) = p
        <3> DEFINE r == SubSeq(q, 1, k)
        <3>1. r \in Seq(Block) /\ Len(r) = k /\ \A i \in 1..k : r[i] = q[i]
            BY <2>1, <2>2, <2>4, SubSeqProperties
        <3> HIDE DEF r
        <3>2. r = p
            BY <2>1, <2>5, <3>1, SeqEqual
        <3> QED BY <3>2 DEF r
    <2>7. At(q, k) = At(p, k)
        <3>1. k \in 0..k
            BY <2>1
        <3> QED BY <2>1, <2>5, <3>1, SameStart
    <2>8. At(p, k) = At(chain, k)
        <3>1. k \in 0..k
            BY <2>1
        <3> QED BY <1>7, <3>1
    <2> QED BY <2>3, <2>4, <2>6, <2>7, <2>8 DEF s
<1> HIDE DEF R, x, q
<1>10. \E z : Leads(y, back, z) /\ z.blocks = p /\ Agree(z, R.bal) /\ Counts(z, R)
    <2>1. CASE height > k
        <3> DEFINE z == Point(SubSeq(y.blocks, 1, k), Nothing, NoSupply)
        <3>1. Sound(y) /\ k \in 0..Len(y.blocks) /\ Full(SubSeq(y.blocks, 1, k))
            BY <1>2, <1>4, <1>6, <1>7, LeadsEnds
        <3>2. Agree(z, R.bal) /\ Leads(y, <<{Write("delete_blocks_from", k + 1, 0)}>>, z)
            BY <3>1, DeleteLeads
        <3>3. z.blocks = p /\ Counts(z, R)
            BY <1>6 DEF Point, Counts, NoSupply
        <3> HIDE DEF z
        <3> QED BY <2>1, <3>2, <3>3
    <2>2. CASE ~ (height > k)
        <3>1. k = height
            BY <1>2, <1>4, <2>2
        <3>2. p = chain
            BY <1>2, <3>1, SubSeqFull
        <3>3. R.bal = ledger.bal
            BY <1>2, <1>8, <3>1
        <3>5. R = L
            <4>1. height - k = 0
                BY <1>2, <3>1
            <4>2. BlocksUndone(L, chain)[0] = L
                BY <1>2, BlocksUndoneIs
            <4> QED BY <4>1, <4>2 DEF R
        <3>4. Leads(y, <<>>, y)
            BY <1>6, LeadsEnds, LeadsNil
        <3> QED BY <1>6, <2>2, <3>2, <3>3, <3>4, <3>5
    <2> QED BY <2>1, <2>2
<1>11. PICK z : Leads(y, back, z) /\ z.blocks = p /\ Agree(z, R.bal) /\ Counts(z, R)
    BY <1>10
<1> HIDE DEF back
<1>12. Restored(z, q, Len(q), old.ledger, old.writes)
    <2>1. Sound(z) /\ z.blocks = SubSeq(q, 1, k) /\ R.bal = At(q, k)
        BY <1>8, <1>9, <1>11, LeadsEnds
    <2> HIDE DEF k, p
    <2> QED BY <1>4, <1>8, <1>9, <1>11, <2>1, ReappendLeads DEF k
<1> HIDE DEF old
<1>13. PICK u : /\ Leads(z, old.writes, u) /\ u.blocks = SubSeq(q, 1, Len(q))
                /\ Agree(u, old.ledger.bal) /\ Counts(u, old.ledger)
    BY <1>12 DEF Restored
<1>14. Formed(old.ledger, Len(q)) /\ old.ledger.bal = At(q, Len(q))
    BY <1>12 DEF Restored
<1>15. u.blocks = q
    BY <1>4, <1>13, SubSeqFull DEF Full
<1>16. Leads(x, (first \o back) \o old.writes, u)
    <2>1. Leads(x, first \o back, z)
        BY <1>6, <1>11, LeadsThen
    <2> QED BY <1>13, <2>1, LeadsThen
<1>17. Running'
    <2>1. Full(chain)' /\ Formed(ledger, height)' /\ (ledger.bal = At(chain, height))'
        BY <1>4, <1>5, <1>14 DEF height
    <2>2. (\E v : Leads(PointOf(db), todo, v) /\ v.blocks = chain /\ Agree(v, ledger.bal)
                /\ Counts(v, ledger))'
        BY <1>5, <1>13, <1>15, <1>16 DEF x
    <2>3. ForkOk'
        BY <1>5 DEF ForkOk
    <2> QED BY <2>1, <2>2, <2>3 DEF Running
<1> QED BY <1>1, <1>5, <1>17 DEF StoreInv

LEMMA GivenUp ==
    ASSUME QuietStore, StoreInv,
           reorg_reject \/ \E b \in Incoming : reorg_apply_raises(b)
    PROVE  StoreInv'
<1>1. CASE reorg_reject
    <2>1. Idle /\ fork.owed > 0 /\ GiveUp(ledger, <<>>)
        BY <1>1 DEF reorg_reject
    <2>2. Running /\ Sound(PointOf(db)) /\ PointOf(db).blocks = chain /\ Agree(PointOf(db), ledger.bal)
              /\ Counts(PointOf(db), ledger)
        BY <2>1, IdlePoint
    <2>3. Formed(ledger, height) /\ Leads(PointOf(db), <<>>, PointOf(db))
        BY <2>2, LeadsNil DEF Running
    <2> QED BY <2>1, <2>2, <2>3, GiveUpGoesOn
<1>2. CASE \E b \in Incoming : reorg_apply_raises(b)
    <2>1. PICK b \in Incoming : reorg_apply_raises(b)
        BY <1>2
    <2>2. b \in Block /\ Idle /\ fork.owed > 0 /\ CanAppend(b) /\ GiveUp(Undone(b), UndoneWrites(b))
        BY <2>1, IncomingBlock DEF reorg_apply_raises
    <2>3. /\ Formed(Undone(b), height) /\ Undone(b).bal = ledger.bal
          /\ \E y : /\ Leads(PointOf(db), UndoneWrites(b), y)
                    /\ y.blocks = chain /\ Agree(y, ledger.bal) /\ Counts(y, Undone(b))
        BY <2>2, UndoneIs DEF Counts, NoSupply
    <2> QED BY <2>2, <2>3, GiveUpGoesOn
<1> QED BY <1>1, <1>2

LEMMA CommitGoesOn ==
    ASSUME StoreInv, commit
    PROVE  StoreInv'
<1>1. /\ mode = "up" /\ todo # <<>> /\ mode' = mode /\ chain' = chain /\ ledger' = ledger
      /\ fork' = fork
    BY DEF commit
<1>2. PICK w \in Head(todo) : db' = Committed(db, w) /\ todo' = Rest(todo, w)
    BY DEF commit, Rest
<1>3. Running /\ Tables(db)
    BY <1>1 DEF StoreInv
<1>4. PICK y : /\ Leads(PointOf(db), todo, y) /\ y.blocks = chain
                /\ Agree(y, ledger.bal) /\ Counts(y, ledger)
    BY <1>3 DEF Running
<1>5. Tables(db') /\ Leads(PointOf(db'), todo', y)
    BY <1>1, <1>2, <1>3, <1>4, CommitLeads
<1>6. ForkOk' /\ height' = height
    BY <1>1, <1>3 DEF Running, ForkOk, OldChain, height
<1>7. Running'
    <2>1. Full(chain)' /\ Formed(ledger, height)' /\ (ledger.bal = At(chain, height))'
        BY <1>1, <1>3, <1>6 DEF Running
    <2>2. (\E v : Leads(PointOf(db), todo, v) /\ v.blocks = chain /\ Agree(v, ledger.bal)
                /\ Counts(v, ledger))'
        BY <1>1, <1>4, <1>5
    <2> QED BY <1>6, <2>1, <2>2 DEF Running
<1> QED BY <1>1, <1>5, <1>7 DEF StoreInv

\* Whatever was committed when the process ends is sound.
LEMMA CrashGoesOn ==
    ASSUME StoreInv, crash
    PROVE  StoreInv'
<1>1. mode = "up" /\ mode' = "down" /\ todo' = <<>> /\ fork' = NoFork /\ db' = db
    BY DEF crash
<1>2. Running /\ Tables(db)
    BY <1>1 DEF StoreInv
<1>3. Sound(PointOf(db))
    BY <1>2, LeadsEnds DEF Running
<1> QED BY <1>1, <1>2, <1>3 DEF StoreInv

LEMMA StoreStep ==
    ASSUME QuietStore, StoreInv, [Next]_vars
    PROVE  StoreInv'
<1>1. ASSUME NEW b \in Produced, produce_block(b) PROVE StoreInv'
    BY <1>1, ProducedBlock, AddGoesOn
<1>2. ASSUME NEW b \in Incoming,
             add_block(b) \/ add_block_rejects(b) \/ reorg_apply(b)
      PROVE  StoreInv'
    BY <1>2, IncomingBlock, AddGoesOn, RejectGoesOn, ForkGoesOn
<1>3. ASSUME reorg_reject \/ \E b \in Incoming : reorg_apply_raises(b) PROVE StoreInv'
    BY <1>3, GivenUp
<1>4. ASSUME NEW n \in 1..MaxRollback, try_reorg(n) PROVE StoreInv'
    BY <1>4, ReorgGoesOn
<1>5. ASSUME commit \/ crash \/ load PROVE StoreInv'
    BY <1>5, CommitGoesOn, CrashGoesOn, LoadGoesOn
<1>6. ASSUME load_unverified \/ load_inactive \/ load_raises PROVE StoreInv'
    <2>1. mode' \notin {"up", "down"}
        BY <1>6 DEF load_unverified, load_inactive, load_raises, Load
    <2> QED BY <2>1 DEF StoreInv
<1>7. ASSUME UNCHANGED vars PROVE StoreInv'
    BY <1>7 DEF vars, StoreInv, Running, ForkOk, OldChain, height
<1> QED BY <1>1, <1>2, <1>3, <1>4, <1>5, <1>6, <1>7 DEF Next

LEMMA StoreAlways == QuietStore => (Spec => []StoreInv)
<1> SUFFICES ASSUME QuietStore PROVE Spec => []StoreInv
    OBVIOUS
<1>1. Init => StoreInv
    BY StoreStart
<1>2. StoreInv /\ [Next]_vars => StoreInv'
    BY StoreStep
<1> QED BY <1>1, <1>2, PTL DEF Spec

\* Wherever a node of transfers and stakes crashed, and whatever it rolled back or
\* refused, a node that is up has the balances that its last block was stamped with
\* (what the check R32-F03 in _load_from_sqlite is for).
THEOREM TipIsExact == QuietStore => (Spec => []TipExact)
<1> SUFFICES ASSUME QuietStore PROVE Spec => []TipExact
    OBVIOUS
<1>1. StoreInv => TipExact
    <2> SUFFICES ASSUME StoreInv, mode = "up", height > 0 PROVE TipRoot(chain) = Root(ledger)
        BY DEF TipExact
    <2>1. Full(chain) /\ ledger.bal = At(chain, height) /\ height = Len(chain)
        BY DEF StoreInv, Running, height
    <2>2. chain \in Seq(Block) /\ height \in Nat /\ height <= MaxHeight
        BY <2>1, LenProperties DEF Full
    <2>3. height \in 1..Len(chain) /\ IsStamped(chain, height)
        <3>1. height \in 1..Len(chain)
            BY <2>1, <2>2
        <3> QED BY <2>1, <3>1 DEF Full
    <2>4. At(chain, height) = After(At(chain, height - 1), chain[height], height)
        BY <2>2, <2>3, StampedAt
    <2>5. chain[height].root = {Positive(ledger.bal)}
        BY <2>1, <2>3, <2>4 DEF IsStamped
    <2>6. TipRoot(chain) = chain[height].root
        <3>1. chain # <<>>
            BY <2>1, <2>2
        <3> QED BY <2>1, <3>1 DEF TipRoot, Last
    <2> QED BY <2>5, <2>6 DEF Root, Positive
<1> QED BY <1>1, StoreAlways, PTL

\* Between operations the committed blocks are those of memory and every committed
\* row is what get_balance answers: a block's writes forget nobody, and neither a
\* block nor a row outlives a refusal or a rollback.
THEOREM RowsAreExact == QuietStore => (Spec => []RowsExact)
<1> SUFFICES ASSUME QuietStore PROVE Spec => []RowsExact
    OBVIOUS
<1>1. StoreInv => RowsExact
    <2> SUFFICES ASSUME StoreInv, Idle
                 PROVE  db.blocks = chain /\ \A a \in DOMAIN db.bal : db.bal[a] = ledger.bal[a]
        BY DEF RowsExact
    <2>1. PointOf(db).blocks = chain /\ Agree(PointOf(db), ledger.bal)
        BY IdlePoint
    <2> QED BY <2>1 DEF PointOf, Point, Agree
<1> QED BY <1>1, StoreAlways, PTL

\* A restart of an idle node that succeeds changes neither balances, supply and
\* unbondings nor epoch and frozen validators, whatever it went through before.
THEOREM RestartIsHarmless == QuietStore => (Spec => []RestartKeeps)
<1> SUFFICES ASSUME QuietStore PROVE Spec => []RestartKeeps
    OBVIOUS
<1>1. StoreInv => RestartKeeps
    <2> DEFINE L == Loaded(db)
    <2> SUFFICES ASSUME StoreInv, Idle, LoadsWell(db)
                 PROVE  /\ L.bal = ledger.bal
                        /\ L.minted = ledger.minted /\ L.burned = ledger.burned
                        /\ L.unbonding = ledger.unbonding
                        /\ L.epoch = ledger.epoch /\ L.frozen = ledger.frozen
        BY DEF RestartKeeps
    <2>1. /\ Running /\ Tables(db) /\ Sound(PointOf(db))
          /\ PointOf(db).blocks = chain /\ Counts(PointOf(db), ledger)
        BY IdlePoint
    <2>2. db.blocks = chain /\ PointOf(db).supply = db.supply
        BY <2>1 DEF PointOf, Point
    <2>3. Formed(L, Len(db.blocks)) /\ L.bal = At(db.blocks, Len(db.blocks))
        BY <2>1, LoadedIs
    <2>4. Formed(ledger, height) /\ ledger.bal = At(chain, height) /\ height = Len(chain)
        BY <2>1 DEF Running, height
    <2>5. L.minted = ledger.minted /\ L.burned = ledger.burned
        <3>1. L.minted = db.supply.minted /\ L.burned = db.supply.burned
            BY DEF Loaded
        <3>2. db.supply.minted # 0
            BY DEF LoadsWell
        <3> HIDE DEF L
        <3> QED BY <2>1, <2>2, <3>1, <3>2 DEF Counts
    <2> HIDE DEF L
    <2> QED BY <2>2, <2>3, <2>4, <2>5 DEF Formed
<1> QED BY <1>1, StoreAlways, PTL
=============================================================================
