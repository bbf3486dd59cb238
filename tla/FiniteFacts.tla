---------------------------- MODULE FiniteFacts -----------------------------
(***************************************************************************)
(* Facts about finite sets that the proofs share: least and greatest       *)
(* numbers, positions of a sequence, and sums.  The existence of a least   *)
(* natural number replaces induction in all of them.                       *)
(***************************************************************************)
EXTENDS Integers, Sequences, FiniteSets, FiniteSetsExt, Selection, TLAPS,
        WellFoundedInduction, FiniteSetTheorems, SequenceTheorems

-----------------------------------------------------------------------------
(* Least and greatest numbers *)

\* Every nonempty set of naturals has a least element.
LEMMA LeastNat ==
    ASSUME NEW T, T \subseteq Nat, T # {}
    PROVE  \E x \in T : \A y \in T : x <= y
<1> DEFINE R == {ss \in Nat \X Nat : ss[1] < ss[2]}
<1>1. IsWellFoundedOn(R, Nat)
    BY NatLessThanWellFounded DEF OpToRel
<1>2. PICK x \in T : \A y \in T : ~ (<<y, x>> \in R)
    <2> HIDE DEF R
    <2> QED BY <1>1, WFMin
<1>3. \A y, z \in Nat : y < z => <<y, z>> \in R
    OBVIOUS
<1>4. ASSUME NEW y \in T PROVE x <= y
    <2>1. x \in Nat /\ y \in Nat
        OBVIOUS
    <2> HIDE DEF R
    <2>2. ~ (<<y, x>> \in R)
        BY <1>2
    <2>3. ~ (y < x)
        BY <2>1, <2>2, <1>3
    <2> QED BY <2>1, <2>3
<1> QED BY <1>4

\* What holds of 0 and of n if it holds of n - 1 holds up to N.
LEMMA PrefixInduction ==
    ASSUME NEW N \in Nat, NEW S, 0 \in S, \A n \in 1..N : n - 1 \in S => n \in S
    PROVE  \A n \in 0..N : n \in S
<1> DEFINE T == {n \in 0..N : n \notin S}
<1>1. SUFFICES ASSUME T # {} PROVE FALSE
    OBVIOUS
<1>2. PICK n \in T : \A m \in T : n <= m
    <2>1. T \subseteq Nat
        OBVIOUS
    <2> HIDE DEF T
    <2> QED BY <1>1, <2>1, LeastNat
<1>3. n # 0
    OBVIOUS
<1>4. n \in 1..N /\ n - 1 \in 0..N /\ ~ (n <= n - 1)
    BY <1>3
<1>5. n - 1 \notin T
    <2> HIDE DEF T
    <2> QED BY <1>2, <1>4
<1> QED BY <1>4, <1>5

\* Halving again and again is defined for every n and stays a natural number: H is
\* a solution of the recursion if there is one, as a recursive definition says.
LEMMA HalvingIs ==
    ASSUME NEW I \in Nat, NEW H,
           (\E h : h = [n \in Nat |-> IF n = 0 THEN I ELSE h[n - 1] \div 2])
                => H = [n \in Nat |-> IF n = 0 THEN I ELSE H[n - 1] \div 2]
    PROVE  /\ H \in [Nat -> Nat]
           /\ \A n \in Nat : H[n] = IF n = 0 THEN I ELSE H[n - 1] \div 2
<1> DEFINE Step(g, n) == IF n = 0 THEN I ELSE g[n - 1] \div 2
           Rec(g) == g = [n \in Nat |-> Step(g, n)]
           Upto(g, n) == g \in [Nat -> Nat] /\ \A m \in 0..n : g[m] = Step(g, m)
           T == {n \in Nat : ~ \E g : Upto(g, n)}
<1>0. I \in Nat /\ \A m \in Nat : m \div 2 \in Nat
    OBVIOUS
<1>1. T = {}
    <2>1. SUFFICES ASSUME T # {} PROVE FALSE
        OBVIOUS
    <2>2. PICK n \in T : \A m \in T : n <= m
        <3>1. T \subseteq Nat
            OBVIOUS
        <3> HIDE DEF T
        <3> QED BY <2>1, <3>1, LeastNat
    <2>3. n # 0
        <3> DEFINE z == [m \in Nat |-> I]
        <3>1. Upto(z, 0)
            BY <1>0
        <3> QED BY <3>1
    <2>4. n \in Nat /\ n - 1 \in Nat /\ ~ (n <= n - 1)
        BY <2>3
    <2>5. n - 1 \notin T
        <3> HIDE DEF T
        <3> QED BY <2>2, <2>4
    <2>6. PICK g : Upto(g, n - 1)
        BY <2>4, <2>5
    <2> DEFINE h == [m \in Nat |-> Step(g, m)]
    <2>7. h \in [Nat -> Nat]
        BY <1>0, <2>6
    <2>8. ASSUME NEW m \in 0..n PROVE h[m] = Step(h, m)
        <3>1. CASE m = 0
            BY <3>1
        <3>2. CASE m # 0
            <4>1. m - 1 \in 0..(n - 1) /\ m - 1 \in Nat
                BY <2>4, <3>2
            <4>2. g[m - 1] = h[m - 1]
                BY <2>6, <4>1
            <4> QED BY <3>2, <4>2
        <3> QED BY <3>1, <3>2
    <2>9. Upto(h, n)
        BY <2>7, <2>8
    <2> QED BY <2>2, <2>9
<1>2. \A n \in Nat : \E g : Upto(g, n)
    BY <1>1
<1>3. ASSUME NEW g, NEW h, NEW n \in Nat, Upto(g, n), Upto(h, n) PROVE g[n] = h[n]
    <2> DEFINE D == {m \in Nat : m <= n /\ g[m] # h[m]}
    <2>1. SUFFICES ASSUME D # {} PROVE FALSE
        BY <1>3
    <2>2. PICK m \in D : \A k \in D : m <= k
        <3>1. D \subseteq Nat
            OBVIOUS
        <3> HIDE DEF D
        <3> QED BY <2>1, <3>1, LeastNat
    <2>3. m \in 0..n /\ g[m] # h[m] /\ g[m] = Step(g, m) /\ h[m] = Step(h, m)
        BY <1>3
    <2>4. m # 0
        BY <2>3
    <2>5. m - 1 \in Nat /\ m - 1 <= n /\ ~ (m <= m - 1)
        BY <2>3, <2>4
    <2>6. m - 1 \notin D
        <3> HIDE DEF D
        <3> QED BY <2>2, <2>5
    <2> QED BY <2>3, <2>4, <2>5, <2>6
<1> DEFINE At(n) == CHOOSE g : Upto(g, n)
           h == [n \in Nat |-> At(n)[n]]
<1>4. \A n \in Nat : Upto(At(n), n)
    <2> HIDE DEF Upto
    <2> QED BY <1>2
<1>5. ASSUME NEW n \in Nat PROVE h[n] \in Nat /\ h[n] = Step(h, n)
    <2>1. Upto(At(n), n)
        BY <1>4
    <2> HIDE DEF At
    <2>2. h[n] \in Nat /\ h[n] = Step(At(n), n)
        BY <2>1
    <2>3. CASE n = 0
        BY <2>2, <2>3
    <2>4. CASE n # 0
        <3>1. n - 1 \in Nat /\ 0..(n - 1) \subseteq 0..n
            BY <2>4
        <3>2. Upto(At(n), n - 1) /\ Upto(At(n - 1), n - 1)
            BY <1>4, <2>1, <3>1
        <3>3. At(n)[n - 1] = At(n - 1)[n - 1]
            <4> HIDE DEF Upto
            <4> QED BY <1>3, <3>1, <3>2
        <3> QED BY <2>2, <2>4, <3>1, <3>3
    <2> QED BY <2>3, <2>4
<1> HIDE DEF At
<1>6. Rec(h)
    <2>1. \A n \in Nat : h[n] = Step(h, n)
        BY <1>5
    <2> QED BY <2>1
<1> HIDE DEF h
<1>7. Rec(H)
    BY <1>6
<1>8. ASSUME NEW n \in Nat PROVE H[n] = h[n]
    <2> DEFINE D == {m \in Nat : H[m] # h[m]}
    <2>1. SUFFICES ASSUME D # {} PROVE FALSE
        OBVIOUS
    <2>2. PICK m \in D : \A k \in D : m <= k
        <3>1. D \subseteq Nat
            OBVIOUS
        <3> HIDE DEF D
        <3> QED BY <2>1, <3>1, LeastNat
    <2>3. m \in Nat /\ H[m] # h[m] /\ H[m] = Step(H, m) /\ h[m] = Step(h, m)
        BY <1>5, <1>7
    <2>4. m # 0
        BY <2>3
    <2>5. m - 1 \in Nat /\ ~ (m <= m - 1)
        BY <2>3, <2>4
    <2>6. m - 1 \notin D
        <3> HIDE DEF D
        <3> QED BY <2>2, <2>5
    <2> QED BY <2>3, <2>4, <2>5, <2>6
<1>9. H = [n \in Nat |-> H[n]]
    BY <1>7
<1>10. \A n \in Nat : H[n] \in Nat
    BY <1>5, <1>8
<1> QED BY <1>7, <1>9, <1>10

\* Max returns the greatest element of a set of integers that has one.
LEMMA MaxIs ==
    ASSUME NEW S, S \subseteq Int, NEW m \in S, \A y \in S : y <= m
    PROVE  Max(S) = m
<1>1. \E x \in S : \A y \in S : x >= y
    OBVIOUS
<1>2. Max(S) \in S /\ \A y \in S : Max(S) >= y
    BY <1>1 DEF Max
<1>3. Max(S) \in Int /\ m \in Int
    BY <1>2
<1> QED BY <1>2, <1>3

\* A nonempty set of integers that is bounded above has a greatest element.
LEMMA MaxExists ==
    ASSUME NEW S, S \subseteq Int, S # {}, NEW b \in Int, \A y \in S : y <= b
    PROVE  Max(S) \in S /\ \A y \in S : y <= Max(S)
<1> DEFINE T == {b - y : y \in S}
<1>1. T \subseteq Nat /\ T # {}
    <2>1. \A y \in S : b - y \in Nat
        OBVIOUS
    <2> QED BY <2>1
<1>2. PICK x \in T : \A y \in T : x <= y
    BY <1>1, LeastNat
<1>3. PICK m \in S : x = b - m
    BY <1>2
<1>4. ASSUME NEW y \in S PROVE y <= m
    <2>1. b - m <= b - y
        BY <1>2, <1>3
    <2>2. y \in Int /\ m \in Int
        OBVIOUS
    <2> QED BY <2>1, <2>2
<1>5. Max(S) = m
    BY <1>4, MaxIs
<1> QED BY <1>4, <1>5

\* Min and Max of two integers.
LEMMA MinMaxPair ==
    ASSUME NEW a \in Int, NEW b \in Int
    PROVE  /\ Min({a, b}) = (IF a <= b THEN a ELSE b)
           /\ Max({a, b}) = (IF a <= b THEN b ELSE a)
<1>1. ASSUME NEW S, S \subseteq Int, NEW m \in S, \A y \in S : m <= y
      PROVE  Min(S) = m
    <2>1. \E x \in S : \A y \in S : x <= y
        BY <1>1
    <2>2. Min(S) \in S /\ \A y \in S : Min(S) <= y
        BY <2>1 DEF Min
    <2>3. Min(S) \in Int /\ m \in Int
        BY <1>1, <2>2
    <2> QED BY <1>1, <2>2, <2>3
<1>2. CASE a <= b
    <2>1. \A y \in {a, b} : a <= y /\ y <= b
        BY <1>2
    <2> QED BY <1>1, <1>2, <2>1, MaxIs
<1>3. CASE ~ (a <= b)
    <2>1. \A y \in {a, b} : b <= y /\ y <= a
        BY <1>3
    <2> QED BY <1>1, <1>3, <2>1, MaxIs
<1> QED BY <1>2, <1>3

-----------------------------------------------------------------------------
(* Positions of a sequence *)

\* Positions of a sequence form finite sets.
LEMMA PositionsFinite ==
    ASSUME NEW n \in Nat, NEW K, K \subseteq 1..n
    PROVE  IsFiniteSet(K) /\ Cardinality(K) \in Nat
<1>1. IsFiniteSet(1..n)
    BY FS_Interval
<1> QED BY <1>1, FS_Subset, FS_CardinalityType

\* Among the positions in K there is a k-th one, for every k up to their number.
LEMMA KthPosition ==
    ASSUME NEW n \in Nat, NEW K, K \subseteq 1..n, NEW k \in 1..Cardinality(K)
    PROVE  \E i \in K : Cardinality({j \in K : j <= i}) = k
<1> DEFINE Upto(i) == {j \in K : j <= i}
           T == {i \in 0..n : Cardinality(Upto(i)) >= k}
<1>1. \A i \in 0..n : IsFiniteSet(Upto(i)) /\ Cardinality(Upto(i)) \in Nat
    BY PositionsFinite
<1>0. \A j \in K : j \in Int /\ 1 <= j /\ j <= n
    OBVIOUS
<1>2. Upto(n) = K /\ Upto(0) = {}
    <2>1. \A j \in K : j <= n /\ ~ (j <= 0)
        BY <1>0
    <2> QED BY <2>1
<1>3. n \in T
    BY <1>2, PositionsFinite
<1>4. PICK i \in T : \A j \in T : i <= j
    <2>1. T \subseteq Nat /\ T # {}
        BY <1>3
    <2> QED BY <2>1, LeastNat
<1>5. i \in 1..n
    <2>1. Cardinality(Upto(0)) = 0
        BY <1>2, FS_EmptySet
    <2> QED BY <2>1, <1>4
<1>6. i - 1 \in 0..n /\ i - 1 \notin T
    <2>1. i \in Int /\ i - 1 \in 0..n /\ ~ (i <= i - 1)
        BY <1>5
    <2> HIDE DEF T
    <2> QED BY <1>4, <2>1
<1>7. Cardinality(Upto(i - 1)) < k /\ Cardinality(Upto(i)) >= k
    <2>1. Cardinality(Upto(i - 1)) \in Nat /\ i \in T
        BY <1>1, <1>4, <1>6
    <2> HIDE DEF Upto
    <2> QED BY <2>1, <1>6
<1>8. i \in K
    <2>1. SUFFICES ASSUME i \notin K PROVE FALSE
        OBVIOUS
    <2>2. \A j \in K : j <= i <=> j <= i - 1
        <3> TAKE j \in K
        <3>1. j \in Int /\ i \in Int /\ j # i
            BY <2>1, <1>0, <1>5
        <3> QED BY <3>1
    <2>3. Upto(i) = Upto(i - 1)
        BY <2>2
    <2> HIDE DEF Upto
    <2> QED BY <2>3, <1>7, <1>1, <1>6
<1>9. Upto(i) = Upto(i - 1) \cup {i} /\ i \notin Upto(i - 1)
    <2>1. \A j \in K : j <= i <=> j <= i - 1 \/ j = i
        BY <1>0, <1>5
    <2>2. i \in Int /\ ~ (i <= i - 1) /\ i <= i
        BY <1>5
    <2> QED BY <2>1, <2>2, <1>8
<1>10. Cardinality(Upto(i)) = Cardinality(Upto(i - 1)) + 1
    BY <1>9, <1>1, <1>6, FS_AddElement
<1>11. Cardinality(Upto(i)) = k
    <2> HIDE DEF Upto
    <2> QED BY <1>10, <1>7, <1>1, <1>6
<1> QED BY <1>11, <1>8

\* Select keeps elements of the sequence only.
LEMMA SelectType ==
    ASSUME NEW T, NEW q \in Seq(T), NEW K, K \subseteq 1..Len(q)
    PROVE  Select(q, K) \in Seq(T)
<1> DEFINE c == Cardinality(K)
           Kth(k) == CHOOSE i \in K : Cardinality({j \in K : j <= i}) = k
<1>1. Len(q) \in Nat /\ c \in Nat
    BY PositionsFinite, LenProperties
<1>2. \A k \in 1..c : Kth(k) \in K
    BY <1>1, KthPosition
<1>3. \A k \in 1..c : q[Kth(k)] \in T
    BY <1>2, ElementOfSeq
<1>4. [k \in 1..c |-> q[Kth(k)]] \in [1..c -> T]
    BY <1>3
<1>5. [k \in 1..c |-> q[Kth(k)]] \in Seq(T)
    BY <1>1, <1>4, SeqDef
<1> QED BY <1>5 DEF Select

\* A later position of K has a greater rank in it.
LEMMA Ranks ==
    ASSUME NEW n \in Nat, NEW K, K \subseteq 1..n, NEW i \in K, NEW j \in K, i < j
    PROVE  /\ Cardinality({h \in K : h <= i}) \in Nat
           /\ Cardinality({h \in K : h <= j}) \in Nat
           /\ Cardinality({h \in K : h <= i}) < Cardinality({h \in K : h <= j})
<1> DEFINE A == {h \in K : h <= i}
           B == {h \in K : h <= j}
<1>0. \A h \in K : h \in Int
    OBVIOUS
<1>1. A \subseteq B /\ j \in B /\ j \notin A
    <2>1. i \in Int /\ j \in Int /\ ~ (j <= i) /\ j <= j
        BY <1>0
    <2>2. \A h \in K : h <= i => h <= j
        BY <1>0, <2>1
    <2> QED BY <2>1, <2>2
<1>2. /\ IsFiniteSet(A) /\ Cardinality(A) \in Nat
      /\ IsFiniteSet(B) /\ Cardinality(B) \in Nat
    BY PositionsFinite
<1> HIDE DEF A, B
<1>3. Cardinality(A) <= Cardinality(B) /\ (Cardinality(B) = Cardinality(A) => B = A)
    BY <1>1, <1>2, FS_Subset
<1>4. Cardinality(A) < Cardinality(B)
    BY <1>1, <1>2, <1>3
<1> QED BY <1>2, <1>4 DEF A, B

\* f goes through the positions in K in their order, and r is q at them.
Enumerates(f, r, q, K) ==
    /\ f \in [1..Cardinality(K) -> K]
    /\ \A k \in 1..Cardinality(K) : r[k] = q[f[k]]
    /\ \A k, h \in 1..Cardinality(K) : k <= h <=> f[k] <= f[h]
    /\ \A i \in K : \E k \in 1..Cardinality(K) : f[k] = i

\* Select goes through the positions in K in their order.
LEMMA SelectIs ==
    ASSUME NEW T, NEW q \in Seq(T), NEW K, K \subseteq 1..Len(q)
    PROVE  /\ Select(q, K) \in Seq(T) /\ Len(Select(q, K)) = Cardinality(K)
           /\ Cardinality(K) \in Nat
           /\ \E f : Enumerates(f, Select(q, K), q, K)
<1> DEFINE c == Cardinality(K)
           Rank(i) == Cardinality({j \in K : j <= i})
           f == [k \in 1..c |-> CHOOSE i \in K : Rank(i) = k]
<1>1. Len(q) \in Nat /\ c \in Nat /\ IsFiniteSet(K)
    BY PositionsFinite, LenProperties
<1>2. \A k \in 1..c : \E i \in K : Rank(i) = k
    <2> DEFINE n == Len(q)
    <2>1. n \in Nat /\ K \subseteq 1..n
        BY <1>1
    <2> HIDE DEF n
    <2> QED BY <2>1, KthPosition
<1>3. \A i, j \in K : i < j => Rank(i) < Rank(j)
    <2> SUFFICES ASSUME NEW i \in K, NEW j \in K, i < j PROVE Rank(i) < Rank(j)
        OBVIOUS
    <2> DEFINE n == Len(q)
    <2>1. n \in Nat /\ K \subseteq 1..n
        BY <1>1
    <2> HIDE DEF n
    <2> QED BY <2>1, Ranks
<1>4. \A i \in K : Rank(i) \in 1..c
    <2> SUFFICES ASSUME NEW i \in K PROVE Rank(i) \in 1..c
        OBVIOUS
    <2> DEFINE A == {j \in K : j <= i}
    <2>1. A \subseteq K /\ i \in A
        BY <1>1
    <2> HIDE DEF A
    <2>2. IsFiniteSet(A) /\ Cardinality(A) <= c /\ Cardinality(A) \in Nat
        BY <1>1, <2>1, FS_Subset, FS_CardinalityType
    <2>3. Cardinality(A) # 0
        BY <2>1, <2>2, FS_EmptySet
    <2>4. Cardinality(A) \in 1..c
        BY <1>1, <2>2, <2>3
    <2> QED BY <2>4 DEF A
<1>5. Select(q, K) = [k \in 1..c |-> q[f[k]]]
    BY DEF Select
<1>6. \A k \in 1..c : f[k] \in K /\ Rank(f[k]) = k
    <2> HIDE DEF Rank, c
    <2> QED BY <1>2
<1>7. f \in [1..c -> K]
    BY <1>6
<1> HIDE DEF c, Rank, f
<1>8. \A k \in 1..c : Select(q, K)[k] = q[f[k]]
    BY <1>5
<1>9. \A i \in K : i \in Int
    OBVIOUS
<1>10. ASSUME NEW k \in 1..c, NEW h \in 1..c PROVE k <= h <=> f[k] <= f[h]
    <2>1. /\ f[k] \in K /\ f[h] \in K /\ Rank(f[k]) = k /\ Rank(f[h]) = h
          /\ f[k] \in Int /\ f[h] \in Int
        BY <1>6, <1>9
    <2>2. CASE f[k] < f[h]
        BY <1>1, <1>3, <2>1, <2>2
    <2>3. CASE f[k] = f[h]
        BY <1>1, <2>1, <2>3
    <2>4. CASE f[h] < f[k]
        BY <1>1, <1>3, <2>1, <2>4
    <2> QED BY <2>1, <2>2, <2>3, <2>4
<1>11. ASSUME NEW i \in K PROVE \E k \in 1..c : f[k] = i
    <2>1. Rank(i) \in 1..c
        BY <1>4
    <2> DEFINE j == f[Rank(i)]
    <2>2. j \in K /\ Rank(j) = Rank(i)
        BY <1>6, <2>1
    <2> HIDE DEF j
    <2>3. i \in Int /\ j \in Int /\ Rank(i) \in Int
        BY <1>1, <1>9, <2>1, <2>2
    <2>4. ~ (i < j) /\ ~ (j < i)
        BY <1>3, <2>2, <2>3
    <2>5. j = i
        BY <2>3, <2>4
    <2> QED BY <2>1, <2>5 DEF j
<1>12. Select(q, K) \in Seq(T)
    BY SelectType
<1>13. Len(Select(q, K)) = c
    BY <1>1, <1>5, <1>12, LenProperties
<1>14. Enumerates(f, Select(q, K), q, K)
    BY <1>7, <1>8, <1>10, <1>11 DEF Enumerates, c
<1> QED BY <1>1, <1>12, <1>13, <1>14 DEF c

-----------------------------------------------------------------------------
(* Sums *)

\* A family of subsets of a finite set has a member from which no element can be
\* taken without leaving the family: induction over finite sets.
LEMMA MinimalSet ==
    ASSUME NEW S, IsFiniteSet(S), NEW B, B \subseteq SUBSET S, B # {}
    PROVE  \E s \in B : IsFiniteSet(s) /\ \A x \in s : s \ {x} \notin B
<1> DEFINE T == {Cardinality(s) : s \in B}
<1>1. \A s \in B : IsFiniteSet(s) /\ Cardinality(s) \in Nat
    BY FS_Subset, FS_CardinalityType
<1>2. T \subseteq Nat /\ T # {}
    BY <1>1
<1>3. PICK n \in T : \A m \in T : n <= m
    <2> HIDE DEF T
    <2> QED BY <1>2, LeastNat
<1>4. PICK s \in B : n = Cardinality(s)
    BY <1>3
<1>5. ASSUME NEW x \in s, s \ {x} \in B PROVE FALSE
    <2>1. Cardinality(s \ {x}) = Cardinality(s) - 1
        BY <1>1, <1>4, FS_RemoveElement
    <2>2. Cardinality(s) <= Cardinality(s \ {x})
        BY <1>3, <1>4, <1>5
    <2> QED BY <2>1, <2>2, <1>1
<1> QED BY <1>1, <1>5

\* The recursion by which sums are defined.
SumsUp(it, f, S) ==
    it = [s \in SUBSET S |->
            IF s = {} THEN 0
            ELSE LET x == CHOOSE x \in s : TRUE IN f[x] + it[s \ {x}]]

LEMMA SumIs ==
    ASSUME NEW f, NEW S
    PROVE  SumFunctionOnSet(f, S) = (CHOOSE it : SumsUp(it, f, S))[S]
BY DEF SumFunctionOnSet, FoldFunctionOnSet, MapThenFoldSet, SumsUp

\* The recursion has a solution on a finite set.
LEMMA SumExists ==
    ASSUME NEW f, NEW S, IsFiniteSet(S)
    PROVE  \E it : SumsUp(it, f, S)
<1> DEFINE Pick(s) == CHOOSE x \in s : TRUE
           Step(g, s) == IF s = {} THEN 0 ELSE f[Pick(s)] + g[s \ {Pick(s)}]
           Upto(g, n) == /\ g = [s \in SUBSET S |-> g[s]]
                         /\ \A s \in SUBSET S : Cardinality(s) <= n => g[s] = Step(g, s)
           T == {n \in Nat : ~ \E g : Upto(g, n)}
<1>0. \A s \in SUBSET S : /\ IsFiniteSet(s) /\ Cardinality(s) \in Nat
                          /\ Cardinality(s) <= Cardinality(S)
                          /\ s # {} => /\ Pick(s) \in s /\ s \ {Pick(s)} \in SUBSET S
                                       /\ Cardinality(s \ {Pick(s)}) = Cardinality(s) - 1
                          /\ Cardinality(s) = 0 => s = {}
    BY FS_Subset, FS_CardinalityType, FS_RemoveElement, FS_EmptySet
<1> HIDE DEF Pick
<1>1. T = {}
    <2>1. SUFFICES ASSUME T # {} PROVE FALSE
        OBVIOUS
    <2>2. PICK n \in T : \A m \in T : n <= m
        <3>1. T \subseteq Nat
            OBVIOUS
        <3> HIDE DEF T
        <3> QED BY <2>1, <3>1, LeastNat
    <2>3. n # 0
        <3> DEFINE z == [s \in SUBSET S |-> 0]
        <3>0. ASSUME NEW s \in SUBSET S, Cardinality(s) <= 0 PROVE s = {}
            <4>1. Cardinality(s) \in Nat /\ (Cardinality(s) = 0 => s = {})
                BY <1>0
            <4> QED BY <4>1, <3>0
        <3>1. \A s \in SUBSET S : Cardinality(s) <= 0 => z[s] = Step(z, s)
            BY <3>0
        <3>2. z = [s \in SUBSET S |-> z[s]]
            OBVIOUS
        <3> HIDE DEF z, Step
        <3>3. Upto(z, 0)
            BY <3>1, <3>2
        <3> QED BY <3>3
    <2>4. n - 1 \in Nat /\ n - 1 \notin T
        <3>1. n \in Nat
            OBVIOUS
        <3>2. n - 1 \in Nat /\ ~ (n <= n - 1)
            BY <3>1, <2>3
        <3> HIDE DEF T
        <3> QED BY <3>2, <2>2
    <2>5. PICK g : Upto(g, n - 1)
        BY <2>4
    <2> DEFINE h == [s \in SUBSET S |-> Step(g, s)]
    <2>6. ASSUME NEW s \in SUBSET S, Cardinality(s) <= n, s # {}
          PROVE  h[s] = Step(h, s)
        <3>1. /\ s \ {Pick(s)} \in SUBSET S
              /\ Cardinality(s \ {Pick(s)}) <= n - 1
            BY <1>0, <2>6, <2>4
        <3>2. g[s \ {Pick(s)}] = h[s \ {Pick(s)}]
            BY <2>5, <3>1
        <3> QED BY <3>2, <2>6
    <2>7. \A s \in SUBSET S : Cardinality(s) <= n => h[s] = Step(h, s)
        BY <2>6
    <2>8. Upto(h, n)
        BY <2>7
    <2> QED BY <2>8, <2>2
<1>2. PICK g : Upto(g, Cardinality(S))
    BY <1>1, <1>0
<1>3. g = [s \in SUBSET S |-> Step(g, s)]
    BY <1>2, <1>0
<1>4. SumsUp(g, f, S)
    BY <1>3 DEF SumsUp, Pick
<1> QED BY <1>4

\* Solutions on two finite sets agree where both are defined.
LEMMA SumUnique ==
    ASSUME NEW f, NEW S, IsFiniteSet(S), NEW R \in SUBSET S,
           NEW it, SumsUp(it, f, S), NEW jt, SumsUp(jt, f, R)
    PROVE  it[R] = jt[R]
<1> DEFINE B == {s \in SUBSET R : it[s] # jt[s]}
<1>1. SUFFICES ASSUME B # {} PROVE FALSE
    OBVIOUS
<1>2. PICK s \in B : \A x \in s : s \ {x} \notin B
    <2>1. B \subseteq SUBSET R /\ IsFiniteSet(R)
        BY FS_Subset
    <2> HIDE DEF B
    <2> QED BY <1>1, <2>1, MinimalSet
<1> DEFINE x == CHOOSE x \in s : TRUE
<1>3. s \in SUBSET R /\ s \in SUBSET S /\ it[s] # jt[s]
    OBVIOUS
<1>4. s # {}
    BY <1>3 DEF SumsUp
<1>5. x \in s /\ s \ {x} \in SUBSET R /\ s \ {x} \in SUBSET S
    BY <1>3, <1>4
<1>6. it[s \ {x}] = jt[s \ {x}]
    BY <1>2, <1>5
<1>7. it[s] = f[x] + it[s \ {x}] /\ jt[s] = f[x] + jt[s \ {x}]
    BY <1>3, <1>4 DEF SumsUp
<1> QED BY <1>3, <1>6, <1>7

\* The sum over nothing.
LEMMA SumEmpty ==
    ASSUME NEW f
    PROVE  SumFunctionOnSet(f, {}) = 0
<1>1. \E it : SumsUp(it, f, {})
    BY SumExists, FS_EmptySet
<1>2. SumsUp(CHOOSE it : SumsUp(it, f, {}), f, {})
    BY <1>1
<1> QED BY <1>2, SumIs DEF SumsUp

\* A sum is one of its terms and the sum of the others.
LEMMA SumChoice ==
    ASSUME NEW f, NEW S, IsFiniteSet(S), S # {}
    PROVE  \E x \in S : SumFunctionOnSet(f, S) = f[x] + SumFunctionOnSet(f, S \ {x})
<1> DEFINE x == CHOOSE x \in S : TRUE
           R == S \ {x}
           it == CHOOSE it : SumsUp(it, f, S)
           jt == CHOOSE jt : SumsUp(jt, f, R)
<1>1. x \in S /\ R \in SUBSET S /\ IsFiniteSet(R)
    BY FS_RemoveElement
<1>2. SumsUp(it, f, S) /\ SumsUp(jt, f, R)
    BY <1>1, SumExists
<1>3. it[R] = jt[R]
    <2> HIDE DEF it, jt, R
    <2> QED BY <1>1, <1>2, SumUnique
<1>4. it[S] = f[x] + it[R]
    <2> HIDE DEF it
    <2>1. S \in SUBSET S
        OBVIOUS
    <2> QED BY <1>2, <2>1 DEF SumsUp
<1>5. SumFunctionOnSet(f, S) = it[S] /\ SumFunctionOnSet(f, R) = jt[R]
    BY SumIs
<1> QED BY <1>1, <1>3, <1>4, <1>5

\* Sums of integers are integers.
LEMMA SumInt ==
    ASSUME NEW S, IsFiniteSet(S), NEW f, \A x \in S : f[x] \in Int
    PROVE  SumFunctionOnSet(f, S) \in Int
<1> DEFINE B == {s \in SUBSET S : SumFunctionOnSet(f, s) \notin Int}
<1>1. SUFFICES ASSUME B # {} PROVE FALSE
    OBVIOUS
<1>2. PICK s \in B : IsFiniteSet(s) /\ \A x \in s : s \ {x} \notin B
    <2> HIDE DEF B
    <2>1. B \subseteq SUBSET S
        BY DEF B
    <2> QED BY <1>1, <2>1, MinimalSet
<1>3. s # {}
    BY SumEmpty
<1>4. PICK x \in s : SumFunctionOnSet(f, s) = f[x] + SumFunctionOnSet(f, s \ {x})
    BY <1>2, <1>3, SumChoice
<1>5. SumFunctionOnSet(f, s \ {x}) \in Int
    BY <1>2
<1> QED BY <1>4, <1>5

\* It does not matter which term is taken out.
LEMMA SumRemove ==
    ASSUME NEW S, IsFiniteSet(S), NEW f, \A x \in S : f[x] \in Int, NEW a \in S
    PROVE  SumFunctionOnSet(f, S) = f[a] + SumFunctionOnSet(f, S \ {a})
<1> DEFINE B == {s \in SUBSET S : \E y \in s : SumFunctionOnSet(f, s) # f[y] + SumFunctionOnSet(f, s \ {y})}
<1>1. SUFFICES ASSUME B # {} PROVE FALSE
    OBVIOUS
<1>2. PICK s \in B : IsFiniteSet(s) /\ \A x \in s : s \ {x} \notin B
    <2> HIDE DEF B
    <2>1. B \subseteq SUBSET S
        BY DEF B
    <2> QED BY <1>1, <2>1, MinimalSet
<1>3. PICK y \in s : SumFunctionOnSet(f, s) # f[y] + SumFunctionOnSet(f, s \ {y})
    OBVIOUS
<1>4. PICK x \in s : SumFunctionOnSet(f, s) = f[x] + SumFunctionOnSet(f, s \ {x})
    BY <1>2, <1>3, SumChoice
<1>5. x # y
    BY <1>3, <1>4
<1> DEFINE r == s \ {x, y}
<1>6. /\ s \ {x} \in SUBSET S /\ y \in s \ {x} /\ (s \ {x}) \ {y} = r
      /\ s \ {y} \in SUBSET S /\ x \in s \ {y} /\ (s \ {y}) \ {x} = r
    BY <1>5
<1>7. SumFunctionOnSet(f, s \ {x}) = f[y] + SumFunctionOnSet(f, r)
    <2>1. \A z \in s \ {x} : SumFunctionOnSet(f, s \ {x}) = f[z] + SumFunctionOnSet(f, (s \ {x}) \ {z})
        BY <1>2, <1>6
    <2> QED BY <2>1, <1>6
<1>8. SumFunctionOnSet(f, s \ {y}) = f[x] + SumFunctionOnSet(f, r)
    <2>1. \A z \in s \ {y} : SumFunctionOnSet(f, s \ {y}) = f[z] + SumFunctionOnSet(f, (s \ {y}) \ {z})
        BY <1>2, <1>6
    <2> QED BY <2>1, <1>6
<1>9. f[x] \in Int /\ f[y] \in Int /\ SumFunctionOnSet(f, r) \in Int
    <2>1. IsFiniteSet(r) /\ \A z \in r : f[z] \in Int
        BY <1>2, FS_Subset
    <2> HIDE DEF r
    <2> QED BY <2>1, SumInt
<1> HIDE DEF r
<1> QED BY <1>3, <1>4, <1>7, <1>8, <1>9

\* Equal terms, equal sums.
LEMMA SumEqual ==
    ASSUME NEW S, IsFiniteSet(S), NEW f, NEW g, \A x \in S : f[x] \in Int /\ g[x] = f[x]
    PROVE  SumFunctionOnSet(g, S) = SumFunctionOnSet(f, S)
<1> DEFINE B == {s \in SUBSET S : SumFunctionOnSet(g, s) # SumFunctionOnSet(f, s)}
<1>1. SUFFICES ASSUME B # {} PROVE FALSE
    OBVIOUS
<1>2. PICK s \in B : IsFiniteSet(s) /\ \A x \in s : s \ {x} \notin B
    <2> HIDE DEF B
    <2>1. B \subseteq SUBSET S
        BY DEF B
    <2> QED BY <1>1, <2>1, MinimalSet
<1>3. PICK x : x \in s
    BY SumEmpty
<1>4. /\ SumFunctionOnSet(f, s) = f[x] + SumFunctionOnSet(f, s \ {x})
      /\ SumFunctionOnSet(g, s) = g[x] + SumFunctionOnSet(g, s \ {x})
    BY <1>2, <1>3, SumRemove
<1>5. SumFunctionOnSet(g, s \ {x}) = SumFunctionOnSet(f, s \ {x})
    BY <1>2, <1>3
<1> QED BY <1>3, <1>4, <1>5

\* The sum of the sums of two functions.
LEMMA SumPlus ==
    ASSUME NEW S, IsFiniteSet(S), NEW f, NEW g, NEW h,
           \A x \in S : f[x] \in Int /\ g[x] \in Int /\ h[x] = f[x] + g[x]
    PROVE  SumFunctionOnSet(h, S) = SumFunctionOnSet(f, S) + SumFunctionOnSet(g, S)
<1> DEFINE B == {s \in SUBSET S : SumFunctionOnSet(h, s)
                                    # SumFunctionOnSet(f, s) + SumFunctionOnSet(g, s)}
<1>1. SUFFICES ASSUME B # {} PROVE FALSE
    OBVIOUS
<1>2. PICK s \in B : IsFiniteSet(s) /\ \A x \in s : s \ {x} \notin B
    <2> HIDE DEF B
    <2>1. B \subseteq SUBSET S
        BY DEF B
    <2> QED BY <1>1, <2>1, MinimalSet
<1>3. PICK x : x \in s
    <2>1. SumFunctionOnSet(f, {}) = 0 /\ SumFunctionOnSet(g, {}) = 0 /\ SumFunctionOnSet(h, {}) = 0
        BY SumEmpty
    <2>2. {} \notin B
        BY <2>1
    <2> HIDE DEF B
    <2> QED BY <2>2
<1> DEFINE r == s \ {x}
<1>4. /\ SumFunctionOnSet(f, s) = f[x] + SumFunctionOnSet(f, r)
      /\ SumFunctionOnSet(g, s) = g[x] + SumFunctionOnSet(g, r)
      /\ SumFunctionOnSet(h, s) = h[x] + SumFunctionOnSet(h, r)
    BY <1>2, <1>3, SumRemove
<1>5. SumFunctionOnSet(h, r) = SumFunctionOnSet(f, r) + SumFunctionOnSet(g, r)
    BY <1>2, <1>3
<1>6. SumFunctionOnSet(f, r) \in Int /\ SumFunctionOnSet(g, r) \in Int
    <2>1. IsFiniteSet(r) /\ \A z \in r : f[z] \in Int /\ g[z] \in Int
        BY <1>2, FS_Subset
    <2> HIDE DEF r
    <2> QED BY <2>1, SumInt
<1>7. f[x] \in Int /\ g[x] \in Int /\ h[x] = f[x] + g[x]
    BY <1>3
<1> HIDE DEF r
<1> QED BY <1>4, <1>5, <1>6, <1>7

\* Sums are monotone.
LEMMA SumLeq ==
    ASSUME NEW S, IsFiniteSet(S), NEW f, NEW g,
           \A x \in S : f[x] \in Int /\ g[x] \in Int /\ f[x] <= g[x]
    PROVE  SumFunctionOnSet(f, S) <= SumFunctionOnSet(g, S)
<1> DEFINE B == {s \in SUBSET S : ~ (SumFunctionOnSet(f, s) <= SumFunctionOnSet(g, s))}
<1>1. SUFFICES ASSUME B # {} PROVE FALSE
    OBVIOUS
<1>2. PICK s \in B : IsFiniteSet(s) /\ \A x \in s : s \ {x} \notin B
    <2> HIDE DEF B
    <2>1. B \subseteq SUBSET S
        BY DEF B
    <2> QED BY <1>1, <2>1, MinimalSet
<1>3. PICK x : x \in s
    <2>1. SumFunctionOnSet(f, {}) = 0 /\ SumFunctionOnSet(g, {}) = 0
        BY SumEmpty
    <2> QED BY <2>1
<1> DEFINE r == s \ {x}
<1>4. /\ SumFunctionOnSet(f, s) = f[x] + SumFunctionOnSet(f, r)
      /\ SumFunctionOnSet(g, s) = g[x] + SumFunctionOnSet(g, r)
    BY <1>2, <1>3, SumRemove
<1>5. SumFunctionOnSet(f, r) <= SumFunctionOnSet(g, r)
    BY <1>2, <1>3
<1>6. SumFunctionOnSet(f, r) \in Int /\ SumFunctionOnSet(g, r) \in Int
    <2>1. IsFiniteSet(r) /\ \A z \in r : f[z] \in Int /\ g[z] \in Int
        BY <1>2, FS_Subset
    <2> HIDE DEF r
    <2> QED BY <2>1, SumInt
<1>7. f[x] \in Int /\ g[x] \in Int /\ f[x] <= g[x]
    BY <1>3
<1>8. ~ (SumFunctionOnSet(f, s) <= SumFunctionOnSet(g, s))
    OBVIOUS
<1> HIDE DEF r, B
<1> QED BY <1>4, <1>5, <1>6, <1>7, <1>8

\* A sum of zeros.
LEMMA SumZero ==
    ASSUME NEW S, IsFiniteSet(S), NEW f, \A x \in S : f[x] = 0
    PROVE  SumFunctionOnSet(f, S) = 0
<1> DEFINE B == {s \in SUBSET S : SumFunctionOnSet(f, s) # 0}
<1>1. SUFFICES ASSUME B # {} PROVE FALSE
    OBVIOUS
<1>2. PICK s \in B : IsFiniteSet(s) /\ \A x \in s : s \ {x} \notin B
    <2> HIDE DEF B
    <2>1. B \subseteq SUBSET S
        BY DEF B
    <2> QED BY <1>1, <2>1, MinimalSet
<1>3. PICK x \in s : SumFunctionOnSet(f, s) = f[x] + SumFunctionOnSet(f, s \ {x})
    BY <1>2, SumEmpty, SumChoice
<1>4. SumFunctionOnSet(f, s \ {x}) = 0
    BY <1>2
<1> QED BY <1>3, <1>4

\* Sums of naturals are naturals, and no less than any of their terms.
LEMMA SumNat ==
    ASSUME NEW S, IsFiniteSet(S), NEW f, \A x \in S : f[x] \in Nat
    PROVE  /\ SumFunctionOnSet(f, S) \in Nat
           /\ \A a \in S : f[a] <= SumFunctionOnSet(f, S)
<1>1. ASSUME NEW R \in SUBSET S PROVE SumFunctionOnSet(f, R) \in Nat
    <2> DEFINE z == [x \in R |-> 0]
    <2>1. IsFiniteSet(R) /\ \A x \in R : f[x] \in Int
        BY FS_Subset
    <2>2. SumFunctionOnSet(z, R) = 0
        BY <2>1, SumZero
    <2>3. \A x \in R : z[x] \in Int /\ f[x] \in Int /\ z[x] <= f[x]
        OBVIOUS
    <2> HIDE DEF z
    <2>4. SumFunctionOnSet(z, R) <= SumFunctionOnSet(f, R)
        BY <2>1, <2>3, SumLeq
    <2>5. SumFunctionOnSet(f, R) \in Int
        BY <2>1, SumInt
    <2> QED BY <2>2, <2>4, <2>5
<1>2. ASSUME NEW a \in S PROVE f[a] <= SumFunctionOnSet(f, S)
    <2>1. SumFunctionOnSet(f, S) = f[a] + SumFunctionOnSet(f, S \ {a})
        BY SumRemove
    <2>2. SumFunctionOnSet(f, S \ {a}) \in Nat /\ f[a] \in Nat
        BY <1>1
    <2> QED BY <2>1, <2>2
<1> QED BY <1>1, <1>2

\* A change of one term.
LEMMA SumChange ==
    ASSUME NEW S, IsFiniteSet(S), NEW f, NEW g, NEW a \in S,
           \A x \in S : f[x] \in Int /\ g[x] \in Int /\ (x # a => g[x] = f[x])
    PROVE  SumFunctionOnSet(g, S) = SumFunctionOnSet(f, S) + (g[a] - f[a])
<1> DEFINE r == S \ {a}
<1>1. IsFiniteSet(r) /\ \A x \in r : f[x] \in Int /\ g[x] = f[x]
    BY FS_Subset
<1>2. SumFunctionOnSet(g, r) = SumFunctionOnSet(f, r) /\ SumFunctionOnSet(f, r) \in Int
    <2> HIDE DEF r
    <2> QED BY <1>1, SumEqual, SumInt
<1>3. /\ SumFunctionOnSet(f, S) = f[a] + SumFunctionOnSet(f, r)
      /\ SumFunctionOnSet(g, S) = g[a] + SumFunctionOnSet(g, r)
    BY SumRemove
<1>4. f[a] \in Int /\ g[a] \in Int
    OBVIOUS
<1> HIDE DEF r
<1> QED BY <1>2, <1>3, <1>4

\* The sum over two sets without common elements.
LEMMA SumDisjoint ==
    ASSUME NEW S, IsFiniteSet(S), NEW f, \A x \in S : f[x] \in Int,
           NEW Q, NEW R, S = Q \cup R, Q \cap R = {}
    PROVE  SumFunctionOnSet(f, S) = SumFunctionOnSet(f, Q) + SumFunctionOnSet(f, R)
<1> DEFINE B == {s \in SUBSET Q : SumFunctionOnSet(f, s \cup R)
                                    # SumFunctionOnSet(f, s) + SumFunctionOnSet(f, R)}
<1>0. IsFiniteSet(Q) /\ IsFiniteSet(R)
    BY FS_Subset
<1>0a. SumFunctionOnSet(f, R) \in Int
    BY <1>0, SumInt
<1>1. SUFFICES ASSUME B # {} PROVE FALSE
    OBVIOUS
<1>2. PICK s \in B : IsFiniteSet(s) /\ \A x \in s : s \ {x} \notin B
    <2> HIDE DEF B
    <2>1. B \subseteq SUBSET Q
        BY DEF B
    <2> QED BY <1>0, <1>1, <2>1, MinimalSet
<1>3. PICK x : x \in s
    <2>1. SumFunctionOnSet(f, {}) = 0 /\ {} \cup R = R
        BY SumEmpty
    <2>2. {} \notin B
        BY <2>1, <1>0a
    <2> HIDE DEF B
    <2> QED BY <2>2
<1> DEFINE r == s \ {x}
<1>4. /\ SumFunctionOnSet(f, s) = f[x] + SumFunctionOnSet(f, r)
      /\ SumFunctionOnSet(f, s \cup R) = f[x] + SumFunctionOnSet(f, r \cup R)
    <2>1. s \cup R \in SUBSET S /\ x \in s \cup R /\ (s \cup R) \ {x} = r \cup R
        BY <1>3
    <2>2. IsFiniteSet(s \cup R)
        BY <2>1, FS_Subset
    <2>3. SumFunctionOnSet(f, s \cup R) = f[x] + SumFunctionOnSet(f, (s \cup R) \ {x})
        BY <2>1, <2>2, SumRemove
    <2>4. SumFunctionOnSet(f, s) = f[x] + SumFunctionOnSet(f, r)
        BY <1>2, <1>3, SumRemove
    <2> QED BY <2>1, <2>3, <2>4
<1>5. SumFunctionOnSet(f, r \cup R) = SumFunctionOnSet(f, r) + SumFunctionOnSet(f, R)
    BY <1>2, <1>3
<1>6. SumFunctionOnSet(f, r) \in Int /\ f[x] \in Int
    <2>1. IsFiniteSet(r) /\ \A z \in r : f[z] \in Int
        BY <1>2, FS_Subset
    <2>2. f[x] \in Int
        BY <1>3
    <2> HIDE DEF r
    <2> QED BY <2>1, <2>2, SumInt
<1>7. SumFunctionOnSet(f, s \cup R) # SumFunctionOnSet(f, s) + SumFunctionOnSet(f, R)
    OBVIOUS
<1> HIDE DEF r, B
<1> QED BY <1>0a, <1>4, <1>5, <1>6, <1>7

\* The sum over fewer naturals is no greater.
LEMMA SumSubset ==
    ASSUME NEW S, IsFiniteSet(S), NEW f, \A x \in S : f[x] \in Nat, NEW R \in SUBSET S
    PROVE  SumFunctionOnSet(f, R) <= SumFunctionOnSet(f, S)
<1> DEFINE Q == S \ R
<1>1. S = R \cup Q /\ R \cap Q = {} /\ IsFiniteSet(R) /\ IsFiniteSet(Q)
    BY FS_Subset
<1>2. SumFunctionOnSet(f, S) = SumFunctionOnSet(f, R) + SumFunctionOnSet(f, Q)
    <2> HIDE DEF Q
    <2> QED BY <1>1, SumDisjoint
<1>3. SumFunctionOnSet(f, R) \in Nat /\ SumFunctionOnSet(f, Q) \in Nat
    BY <1>1, SumNat
<1> HIDE DEF Q
<1> QED BY <1>2, <1>3

\* A sum does not change when its terms are numbered in another way.
LEMMA SumRenamed ==
    ASSUME NEW S, IsFiniteSet(S), NEW R, IsFiniteSet(R), NEW f, NEW g, NEW h,
           \A x \in S : h[x] \in R /\ f[x] \in Int /\ g[h[x]] = f[x],
           \A x, y \in S : h[x] = h[y] => x = y,
           \A y \in R : \E x \in S : h[x] = y
    PROVE  SumFunctionOnSet(f, S) = SumFunctionOnSet(g, R)
<1> DEFINE Img(s) == {h[x] : x \in s}
           B == {s \in SUBSET S : SumFunctionOnSet(f, s) # SumFunctionOnSet(g, Img(s))}
<1>0. Img(S) = R
    OBVIOUS
<1>1. SUFFICES ASSUME B # {} PROVE FALSE
    BY <1>0
<1>2. PICK s \in B : IsFiniteSet(s) /\ \A x \in s : s \ {x} \notin B
    <2> HIDE DEF B
    <2>1. B \subseteq SUBSET S
        BY DEF B
    <2> QED BY <1>1, <2>1, MinimalSet
<1>3. PICK x : x \in s
    <2>1. SumFunctionOnSet(f, {}) = 0 /\ SumFunctionOnSet(g, {}) = 0 /\ Img({}) = {}
        BY SumEmpty
    <2>2. {} \notin B
        BY <2>1
    <2> HIDE DEF B
    <2> QED BY <2>2
<1> DEFINE r == s \ {x}
<1>4. SumFunctionOnSet(f, s) = f[x] + SumFunctionOnSet(f, r)
    BY <1>2, <1>3, SumRemove
<1>5. SumFunctionOnSet(g, Img(s)) = g[h[x]] + SumFunctionOnSet(g, Img(r))
    <2>1. h[x] \in Img(s) /\ Img(s) \ {h[x]} = Img(r) /\ Img(s) \subseteq R
        BY <1>3
    <2>2. IsFiniteSet(Img(s)) /\ \A y \in Img(s) : g[y] \in Int
        BY <2>1, FS_Subset
    <2>3. SumFunctionOnSet(g, Img(s)) = g[h[x]] + SumFunctionOnSet(g, Img(s) \ {h[x]})
        <3> HIDE DEF Img, B, r
        <3> QED BY ONLY <2>1, <2>2, SumRemove
    <2> HIDE DEF Img, r
    <2> QED BY ONLY <2>1, <2>3
<1>6. SumFunctionOnSet(f, r) = SumFunctionOnSet(g, Img(r)) /\ g[h[x]] = f[x]
    BY <1>2, <1>3
<1>7. SumFunctionOnSet(f, s) # SumFunctionOnSet(g, Img(s))
    OBVIOUS
<1> HIDE DEF r, B, Img
<1> QED BY <1>4, <1>5, <1>6, <1>7

\* What is summed over a selection is what is summed over the positions chosen.
LEMMA SumSelect ==
    ASSUME NEW T, NEW q \in Seq(T), NEW K, K \subseteq 1..Len(q), NEW f, NEW g,
           \A j \in K : f[j] \in Int,
           \A i \in 1..Len(Select(q, K)) : \A j \in K :
               Select(q, K)[i] = q[j] => g[i] = f[j]
    PROVE  SumFunctionOnSet(g, 1..Len(Select(q, K))) = SumFunctionOnSet(f, K)
<1> DEFINE p == Select(q, K)
           N == 1..Len(p)
<1>1. /\ p \in Seq(T) /\ Len(p) = Cardinality(K) /\ Len(p) \in Nat
      /\ \E h : Enumerates(h, p, q, K)
    BY SelectIs
<1>2. PICK h : Enumerates(h, p, q, K)
    BY <1>1
<1>3. Len(q) \in Nat
    BY LenProperties
<1>4. IsFiniteSet(K) /\ IsFiniteSet(N)
    BY <1>1, <1>3, PositionsFinite
<1>5. \A i \in N : h[i] \in K /\ p[i] = q[h[i]]
    BY <1>1, <1>2 DEF Enumerates
<1>6. \A i \in N : \A j \in K : p[i] = q[j] => g[i] = f[j]
    OBVIOUS
<1>7. \A i, j \in N : i <= j <=> h[i] <= h[j]
    BY <1>1, <1>2 DEF Enumerates
<1>8. \A y \in K : \E i \in N : h[i] = y
    BY <1>1, <1>2 DEF Enumerates
<1>9. K \subseteq Int /\ N \subseteq Int
    BY <1>1, <1>3
<1> HIDE DEF p, N
<1>10. \A i \in N : h[i] \in K /\ g[i] \in Int /\ f[h[i]] = g[i]
    BY <1>5, <1>6
<1>11. \A i, j \in N : h[i] = h[j] => i = j
    <2>1. \A i \in N : h[i] \in Int /\ i \in Int
        BY <1>5, <1>9
    <2> QED BY <1>7, <2>1
<1>12. SumFunctionOnSet(g, N) = SumFunctionOnSet(f, K)
    BY ONLY <1>4, <1>8, <1>10, <1>11, SumRenamed
<1> QED BY <1>12 DEF p, N

\* A sum of multiples.
LEMMA SumTimes ==
    ASSUME NEW S, IsFiniteSet(S), NEW c \in Int, NEW f, NEW g,
           \A x \in S : f[x] \in Int /\ g[x] = c * f[x]
    PROVE  SumFunctionOnSet(g, S) = c * SumFunctionOnSet(f, S)
<1> DEFINE B == {s \in SUBSET S : SumFunctionOnSet(g, s) # c * SumFunctionOnSet(f, s)}
<1>1. SUFFICES ASSUME B # {} PROVE FALSE
    OBVIOUS
<1>2. PICK s \in B : IsFiniteSet(s) /\ \A x \in s : s \ {x} \notin B
    <2> HIDE DEF B
    <2>1. B \subseteq SUBSET S
        BY DEF B
    <2> QED BY <1>1, <2>1, MinimalSet
<1>3. PICK x : x \in s
    <2>1. SumFunctionOnSet(f, {}) = 0 /\ SumFunctionOnSet(g, {}) = 0
        BY SumEmpty
    <2>2. {} \notin B
        BY <2>1
    <2> HIDE DEF B
    <2> QED BY <2>2
<1> DEFINE r == s \ {x}
<1>4. /\ SumFunctionOnSet(f, s) = f[x] + SumFunctionOnSet(f, r)
      /\ SumFunctionOnSet(g, s) = g[x] + SumFunctionOnSet(g, r)
    BY <1>2, <1>3, SumRemove
<1>5. SumFunctionOnSet(g, r) = c * SumFunctionOnSet(f, r)
    BY <1>2, <1>3
<1>6. SumFunctionOnSet(f, r) \in Int
    <2>1. IsFiniteSet(r) /\ \A z \in r : f[z] \in Int
        BY <1>2, FS_Subset
    <2> HIDE DEF r
    <2> QED BY <2>1, SumInt
<1>7. f[x] \in Int /\ g[x] = c * f[x]
    BY <1>3
<1>8. SumFunctionOnSet(g, s) # c * SumFunctionOnSet(f, s)
    OBVIOUS
<1>9. \A i, j \in Int : c * (i + j) = c * i + c * j
    OBVIOUS
<1> HIDE DEF r, B
<1> QED BY <1>4, <1>5, <1>6, <1>7, <1>8, <1>9

\* A sum of sums by rows and by columns.
RowSums(row, m, V, A) == \A v \in V : row[v] = SumFunctionOnSet(m[v], A)

ColumnSums(col, m, V, A) ==
    \A a \in A : col[a] = SumFunctionOnSet([v \in V |-> m[v][a]], V)

LEMMA SumSwap ==
    ASSUME NEW V, IsFiniteSet(V), NEW A, IsFiniteSet(A), NEW m,
           \A v \in V : \A a \in A : m[v][a] \in Int,
           NEW row, RowSums(row, m, V, A), NEW col, ColumnSums(col, m, V, A)
    PROVE  SumFunctionOnSet(col, A) = SumFunctionOnSet(row, V)
<1> DEFINE part(s) == [a \in A |-> SumFunctionOnSet([v \in V |-> m[v][a]], s)]
           B == {s \in SUBSET V : SumFunctionOnSet(part(s), A) # SumFunctionOnSet(row, s)}
<1>0. ASSUME NEW a \in A, NEW s \in SUBSET V
      PROVE  /\ part(s)[a] \in Int
             /\ \A v \in s : part(s)[a] = m[v][a] + part(s \ {v})[a]
    <2> DEFINE c == [v \in V |-> m[v][a]]
    <2>1. IsFiniteSet(s) /\ \A v \in s : c[v] \in Int /\ c[v] = m[v][a]
        BY FS_Subset
    <2>2. part(s)[a] = SumFunctionOnSet(c, s) /\ \A v \in s : part(s \ {v})[a] = SumFunctionOnSet(c, s \ {v})
        OBVIOUS
    <2> HIDE DEF c, part
    <2>3. SumFunctionOnSet(c, s) \in Int
        BY ONLY <2>1, SumInt
    <2>4. ASSUME NEW v \in s
          PROVE  SumFunctionOnSet(c, s) = m[v][a] + SumFunctionOnSet(c, s \ {v})
        BY ONLY <2>1, <2>4, SumRemove
    <2> QED BY ONLY <2>2, <2>3, <2>4
<1>1. B = {}
    <2>1. SUFFICES ASSUME B # {} PROVE FALSE
        OBVIOUS
    <2>2. PICK s \in B : IsFiniteSet(s) /\ \A x \in s : s \ {x} \notin B
        <3> HIDE DEF B
        <3>1. B \subseteq SUBSET V
            BY DEF B
        <3> QED BY <2>1, <3>1, MinimalSet
    <2>3. PICK v : v \in s
        <3>1. SumFunctionOnSet(row, {}) = 0 /\ \A a \in A : part({})[a] = 0
            BY SumEmpty
        <3>2. SumFunctionOnSet(part({}), A) = 0
            <4> HIDE DEF part
            <4> QED BY <3>1, SumZero
        <3>3. {} \notin B
            BY <3>1, <3>2
        <3> HIDE DEF B
        <3> QED BY <3>3
    <2>4. v \in V /\ s \in SUBSET V /\ s \ {v} \in SUBSET V
        BY <2>3
    <2>5. SumFunctionOnSet(part(s), A) = SumFunctionOnSet(m[v], A) + SumFunctionOnSet(part(s \ {v}), A)
        <3>1. \A a \in A : /\ m[v][a] \in Int /\ part(s \ {v})[a] \in Int
                           /\ part(s)[a] = m[v][a] + part(s \ {v})[a]
            <4> HIDE DEF part
            <4> QED BY <1>0, <2>3, <2>4
        <3> HIDE DEF part
        <3> QED BY <3>1, SumPlus
    <2>6. SumFunctionOnSet(row, s) = row[v] + SumFunctionOnSet(row, s \ {v})
        <3>1. \A w \in s : row[w] \in Int
            BY SumInt DEF RowSums
        <3> HIDE DEF B
        <3> QED BY ONLY <3>1, <2>2, <2>3, SumRemove
    <2>7. SumFunctionOnSet(part(s \ {v}), A) = SumFunctionOnSet(row, s \ {v})
        BY <2>2, <2>3
    <2>8. SumFunctionOnSet(part(s), A) # SumFunctionOnSet(row, s) /\ row[v] = SumFunctionOnSet(m[v], A)
        BY <2>4 DEF RowSums
    <2> HIDE DEF part, B
    <2> QED BY <2>5, <2>6, <2>7, <2>8
<1>2. SumFunctionOnSet(part(V), A) = SumFunctionOnSet(row, V)
    BY <1>1
<1>3. \A a \in A : part(V)[a] \in Int /\ col[a] = part(V)[a]
    <2>1. \A a \in A : part(V)[a] \in Int
        <3> HIDE DEF part
        <3> QED BY <1>0
    <2> QED BY <2>1 DEF ColumnSums
<1> HIDE DEF part
<1> QED BY <1>2, <1>3, SumEqual

\* A sum with one term.
LEMMA SumPoint ==
    ASSUME NEW S, IsFiniteSet(S), NEW x \in S, NEW c \in Int, NEW f,
           \A a \in S : f[a] = IF a = x THEN c ELSE 0
    PROVE  SumFunctionOnSet(f, S) = c
<1> DEFINE z == [a \in S |-> 0]
<1>1. SumFunctionOnSet(z, S) = 0
    <2>1. \A a \in S : z[a] = 0
        OBVIOUS
    <2> HIDE DEF z
    <2> QED BY <2>1, SumZero
<1>2. \A a \in S : z[a] \in Int /\ f[a] \in Int /\ (a # x => f[a] = z[a])
    OBVIOUS
<1>3. z[x] = 0 /\ f[x] = c
    OBVIOUS
<1> HIDE DEF z
<1>4. SumFunctionOnSet(f, S) = SumFunctionOnSet(z, S) + (f[x] - z[x])
    BY <1>2, SumChange
<1> QED BY <1>1, <1>3, <1>4

\* An amount i leaves x, and amounts j and k arrive at y and z.
Moves(g, f, S, x, i, y, j, z, k) ==
    \A a \in S : /\ f[a] \in Int
                 /\ g[a] = f[a] - (IF a = x THEN i ELSE 0) + (IF a = y THEN j ELSE 0)
                                + (IF a = z THEN k ELSE 0)

LEMMA SumMoves ==
    ASSUME NEW S, IsFiniteSet(S), NEW f, NEW g, NEW x \in S, NEW y \in S, NEW z \in S,
           NEW i \in Int, NEW j \in Int, NEW k \in Int,
           Moves(g, f, S, x, i, y, j, z, k)
    PROVE  SumFunctionOnSet(g, S) = SumFunctionOnSet(f, S) - i + j + k
<1> DEFINE p == [a \in S |-> IF a = x THEN -i ELSE 0]
           q == [a \in S |-> IF a = y THEN j ELSE 0]
           r == [a \in S |-> IF a = z THEN k ELSE 0]
           fp == [a \in S |-> f[a] + p[a]]
           fq == [a \in S |-> fp[a] + q[a]]
<1>1. /\ \A a \in S : p[a] = IF a = x THEN -i ELSE 0
      /\ \A a \in S : q[a] = IF a = y THEN j ELSE 0
      /\ \A a \in S : r[a] = IF a = z THEN k ELSE 0
      /\ -i \in Int
    OBVIOUS
<1>2. \A a \in S : p[a] \in Int /\ q[a] \in Int /\ r[a] \in Int
    BY <1>1
<1> HIDE DEF p, q, r
<1>3. \A a \in S : fp[a] \in Int /\ fp[a] = f[a] + p[a]
    BY <1>2 DEF Moves
<1> HIDE DEF fp
<1>4. \A a \in S : fq[a] \in Int /\ fq[a] = fp[a] + q[a]
    BY <1>2, <1>3
<1> HIDE DEF fq
<1>5. \A a \in S : g[a] = fq[a] + r[a]
    BY <1>1, <1>3, <1>4 DEF Moves
<1>6. /\ SumFunctionOnSet(p, S) = -i /\ SumFunctionOnSet(q, S) = j
      /\ SumFunctionOnSet(r, S) = k
    BY <1>1, SumPoint
<1>7. SumFunctionOnSet(fp, S) = SumFunctionOnSet(f, S) + SumFunctionOnSet(p, S)
    BY <1>2, <1>3, SumPlus DEF Moves
<1>8. SumFunctionOnSet(fq, S) = SumFunctionOnSet(fp, S) + SumFunctionOnSet(q, S)
    BY <1>2, <1>3, <1>4, SumPlus
<1>9. SumFunctionOnSet(g, S) = SumFunctionOnSet(fq, S) + SumFunctionOnSet(r, S)
    BY <1>2, <1>4, <1>5, SumPlus
<1>10. SumFunctionOnSet(f, S) \in Int
    BY SumInt DEF Moves
<1> QED BY <1>6, <1>7, <1>8, <1>9, <1>10
=============================================================================
