----------------------------- MODULE SyncProofs -----------------------------
(***************************************************************************)
(* For any peers on any branches: what SyncManager and gossip build is     *)
(* never a mixture of branches.                                            *)
(***************************************************************************)
EXTENDS Sync, FiniteFacts, SequenceTheorems, FiniteSetTheorems

-----------------------------------------------------------------------------
(* The inductive invariant *)

\* What peers can send: headers of their own chains.
Headers == {Header(p, i, good) : p \in Peer, i \in Int, good \in BOOLEAN}

Tasks == [rid : Request, done : BOOLEAN, blocks : Seq(Headers)]

Requests == [rid : Request, peer : Peer, type : {"get_headers", "get_block_bodies"},
             from : Int, count : Int]

\* The locals of _header_sync.
Locals == [from : Int, prev : Nat \X Nat, retries : Nat]

TypeOK ==
    /\ chain \in Seq(Nat)
    /\ height \in [Peer -> Nat]
    /\ seen \in [Peer -> Int]
    /\ up \subseteq Peer
    /\ target \in Int
    /\ queue \in Seq(Headers)
    /\ hs \in Locals
    /\ bs \in [chunk : Nat, tasks : Seq(Tasks), size : Nat]
    /\ requests \subseteq Requests

\* Inside _block_sync the chunks are counted from 1.
Chunked == pc \in {"chunks", "blocks"} => bs.chunk >= 1

SyncInv == TypeOK /\ Chunked /\ OneBranch

-----------------------------------------------------------------------------
(* Headers *)

LEMMA Constants ==
    /\ Peer # {} /\ IsFiniteSet(Peer) /\ Fork \in Nat /\ MaxHeight \in Nat
    /\ \A p \in Peer : Branch[p] \in Nat \ {0} /\ FirstHeight[p] \in Nat
    /\ SYNC_BATCH_SIZE \in Nat \ {0} /\ SYNC_BLOCK_BATCH \in Nat \ {0}
    /\ SYNC_MAX_PARALLEL \in Nat \ {0}
BY SyncAssumption

LEMMA HeaderFields ==
    ASSUME NEW h \in Headers
    PROVE  \E p \in Peer, i \in Int :
              /\ h.hash = <<i, BranchAt(p, i)>> /\ h.prev = <<i - 1, BranchAt(p, i - 1)>>
              /\ Index(h) = i
BY DEF Headers, Header, Hash, Index

\* The part of a peer's chain that an answer carries.
LEMMA AnswerType ==
    ASSUME NEW p \in Peer, NEW i \in Int, NEW j \in Int, NEW good \in BOOLEAN
    PROVE  [k \in 1..(j - i + 1) |-> Header(p, i + k - 1, good)] \in Seq(Headers)
<1> DEFINE n == IF j - i + 1 >= 0 THEN j - i + 1 ELSE 0
           f == [k \in 1..(j - i + 1) |-> Header(p, i + k - 1, good)]
<1>1. n \in Nat /\ 1..(j - i + 1) = 1..n
    OBVIOUS
<1>2. \A k \in 1..n : i + k - 1 \in Int
    BY <1>1
<1>3. \A k \in 1..n : Header(p, i + k - 1, good) \in Headers
    BY <1>2 DEF Headers
<1>4. f \in [1..n -> Headers]
    <2> HIDE DEF n
    <2> QED BY <1>1, <1>3
<1> HIDE DEF n
<1> QED BY <1>1, <1>4, SeqDef

\* The last block of an answer.
LEMMA AnswerLast ==
    ASSUME TypeOK, NEW q \in requests
    PROVE  /\ q.peer \in Peer /\ q.from \in Int /\ q.rid \in Request
           /\ Min({q.from + q.count - 1, height[q.peer]}) \in Int
<1>1. q \in Requests
    BY DEF TypeOK
<1>2. q.from + q.count - 1 \in Int /\ height[q.peer] \in Int /\ q.peer \in Peer
    BY <1>1 DEF Requests, TypeOK
<1>3. Min({q.from + q.count - 1, height[q.peer]}) \in Int
    BY <1>2, MinMaxPair
<1> QED BY <1>1, <1>2, <1>3 DEF Requests

-----------------------------------------------------------------------------
(* Branches *)

LEMMA BranchType ==
    ASSUME NEW p \in Peer, NEW i \in Int
    PROVE  BranchAt(p, i) \in Nat
BY Constants DEF BranchAt

\* A block that extends the tip and is on the chain of some peer keeps the
\* node's chain on one branch: up to Fork all peers agree, and above it the tip
\* tells the branch.
LEMMA Grow ==
    ASSUME TypeOK, OneBranch, NEW p \in Peer, <<local, BranchAt(p, local)>> = Tip,
           chain' = Append(chain, BranchAt(p, local + 1))
    PROVE  OneBranch' /\ chain' \in Seq(Nat)
<1>1. /\ chain \in Seq(Nat) /\ local \in Nat
      /\ BranchAt(p, local + 1) \in Nat
    BY BranchType, LenProperties DEF TypeOK, local
<1>2. /\ chain' \in Seq(Nat) /\ local' = local + 1
      /\ \A i \in 1..local : chain'[i] = chain[i]
      /\ chain'[local + 1] = BranchAt(p, local + 1)
    BY <1>1, AppendProperties DEF local
<1>3. PICK w \in Peer : \A i \in 1..local : chain[i] = BranchAt(w, i)
    BY DEF OneBranch
<1>4. \A i \in 1..local : BranchAt(w, i) = BranchAt(p, i)
    <2>1. CASE local <= Fork
        <3>1. \A i \in 1..local : i <= Fork
            BY <2>1, <1>1, Constants
        <3> QED BY <3>1 DEF BranchAt
    <2>2. CASE ~ (local <= Fork)
        <3>1. local \in 1..local /\ chain # <<>>
            BY <2>2, <1>1, Constants, EmptySeq DEF local
        <3>2. BranchAt(p, local) = chain[local]
            BY <3>1 DEF Tip
        <3>3. Branch[p] = Branch[w]
            BY <2>2, <3>1, <3>2, <1>3 DEF BranchAt
        <3> QED BY <3>3 DEF BranchAt
    <2> QED BY <2>1, <2>2
<1>5. \A i \in 1..(local + 1) : chain'[i] = BranchAt(p, i)
    <2> TAKE i \in 1..(local + 1)
    <2>1. i \in 1..local \/ i = local + 1
        BY <1>1
    <2> QED BY <2>1, <1>2, <1>3, <1>4
<1> QED BY <1>2, <1>5 DEF OneBranch

LEMMA SameChain == OneBranch /\ UNCHANGED chain => OneBranch'
BY DEF OneBranch, local

-----------------------------------------------------------------------------
(* Chunks *)

\* The first and the last header of a chunk exist.
LEMMA ChunkType ==
    ASSUME TypeOK, NEW k \in Nat \ {0}, k <= Chunks
    PROVE  ChunkFrom(k) \in Int /\ ChunkTo(k) \in Int
<1> DEFINE B == SYNC_BLOCK_BATCH
           n == Len(queue)
<1>1. B \in Nat \ {0} /\ n \in Nat /\ queue \in Seq(Headers)
    BY Constants, LenProperties DEF TypeOK
<1>2. \A h \in Headers : Index(h) \in Int
    BY HeaderFields
<1>3. \A i \in 1..n : Index(queue[i]) \in Int
    BY <1>1, <1>2, ElementOfSeq
<1>4. k * B <= n + B - 1
    <2> DEFINE d == (n + B - 1) \div B
    <2>1. n + B - 1 \in Nat
        BY <1>1
    <2>2. d \in Nat /\ d * B <= n + B - 1
        BY <1>1, <2>1
    <2>3. k <= d
        BY DEF Chunks
    <2> HIDE DEF d
    <2>4. k * B <= d * B
        BY <1>1, <2>2, <2>3
    <2> QED BY <1>1, <2>2, <2>4
<1>5. k * B \in Nat /\ k * B >= B /\ (k - 1) * B = k * B - B
    BY <1>1
<1>6. (k - 1) * B + 1 \in 1..n
    BY <1>1, <1>4, <1>5
<1>7. Min({k * B, n}) \in 1..n
    <2> DEFINE m == k * B
    <2>1. n \in 1..n /\ m \in Nat /\ m >= 1
        BY <1>1, <1>5, <1>6
    <2> HIDE DEF m, n
    <2>2. Min({m, n}) = IF m <= n THEN m ELSE n
        BY <2>1, <1>1, MinMaxPair
    <2>3. Min({m, n}) \in 1..n
        BY <2>1, <2>2, <1>1
    <2> QED BY <2>3 DEF m
<1> QED BY <1>3, <1>6, <1>7 DEF ChunkFrom, ChunkTo

-----------------------------------------------------------------------------
(* Induction *)

LEMMA SyncInit == Init => SyncInv
<1> SUFFICES ASSUME Init PROVE SyncInv
    OBVIOUS
<1>1. /\ chain \in Seq(Nat) /\ queue \in Seq(Headers) /\ Len(chain) = 0
      /\ <<>> \in Seq(Tasks)
    BY EmptySeq DEF Init
<1>2. height \in [Peer -> Nat]
    BY SyncAssumption DEF Init
<1>3. TypeOK
    BY <1>1, <1>2 DEF Init, TypeOK, NoHeaders, NoBlocks, Locals
<1>4. OneBranch
    BY <1>1, Constants DEF OneBranch, local
<1> QED BY <1>3, <1>4 DEF SyncInv, Chunked, Init

\* Steps that change neither the chain nor the locals of _block_sync.
LEMMA Elsewhere ==
    ASSUME SyncInv, TypeOK', UNCHANGED <<chain, bs>>,
           pc' \in {"chunks", "blocks"} => pc \in {"chunks", "blocks"}
    PROVE  SyncInv'
BY SameChain DEF SyncInv, Chunked

LEMMA TipType == TypeOK => Tip \in Nat \X Nat /\ local \in Nat
<1> SUFFICES ASSUME TypeOK PROVE Tip \in Nat \X Nat /\ local \in Nat
    OBVIOUS
<1>1. chain \in Seq(Nat) /\ local \in Nat
    BY LenProperties DEF TypeOK, local
<1>2. chain # <<>> => local \in 1..local
    BY <1>1, EmptySeq DEF local
<1>3. chain # <<>> => chain[local] \in Nat
    BY <1>1, <1>2, ElementOfSeq DEF local
<1> QED BY <1>1, <1>3 DEF Tip

LEMMA LocalsType ==
    /\ NoHeaders \in Locals
    /\ \A h \in Locals, n \in Nat :
          /\ [h EXCEPT !.from = @ + n, !.retries = 0] \in Locals
          /\ [h EXCEPT !.retries = @ + 1] \in Locals
    /\ \A i \in Int, t \in Nat \X Nat :
          [NoHeaders EXCEPT !.from = i, !.prev = t] \in Locals
<1>1. NoHeaders \in Locals
    BY DEF Locals, NoHeaders
<1>2. ASSUME NEW h \in Locals, NEW n \in Nat
      PROVE  /\ [h EXCEPT !.from = @ + n, !.retries = 0] \in Locals
             /\ [h EXCEPT !.retries = @ + 1] \in Locals
    <2>1. h \in [from : Int, prev : Nat \X Nat, retries : Nat]
        BY DEF Locals
    <2>2. h.from + n \in Int /\ h.retries + 1 \in Nat
        BY <2>1
    <2> QED BY <2>1, <2>2 DEF Locals
<1>3. ASSUME NEW i \in Int, NEW t \in Nat \X Nat
      PROVE  [NoHeaders EXCEPT !.from = i, !.prev = t] \in Locals
    BY DEF Locals, NoHeaders
<1> QED BY <1>1, <1>2, <1>3

\* _header_sync with an answer.
LEMMA HeadersReceived ==
    ASSUME SyncInv, NEW headers \in Seq(Headers), headers_received(headers),
           UNCHANGED <<chain, told, bs>>, requests' \subseteq requests
    PROVE  SyncInv'
<1>1. pc' \notin {"chunks", "blocks"}
    BY DEF headers_received
<1>2. queue' \in Seq(Headers)
    <2>1. queue' = queue \/ queue' = queue \o headers
        BY DEF headers_received
    <2>2. queue \in Seq(Headers) /\ queue \o headers \in Seq(Headers)
        BY ConcatProperties DEF SyncInv, TypeOK
    <2> QED BY <2>1, <2>2
<1>3. Len(headers) \in Nat
    BY LenProperties
<1>4. hs' \in Locals
    <2>1. \/ hs' = hs \/ hs' = NoHeaders
          \/ hs' = [hs EXCEPT !.from = @ + Len(headers), !.retries = 0]
        BY DEF headers_received
    <2>2. hs \in Locals
        BY DEF SyncInv, TypeOK
    <2> QED BY <2>1, <2>2, <1>3, LocalsType
<1>5. TypeOK'
    BY <1>2, <1>4 DEF SyncInv, TypeOK, told
<1> QED BY <1>1, <1>5, Elsewhere

LEMMA FinishedType ==
    ASSUME TypeOK, NEW rid, NEW blocks \in Seq(Headers)
    PROVE  Finished(rid, blocks) \in [chunk : Nat, tasks : Seq(Tasks), size : Nat]
           /\ Finished(rid, blocks).chunk = bs.chunk
<1>1. /\ bs \in [chunk : Nat, tasks : Seq(Tasks), size : Nat]
      /\ bs.tasks \in Seq(Tasks) /\ Len(bs.tasks) \in Nat
    BY LenProperties DEF TypeOK
<1> DEFINE f == [i \in 1..Len(bs.tasks) |->
        IF bs.tasks[i].rid = rid
        THEN [bs.tasks[i] EXCEPT !.done = TRUE, !.blocks = blocks] ELSE bs.tasks[i]]
<1>2. \A i \in 1..Len(bs.tasks) : bs.tasks[i] \in Tasks
    BY <1>1, ElementOfSeq
<1>3. \A t \in Tasks : [t EXCEPT !.done = TRUE, !.blocks = blocks] \in Tasks
    BY DEF Tasks
<1>4. f \in [1..Len(bs.tasks) -> Tasks]
    BY <1>2, <1>3
<1>5. f \in Seq(Tasks)
    BY <1>1, <1>4, SeqDef
<1>6. Finished(rid, blocks) = [bs EXCEPT !.tasks = f]
    BY DEF Finished
<1> HIDE DEF f
<1> QED BY <1>1, <1>5, <1>6

LEMMA SyncNext == SyncInv /\ [Next]_vars => SyncInv'
<1> SUFFICES ASSUME SyncInv, [Next]_vars PROVE SyncInv'
    OBVIOUS
<1>a. TypeOK /\ Chunked /\ OneBranch
    BY DEF SyncInv
<1>b. local \in Nat /\ Tip \in Nat \X Nat
    BY <1>a, TipType
<1>1. CASE check_peers \/ follow_tip
    <2>1. target' \in Int
        BY <1>1, <1>a DEF check_peers, follow_tip, Begin, Best, TypeOK
    <2>2. TypeOK'
        BY <1>1, <1>a, <2>1 DEF check_peers, follow_tip, Begin, TypeOK
    <2> QED BY <1>1, <2>2, Elsewhere DEF check_peers, follow_tip
<1>2. CASE header_sync
    <2>1. hs' \in Locals
        <3>1. local + 1 \in Int
            BY <1>b
        <3>2. [NoHeaders EXCEPT !.from = local + 1, !.prev = Tip] \in Locals
            BY <3>1, <1>b, LocalsType
        <3> QED BY <1>2, <3>2 DEF header_sync
    <2>2. TypeOK'
        BY <1>2, <1>a, <2>1, EmptySeq DEF header_sync, TypeOK, told
    <2> QED BY <1>2, <2>2, Elsewhere DEF header_sync
<1>3. CASE request_headers
    <2>1. pc' \notin {"chunks", "blocks"} /\ UNCHANGED <<chain, told, queue, bs>>
        BY <1>3 DEF request_headers, headers_done
    <2>2. hs' \in Locals
        BY <1>3, <1>a, LocalsType DEF request_headers, headers_done, TypeOK
    <2>3. requests' \subseteq Requests
        <3>1. CASE requests' = requests
            BY <3>1, <1>a DEF TypeOK
        <3>2. ASSUME source \in up, NEW r \in Fresh(1),
                     requests' = requests \cup
                         {[rid |-> r[1], peer |-> source, type |-> "get_headers",
                           from |-> hs.from,
                           count |-> Min({SYNC_BATCH_SIZE, target - hs.from + 1})]}
              PROVE  requests' \subseteq Requests
            <4>1. r[1] \in Request /\ source \in Peer
                BY <3>2, <1>a DEF Fresh, Free, TypeOK
            <4>2. hs.from \in Int /\ target - hs.from + 1 \in Int /\ SYNC_BATCH_SIZE \in Int
                BY <1>a, Constants DEF TypeOK, Locals
            <4>3. Min({SYNC_BATCH_SIZE, target - hs.from + 1}) \in Int
                BY <4>2, MinMaxPair
            <4> QED BY <3>2, <4>1, <4>2, <4>3, <1>a DEF Requests, TypeOK
        <3> QED BY <1>3, <3>1, <3>2 DEF request_headers
    <2>4. TypeOK'
        BY <2>1, <2>2, <2>3, <1>a DEF TypeOK, told
    <2> QED BY <2>1, <2>4, Elsewhere
<1>4. ASSUME NEW q \in requests, answer_headers(q) PROVE SyncInv'
    <2>1. UNCHANGED <<chain, told, bs>> /\ requests' \subseteq requests
        BY <1>4 DEF answer_headers
    <2> DEFINE last == Min({q.from + q.count - 1, height[q.peer]})
    <2>2. q.peer \in Peer /\ q.from \in Int /\ last \in Int
        BY <1>a, AnswerLast
    <2>3. ASSUME NEW good \in BOOLEAN,
                 headers_received([k \in 1..(last - q.from + 1) |->
                                      Header(q.peer, q.from + k - 1, good)])
          PROVE  SyncInv'
        <3> HIDE DEF last
        <3>1. [k \in 1..(last - q.from + 1) |-> Header(q.peer, q.from + k - 1, good)]
                 \in Seq(Headers)
            BY <2>2, AnswerType
        <3> QED BY <2>1, <2>3, <3>1, HeadersReceived
    <2>4. CASE UNCHANGED <<state, pc, queue, hs, score>>
        <3>1. TypeOK'
            BY <2>1, <2>4, <1>a DEF TypeOK, told
        <3> QED BY <2>1, <2>4, <3>1, Elsewhere
    <2> QED BY <1>4, <2>3, <2>4 DEF answer_headers
<1>5. ASSUME NEW q \in requests, headers_timeout(q) PROVE SyncInv'
    <2>1. /\ pc' \notin {"chunks", "blocks"} /\ UNCHANGED <<chain, told, queue, bs>>
          /\ requests' \subseteq requests
        BY <1>5 DEF headers_timeout, Late
    <2>2. hs' \in Locals
        <3>1. hs' = NoHeaders \/ hs' = [hs EXCEPT !.retries = @ + 1]
            BY <1>5 DEF headers_timeout
        <3>2. hs \in Locals
            BY <1>a DEF TypeOK
        <3> QED BY <3>1, <3>2, LocalsType
    <2>3. TypeOK'
        BY <2>1, <2>2, <1>a DEF TypeOK, told
    <2> QED BY <2>1, <2>3, Elsewhere
<1>6. CASE cross_verify_headers
    <2>1. TypeOK'
        BY <1>6, <1>a DEF cross_verify_headers, TypeOK, told
    <2> QED BY <1>6, <2>1, Elsewhere DEF cross_verify_headers
<1>7. CASE block_sync
    <2>1. bs' \in [chunk : Nat, tasks : Seq(Tasks), size : Nat] /\ bs'.chunk = 1
        BY <1>7, EmptySeq DEF block_sync, NoBlocks
    <2>2. TypeOK'
        BY <1>7, <1>a, <2>1 DEF block_sync, TypeOK, told
    <2>3. OneBranch'
        BY <1>7, <1>a, SameChain DEF block_sync
    <2> QED BY <2>1, <2>2, <2>3 DEF SyncInv, Chunked
<1>8. CASE launch
    <2>1. UNCHANGED <<chain, told, queue, hs>> /\ bs.chunk <= Chunks /\ pc = "chunks"
        BY <1>8 DEF launch
    <2>2. PICK o \in Orders :
            LET n == Min({Len(o), Chunks - bs.chunk + 1})
            IN /\ n > 0
               /\ \E rids \in Fresh(n) :
                   /\ requests' = requests \cup
                        {[rid |-> rids[i], peer |-> o[i], type |-> "get_block_bodies",
                          from |-> ChunkFrom(bs.chunk + i - 1),
                          count |-> ChunkTo(bs.chunk + i - 1)
                                        - ChunkFrom(bs.chunk + i - 1) + 1] : i \in 1..n}
                   /\ bs' = [bs EXCEPT !.size = n,
                        !.tasks = [i \in 1..n |->
                            [rid |-> rids[i], done |-> FALSE, blocks |-> <<>>]]]
        BY <1>8 DEF launch
    <2> DEFINE n == Min({Len(o), Chunks - bs.chunk + 1})
    <2>3. PICK rids \in Fresh(n) :
               /\ requests' = requests \cup
                        {[rid |-> rids[i], peer |-> o[i], type |-> "get_block_bodies",
                          from |-> ChunkFrom(bs.chunk + i - 1),
                          count |-> ChunkTo(bs.chunk + i - 1)
                                        - ChunkFrom(bs.chunk + i - 1) + 1] : i \in 1..n}
               /\ bs' = [bs EXCEPT !.size = n,
                        !.tasks = [i \in 1..n |->
                            [rid |-> rids[i], done |-> FALSE, blocks |-> <<>>]]]
        BY <2>2
    <2>4. Len(o) \in Nat /\ \A i \in 1..Len(o) : o[i] \in Peer
        <3> DEFINE usable == {p \in up : seen[p] >= 0}
                   m == Min({Cardinality(usable), SYNC_MAX_PARALLEL})
        <3>1. usable \subseteq Peer /\ IsFiniteSet(usable) /\ Cardinality(usable) \in Nat
            BY <1>a, Constants, FS_Subset, FS_CardinalityType DEF TypeOK
        <3>2. m \in Nat
            <4> DEFINE a == Cardinality(usable)
            <4>1. a \in Nat /\ SYNC_MAX_PARALLEL \in Nat
                BY <3>1, Constants
            <4> HIDE DEF a
            <4>2. Min({a, SYNC_MAX_PARALLEL}) =
                     IF a <= SYNC_MAX_PARALLEL THEN a ELSE SYNC_MAX_PARALLEL
                BY <4>1, MinMaxPair
            <4>3. Min({a, SYNC_MAX_PARALLEL}) \in Nat
                BY <4>1, <4>2
            <4> QED BY <4>3 DEF a
        <3>3. o \in [1..m -> usable]
            BY DEF Orders
        <3> HIDE DEF m, usable
        <3>4. o \in Seq(usable) /\ Len(o) = m
            BY <3>2, <3>3, SeqDef, LenProperties
        <3> QED BY <3>1, <3>2, <3>3, <3>4
    <2>5. Chunks \in Int /\ bs.chunk \in Nat /\ bs.chunk >= 1
        <3>1. Len(queue) + SYNC_BLOCK_BATCH - 1 \in Int /\ SYNC_BLOCK_BATCH \in Nat \ {0}
            BY <1>a, Constants, LenProperties DEF TypeOK
        <3> QED BY <3>1, <1>a, <2>1 DEF Chunks, Chunked, TypeOK
    <2>6. n \in Nat /\ n <= Len(o) /\ n <= Chunks - bs.chunk + 1
        <3>1. Len(o) \in Int /\ Chunks - bs.chunk + 1 \in Int
            BY <2>4, <2>5
        <3>2. n > 0 /\ n \in Int /\ n <= Len(o) /\ n <= Chunks - bs.chunk + 1
            <4> DEFINE a == Len(o)
                       b == Chunks - bs.chunk + 1
            <4>1. n > 0
                BY <2>2
            <4> HIDE DEF a, b
            <4>2. Min({a, b}) = IF a <= b THEN a ELSE b
                BY <3>1, MinMaxPair DEF a, b
            <4>3. a \in Int /\ b \in Int /\ n = Min({a, b})
                BY <3>1 DEF a, b
            <4>4. n \in Int /\ n <= a /\ n <= b
                BY <4>2, <4>3
            <4> QED BY <4>1, <4>4 DEF a, b
        <3> QED BY <3>2
    <2> HIDE DEF n
    <2>7. \A i \in 1..n : rids[i] \in Request
        BY DEF Fresh, Free
    <2>8. requests' \subseteq Requests
        <3>1. ASSUME NEW i \in 1..n
              PROVE  [rid |-> rids[i], peer |-> o[i], type |-> "get_block_bodies",
                      from |-> ChunkFrom(bs.chunk + i - 1),
                      count |-> ChunkTo(bs.chunk + i - 1)
                                    - ChunkFrom(bs.chunk + i - 1) + 1] \in Requests
            <4>1. bs.chunk + i - 1 \in Nat \ {0} /\ bs.chunk + i - 1 <= Chunks
                  /\ i \in 1..Len(o)
                BY <2>4, <2>5, <2>6
            <4>2. /\ ChunkFrom(bs.chunk + i - 1) \in Int
                  /\ ChunkTo(bs.chunk + i - 1) \in Int
                BY <4>1, <1>a, ChunkType
            <4>3. rids[i] \in Request /\ o[i] \in Peer
                BY <4>1, <2>4, <2>7
            <4> QED BY <4>2, <4>3 DEF Requests
        <3> QED BY <2>3, <3>1, <1>a DEF TypeOK
    <2>9. bs' \in [chunk : Nat, tasks : Seq(Tasks), size : Nat] /\ bs'.chunk = bs.chunk
        <3> DEFINE f == [i \in 1..n |-> [rid |-> rids[i], done |-> FALSE, blocks |-> <<>>]]
        <3>1. f \in [1..n -> Tasks]
            BY <2>7, EmptySeq DEF Tasks
        <3>2. f \in Seq(Tasks)
            BY <2>6, <3>1, SeqDef
        <3>3. bs' = [bs EXCEPT !.size = n, !.tasks = f]
            BY <2>3
        <3> HIDE DEF f
        <3> QED BY <3>2, <3>3, <2>6, <1>a DEF TypeOK
    <2>10. TypeOK'
        BY <2>1, <2>8, <2>9, <1>a DEF TypeOK, told
    <2>11. OneBranch'
        BY <2>1, <1>a, SameChain
    <2> QED BY <2>5, <2>9, <2>10, <2>11 DEF SyncInv, Chunked
<1>9. ASSUME NEW q \in requests, answer_bodies(q) PROVE SyncInv'
    <2>1. UNCHANGED <<pc, chain, told, queue, hs>> /\ requests' \subseteq requests
        BY <1>9 DEF answer_bodies
    <2> DEFINE last == Min({q.from + q.count - 1, height[q.peer]})
    <2>2. q.peer \in Peer /\ q.from \in Int /\ last \in Int
        BY <1>a, AnswerLast
    <2>3. bs' \in [chunk : Nat, tasks : Seq(Tasks), size : Nat] /\ bs'.chunk = bs.chunk
        <3>1. ASSUME NEW good \in BOOLEAN,
                     bs' = Finished(q.rid, [k \in 1..(last - q.from + 1) |->
                                               Header(q.peer, q.from + k - 1, good)])
              PROVE  bs' \in [chunk : Nat, tasks : Seq(Tasks), size : Nat]
                     /\ bs'.chunk = bs.chunk
            <4> HIDE DEF last
            <4>1. [k \in 1..(last - q.from + 1) |-> Header(q.peer, q.from + k - 1, good)]
                     \in Seq(Headers)
                BY <2>2, AnswerType
            <4> QED BY <3>1, <4>1, <1>a, FinishedType
        <3>2. CASE UNCHANGED bs
            BY <3>2, <1>a DEF TypeOK
        <3> QED BY <1>9, <3>1, <3>2 DEF answer_bodies
    <2>4. TypeOK'
        BY <2>1, <2>3, <1>a DEF TypeOK, told
    <2>5. OneBranch'
        BY <2>1, <1>a, SameChain
    <2> QED BY <2>1, <2>3, <2>4, <2>5, <1>a DEF SyncInv, Chunked
<1>10. ASSUME NEW q \in requests, bodies_timeout(q) PROVE SyncInv'
    <2>1. /\ UNCHANGED <<pc, chain, told, queue, hs>> /\ requests' \subseteq requests
          /\ bs' = Finished(q.rid, <<>>)
        BY <1>10 DEF bodies_timeout, Late
    <2>2. bs' \in [chunk : Nat, tasks : Seq(Tasks), size : Nat] /\ bs'.chunk = bs.chunk
        <3>1. <<>> \in Seq(Headers)
            BY EmptySeq
        <3> QED BY <2>1, <3>1, <1>a, FinishedType
    <2>3. TypeOK'
        BY <2>1, <2>2, <1>a DEF TypeOK, told
    <2>4. OneBranch'
        BY <2>1, <1>a, SameChain
    <2> QED BY <2>1, <2>2, <2>3, <2>4, <1>a DEF SyncInv, Chunked
<1>11. CASE apply_block
    <2> DEFINE task == bs.tasks[1]
               b == task.blocks[1]
               rest == [bs EXCEPT !.tasks[1].blocks = Tail(@)]
               next == [bs EXCEPT !.tasks = Tail(@)]
               T == [chunk : Nat, tasks : Seq(Tasks), size : Nat]
    <2>1. /\ bs \in T /\ bs.tasks \in Seq(Tasks) /\ bs.tasks # <<>> /\ pc = "blocks"
          /\ UNCHANGED <<told, queue, hs, requests>>
        BY <1>11, <1>a DEF apply_block, TypeOK
    <2>2. /\ Len(bs.tasks) \in Nat \ {0} /\ task \in Tasks
          /\ Tail(bs.tasks) \in Seq(Tasks) /\ task.blocks \in Seq(Headers)
        <3>1. Len(bs.tasks) \in Nat \ {0}
            BY <2>1, LenProperties, EmptySeq
        <3>2. task \in Tasks
            BY <2>1, <3>1, ElementOfSeq
        <3>3. Tail(bs.tasks) \in Seq(Tasks)
            BY <2>1, HeadTailProperties
        <3> QED BY <3>1, <3>2, <3>3 DEF Tasks
    <2>3. next \in T /\ next.chunk = bs.chunk
        BY <2>1, <2>2
    <2>4. ASSUME task.blocks # <<>>
          PROVE  /\ b \in Headers
                 /\ rest \in T /\ rest.chunk = bs.chunk
        <3>1. Len(task.blocks) \in Nat \ {0} /\ Tail(task.blocks) \in Seq(Headers)
            BY <2>2, <2>4, LenProperties, EmptySeq, HeadTailProperties
        <3>2. b \in Headers
            BY <3>1, <2>2, ElementOfSeq
        <3> DEFINE u == [task EXCEPT !.blocks = Tail(@)]
                   ts == [bs.tasks EXCEPT ![1] = u]
        <3>3. u \in Tasks
            BY <3>1, <2>2 DEF Tasks
        <3>4. ts \in Seq(Tasks)
            <4> HIDE DEF u
            <4> QED BY <3>3, <2>1, <2>2, ExceptSeq
        <3>5. rest = [bs EXCEPT !.tasks = ts]
            OBVIOUS
        <3> HIDE DEF rest, ts
        <3>6. rest \in T /\ rest.chunk = bs.chunk
            BY <3>4, <3>5, <2>1
        <3> QED BY <3>2, <3>6
    <2>5. NoBlocks \in T
        BY EmptySeq DEF NoBlocks
    <2>6. \/ bs' = next /\ UNCHANGED <<pc, chain>>
          \/ bs' = NoBlocks /\ pc' = "top" /\ UNCHANGED chain
          \/ task.blocks # <<>> /\ bs' = rest /\ UNCHANGED <<pc, chain>>
          \/ /\ task.blocks # <<>> /\ bs' = rest /\ UNCHANGED pc
             /\ extends(b) /\ chain' = Append(chain, b.hash[2])
        BY <1>11 DEF apply_block
    <2>7. bs' \in T /\ (pc' \in {"chunks", "blocks"} => bs'.chunk = bs.chunk)
        <3> HIDE DEF next, rest, T, task
        <3> QED BY <2>3, <2>4, <2>5, <2>6
    <2>8. OneBranch' /\ chain' \in Seq(Nat)
        <3>1. CASE UNCHANGED chain
            BY <3>1, <1>a, SameChain DEF TypeOK
        <3>2. CASE /\ task.blocks # <<>> /\ extends(b)
                   /\ chain' = Append(chain, b.hash[2])
            <4> HIDE DEF b, task
            <4>1. PICK p \in Peer, i \in Int :
                    b.hash = <<i, BranchAt(p, i)>> /\ b.prev = <<i - 1, BranchAt(p, i - 1)>>
                BY <3>2, <2>4, HeaderFields
            <4>2. <<i - 1, BranchAt(p, i - 1)>> = Tip
                BY <3>2, <4>1 DEF extends
            <4>3. i = local + 1 /\ local = i - 1
                BY <4>2, <1>b DEF Tip
            <4>4. b.hash[2] = BranchAt(p, local + 1)
                BY <4>1, <4>3
            <4>5. <<local, BranchAt(p, local)>> = Tip
                BY <4>2, <4>3
            <4> QED BY <3>2, <4>4, <4>5, <1>a, Grow
        <3> QED BY <2>6, <3>1, <3>2
    <2>9. TypeOK'
        BY <2>1, <2>7, <2>8, <1>a DEF TypeOK, told
    <2> QED BY <2>1, <2>7, <2>8, <2>9, <1>a DEF SyncInv, Chunked
<1>12. CASE round_done
    <2>1. bs' \in [chunk : Nat, tasks : Seq(Tasks), size : Nat]
          /\ bs'.chunk = bs.chunk + bs.size
        <3>1. bs \in [chunk : Nat, tasks : Seq(Tasks), size : Nat]
            BY <1>a DEF TypeOK
        <3>2. bs.chunk + bs.size \in Nat
            BY <3>1
        <3>3. bs' = [bs EXCEPT !.chunk = bs.chunk + bs.size, !.size = 0]
            BY <1>12 DEF round_done
        <3> QED BY <3>1, <3>2, <3>3
    <2>2. bs'.chunk >= 1
        BY <1>12, <2>1, <1>a DEF round_done, Chunked, TypeOK
    <2>3. TypeOK'
        BY <1>12, <2>1, <1>a DEF round_done, TypeOK, told
    <2>4. OneBranch'
        BY <1>12, <1>a, SameChain DEF round_done
    <2> QED BY <2>2, <2>3, <2>4 DEF SyncInv, Chunked
<1>13. CASE block_sync_done
    <2>1. bs' \in [chunk : Nat, tasks : Seq(Tasks), size : Nat] /\ queue' \in Seq(Headers)
        BY <1>13, EmptySeq DEF block_sync_done, NoBlocks
    <2>2. TypeOK'
        BY <1>13, <1>a, <2>1 DEF block_sync_done, TypeOK, told
    <2>3. OneBranch'
        BY <1>13, <1>a, SameChain DEF block_sync_done
    <2> QED BY <1>13, <2>2, <2>3 DEF SyncInv, Chunked, block_sync_done
<1>14. ASSUME NEW p \in Peer, status(p) PROVE SyncInv'
    <2>1. target \in Int /\ height[p] \in Int /\ p \in Peer
        BY <1>a DEF TypeOK
    <2>2. target' \in Int
        BY <1>14, <2>1, MinMaxPair DEF status
    <2>3. TypeOK'
        BY <1>14, <2>1, <2>2, <1>a DEF status, TypeOK
    <2> QED BY <1>14, <2>3, Elsewhere DEF status
<1>15. ASSUME NEW p \in Peer, gossip(p) PROVE SyncInv'
    <2>1. <<local, BranchAt(p, local)>> = Tip
          /\ chain' = Append(chain, BranchAt(p, local + 1))
        BY <1>15 DEF gossip, Hash
    <2>2. OneBranch' /\ chain' \in Seq(Nat)
        BY <2>1, <1>a, Grow
    <2>3. TypeOK'
        BY <1>15, <2>2, <1>a DEF gossip, TypeOK, told
    <2> QED BY <1>15, <2>2, <2>3, <1>a DEF SyncInv, Chunked, gossip
<1>16. ASSUME NEW p \in Peer, peer_grows(p) \/ peer_gone(p) PROVE SyncInv'
    <2>1. TypeOK'
        <3>1. height' \in [Peer -> Nat] /\ up' \subseteq Peer
            BY <1>16, <1>a DEF peer_grows, peer_gone, TypeOK
        <3>2. UNCHANGED <<chain, seen, target, queue, hs, bs, requests>>
            BY <1>16 DEF peer_grows, peer_gone
        <3> QED BY <3>1, <3>2, <1>a DEF TypeOK
    <2> QED BY <1>16, <2>1, Elsewhere DEF peer_grows, peer_gone
<1>17. CASE UNCHANGED vars
    <2>1. TypeOK'
        BY <1>17, <1>a DEF vars, TypeOK
    <2> QED BY <1>17, <2>1, Elsewhere DEF vars
<1> QED BY <1>1, <1>2, <1>3, <1>4, <1>5, <1>6, <1>7, <1>8, <1>9, <1>10, <1>11, <1>12,
           <1>13, <1>14, <1>15, <1>16, <1>17
        DEF Next, main_loop, Answer, Timeout

-----------------------------------------------------------------------------
\* The node's chain is a chain that some peer has, whoever sent the headers and
\* the bodies, in whatever order chunks arrive, time out or are passed over, and
\* whatever gossip appends in between (sync.py, _block_sync; add_block).
THEOREM NoMixture == Spec => []OneBranch
<1>1. SyncInv => OneBranch
    BY DEF SyncInv
<1> QED BY <1>1, SyncInit, SyncNext, PTL DEF Spec
=============================================================================
