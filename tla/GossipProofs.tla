---------------------------- MODULE GossipProofs ----------------------------
(***************************************************************************)
(* Gossip implements Replica, for any network, any order of turns and any  *)
(* number of dropped messages: the heights of the nodes are prefixes of    *)
(* one log, which only the validator in turn extends.                      *)
(***************************************************************************)
EXTENDS Gossip, FiniteFacts, SequenceTheorems

-----------------------------------------------------------------------------
(* The inductive invariant *)

Heights == {height[n] : n \in Node}

\* The log that the mapping takes from a state.
Top == Max(Heights)

\* Messages about a log of length t.  What is sent of blocks is part of the
\* log: a block sent on is one that its sender has.
Msg(t) ==
    [type : {"status"}, height : Int]
        \cup [type : {"new_block"}, index : 1..t]
        \cup [type : {"get_blocks"}, from : Nat, count : Int, request_id : Request]
        \cup [type : {"blocks"}, from : Nat, to : {j \in Int : j <= t},
              request_id : Request]

TypeOK ==
    /\ height \in [Node -> 0..MaxHeight]
    /\ peers \in [Node -> SUBSET Node]
    /\ \A n \in Node : peers[n] \subseteq Linked(n)
    /\ seen \in [Links -> Int]

\* The validator of a block that anybody has got that far itself: no second
\* block is ever made at a height.
SingleWriter == \A k \in 1..Top : height[Turn[k]] >= k

GossipInv ==
    /\ TypeOK
    /\ wire \in [Links -> Seq(Msg(Top))]
    /\ SingleWriter

-----------------------------------------------------------------------------
(* The log *)

LEMMA Constants ==
    /\ Node # {} /\ MaxHeight \in Nat /\ BATCH \in Nat /\ FIRST_BATCH \in Nat
    /\ \A k \in 1..MaxHeight : Turn[k] \in Node
    /\ \A n, m : <<n, m>> \in Links =>
          n \in Node /\ m \in Node /\ <<m, n>> \in Links
<1>1. ASSUME NEW n, NEW m, <<n, m>> \in Links
      PROVE  n \in Node /\ m \in Node /\ <<m, n>> \in Links
    <2>1. <<n, m>> \in Node \X Node
        BY <1>1, GossipAssumption
    <2>2. <<<<n, m>>[2], <<n, m>>[1]>> \in Links
        BY <1>1, GossipAssumption
    <2> QED BY <2>1, <2>2
<1> QED BY <1>1, GossipAssumption

LEMMA TopFacts ==
    ASSUME height \in [Node -> 0..MaxHeight]
    PROVE  /\ Top \in 0..MaxHeight
           /\ \E n \in Node : height[n] = Top
           /\ \A n \in Node : height[n] <= Top
<1>1. Heights \subseteq 0..MaxHeight /\ Heights # {}
    BY GossipAssumption DEF Heights
<1>2. MaxHeight \in Int /\ Heights \subseteq Int /\ \A y \in Heights : y <= MaxHeight
    BY <1>1, Constants
<1>3. Max(Heights) \in Heights /\ \A y \in Heights : y <= Max(Heights)
    BY <1>1, <1>2, MaxExists
<1> QED BY <1>1, <1>3 DEF Heights, Top

\* A height with a bound that somebody reaches is the log.
LEMMA TopIs ==
    ASSUME height \in [Node -> 0..MaxHeight], NEW t \in Int,
           \E n \in Node : height[n] = t, \A n \in Node : height[n] <= t
    PROVE  Top = t
<1>1. Heights \subseteq Int /\ t \in Heights /\ \A y \in Heights : y <= t
    BY GossipAssumption DEF Heights
<1> QED BY <1>1, MaxIs DEF Top

\* The same two facts of the next state.
LEMMA TopIsNext ==
    ASSUME height' \in [Node -> 0..MaxHeight], NEW t \in Int,
           \E n \in Node : height'[n] = t, \A n \in Node : height'[n] <= t
    PROVE  Top' = t
<1>1. Heights' \subseteq Int /\ t \in Heights' /\ \A y \in Heights' : y <= t
    BY GossipAssumption DEF Heights
<1> QED BY <1>1, MaxIs DEF Top

\* A node that takes over blocks of the log does not change the log.
LEMMA CatchUpKeepsTop ==
    ASSUME TypeOK, NEW n \in Node, NEW h \in height[n]..Top,
           height' = [height EXCEPT ![n] = h]
    PROVE  /\ Top' = Top
           /\ height' \in [Node -> 0..MaxHeight]
           /\ [Log!Next]_<<Top, height>>
           /\ SingleWriter => SingleWriter'
<1>1. /\ height \in [Node -> 0..MaxHeight] /\ Top \in 0..MaxHeight
      /\ \A m \in Node : height[m] <= Top
    BY TopFacts DEF TypeOK
<1>2. h \in 0..MaxHeight /\ h <= Top /\ height[n] <= h /\ MaxHeight \in Nat
    BY <1>1, GossipAssumption
<1>3. height' \in [Node -> 0..MaxHeight]
    BY <1>1, <1>2
<1>4. \A m \in Node : height[m] <= height'[m] /\ height'[m] <= Top
    BY <1>1, <1>2
<1>5. PICK m \in Node : height[m] = Top
    BY <1>1, TopFacts
<1>6. height'[m] = Top
    BY <1>1, <1>3, <1>4, <1>5
<1>7. Top' = Top
    BY <1>1, <1>3, <1>4, <1>6, TopIsNext
<1>8. [Log!Next]_<<Top, height>>
    <2>1. CASE h = height[n]
        <3>1. height' = height
            BY <2>1, <1>1
        <3> QED BY <3>1, <1>7
    <2>2. CASE h # height[n]
        <3>1. h \in (height[n] + 1)..Top
            BY <2>2, <1>1, <1>2
        <3>2. Log!CatchUp(n)
            BY <3>1, <1>7 DEF Log!CatchUp, Top, Heights
        <3> QED BY <3>2 DEF Log!Next
    <2> QED BY <2>1, <2>2
<1>9. SingleWriter => SingleWriter'
    <2> SUFFICES ASSUME SingleWriter, NEW k \in 1..Top' PROVE height'[Turn[k]] >= k
        BY DEF SingleWriter
    <2>1. k \in 1..Top /\ k \in 1..MaxHeight
        BY <1>1, <1>7, GossipAssumption
    <2>2. Turn[k] \in Node /\ height[Turn[k]] >= k
        BY <2>1, GossipAssumption DEF SingleWriter
    <2> QED BY <2>1, <2>2, <1>1, <1>3, <1>4
<1> QED BY <1>3, <1>7, <1>8, <1>9

\* The validator in turn has all of the log, and what it appends is its end.
LEMMA ExtendStep ==
    ASSUME GossipInv, NEW n \in Node, height[n] < MaxHeight,
           Turn[height[n] + 1] = n,
           height' = [height EXCEPT ![n] = @ + 1]
    PROVE  /\ Top = height[n]
           /\ Top' = Top + 1
           /\ height' \in [Node -> 0..MaxHeight]
           /\ Log!Next
           /\ SingleWriter'
<1>1. /\ height \in [Node -> 0..MaxHeight] /\ Top \in 0..MaxHeight
      /\ \A m \in Node : height[m] <= Top
      /\ MaxHeight \in Nat /\ height[n] \in 0..MaxHeight
    BY TopFacts, GossipAssumption DEF GossipInv, TypeOK
<1>2. Top = height[n]
    <2> SUFFICES ASSUME Top # height[n] PROVE FALSE
        OBVIOUS
    <2>1. height[n] + 1 \in 1..Top
        BY <1>1
    <2>2. height[n] >= height[n] + 1
        BY <2>1 DEF GossipInv, SingleWriter
    <2> QED BY <1>1, <2>2
<1>3. /\ height' \in [Node -> 0..MaxHeight] /\ height'[n] = Top + 1
      /\ \A m \in Node : height[m] <= height'[m] /\ height'[m] <= Top + 1
    BY <1>1, <1>2
<1>4. Top' = Top + 1
    BY <1>1, <1>3, TopIsNext
<1>5. Log!Extend(n)
    BY <1>1, <1>2, <1>4 DEF Log!Extend, Top, Heights
<1>6. SingleWriter'
    <2> SUFFICES ASSUME NEW k \in 1..Top' PROVE height'[Turn[k]] >= k
        BY DEF SingleWriter
    <2>1. k \in 1..Top \/ k = Top + 1
        BY <1>1, <1>4
    <2>2. CASE k = Top + 1
        BY <2>2, <1>1, <1>2, <1>3
    <2>3. CASE k \in 1..Top
        <3>1. Turn[k] \in Node /\ height[Turn[k]] >= k
            BY <2>3, <1>1, GossipAssumption DEF GossipInv, SingleWriter
        <3> QED BY <2>3, <3>1, <1>1, <1>3
    <2> QED BY <2>1, <2>2, <2>3
<1> QED BY <1>2, <1>3, <1>4, <1>5, <1>6 DEF Log!Next

-----------------------------------------------------------------------------
(* The wire *)

LEMMA MsgGrows ==
    ASSUME NEW t \in Nat, NEW u \in Nat, t <= u
    PROVE  Msg(t) \subseteq Msg(u)
<1>1. 1..t \subseteq 1..u /\ {j \in Int : j <= t} \subseteq {j \in Int : j <= u}
    OBVIOUS
<1> QED BY <1>1 DEF Msg

LEMMA WireGrows ==
    ASSUME NEW t \in Nat, NEW u \in Nat, t <= u, NEW w \in [Links -> Seq(Msg(t))]
    PROVE  w \in [Links -> Seq(Msg(u))]
<1>1. Seq(Msg(t)) \subseteq Seq(Msg(u))
    BY MsgGrows, SeqMonotonic
<1> QED BY <1>1

LEMMA SentType ==
    ASSUME NEW S, NEW w \in [Links -> Seq(S)], NEW n, NEW to, NEW msgs \in Seq(S)
    PROVE  Sent(w, n, to, msgs) \in [Links -> Seq(S)]
<1>1. \A l \in Links : w[l] \o msgs \in Seq(S)
    BY ConcatProperties
<1> QED BY <1>1 DEF Sent

\* Taking a message leaves a wire, and the message is one of those sent.
LEMMA TakenType ==
    ASSUME NEW S, wire \in [Links -> Seq(S)], NEW n, NEW m, <<m, n>> \in Links,
           wire[<<m, n>>] # <<>>
    PROVE  Taken(n, m) \in [Links -> Seq(S)] /\ Head(wire[<<m, n>>]) \in S
<1>1. wire[<<m, n>>] \in Seq(S)
    OBVIOUS
<1>2. Tail(wire[<<m, n>>]) \in Seq(S) /\ Head(wire[<<m, n>>]) \in S
    BY <1>1, HeadTailProperties
<1> QED BY <1>2 DEF Taken

\* What a message of each type says.
LEMMA MsgFields ==
    ASSUME NEW t \in Nat, NEW q \in Msg(t)
    PROVE  /\ q.type = "status" => q.height \in Int
           /\ q.type = "new_block" => q.index \in 1..t
           /\ q.type = "get_blocks" =>
                 q.from \in Nat /\ q.count \in Int /\ q.request_id \in Request
           /\ q.type = "blocks" => q.from \in Nat /\ q.to \in Int /\ q.to <= t
BY DEF Msg

-----------------------------------------------------------------------------
(* Steps *)

\* What every step is shown to do.
Step == GossipInv' /\ [Log!Next]_<<Top, height>>

LEMMA GossipInit == Init => GossipInv /\ Log!Init
<1> SUFFICES ASSUME Init PROVE GossipInv /\ Log!Init
    OBVIOUS
<1>1. height \in [Node -> 0..MaxHeight] /\ \A n \in Node : height[n] = 0
    BY GossipAssumption DEF Init
<1>2. Top = 0
    <2>1. \E n \in Node : height[n] = 0
        BY <1>1, Constants
    <2>2. \A n \in Node : height[n] <= 0
        BY <1>1
    <2> QED BY <1>1, <2>1, <2>2, TopIs
<1>3. TypeOK
    BY <1>1 DEF Init, TypeOK, Linked
<1>4. wire \in [Links -> Seq(Msg(Top))]
    BY EmptySeq DEF Init
<1>5. SingleWriter
    BY <1>2 DEF SingleWriter
<1>6. Log!Init
    BY <1>2 DEF Init, Log!Init, Top, Heights
<1> QED BY <1>3, <1>4, <1>5, <1>6 DEF GossipInv

\* Steps in which no chain grows.
LEMMA SameHeights ==
    ASSUME GossipInv, UNCHANGED height, TypeOK', wire' \in [Links -> Seq(Msg(Top))]
    PROVE  Step
<1>1. Top' = Top
    BY DEF Top, Heights
<1>2. SingleWriter'
    BY <1>1 DEF GossipInv, SingleWriter
<1>3. wire' \in [Links -> Seq(Msg(Top'))]
    BY <1>1
<1> QED BY <1>1, <1>2, <1>3 DEF Step, GossipInv

\* Steps in which a node takes over blocks of the log.
LEMMA CaughtUp ==
    ASSUME GossipInv, NEW n \in Node, NEW h \in height[n]..Top,
           height' = [height EXCEPT ![n] = h],
           UNCHANGED <<peers, seen>>, wire' \in [Links -> Seq(Msg(Top))]
    PROVE  Step
<1>1. Top' = Top /\ height' \in [Node -> 0..MaxHeight] /\ [Log!Next]_<<Top, height>>
      /\ SingleWriter'
    BY CatchUpKeepsTop DEF GossipInv
<1>2. TypeOK'
    BY <1>1 DEF GossipInv, TypeOK, Linked
<1>3. wire' \in [Links -> Seq(Msg(Top'))]
    BY <1>1
<1> QED BY <1>1, <1>2, <1>3 DEF Step, GossipInv

LEMMA LeaveStep ==
    ASSUME GossipInv, NEW n \in Node, NEW m \in peers[n], Leave(n, m),
           UNCHANGED <<height, seen>>
    PROVE  Step
<1>1. TypeOK'
    BY DEF Leave, GossipInv, TypeOK, Linked
<1>2. wire' \in [Links -> Seq(Msg(Top))]
    BY EmptySeq DEF Leave, GossipInv
<1> QED BY <1>1, <1>2, SameHeights

LEMMA GossipNext == GossipInv /\ [Next]_vars => Step
<1> SUFFICES ASSUME GossipInv, [Next]_vars PROVE Step
    OBVIOUS
<1>a. /\ TypeOK /\ wire \in [Links -> Seq(Msg(Top))] /\ SingleWriter
      /\ height \in [Node -> 0..MaxHeight]
      /\ Top \in Nat /\ Top <= MaxHeight
      /\ \A n \in Node : height[n] \in Nat /\ height[n] <= Top
    BY TopFacts, GossipAssumption DEF GossipInv, TypeOK
<1>b. \A n \in Node : \A m \in peers[n] :
          m \in Node /\ <<n, m>> \in Links /\ <<m, n>> \in Links
    BY <1>a, Constants DEF TypeOK, Linked
<1>1. ASSUME NEW n \in Node, start(n) PROVE Step
    <2>1. PICK r \in Request : wire' = Sent(wire, n, peers[n],
              <<Status(height[n]), GetBlocks(height[n] + 1, FIRST_BATCH, r)>>)
        BY <1>1 DEF start, Fresh
    <2>2. Status(height[n]) \in Msg(Top) /\ GetBlocks(height[n] + 1, FIRST_BATCH, r) \in Msg(Top)
        BY <1>a, GossipAssumption DEF Status, GetBlocks, Msg
    <2>3. <<Status(height[n]), GetBlocks(height[n] + 1, FIRST_BATCH, r)>> \in Seq(Msg(Top))
        BY <2>2
    <2>4. wire' \in [Links -> Seq(Msg(Top))]
        BY <1>a, <2>1, <2>3, SentType
    <2>5. TypeOK' /\ UNCHANGED height
        BY <1>1, <1>a DEF start, TypeOK, Linked
    <2> QED BY <2>4, <2>5, SameHeights
<1>2. ASSUME NEW n \in Node, block_loop(n) PROVE Step
    <2>1. /\ Top = height[n] /\ Top' = Top + 1 /\ height' \in [Node -> 0..MaxHeight]
          /\ Log!Next /\ SingleWriter'
        BY <1>2, ExtendStep DEF block_loop
    <2>2. wire \in [Links -> Seq(Msg(Top + 1))]
        <3>1. Top + 1 \in Nat /\ Top <= Top + 1
            BY <1>a
        <3> QED BY <1>a, <3>1, WireGrows
    <2>3. <<NewBlock(height[n] + 1)>> \in Seq(Msg(Top + 1))
        <3>1. height[n] + 1 \in 1..(Top + 1)
            BY <2>1, <1>a
        <3>2. NewBlock(height[n] + 1) \in Msg(Top + 1)
            BY <3>1 DEF NewBlock, Msg
        <3> QED BY <3>2
    <2>4. wire' \in [Links -> Seq(Msg(Top'))]
        BY <1>2, <2>1, <2>2, <2>3, SentType DEF block_loop
    <2>5. TypeOK'
        BY <1>2, <1>a, <2>1 DEF block_loop, TypeOK, Linked
    <2> QED BY <2>1, <2>4, <2>5 DEF Step, GossipInv
<1>3. ASSUME NEW n \in Node, sync_loop(n) PROVE Step
    <2> DEFINE told == Sent(wire, n, peers[n], <<Status(height[n])>>)
               gap == best_peer_height(n) - height[n]
    <2>1. <<Status(height[n])>> \in Seq(Msg(Top))
        <3>1. Status(height[n]) \in Msg(Top)
            BY <1>a DEF Status, Msg
        <3> QED BY <3>1
    <2>2. told \in [Links -> Seq(Msg(Top))]
        BY <1>a, <2>1, SentType
    <2>3. \/ wire' = told
          \/ \E m \in peers[n], r \in Request :
                /\ seen[<<n, m>>] = best_peer_height(n)
                /\ wire' = Sent(told, n, {m},
                               <<GetBlocks(height[n] + 1, Min({gap, BATCH}), r)>>)
        BY <1>3 DEF sync_loop, Fresh
    <2>4. wire' \in [Links -> Seq(Msg(Top))]
        <3>1. CASE wire' = told
            BY <3>1, <2>2
        <3>2. ASSUME NEW m \in peers[n], NEW r \in Request,
                     seen[<<n, m>>] = best_peer_height(n),
                     wire' = Sent(told, n, {m},
                               <<GetBlocks(height[n] + 1, Min({gap, BATCH}), r)>>)
              PROVE  wire' \in [Links -> Seq(Msg(Top))]
            <4>0. seen[<<n, m>>] \in Int
                BY <1>a, <1>b DEF TypeOK
            <4>1. gap \in Int /\ BATCH \in Int
                BY <4>0, <3>2, <1>a, Constants
            <4>2. Min({gap, BATCH}) \in Int
                BY <4>1, MinMaxPair
            <4>3. height[n] + 1 \in Nat
                BY <1>a
            <4> HIDE DEF told, gap
            <4>4. GetBlocks(height[n] + 1, Min({gap, BATCH}), r) \in Msg(Top)
                BY <4>2, <4>3 DEF GetBlocks, Msg
            <4>5. <<GetBlocks(height[n] + 1, Min({gap, BATCH}), r)>> \in Seq(Msg(Top))
                BY <4>4
            <4> QED BY <3>2, <4>5, <2>2, SentType
        <3> QED BY <2>3, <3>1, <3>2
    <2>5. TypeOK' /\ UNCHANGED height
        BY <1>3, <1>a DEF sync_loop, TypeOK, Linked
    <2> QED BY <2>4, <2>5, SameHeights
<1>4. ASSUME NEW n \in Node, sync_begin(n) PROVE Step
    <2>1. TypeOK' /\ UNCHANGED <<height, wire>>
        BY <1>4, <1>a DEF sync_begin, TypeOK, Linked
    <2> QED BY <2>1, <1>a, SameHeights
<1>5. ASSUME NEW n \in Node, sync_end(n) PROVE Step
    <2> DEFINE S == {height[n]} \cup {height[m] : m \in peers[n]}
    <2>0. \A y \in S : \E m \in Node : y = height[m]
        BY <1>b
    <2>1. S \subseteq Int /\ S # {} /\ Top \in Int /\ \A y \in S : y <= Top
        <3>1. \A y \in S : y \in Nat /\ y <= Top
            BY <1>a, <2>0
        <3>2. height[n] \in S
            OBVIOUS
        <3> HIDE DEF S
        <3> QED BY <3>1, <3>2, <1>a
    <2>2. Max(S) \in S
        <3> HIDE DEF S
        <3> QED BY <2>1, MaxExists
    <2>3. PICK h \in height[n]..Max(S) : height' = [height EXCEPT ![n] = h]
        BY <1>5 DEF sync_end
    <2>4. Max(S) \in Int /\ Max(S) <= Top
        BY <2>1, <2>2
    <2> HIDE DEF S
    <2>5. h \in height[n]..Top
        BY <2>3, <2>4, <1>a
    <2>6. UNCHANGED <<peers, seen, wire>>
        BY <1>5 DEF sync_end
    <2> QED BY <2>3, <2>5, <2>6, <1>a, CaughtUp
<1>6. ASSUME NEW l \in Links,
             \/ Receive(l[1], l[2]) \/ rate_limited(l[1], l[2])
             \/ read_timeout(l[1], l[2])
      PROVE  Step
    <2> DEFINE n == l[1]
               m == l[2]
               q == Head(wire[<<m, n>>])
    <2>1. n \in Node /\ m \in Node /\ <<m, n>> \in Links /\ <<n, m>> \in Links
        BY GossipAssumption
    <2> HIDE DEF n, m
    <2>2. ASSUME wire[<<m, n>>] # <<>>
          PROVE  /\ Taken(n, m) \in [Links -> Seq(Msg(Top))] /\ q \in Msg(Top)
                 /\ q.type = "status" => q.height \in Int
                 /\ q.type = "new_block" => q.index \in 1..Top
                 /\ q.type = "get_blocks" =>
                       q.from \in Nat /\ q.count \in Int /\ q.request_id \in Request
                 /\ q.type = "blocks" => q.from \in Nat /\ q.to \in Int /\ q.to <= Top
        <3>1. Taken(n, m) \in [Links -> Seq(Msg(Top))] /\ q \in Msg(Top)
            BY <2>2, <2>1, <1>a, TakenType
        <3> QED BY <3>1, <1>a, MsgFields
    <2>3. CASE p2p_new_block(n, m)
        <3>1. /\ wire[<<m, n>>] # <<>> /\ q.type = "new_block"
              /\ UNCHANGED <<peers, seen>>
            BY <2>3 DEF p2p_new_block, Reads
        <3>2. q.index \in 1..Top /\ Taken(n, m) \in [Links -> Seq(Msg(Top))]
            BY <3>1, <2>2
        <3>3. CASE /\ add_block(n, q.index)
                   /\ height' = [height EXCEPT ![n] = q.index]
                   /\ wire' = Sent(Taken(n, m), n, relay_to(n, m), <<NewBlock(q.index)>>)
            <4>1. NewBlock(q.index) \in Msg(Top)
                BY <3>2 DEF NewBlock, Msg
            <4>2. <<NewBlock(q.index)>> \in Seq(Msg(Top))
                BY <4>1
            <4>3. wire' \in [Links -> Seq(Msg(Top))]
                BY <3>3, <3>2, <4>2, SentType
            <4>4. q.index \in height[n]..Top
                BY <3>3, <3>2, <1>a, <2>1 DEF add_block
            <4> HIDE DEF q
            <4> QED BY <3>1, <3>3, <4>3, <4>4, <2>1, CaughtUp
        <3>4. CASE wire' = Taken(n, m) /\ UNCHANGED height
            <4>1. TypeOK'
                BY <3>1, <3>4, <1>a DEF TypeOK, Linked
            <4> QED BY <3>2, <3>4, <4>1, SameHeights
        <3> QED BY <2>3, <3>3, <3>4 DEF p2p_new_block
    <2>4. CASE p2p_get_blocks(n, m)
        <3>1. /\ wire[<<m, n>>] # <<>> /\ q.type = "get_blocks"
              /\ UNCHANGED <<height, peers, seen>>
              /\ wire' = Sent(Taken(n, m), n, {m},
                              <<Blocks(q.from, answer_to(n, q), q.request_id)>>)
            BY <2>4 DEF p2p_get_blocks, Reads
        <3>2. /\ q.from \in Nat /\ q.count \in Int /\ q.request_id \in Request
              /\ Taken(n, m) \in [Links -> Seq(Msg(Top))]
            BY <3>1, <2>2
        <3> HIDE DEF q
        <3>3. answer_to(n, q) \in Int /\ answer_to(n, q) <= Top
            <4> DEFINE k == q.count
            <4>a. k \in Int /\ BATCH \in Int
                BY <3>2, Constants
            <4> HIDE DEF k
            <4>b. Min({k, BATCH}) \in Int
                BY <4>a, MinMaxPair
            <4>1. Min({q.count, BATCH}) \in Int
                BY <4>b DEF k
            <4>2. /\ q.from + Min({q.count, BATCH}) - 1 \in Int
                  /\ height[n] \in Int /\ height[n] <= Top
                BY <4>1, <3>2, <1>a, <2>1
            <4>3. answer_to(n, q) = IF q.from + Min({q.count, BATCH}) - 1 <= height[n]
                                    THEN q.from + Min({q.count, BATCH}) - 1 ELSE height[n]
                BY <4>2, MinMaxPair DEF answer_to
            <4> QED BY <4>2, <4>3, <1>a
        <3>4. Blocks(q.from, answer_to(n, q), q.request_id) \in Msg(Top)
            BY <3>2, <3>3 DEF Blocks, Msg
        <3>5. <<Blocks(q.from, answer_to(n, q), q.request_id)>> \in Seq(Msg(Top))
            BY <3>4
        <3>6. wire' \in [Links -> Seq(Msg(Top))]
            BY <3>1, <3>2, <3>5, SentType
        <3>7. TypeOK'
            BY <3>1, <1>a DEF TypeOK, Linked
        <3> QED BY <3>1, <3>6, <3>7, SameHeights
    <2>5. CASE p2p_blocks(n, m)
        <3>1. /\ wire[<<m, n>>] # <<>> /\ q.type = "blocks"
              /\ UNCHANGED <<peers, seen>> /\ wire' = Taken(n, m)
            BY <2>5 DEF p2p_blocks, Reads
        <3>2. /\ q.from \in Nat /\ q.to \in Int /\ q.to <= Top
              /\ wire' \in [Links -> Seq(Msg(Top))]
            BY <3>1, <2>2
        <3>3. CASE /\ q.to - q.from + 1 > 0 /\ add_block(n, q.from)
                   /\ height' = [height EXCEPT ![n] = q.to]
            <4>1. q.to \in height[n]..Top
                BY <3>2, <3>3, <1>a, <2>1 DEF add_block
            <4> HIDE DEF q
            <4> QED BY <3>1, <3>2, <3>3, <4>1, <2>1, CaughtUp
        <3>4. CASE UNCHANGED height
            <4>1. TypeOK'
                BY <3>1, <3>4, <1>a DEF TypeOK, Linked
            <4> QED BY <3>2, <3>4, <4>1, SameHeights
        <3> QED BY <2>5, <3>3, <3>4 DEF p2p_blocks
    <2>6. CASE p2p_status(n, m)
        <3>1. /\ wire[<<m, n>>] # <<>> /\ q.type = "status"
              /\ UNCHANGED <<height, peers>> /\ wire' = Taken(n, m)
              /\ seen' = [seen EXCEPT ![<<n, m>>] = q.height]
            BY <2>6 DEF p2p_status, Reads
        <3>2. q.height \in Int /\ wire' \in [Links -> Seq(Msg(Top))]
            BY <3>1, <2>2
        <3> HIDE DEF q
        <3>3. TypeOK'
            BY <3>1, <3>2, <1>a DEF TypeOK, Linked
        <3> QED BY <3>1, <3>2, <3>3, SameHeights
    <2>7. CASE check_reputation(n, m) \/ read_timeout(n, m)
        <3>1. m \in peers[n] /\ Leave(n, m) /\ UNCHANGED <<height, seen>>
            BY <2>7 DEF check_reputation, read_timeout
        <3> QED BY <3>1, <2>1, LeaveStep
    <2>8. CASE rate_limited(n, m)
        <3>1. m \in peers[n] /\ wire[<<m, n>>] # <<>> /\ UNCHANGED <<height, seen>>
            BY <2>8 DEF rate_limited
        <3>2. CASE Leave(n, m)
            BY <3>1, <3>2, <2>1, LeaveStep
        <3>3. CASE wire' = Taken(n, m) /\ UNCHANGED peers
            <4>1. TypeOK'
                BY <3>1, <3>3, <1>a DEF TypeOK, Linked
            <4> QED BY <3>1, <3>3, <4>1, <2>2, SameHeights
        <3> QED BY <2>8, <3>2, <3>3 DEF rate_limited
    <2> QED BY <1>6, <2>3, <2>4, <2>5, <2>6, <2>7, <2>8 DEF Receive, n, m
<1>7. CASE UNCHANGED vars
    <2>1. TypeOK' /\ UNCHANGED <<height, wire>>
        BY <1>7, <1>a DEF vars, TypeOK, Linked
    <2> QED BY <2>1, <1>a, SameHeights
<1> QED BY <1>1, <1>2, <1>3, <1>4, <1>5, <1>6, <1>7 DEF Next

-----------------------------------------------------------------------------
\* Gossip implements Replica.  Whatever is produced, relayed, asked for,
\* answered late, dropped or fetched by SyncManager, every append of a node
\* is the next part of one log, and a new block is appended to that log only
\* by its validator, which then holds all of it (node.py).
THEOREM GossipReplicates == Spec => Replicates
<1>1. Step => GossipInv' /\ [Log!Next]_<<Max({height[n] : n \in Node}), height>>
    BY DEF Step, Top, Heights
<1> QED BY <1>1, GossipInit, GossipNext, PTL DEF Spec, Replicates, Log!Spec

\* No two blocks at one height: the validator of every block that anybody
\* has holds that block itself, so that nothing it makes later competes with
\* it (block_loop runs on the node's own tip).
THEOREM OneBlockPerHeight == Spec => []SingleWriter
<1>1. GossipInv => SingleWriter
    BY DEF GossipInv
<1>2. Step => GossipInv'
    BY DEF Step
<1> QED BY <1>1, <1>2, GossipInit, GossipNext, PTL DEF Spec
=============================================================================
