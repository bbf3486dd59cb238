------------------------------- MODULE Gossip -------------------------------
(***************************************************************************)
(* Blocks between nodes (node.py): production, new_block relaying, the     *)
(* periodic exchange of heights with get_blocks/blocks as its repair, and  *)
(* the reputation that every outcome is booked to (network/reputation.py). *)
(* Sessions are authenticated (see Session); a handler runs to its first   *)
(* await in one step, and the writes of a broadcast are made before it.    *)
(*                                                                         *)
(* The validators take turns by height and each extends its own chain, so  *)
(* there is one block at a height and a chain is its height.  Everybody is *)
(* honest; what fails is delivery: the rate limiter drops messages, and an *)
(* end that stops reading does not close the connection.                   *)
(*                                                                         *)
(* A broadcast leaves out its `exclude' by registry key.  Where two nodes  *)
(* dialled each other, the one with the larger address keeps the inbound   *)
(* connection, and keeps it under its key _inbound_...: it cannot leave    *)
(* that peer out.                                                          *)
(***************************************************************************)
EXTENDS Integers, Sequences, FiniteSets, FiniteSetsExt

CONSTANTS
    Node,
    Links,                      \* who is connected: pairs, both ways
    Temp,                       \* the links <<n, m>> where n holds m under a
                                \* key _inbound_..., not under its address
    Turn,                       \* the validator of a height
    BATCH,                      \* blocks per answer: 100 in node.py
    FIRST_BATCH,                \* blocks that start() asks for: 50
    P2P_RATE_VIOLATIONS_MAX,
    FirstScore,                 \* what the nodes think of each other at first
    FirstViolations,            \* what the limiters have counted at first
    Request,                    \* request ids
    MaxHeight,                  \* bound: blocks produced
    Running,                    \* the nodes past start() at first
    MaxDrops                    \* bound: messages that the limiter drops

ASSUME GossipAssumption ==
    /\ Node # {}
    /\ Links \subseteq Node \X Node
    /\ \A l \in Links : l[1] # l[2] /\ <<l[2], l[1]>> \in Links
    /\ Temp \subseteq Links
    /\ Turn \in [1..MaxHeight -> Node]
    /\ Running \subseteq Node
    /\ {BATCH, FIRST_BATCH, P2P_RATE_VIOLATIONS_MAX} \subseteq Nat \ {0}
    /\ {MaxHeight, MaxDrops} \subseteq Nat
    /\ FirstScore \in [Links -> Int]
    /\ FirstViolations \in [Links -> Nat]

VARIABLES
    height,     \* blockchain.height of each node
    wire,       \* the messages under way on each link, oldest first
    peers,      \* p2p.peers: whom a node reads from and sends to
    seen,       \* peer.height as the last status gave it, or -1
    pending,    \* p2p._pending_requests
    score,      \* reputation._scores
    banned,     \* reputation._banned
    violations, \* the rate limiter's count for each peer
    syncing,    \* the nodes whose sync_manager.is_syncing()
    started,    \* the nodes that have made the requests of start()
    drops       \* how many messages the limiter has dropped

vars == <<height, wire, peers, seen, pending, score, banned, violations,
          syncing, started, drops>>

EVENTS == [valid_block |-> 10, invalid_block |-> -50, rate_limited |-> -20]

DEFAULT_SCORE == 100

BAN_THRESHOLD == -100

-----------------------------------------------------------------------------
(* Sending *)

Linked(n) == {m \in Node : <<n, m>> \in Links}

\* w after n has sent msgs to each node of to; nobody reads what is sent to
\* an end that has left its loop.
Sent(w, n, to, msgs) ==
    [l \in Links |->
        IF l[1] = n /\ l[2] \in to /\ n \in peers[l[2]]
        THEN w[l] \o msgs ELSE w[l]]

\* The wire without the message that n takes from m.
Taken(n, m) == [wire EXCEPT ![<<m, n>>] = Tail(@)]

\* Bound: one status of n under way on a link.
Quiet(n) ==
    \A m \in peers[n] : \A k \in 1..Len(wire[<<n, m>>]) :
        wire[<<n, m>>][k].type # "status"

Status(h) == [type |-> "status", height |-> h]

NewBlock(i) == [type |-> "new_block", index |-> i]

GetBlocks(i, k, r) ==
    [type |-> "get_blocks", from |-> i, count |-> k, request_id |-> r]

\* The blocks from..to, none when to < from.
Blocks(i, j, r) == [type |-> "blocks", from |-> i, to |-> j, request_id |-> r]

InFlight(n, r) ==
    \E l \in Links : n \in {l[1], l[2]} /\ \E k \in 1..Len(wire[l]) :
        \/ l[1] = n /\ wire[l][k].type = "get_blocks" /\ wire[l][k].request_id = r
        \/ l[2] = n /\ wire[l][k].type = "blocks" /\ wire[l][k].request_id = r

\* secrets.token_hex: an id that is in use neither in held nor on the wire.
Fresh(n, held) == {r \in Request \ held : ~ InFlight(n, r)}

-----------------------------------------------------------------------------
(* Reputation *)

record(n, m, delta) ==
    /\ score' = [score EXCEPT ![n][m] = @ + delta]
    /\ banned' = IF score[n][m] + delta <= BAN_THRESHOLD
                 THEN [banned EXCEPT ![n] = @ \cup {m}] ELSE banned

-----------------------------------------------------------------------------
(* The loops *)

Init ==
    /\ height = [n \in Node |-> 0]
    /\ wire = [l \in Links |-> <<>>]
    /\ peers = [n \in Node |-> Linked(n)]
    /\ seen = [l \in Links |-> -1]
    /\ pending = [n \in Node |-> {}]
    /\ score = [n \in Node |-> [m \in Linked(n) |-> FirstScore[<<n, m>>]]]
    /\ banned = [n \in Node |-> {}]
    /\ violations = FirstViolations
    /\ syncing = {}
    /\ started = Running
    /\ drops = 0

\* start(): a status and, under one request id, get_blocks to every peer.
start(n) ==
    /\ n \notin started
    /\ \E r \in Fresh(n, pending[n]) :
          /\ wire' = Sent(wire, n, peers[n],
                          <<Status(height[n]), GetBlocks(height[n] + 1, FIRST_BATCH, r)>>)
          /\ pending' = [pending EXCEPT ![n] = @ \cup {r}]
    /\ started' = started \cup {n}
    /\ UNCHANGED <<height, peers, seen, score, banned, violations, syncing, drops>>

block_loop(n) ==
    /\ n \in started \ syncing
    /\ height[n] < MaxHeight
    /\ Turn[height[n] + 1] = n
    /\ height' = [height EXCEPT ![n] = @ + 1]
    /\ wire' = Sent(wire, n, peers[n], <<NewBlock(height[n] + 1)>>)
    /\ UNCHANGED <<peers, seen, pending, score, banned, violations, syncing,
                   started, drops>>

\* Fault: the height is taken for a number of blocks.
best_peer_height_count(n) == Max({0} \cup {seen[<<n, m>>] : m \in peers[n]}) - 1

best_peer_height(n) == Max({-1} \cup {seen[<<n, m>>] : m \in peers[n]})

\* The requests that were lost.  Only these are older than 60 s: a message
\* arrives before or not at all.
Lost(n) == {r \in pending[n] : ~ InFlight(n, r)}

sync_loop(n) ==
    /\ n \in started
    /\ Quiet(n)
    /\ \E stale \in {{}, Lost(n)} :
          LET best == best_peer_height(n)
              told == Sent(wire, n, peers[n], <<Status(height[n])>>)
              kept == pending[n] \ stale
              gap == best - height[n]
          IN \/ /\ gap <= 0
                /\ wire' = told
                /\ pending' = [pending EXCEPT ![n] = kept]
             \/ /\ gap > 0
                /\ \E m \in peers[n], r \in Fresh(n, kept) :
                      /\ seen[<<n, m>>] = best
                      /\ wire' = Sent(told, n, {m},
                            <<GetBlocks(height[n] + 1, Min({gap, BATCH}), r)>>)
                      /\ pending' = [pending EXCEPT ![n] = kept \cup {r}]
    /\ UNCHANGED <<height, peers, seen, score, banned, violations, syncing,
                   started, drops>>

-----------------------------------------------------------------------------
(* The read loop of n on its connection with m *)

\* The next message is one that passes the limiter and the ban check.
Reads(n, m, type) ==
    /\ m \in peers[n] \ banned[n]
    /\ wire[<<m, n>>] # <<>>
    /\ Head(wire[<<m, n>>]).type = type

\* Fault: a competing block replaces the one it has.
add_block_replace(n, i) == i # height[n]

\* add_block refuses a block it has, and one that does not extend the tip.
add_block(n, i) == i = height[n] + 1

\* Fault: also to the peer that sent the block.
relay_to_all(n, m) == IF n \in syncing THEN {} ELSE peers[n]

\* Whom a block that came from m is sent on to: all whose key is not the
\* address of m.
relay_to(n, m) ==
    IF n \in syncing THEN {} ELSE {k \in peers[n] : k # m \/ <<n, k>> \in Temp}

p2p_new_block(n, m) ==
    /\ Reads(n, m, "new_block")
    /\ LET i == Head(wire[<<m, n>>]).index
       IN \/ /\ add_block(n, i)
             /\ height' = [height EXCEPT ![n] = i]
             /\ record(n, m, EVENTS.valid_block)
             /\ wire' = Sent(Taken(n, m), n, relay_to(n, m), <<NewBlock(i)>>)
          \/ /\ ~ add_block(n, i)
             /\ record(n, m, EVENTS.invalid_block)
             /\ wire' = Taken(n, m)
             /\ UNCHANGED height
    /\ UNCHANGED <<peers, seen, pending, violations, syncing, started, drops>>

\* The last block of the answer.
answer_to(n, q) == Min({q.from + Min({q.count, BATCH}) - 1, height[n]})

p2p_get_blocks(n, m) ==
    /\ Reads(n, m, "get_blocks")
    /\ LET q == Head(wire[<<m, n>>])
       IN wire' = Sent(Taken(n, m), n, {m},
                       <<Blocks(q.from, answer_to(n, q), q.request_id)>>)
    /\ UNCHANGED <<height, peers, seen, pending, score, banned, violations,
                   syncing, started, drops>>

\* An answer is used once.  Its blocks are consecutive: all of them extend
\* the chain or the first one is refused, which ends the loop.
p2p_blocks(n, m) ==
    /\ Reads(n, m, "blocks")
    /\ LET a == Head(wire[<<m, n>>])
           size == a.to - a.from + 1
       IN \/ /\ a.request_id \in pending[n] /\ size > 0 /\ add_block(n, a.from)
             /\ height' = [height EXCEPT ![n] = a.to]
             /\ record(n, m, size * EVENTS.valid_block)
          \/ /\ a.request_id \in pending[n] /\ size > 0 /\ ~ add_block(n, a.from)
             /\ record(n, m, EVENTS.invalid_block)
             /\ UNCHANGED height
          \/ /\ a.request_id \notin pending[n] \/ size <= 0
             /\ UNCHANGED <<height, score, banned>>
    /\ pending' = [pending EXCEPT ![n] = @ \ {Head(wire[<<m, n>>]).request_id}]
    /\ wire' = Taken(n, m)
    /\ UNCHANGED <<peers, seen, violations, syncing, started, drops>>

p2p_status(n, m) ==
    /\ Reads(n, m, "status")
    /\ seen' = [seen EXCEPT ![<<n, m>>] = Head(wire[<<m, n>>]).height]
    /\ wire' = Taken(n, m)
    /\ UNCHANGED <<height, peers, pending, score, banned, violations, syncing,
                   started, drops>>

\* The end of a loop: n forgets m but does not close the connection.  What
\* is still under way to n is never read.
Leave(n, m) ==
    /\ peers' = [peers EXCEPT ![n] = @ \ {m}]
    /\ wire' = [wire EXCEPT ![<<m, n>>] = <<>>]

\* The bucket of m is empty: the message is dropped, and from the
\* P2P_RATE_VIOLATIONS_MAX-th time on the peer with it.
rate_limited(n, m) ==
    /\ m \in peers[n]
    /\ wire[<<m, n>>] # <<>>
    /\ drops < MaxDrops
    /\ drops' = drops + 1
    /\ violations' = [violations EXCEPT ![<<n, m>>] = @ + 1]
    /\ \/ /\ violations[<<n, m>>] + 1 >= P2P_RATE_VIOLATIONS_MAX
          /\ record(n, m, EVENTS.rate_limited)
          /\ Leave(n, m)
       \/ /\ violations[<<n, m>>] + 1 < P2P_RATE_VIOLATIONS_MAX
          /\ wire' = Taken(n, m)
          /\ UNCHANGED <<peers, score, banned>>
    /\ UNCHANGED <<height, seen, pending, syncing, started>>

\* The next message of a banned peer ends the loop.
check_reputation(n, m) ==
    /\ m \in peers[n] \cap banned[n]
    /\ wire[<<m, n>>] # <<>>
    /\ Leave(n, m)
    /\ UNCHANGED <<height, seen, pending, score, banned, violations, syncing,
                   started, drops>>

\* _read_message waits 30 s for a line.  A peer that still reads sends a
\* status every 10 s.
read_timeout(n, m) ==
    /\ m \in peers[n] /\ n \notin peers[m]
    /\ wire[<<m, n>>] = <<>>
    /\ Leave(n, m)
    /\ UNCHANGED <<height, seen, pending, score, banned, violations, syncing,
                   started, drops>>

-----------------------------------------------------------------------------
(* SyncManager as the handlers see it (see Sync): it begins when a peer is  *)
(* ahead, and ends with blocks that its peers have.                         *)

sync_begin(n) ==
    /\ n \in started \ syncing
    /\ best_peer_height(n) > height[n]
    /\ syncing' = syncing \cup {n}
    /\ UNCHANGED <<height, wire, peers, seen, pending, score, banned,
                   violations, started, drops>>

sync_end(n) ==
    /\ n \in syncing
    /\ \E h \in height[n]..Max({height[n]} \cup {height[m] : m \in peers[n]}) :
          height' = [height EXCEPT ![n] = h]
    /\ syncing' = syncing \ {n}
    /\ UNCHANGED <<wire, peers, seen, pending, score, banned, violations,
                   started, drops>>

-----------------------------------------------------------------------------
Receive(n, m) ==
    \/ p2p_new_block(n, m)
    \/ p2p_get_blocks(n, m)
    \/ p2p_blocks(n, m)
    \/ p2p_status(n, m)
    \/ check_reputation(n, m)

Next ==
    \/ \E n \in Node :
          start(n) \/ block_loop(n) \/ sync_loop(n) \/ sync_begin(n) \/ sync_end(n)
    \/ \E l \in Links :
          \/ Receive(l[1], l[2])
          \/ rate_limited(l[1], l[2])
          \/ read_timeout(l[1], l[2])

Spec == Init /\ [][Next]_vars

\* Every loop goes on, and a message that is not dropped is read.
Fairness ==
    /\ \A n \in Node :
          /\ WF_vars(start(n)) /\ WF_vars(block_loop(n)) /\ WF_vars(sync_loop(n))
          /\ WF_vars(sync_end(n))
    /\ \A l \in Links :
          WF_vars(Receive(l[1], l[2])) /\ WF_vars(read_timeout(l[1], l[2]))

FairSpec == Spec /\ Fairness

-----------------------------------------------------------------------------
(* Properties *)

\* The gossip implements Replica: what a node appends, by whichever message
\* or loop, is always the next part of one log.
Log == INSTANCE Replica WITH log <- Max({height[n] : n \in Node}), copy <- height

Replicates == Log!Spec

\* Until a message is lost, gossip in a network without cycles costs honest peers
\* nothing, except that a node which starts may book one duplicate, what start()
\* asked for and gossip brought first, and that a peer which holds the node under
\* a key _inbound_... sends it back what it relays, each block at most once.
FirstPenaltyOnly ==
    drops = 0 => \A l \in Links :
        score[l[1]][l[2]] >= FirstScore[l]
            + (IF l[1] \in Running THEN 0 ELSE EVENTS.invalid_block)
            + (IF <<l[2], l[1]>> \in Temp THEN height[l[1]] * EVENTS.invalid_block ELSE 0)

AllConnected == \A n \in Node : peers[n] = Linked(n)

\* As long as nobody is disconnected, every block reaches every node: what a
\* dropped message or a suspended relay loses, the heights bring back.
Delivered ==
    []AllConnected =>
        \A k \in 1..MaxHeight :
            (\E n \in Node : height[n] >= k) ~> (\A n \in Node : height[n] >= k)

=============================================================================
