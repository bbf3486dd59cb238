-------------------------------- MODULE Sync --------------------------------
(***************************************************************************)
(* SyncManager (network/sync.py) of one node: the main loop over the       *)
(* states IDLE, HEADER_SYNC, BLOCK_SYNC and SYNCED, the download of a      *)
(* header chain from one peer, of its blocks from several in parallel, and *)
(* the answers of the peers (node.py, blockchain.py).  A step of the main  *)
(* loop ends where it awaits an answer or sleeps; in between gossip        *)
(* appends blocks, peers grow, tell their height, get slow, or go.         *)
(*                                                                         *)
(* Above height Fork there are several branches.  A hash is <<index,       *)
(* branch>>, with branch 0 up to Fork, so a chain is the sequence of its   *)
(* branches.  Validators register on the chain, and a signature is looked  *)
(* up in the registry that the node has then.  config.SYNC_*,              *)
(* sync_messages and PeerReputation.score are not part of the source; they *)
(* are taken for what their uses say.                                      *)
(***************************************************************************)
EXTENDS Integers, Sequences, FiniteSets, FiniteSetsExt

CONSTANTS
    Peer,
    Branch,             \* the branch that each peer is on: 1, 2, ...
    Fork,               \* the last height that all have in common
    Forging,            \* the peers whose signatures may fail to verify
    Temps,              \* the sets of peers that may be held under a key
                        \* _inbound_... (see Session)
    Registration,       \* the block that registers a new validator, ...
    Newcomer,           \* ... and the blocks that this one signs
    FirstHeight,        \* of each peer
    FirstScore,         \* the reputation of every peer at first
    Request,            \* request ids
    SYNC_BATCH_SIZE,    \* headers per request
    SYNC_BLOCK_BATCH,   \* blocks per request
    SYNC_MAX_PARALLEL,
    SYNC_MAX_RETRIES,
    SYNC_THRESHOLD,
    NoPeer,
    MaxHeight,          \* bound: height of a peer
    MaxGossip,          \* bound: blocks that come by gossip
    MaxTimeouts,        \* bound: answers of a connected peer that are late
    MaxLost             \* bound: peers that disconnect by themselves

ASSUME SyncAssumption ==
    /\ Peer # {} /\ IsFiniteSet(Peer)
    /\ Branch \in [Peer -> Nat \ {0}] /\ Forging \subseteq Peer /\ NoPeer \notin Peer
    /\ Temps \subseteq SUBSET Peer /\ Temps # {}
    /\ Registration \in (Nat \ {0}) \X Nat /\ Newcomer \subseteq Nat \X Nat
    /\ \A h \in Newcomer : h[1] > Registration[1] /\ Registration[2] \in {0, h[2]}
    /\ FirstHeight \in [Peer -> 0..MaxHeight] /\ FirstScore \in Int
    /\ {Fork, SYNC_THRESHOLD, MaxHeight, MaxGossip, MaxTimeouts, MaxLost} \subseteq Nat
    /\ {SYNC_BATCH_SIZE, SYNC_BLOCK_BATCH, SYNC_MAX_PARALLEL, SYNC_MAX_RETRIES}
          \subseteq Nat \ {0}

VARIABLES
    state,      \* _state
    pc,         \* where the main loop is: "top", "headers" or "answer" in
                \* _header_sync, "cross", "chunks" or "blocks" in _block_sync
    chain,      \* the node's chain after genesis
    height,     \* of each peer
    seen,       \* peer.height: what its last status said, or -1
    up,         \* the connected peers
    temp,       \* those whose key in p2p.peers is not their address
    target,     \* _target_height
    source,     \* _sync_source_addr
    queue,      \* _header_queue
    hs,         \* the locals of _header_sync: [from, prev, retries]
    bs,         \* the locals of _block_sync: [chunk, tasks, size]
    pending,    \* _pending_responses
    requests,   \* what was asked of whom and is not answered
    score,      \* reputation
    gossiped, timeouts, lost    \* counters for the bounds

vars == <<state, pc, chain, height, seen, up, temp, target, source, queue, hs, bs,
          pending, requests, score, gossiped, timeouts, lost>>

told == <<height, seen, up, temp, target>>

bounds == <<gossiped, timeouts, lost>>

BranchAt(p, i) == IF i <= Fork THEN 0 ELSE Branch[p]

Hash(p, i) == <<i, BranchAt(p, i)>>

Header(p, i, good) == [hash |-> Hash(p, i), prev |-> Hash(p, i - 1), good |-> good]

Index(h) == h.hash[1]

local == Len(chain)

Tip == <<local, IF chain = <<>> THEN 0 ELSE chain[local]>>

BAN_THRESHOLD == -100

\* Below the threshold scores are not told apart.
record(p, delta) ==
    score' = IF p \in Peer THEN [score EXCEPT ![p] = Max({@ + delta, BAN_THRESHOLD})]
             ELSE score

invalid_block == -50

timeout == -5

\* The validator that signed a block is in the registry.
known(h) ==
    h \in Newcomer =>
        local >= Registration[1] /\ chain[Registration[1]] = Registration[2]

best_peer_height == Max({-1} \cup {seen[p] : p \in up})

\* The peers whose next message is read: that of a banned one ends its loop.
Read == {p \in up : score[p] > BAN_THRESHOLD}

\* The peers that _select_sync_source may put first: of the greatest height,
\* where the reputation decides.
Best == {p \in up : seen[p] >= 0 /\ seen[p] = best_peer_height}

\* Fault: SYNCED is left for HEADER_SYNC only, and BLOCK_SYNC for SYNCED.
TRANSITIONS_strict ==
    {<<"IDLE", "HEADER_SYNC">>, <<"HEADER_SYNC", "BLOCK_SYNC">>,
     <<"BLOCK_SYNC", "SYNCED">>, <<"SYNCED", "HEADER_SYNC">>}

TRANSITIONS ==
    {<<"IDLE", "HEADER_SYNC">>, <<"HEADER_SYNC", "BLOCK_SYNC">>,
     <<"HEADER_SYNC", "IDLE">>, <<"BLOCK_SYNC", "SYNCED">>,
     <<"BLOCK_SYNC", "HEADER_SYNC">>, <<"SYNCED", "HEADER_SYNC">>,
     <<"SYNCED", "IDLE">>}

\* A transition that the table does not have is logged and not made.
transition(s) == state' = IF <<state, s>> \in TRANSITIONS THEN s ELSE state

is_syncing == state \in {"HEADER_SYNC", "BLOCK_SYNC"}

NoHeaders == [from |-> 0, prev |-> <<0, 0>>, retries |-> 0]

NoBlocks == [chunk |-> 0, tasks |-> <<>>, size |-> 0]

-----------------------------------------------------------------------------
Init ==
    /\ state = "IDLE" /\ pc = "top" /\ chain = <<>>
    /\ height = FirstHeight
    /\ seen = [p \in Peer |-> -1]
    /\ up = Peer /\ temp \in Temps
    /\ target = -1 /\ source = NoPeer
    /\ queue = <<>> /\ hs = NoHeaders /\ bs = NoBlocks
    /\ pending = {} /\ requests = {}
    /\ score = [p \in Peer |-> FirstScore]
    /\ gossiped = 0 /\ timeouts = 0 /\ lost = 0

\* secrets.token_hex: ids that are not in use, the n least ones.
Free == {r \in Request : r \notin pending /\ \A q \in requests : q.rid # r}

Fresh(n) == {f \in [1..n -> Free] :
                /\ \A i, j \in 1..n : i < j => f[i] < f[j]
                /\ \A r \in Free : r < f[n] => \E i \in 1..n : f[i] = r}

-----------------------------------------------------------------------------
(* IDLE and SYNCED *)

Begin(p) ==
    /\ source' = p
    /\ target' = seen[p]
    /\ transition("HEADER_SYNC")

\* Without a usable peer the loop sleeps and looks again.
check_peers ==
    /\ state = "IDLE" /\ pc = "top"
    /\ \/ /\ best_peer_height > local + SYNC_THRESHOLD
          /\ \E p \in Best : Begin(p)
       \/ /\ best_peer_height \in 0..(local + SYNC_THRESHOLD)
          /\ state' = "SYNCED"
          /\ UNCHANGED <<source, target>>
    /\ UNCHANGED <<pc, chain, height, seen, up, temp, queue, hs, bs, pending, requests,
                   score, bounds>>

follow_tip ==
    /\ state = "SYNCED" /\ pc = "top"
    /\ \/ /\ best_peer_height > local + SYNC_THRESHOLD
          /\ \E p \in Best : Begin(p)
       \/ /\ up = {}
          /\ transition("IDLE")
          /\ UNCHANGED <<source, target>>
    /\ UNCHANGED <<pc, chain, height, seen, up, temp, queue, hs, bs, pending, requests,
                   score, bounds>>

-----------------------------------------------------------------------------
(* HEADER_SYNC *)

header_sync ==
    /\ state = "HEADER_SYNC" /\ pc = "top"
    /\ hs' = [NoHeaders EXCEPT !.from = local + 1, !.prev = Tip]
    /\ queue' = <<>>
    /\ pc' = "headers"
    /\ UNCHANGED <<state, chain, told, source, bs, pending, requests, score, bounds>>

\* After the loop.
headers_done ==
    /\ IF queue = <<>> THEN pc' = "top" /\ transition("IDLE")
       ELSE pc' = "cross" /\ UNCHANGED state
    /\ hs' = NoHeaders

\* The head of the loop.  The source is looked up by its address, which does
\* not find a peer that has another key.
request_headers ==
    /\ pc = "headers"
    /\ \/ /\ hs.from <= target
          /\ source \in up \ temp
          /\ \E r \in Fresh(1) :
                /\ pending' = pending \cup {r[1]}
                /\ requests' = requests \cup
                     {[rid |-> r[1], peer |-> source, type |-> "get_headers",
                       from |-> hs.from,
                       count |-> Min({SYNC_BATCH_SIZE, target - hs.from + 1})]}
          /\ pc' = "answer"
          /\ UNCHANGED <<state, hs>>
       \/ /\ hs.from <= target
          /\ source \notin up \ temp
          /\ transition("IDLE")
          /\ pc' = "top" /\ hs' = NoHeaders
          /\ UNCHANGED <<pending, requests>>
       \/ /\ hs.from > target
          /\ headers_done
          /\ UNCHANGED <<pending, requests>>
    /\ UNCHANGED <<chain, told, source, queue, bs, score, bounds>>

\* validate_header_chain
Linked(headers, prev) ==
    /\ headers[1].prev = prev
    /\ \A k \in 1..(Len(headers) - 1) : headers[k + 1].prev = headers[k].hash
    /\ \A k \in 1..Len(headers) : known(headers[k].hash)

Verified(headers) == \A k \in 1..Len(headers) : headers[k].good

\* _header_sync with the headers it asked for.
headers_received(headers) ==
    LET prev == IF queue = <<>> THEN hs.prev ELSE queue[Len(queue)].hash
        fine == Linked(headers, prev) /\ Verified(headers)
    IN \/ /\ headers = <<>>
          /\ IF queue = <<>> THEN pc' = "top" /\ transition("IDLE")
             ELSE pc' = "cross" /\ UNCHANGED state
          /\ UNCHANGED <<queue, hs, score>>
       \/ /\ headers # <<>> /\ ~ fine
          /\ record(source, invalid_block)
          /\ pc' = "top" /\ transition("IDLE") /\ hs' = NoHeaders
          /\ UNCHANGED queue
       \/ /\ headers # <<>> /\ fine
          /\ queue' = queue \o headers
          /\ hs' = [hs EXCEPT !.from = @ + Len(headers), !.retries = 0]
          /\ pc' = "headers"
          /\ UNCHANGED <<state, score>>

\* get_block_headers_for_sync at the peer, and on_headers_response here: an
\* answer to a request that nobody waits for is ignored.
answer_headers(q) ==
    /\ q \in requests /\ q.type = "get_headers" /\ q.peer \in Read
    /\ requests' = requests \ {q}
    /\ pending' = pending \ {q.rid}
    /\ \/ /\ q.rid \in pending
          /\ LET last == Min({q.from + q.count - 1, height[q.peer]})
             IN \E good \in {TRUE} \cup (IF q.peer \in Forging THEN {FALSE} ELSE {}) :
                   headers_received([k \in 1..(last - q.from + 1) |->
                                        Header(q.peer, q.from + k - 1, good)])
       \/ /\ q.rid \notin pending
          /\ UNCHANGED <<state, pc, queue, hs, score>>
    /\ UNCHANGED <<chain, told, source, bs, bounds>>

\* A connected peer may be late; one that is gone never answers.
Late(q) ==
    /\ q \in requests /\ q.rid \in pending
    /\ pending' = pending \ {q.rid}
    /\ \/ /\ q.peer \in up /\ timeouts < MaxTimeouts
          /\ timeouts' = timeouts + 1
          /\ UNCHANGED requests
       \/ /\ q.peer \notin up
          /\ requests' = requests \ {q}
          /\ UNCHANGED timeouts

headers_timeout(q) ==
    /\ q.type = "get_headers" /\ Late(q)
    /\ LET gave_up == hs.retries + 1 >= SYNC_MAX_RETRIES
       IN \/ /\ gave_up
             /\ record(q.peer, timeout)
             /\ pc' = "top" /\ transition("IDLE") /\ hs' = NoHeaders
             /\ UNCHANGED source
          \/ /\ ~ gave_up
             /\ hs' = [hs EXCEPT !.retries = @ + 1]
             /\ source' \in IF Best = {} THEN {NoPeer} ELSE Best
             /\ pc' = "headers"
             /\ UNCHANGED <<state, score>>
    /\ UNCHANGED <<chain, told, queue, bs, gossiped, lost>>

\* The comparison with other peers takes its time.  It sets _fork_source_addr,
\* which nothing reads, so its outcome is left out.
cross_verify_headers ==
    /\ pc = "cross"
    /\ pc' = "top"
    /\ transition("BLOCK_SYNC")
    /\ UNCHANGED <<chain, told, source, queue, hs, bs, pending, requests, score, bounds>>

-----------------------------------------------------------------------------
(* BLOCK_SYNC *)

Chunks == (Len(queue) + SYNC_BLOCK_BATCH - 1) \div SYNC_BLOCK_BATCH

ChunkFrom(k) == Index(queue[(k - 1) * SYNC_BLOCK_BATCH + 1])

ChunkTo(k) == Index(queue[Min({k * SYNC_BLOCK_BATCH, Len(queue)})])

\* _get_sync_peers: the orders by height, where the reputation decides.
Orders ==
    LET usable == {p \in up : seen[p] >= 0}
        n == Min({Cardinality(usable), SYNC_MAX_PARALLEL})
    IN {o \in [1..n -> usable] :
            /\ \A i, j \in 1..n : i < j => o[i] # o[j] /\ seen[o[i]] >= seen[o[j]]
            /\ \A p \in usable : \A i \in 1..n :
                  seen[p] > seen[o[i]] => \E j \in 1..n : o[j] = p}

block_sync ==
    /\ state = "BLOCK_SYNC" /\ pc = "top"
    /\ bs' = [NoBlocks EXCEPT !.chunk = 1]
    /\ pc' = "chunks"
    /\ UNCHANGED <<state, chain, told, source, queue, hs, pending, requests, score, bounds>>

\* One round of downloads.  Without peers the loop sleeps.
launch ==
    /\ pc = "chunks" /\ bs.chunk <= Chunks
    /\ \E o \in Orders :
          LET n == Min({Len(o), Chunks - bs.chunk + 1})
          IN /\ n > 0
             /\ \E rids \in Fresh(n) :
                   /\ pending' = pending \cup {rids[i] : i \in 1..n}
                   /\ requests' = requests \cup
                        {[rid |-> rids[i], peer |-> o[i], type |-> "get_block_bodies",
                          from |-> ChunkFrom(bs.chunk + i - 1),
                          count |-> ChunkTo(bs.chunk + i - 1)
                                        - ChunkFrom(bs.chunk + i - 1) + 1] : i \in 1..n}
                   /\ bs' = [bs EXCEPT !.size = n,
                        !.tasks = [i \in 1..n |->
                            [rid |-> rids[i], done |-> FALSE, blocks |-> <<>>]]]
    /\ pc' = "blocks"
    /\ UNCHANGED <<state, chain, told, source, queue, hs, score, bounds>>

\* The task that waits for a request, if the loop still waits for the task.
Finished(rid, blocks) ==
    [bs EXCEPT !.tasks = [i \in 1..Len(bs.tasks) |->
        IF bs.tasks[i].rid = rid
        THEN [bs.tasks[i] EXCEPT !.done = TRUE, !.blocks = blocks] ELSE bs.tasks[i]]]

\* get_blocks_for_sync at the peer, and on_block_bodies_response here.
answer_bodies(q) ==
    /\ q \in requests /\ q.type = "get_block_bodies" /\ q.peer \in Read
    /\ requests' = requests \ {q}
    /\ pending' = pending \ {q.rid}
    /\ \/ /\ q.rid \in pending
          /\ LET last == Min({q.from + q.count - 1, height[q.peer]})
             IN \E good \in {TRUE} \cup (IF q.peer \in Forging THEN {FALSE} ELSE {}) :
                   bs' = Finished(q.rid, [k \in 1..(last - q.from + 1) |->
                                             Header(q.peer, q.from + k - 1, good)])
       \/ q.rid \notin pending /\ UNCHANGED bs
    /\ UNCHANGED <<state, pc, chain, told, source, queue, hs, score, bounds>>

\* Fault: the loop goes on waiting for the chunk.
bodies_timeout_waits(q) ==
    /\ q.type = "get_block_bodies" /\ Late(q)
    /\ record(q.peer, timeout)
    /\ UNCHANGED <<state, pc, chain, told, source, queue, hs, bs, gossiped, lost>>

\* _download_chunk gives None: the chunk is passed over.
bodies_timeout(q) ==
    /\ q.type = "get_block_bodies" /\ Late(q)
    /\ record(q.peer, timeout)
    /\ bs' = Finished(q.rid, <<>>)
    /\ UNCHANGED <<state, pc, chain, told, source, queue, hs, gossiped, lost>>

\* Fault: the height alone decides.
extends_height(b) == Index(b) = local + 1

extends(b) == b.prev = Tip

\* The first task that the loop waits for is done: its next block, after the
\* check of the signature.  add_block passes over what it has, appends what
\* extends the tip and refuses the rest, which ends the chunk.  A signature
\* that fails, or of an unknown validator, is booked to the source, whoever
\* sent the block, and asks for a transition that the table does not have.
apply_block ==
    /\ pc = "blocks" /\ bs.tasks # <<>>
    /\ LET task == bs.tasks[1]
           b == task.blocks[1]
           rest == [bs EXCEPT !.tasks[1].blocks = Tail(@)]
           next == [bs EXCEPT !.tasks = Tail(@)]
           verified == b.good /\ known(b.hash)
       IN /\ task.done
          /\ \/ /\ task.blocks = <<>>
                /\ bs' = next
                /\ UNCHANGED <<state, pc, chain, score>>
             \/ /\ task.blocks # <<>> /\ ~ verified
                /\ record(source, invalid_block)
                /\ transition("IDLE")
                /\ bs' = NoBlocks /\ pc' = "top"
                /\ UNCHANGED chain
             \/ /\ task.blocks # <<>> /\ verified
                /\ \/ Index(b) <= local /\ bs' = rest /\ UNCHANGED chain
                   \/ extends(b) /\ bs' = rest /\ chain' = Append(chain, b.hash[2])
                   \/ /\ Index(b) > local /\ ~ extends(b)
                      /\ bs' = next /\ UNCHANGED chain
                /\ UNCHANGED <<state, pc, score>>
    /\ UNCHANGED <<told, source, queue, hs, pending, requests, bounds>>

round_done ==
    /\ pc = "blocks" /\ bs.tasks = <<>>
    /\ bs' = [bs EXCEPT !.chunk = @ + bs.size, !.size = 0]
    /\ pc' = "chunks"
    /\ UNCHANGED <<state, chain, told, source, queue, hs, pending, requests, score, bounds>>

block_sync_done ==
    /\ pc = "chunks" /\ bs.chunk > Chunks
    /\ queue' = <<>> /\ bs' = NoBlocks
    /\ pc' = "top"
    /\ transition("SYNCED")
    /\ UNCHANGED <<chain, told, source, hs, pending, requests, score, bounds>>

-----------------------------------------------------------------------------
(* Meanwhile *)

\* _p2p_status and on_peer_status.
status(p) ==
    /\ p \in Read
    /\ seen' = [seen EXCEPT ![p] = height[p]]
    /\ target' = Max({target, height[p]})
    /\ UNCHANGED <<state, pc, chain, height, up, temp, source, queue, hs, bs, pending,
                   requests, score, bounds>>

\* _p2p_new_block and _p2p_blocks.
gossip(p) ==
    /\ p \in Read /\ gossiped < MaxGossip
    /\ local < height[p] /\ Hash(p, local) = Tip
    /\ chain' = Append(chain, BranchAt(p, local + 1))
    /\ gossiped' = gossiped + 1
    /\ UNCHANGED <<state, pc, told, source, queue, hs, bs, pending, requests,
                   score, timeouts, lost>>

peer_grows(p) ==
    /\ p \in up /\ height[p] < MaxHeight
    /\ height' = [height EXCEPT ![p] = @ + 1]
    /\ UNCHANGED <<state, pc, chain, seen, up, temp, target, source, queue, hs, bs,
                   pending, requests, score, bounds>>

\* The connection ends: by itself, or with the next message of a peer whose
\* score fell to the threshold.
peer_gone(p) ==
    /\ p \in up
    /\ \/ p \notin Read /\ UNCHANGED lost
       \/ p \in Read /\ lost < MaxLost /\ lost' = lost + 1
    /\ up' = up \ {p}
    /\ UNCHANGED <<state, pc, chain, height, seen, temp, target, source, queue, hs, bs,
                   pending, requests, score, gossiped, timeouts>>

-----------------------------------------------------------------------------
main_loop ==
    \/ check_peers \/ follow_tip \/ header_sync \/ request_headers
    \/ cross_verify_headers \/ block_sync \/ launch \/ apply_block
    \/ round_done \/ block_sync_done

Answer(q) == answer_headers(q) \/ answer_bodies(q)

Timeout(q) == headers_timeout(q) \/ bodies_timeout(q)

Next ==
    \/ main_loop
    \/ \E q \in requests : Answer(q) \/ Timeout(q)
    \/ \E p \in Peer : status(p) \/ gossip(p) \/ peer_grows(p) \/ peer_gone(p)

Spec == Init /\ [][Next]_vars

\* The main loop goes on; a peer answers unless it is late or gone; a request
\* to a peer that is gone times out; every peer tells its height again and
\* again; and one that is banned goes.
Fairness ==
    /\ WF_vars(main_loop)
    /\ WF_vars(\E q \in requests : Answer(q))
    /\ WF_vars(\E q \in requests : q.peer \notin up /\ Timeout(q))
    /\ \A p \in Peer :
          /\ WF_vars(status(p))
          /\ WF_vars(p \notin Read /\ peer_gone(p))

FairSpec == Spec /\ Fairness

-----------------------------------------------------------------------------
(* Properties *)

\* Whoever sent the headers and the bodies: the node's chain is one that
\* some peer has.
OneBranch ==
    \E p \in Peer : \A i \in 1..local : chain[i] = BranchAt(p, i)

Honest == up \cap Forging = {} /\ up # {}

\* Production, which waits while the node is syncing, is not stopped for ever
\* as long as an honest peer stays.
ProductionResumes == <>[]Honest => []<>(~ is_syncing)

\* The node catches up with the peers that stay, if they are on its branch: the
\* chunks that a late answer or a bad peer makes it skip, the next round brings.
\* Who stays is not banned, as the source of headers across a registration is,
\* and does not, being ahead under a key _inbound_..., hide the others.
CatchesUp ==
    \A p \in Peer :
        <>[](Honest /\ up \cap temp = {} /\ p \in up /\ Hash(p, local) = Tip)
            => <>(local + SYNC_THRESHOLD >= height[p])

=============================================================================
