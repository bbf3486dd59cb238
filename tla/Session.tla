------------------------------- MODULE Session ------------------------------
(***************************************************************************)
(* The connections of P2PNode (network/p2p.py): connect and _on_connect,   *)
(* the authenticated handshake, the encrypted channel, the closing of      *)
(* duplicates, and p2p.peers, the registry that broadcasts go by.          *)
(*                                                                         *)
(* A connection c is one call of connect; it has an end "out" at Caller[c] *)
(* and an end "in" at Callee[c], each a Peer object with a read loop.      *)
(* Every action is what runs between two awaits that really wait.  The     *)
(* nodes are honest, so a signature verifies; what fails is time.  A node  *)
(* is a number that orders as its validator address does.                  *)
(***************************************************************************)
EXTENDS Integers, Sequences, FiniteSets

CONSTANTS
    Node,
    Conn,
    Caller, Callee,         \* who dials whom in each connection
    Dials,                  \* the sets of connections that may be tried: to the
                            \* bootstrap addresses and to those that peers name
    Signing,                \* the nodes with ML-DSA keys
    Encrypting,             \* the nodes with ML-KEM keys
    Msgpack,                \* the nodes that have the msgpack library
    MAX_PEERS,
    FirstScore,             \* reputation of each peer at first
    NoConn,
    MaxData,                \* bound: broadcasts of each node, by node
    MaxTimeouts             \* bound: deadlines that pass

ASSUME SessionAssumption ==
    /\ Node \subseteq Nat /\ IsFiniteSet(Node) /\ IsFiniteSet(Conn)
    /\ Caller \in [Conn -> Node] /\ Callee \in [Conn -> Node]
    /\ \A c \in Conn : Caller[c] # Callee[c]
    /\ Dials \subseteq SUBSET Conn
    /\ Signing \cup Encrypting \cup Msgpack \subseteq Node
    /\ NoConn \notin Conn /\ Conn \cap Node = {}
    /\ MAX_PEERS \in Nat \ {0} /\ MaxTimeouts \in Nat /\ MaxData \in [Node -> Nat]
    /\ FirstScore \in [Node -> [Node -> Int]]

VARIABLES
    dial,       \* connect(c): "idle", "opening", "open" or "failed", which
                \* is also what is never called
    end,        \* the Peer objects, by connection and side
    wire,       \* the messages under way to each end
    peers,      \* p2p.peers of each node: by address (a node) or by
                \* temporary key (a connection)
    score,      \* what a node thinks of another
    duplicates, \* the connections that were closed as duplicates
    said,       \* broadcasts made by each node
    timeouts    \* deadlines that have passed

vars == <<dial, end, wire, peers, score, duplicates, said, timeouts>>

Side == {"out", "in"}

Other(s) == IF s = "out" THEN "in" ELSE "out"

At(c, s) == IF s = "out" THEN Caller[c] ELSE Callee[c]

Remote(c, s) == At(c, Other(s))

-----------------------------------------------------------------------------
(* Peer objects and the registry *)

NewPeer ==
    [state |-> "none",      \* "hello": before the first line; "reading"; "left"
     closed |-> FALSE,      \* close() was called at this end
     challenge |-> FALSE,   \* a challenge of ours is unanswered
     authenticated |-> FALSE,
     v2 |-> FALSE,          \* protocol_version >= 2
     encrypted |-> FALSE,   \* has the session key
     msgpack |-> FALSE,     \* wire_format
     temp |-> FALSE]        \* registered under the temporary key

KeyOf(c, s) == IF end[c][s].temp THEN c ELSE Remote(c, s)

Registered(c, s) ==
    \E k \in Node \cup Conn : peers[At(c, s)][k] = c

PeerCount(n) == Cardinality({k \in Node \cup Conn : peers[n][k] # NoConn})

full(n) == PeerCount(n) >= MAX_PEERS

BAN_THRESHOLD == -100

auth_failed == -100

\* Fault: the entry stays.
finally_keep(c, s) == peers

\* Whatever is registered under the key goes.
finally(c, s) == [peers EXCEPT ![At(c, s)][KeyOf(c, s)] = NoConn]

Blamed(c, s) == [score EXCEPT ![At(c, s)][Remote(c, s)] = @ + auth_failed]

\* The loop of an end returns.  It does not close its writer.
Leave(c, s) ==
    /\ end' = [end EXCEPT ![c][s].state = "left"]
    /\ peers' = finally(c, s)

Taken(c, s) == [wire EXCEPT ![c][s] = Tail(@)]

\* w with messages for the other end, in the format of this end.
Sent(w, c, s, types) ==
    IF end[c][s].closed THEN w
    ELSE [w EXCEPT ![c][Other(s)] = @ \o
            [i \in 1..Len(types) |->
                [type |-> types[i], msgpack |-> end[c][s].msgpack,
                 encrypted |-> FALSE, trusted |-> FALSE]]]

Reads(c, s, type) ==
    /\ end[c][s].state = "reading"
    /\ wire[c][s] # <<>>
    /\ Head(wire[c][s]).type = type
    /\ Head(wire[c][s]).msgpack = end[c][s].msgpack

-----------------------------------------------------------------------------
Init ==
    /\ \E dials \in Dials :
          dial = [c \in Conn |-> IF c \in dials THEN "idle" ELSE "failed"]
    /\ end = [c \in Conn |-> [s \in Side |-> NewPeer]]
    /\ wire = [c \in Conn |-> [s \in Side |-> <<>>]]
    /\ peers = [n \in Node |-> [k \in Node \cup Conn |-> NoConn]]
    /\ score = FirstScore
    /\ duplicates = {}
    /\ said = [n \in Node |-> 0]
    /\ timeouts = 0

\* connect up to open_connection.  start() awaits it for the bootstrap
\* addresses, and every read loop for those that its peer names (_p2p_peers),
\* so that a node may be opening several.
connect(c) ==
    /\ dial[c] = "idle"
    /\ ~ full(Caller[c])
    /\ peers[Caller[c]][Callee[c]] = NoConn
    /\ dial' = [dial EXCEPT ![c] = "opening"]
    /\ UNCHANGED <<end, wire, peers, score, duplicates, said, timeouts>>

\* connect after open_connection: nothing is looked at again.
opened(c) ==
    /\ dial[c] = "opening"
    /\ dial' = [dial EXCEPT ![c] = "open"]
    /\ end' = [end EXCEPT ![c]["out"] =
          [NewPeer EXCEPT !.state = "reading",
                          !.challenge = Caller[c] \in Signing,
                          !.v2 = Caller[c] \in Signing]]
    /\ peers' = [peers EXCEPT ![Caller[c]][Callee[c]] = c]
    /\ wire' = Sent(wire, c, "out",
                    <<IF Caller[c] \in Signing THEN "hello_auth" ELSE "hello">>)
    /\ UNCHANGED <<score, duplicates, said, timeouts>>

connect_failed(c) ==
    /\ dial[c] = "opening"
    /\ end[c]["in"].state = "none"
    /\ dial' = [dial EXCEPT ![c] = "failed"]
    /\ UNCHANGED <<end, wire, peers, score, duplicates, said, timeouts>>

\* Bans are kept by address and port and asked for by address here, so they
\* never apply.
on_connect(c) ==
    /\ dial[c] \in {"opening", "open"}
    /\ end[c]["in"].state = "none"
    /\ \/ /\ full(Callee[c])
          /\ end' = [end EXCEPT ![c]["in"].state = "left", ![c]["in"].closed = TRUE]
          /\ UNCHANGED peers
       \/ /\ ~ full(Callee[c])
          /\ end' = [end EXCEPT ![c]["in"].state = "hello", ![c]["in"].temp = TRUE]
          /\ peers' = [peers EXCEPT ![Callee[c]][c] = c]
    /\ UNCHANGED <<dial, wire, score, duplicates, said, timeouts>>

-----------------------------------------------------------------------------
(* The first line at the responder *)

\* _update_peer_key: under the address if that is free.
Rekeyed(c) ==
    LET n == Callee[c]
        m == Caller[c]
    IN IF peers[n][m] = NoConn
       THEN [peers EXCEPT ![n][c] = NoConn, ![n][m] = c] ELSE peers

FirstLine(c, type) ==
    /\ end[c]["in"].state = "hello"
    /\ wire[c]["in"] # <<>>
    /\ Head(wire[c]["in"]).type = type

hello(c) ==
    /\ FirstLine(c, "hello")
    /\ peers' = Rekeyed(c)
    /\ end' = [end EXCEPT ![c]["in"].state = "reading",
                          ![c]["in"].temp = peers[Callee[c]][Caller[c]] # NoConn]
    /\ wire' = Sent(Taken(c, "in"), c, "in", <<"hello">>)
    /\ UNCHANGED <<dial, score, duplicates, said, timeouts>>

hello_auth_inbound(c) ==
    LET temp == peers[Callee[c]][Caller[c]] # NoConn
    IN /\ FirstLine(c, "hello_auth")
       /\ \/ /\ Callee[c] \in Signing
             /\ peers' = Rekeyed(c)
             /\ end' = [end EXCEPT ![c]["in"] =
                   [@ EXCEPT !.state = "reading", !.temp = temp,
                             !.challenge = TRUE, !.v2 = TRUE]]
             /\ wire' = Sent(Taken(c, "in"), c, "in", <<"auth_response">>)
             /\ UNCHANGED score
          \/ /\ Callee[c] \notin Signing
             /\ peers' = [peers EXCEPT ![Callee[c]][c] = NoConn]
             /\ end' = [end EXCEPT ![c]["in"] =
                   [@ EXCEPT !.state = "left", !.temp = temp]]
             /\ score' = Blamed(c, "in")
             /\ wire' = Taken(c, "in")
       /\ UNCHANGED <<dial, duplicates, said, timeouts>>

-----------------------------------------------------------------------------
(* Deduplication *)

\* The other authenticated connections with the same node, by registry.
Rivals(c, s) ==
    {o \in (Conn \ {c}) \X Side :
        /\ At(o[1], o[2]) = At(c, s) /\ Remote(o[1], o[2]) = Remote(c, s)
        /\ Registered(o[1], o[2])
        /\ end[o[1]][o[2]].authenticated}

\* Fault: each node keeps the connection it initiated.
keeps_own(c, s) == s = "out"

\* The node with the smaller address keeps the connection it initiated.
keeps(c, s) == (At(c, s) < Remote(c, s)) = (s = "out")

\* _dedup_connection, at the end of a handshake: when the connection stays,
\* the end becomes peer and the wire w; when it goes, the end leaves, with
\* the wire v, and its loop takes that for a failed authentication.
dedup_connection(c, s, peer, w, v) ==
    \/ /\ Rivals(c, s) = {}
       /\ end' = [end EXCEPT ![c][s] = peer]
       /\ wire' = w
       /\ UNCHANGED <<peers, score, duplicates>>
    \/ /\ keeps(c, s)
       /\ \E o \in Rivals(c, s) :
             /\ peers' = [peers EXCEPT ![At(c, s)][KeyOf(o[1], o[2])] = NoConn]
             /\ end' = [end EXCEPT ![o[1]][o[2]].closed = TRUE, ![c][s] = peer]
             /\ duplicates' = duplicates \cup {o[1]}
       /\ wire' = w
       /\ UNCHANGED score
    \/ /\ Rivals(c, s) # {} /\ ~ keeps(c, s)
       /\ end' = [end EXCEPT ![c][s] = [peer EXCEPT !.state = "left"]]
       /\ peers' = finally(c, s)
       /\ score' = Blamed(c, s)
       /\ duplicates' = duplicates \cup {c}
       /\ wire' = v

-----------------------------------------------------------------------------
(* The handshake *)

Encrypts(c) == {Caller[c], Callee[c]} \subseteq Encrypting

\* negotiate
Packs(c) == {Caller[c], Callee[c]} \subseteq Msgpack

\* Fault: the session key first.
handshake_tail_swapped(c) ==
    IF Encrypts(c) THEN <<"session_key", "auth_confirm">> ELSE <<"auth_confirm">>

\* Fault: the session key stands for the confirmation.
handshake_tail_short(c) ==
    IF Encrypts(c) THEN <<"session_key">> ELSE <<"auth_confirm">>

\* What the initiator sends in reply: all of it in JSON.
handshake_tail(c) ==
    IF Encrypts(c) THEN <<"auth_confirm", "session_key">> ELSE <<"auth_confirm">>

\* A challenge is used once.
authenticated(peer) == [peer EXCEPT !.authenticated = TRUE, !.challenge = FALSE]

handle_auth_response(c) ==
    /\ Reads(c, "out", "auth_response")
    /\ end[c]["out"].challenge
    /\ dedup_connection(c, "out",
          [authenticated(end[c]["out"]) EXCEPT !.encrypted = Encrypts(c),
                                               !.msgpack = Packs(c)],
          Sent(Taken(c, "out"), c, "out", handshake_tail(c)),
          Sent(Taken(c, "out"), c, "out", <<"auth_confirm">>))
    /\ UNCHANGED <<dial, said, timeouts>>

handle_auth_confirm(c) ==
    /\ Reads(c, "in", "auth_confirm")
    /\ end[c]["in"].challenge
    /\ dedup_connection(c, "in",
          [authenticated(end[c]["in"]) EXCEPT !.msgpack = Packs(c)],
          Taken(c, "in"), Taken(c, "in"))
    /\ UNCHANGED <<dial, said, timeouts>>

\* Without authentication the key is not taken.
handle_session_key(c) ==
    /\ Reads(c, "in", "session_key")
    /\ end' = [end EXCEPT ![c]["in"].encrypted = end[c]["in"].authenticated]
    /\ wire' = Taken(c, "in")
    /\ UNCHANGED <<dial, peers, score, duplicates, said, timeouts>>

\* A plain hello has no handler.
ignore_hello(c) ==
    /\ Reads(c, "out", "hello")
    /\ wire' = Taken(c, "out")
    /\ UNCHANGED <<dial, end, peers, score, duplicates, said, timeouts>>

\* auth_deadline has passed when the answer arrives.
auth_timeout(c, s) ==
    /\ Reads(c, s, IF s = "out" THEN "auth_response" ELSE "auth_confirm")
    /\ timeouts < MaxTimeouts
    /\ timeouts' = timeouts + 1
    /\ end' = [end EXCEPT ![c][s].state = "left", ![c][s].challenge = FALSE]
    /\ peers' = finally(c, s)
    /\ score' = Blamed(c, s)
    /\ wire' = Taken(c, s)
    /\ UNCHANGED <<dial, duplicates, said>>

-----------------------------------------------------------------------------
(* Everything else on a connection *)

\* send_encrypted: as the state of this end of the connection has it.
\* trusted records what the sender had reached.
send_encrypted(from) ==
    [type |-> "data", msgpack |-> from.msgpack, encrypted |-> from.encrypted,
     trusted |-> from.authenticated]

\* broadcast: to all that are registered and connected, authenticated or not.
broadcast(n) ==
    LET to(c, s) == /\ At(c, s) = n /\ Registered(c, s)
                    /\ end[c][s].state # "left" /\ ~ end[c][s].closed
    IN /\ said[n] < MaxData[n]
       /\ \E c \in Conn, s \in Side : to(c, s)
       /\ said' = [said EXCEPT ![n] = @ + 1]
       /\ wire' = [c \in Conn |-> [s \in Side |->
             IF ~ to(c, Other(s)) THEN wire[c][s]
             ELSE Append(wire[c][s], send_encrypted(end[c][Other(s)]))]]
       /\ UNCHANGED <<dial, end, peers, score, duplicates, timeouts>>

\* decrypt_message returns something: without the key there is None.
Decrypts(c, s) == Head(wire[c][s]).encrypted => end[c][s].encrypted

\* check_auth_gate for a block or transaction.
check_auth_gate(peer) == ~ peer.v2 \/ peer.authenticated

\* A block or transaction: lost without the key to it, then held off by the
\* ban and by the gate, or dispatched.  Only the ban has an effect here.
read_data(c, s) ==
    /\ Reads(c, s, "data")
    /\ wire' = Taken(c, s)
    /\ \/ /\ \/ ~ Decrypts(c, s)
             \/ score[At(c, s)][Remote(c, s)] > BAN_THRESHOLD
          /\ UNCHANGED <<end, peers>>
       \/ /\ Decrypts(c, s)
          /\ score[At(c, s)][Remote(c, s)] <= BAN_THRESHOLD
          /\ Leave(c, s)
    /\ UNCHANGED <<dial, score, duplicates, said, timeouts>>

\* Fault: no limit on the time to wait.
Silent_eof(c, s) ==
    \/ end[c][s].closed
    \/ wire[c][s] = <<>> /\ end[c][Other(s)].closed

\* Nothing will come: the writer at either end is closed, or the other end
\* has left its loop or is in no registry, so that 30 s pass without a
\* line; a reader of msgpack waits for ever.
Silent(c, s) ==
    LET o == end[c][Other(s)]
    IN \/ end[c][s].closed
       \/ wire[c][s] = <<>> /\ o.closed
       \/ /\ wire[c][s] = <<>> /\ ~ end[c][s].msgpack
          /\ \/ o.state = "left"
             \/ o.state = "reading" /\ ~ Registered(c, Other(s))

\* The next bytes are in the other format: no frame of a legal length.
Garbled(c, s) ==
    wire[c][s] # <<>> /\ Head(wire[c][s]).msgpack # end[c][s].msgpack

read_ends(c, s) ==
    /\ end[c][s].state = "reading"
    /\ Silent(c, s) \/ Garbled(c, s)
    /\ Leave(c, s)
    /\ UNCHANGED <<dial, wire, score, duplicates, said, timeouts>>

\* 10 s without a first line.
hello_timeout(c) ==
    /\ end[c]["in"].state = "hello"
    /\ wire[c]["in"] = <<>>
    /\ timeouts < MaxTimeouts
    /\ timeouts' = timeouts + 1
    /\ Leave(c, "in")
    /\ UNCHANGED <<dial, wire, score, duplicates, said>>

-----------------------------------------------------------------------------
Handshake(c) ==
    \/ hello(c) \/ hello_auth_inbound(c) \/ handle_auth_response(c)
    \/ handle_auth_confirm(c) \/ handle_session_key(c) \/ ignore_hello(c)

Next ==
    \/ \E c \in Conn :
          \/ connect(c) \/ opened(c) \/ connect_failed(c) \/ on_connect(c)
          \/ Handshake(c) \/ hello_timeout(c)
    \/ \E c \in Conn, s \in Side :
          auth_timeout(c, s) \/ read_data(c, s) \/ read_ends(c, s)
    \/ \E n \in Node : broadcast(n)

Spec == Init /\ [][Next]_vars

\* The network and the event loops go on with a connection while there is
\* something to do on it; nobody has to dial or to broadcast.
Progress(c) ==
    \/ opened(c) \/ on_connect(c) \/ Handshake(c)
    \/ \E s \in Side : read_data(c, s) \/ read_ends(c, s)

Fairness == \A c \in Conn : WF_vars(Progress(c))

FairSpec == Spec /\ Fairness

-----------------------------------------------------------------------------
(* Properties *)

\* What an authenticated end sends passes the gate of the other end and, if it
\* is encrypted, finds it in possession of the key: nothing that was sent after
\* the handshake is lost in it.
TrustedDataAccepted ==
    \A c \in Conn, s \in Side :
        /\ Reads(c, s, "data") /\ Head(wire[c][s]).trusted
        => Decrypts(c, s) /\ check_auth_gate(end[c][s])

\* Two nodes that dial each other at once, and each close the duplicate that
\* they see, never close both.
OneIsKept ==
    \A c \in duplicates : \E d \in Conn \ duplicates :
        {Caller[d], Callee[d]} = {Caller[c], Callee[c]}

\* Nobody broadcasts into a connection whose loop is gone.
RegisteredLive ==
    \A c \in Conn, s \in Side :
        Registered(c, s) => end[c][s].state \in {"hello", "reading"}

\* Every connection becomes an authenticated one at both ends, or a plain one,
\* or one end gives it up.
HandshakeEnds ==
    <>[](\A c \in Conn : dial[c] = "open" =>
            \/ \E s \in Side : end[c][s].state = "left"
            \/ \A s \in Side : end[c][s].authenticated
            \/ end[c]["in"].state = "reading" /\ ~ end[c]["in"].v2)

\* When one end has given a connection up, without closing it, the other end
\* does not go on believing in it for ever.
HalfOpenEnds ==
    <>[](\A c \in Conn, s \in Side :
            end[c][s].state = "left" => end[c][Other(s)].state \in {"left", "none"})

=============================================================================
