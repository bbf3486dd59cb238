---------------------------- MODULE SessionProofs ---------------------------
(***************************************************************************)
(* For any nodes and any connections between them: the registry p2p.peers, *)
(* the closing of duplicates, and the order in which the handshake and     *)
(* what follows it arrive.                                                 *)
(***************************************************************************)
EXTENDS Session, SequenceTheorems, TLAPS

-----------------------------------------------------------------------------
(* The inductive invariants *)

Live == {"hello", "reading"}

PeerObject ==
    [state : {"none", "hello", "reading", "left"}, closed : BOOLEAN,
     challenge : BOOLEAN, authenticated : BOOLEAN, v2 : BOOLEAN,
     encrypted : BOOLEAN, msgpack : BOOLEAN, temp : BOOLEAN]

TypeOK ==
    /\ dial \in [Conn -> {"idle", "opening", "open", "failed"}]
    /\ end \in [Conn -> [Side -> PeerObject]]
    /\ peers \in [Node -> [Node \cup Conn -> Conn \cup {NoConn}]]

\* Only a responder is known by a temporary key; it is while it waits for the
\* first line, and then it is neither authenticated nor anything else.
TempKeys ==
    \A c \in Conn :
        /\ ~ end[c]["out"].temp
        /\ end[c]["in"].state = "hello" =>
              /\ end[c]["in"].temp /\ ~ end[c]["in"].authenticated
              /\ peers[Callee[c]][c] = c
        /\ end[c]["in"].state = "none" => ~ end[c]["in"].authenticated

\* An entry is that of a live end at this node, under the key of that end.
Entry(n, k, c) ==
    /\ c \in Conn
    /\ \E s \in Side : At(c, s) = n /\ k = KeyOf(c, s) /\ end[c][s].state \in Live

Entries ==
    \A n \in Node, k \in Node \cup Conn : peers[n][k] # NoConn => Entry(n, k, peers[n][k])

RegistryInv == TypeOK /\ TempKeys /\ Entries

-----------------------------------------------------------------------------
Message ==
    [type : {"hello", "hello_auth", "auth_response", "auth_confirm", "session_key", "data"},
     msgpack : BOOLEAN, encrypted : BOOLEAN, trusted : BOOLEAN]

\* Somewhere before position i of w there is a message of the type.
Before(w, i, type) == \E j \in 1..(i - 1) : w[j].type = type

Under(w, type) == \E j \in 1..Len(w) : w[j].type = type

\* The order of a list for an end that has reached authd and keyed: the session
\* key and what is sent under the handshake are behind the confirmation, and
\* what is encrypted is behind the session key.
Ordered(w, authd, keyed) ==
    \A i \in 1..Len(w) :
        /\ w[i].trusted \/ w[i].type = "session_key"
              => authd \/ Before(w, i, "auth_confirm")
        /\ w[i].encrypted => keyed \/ Before(w, i, "session_key")

\* The two ends out and in of a connection, what is under way to in (wi) and
\* to out (wo): the responder has reached nothing that the initiator has not,
\* and as long as it reads, it is brought to all that the initiator has.
Agreed(open, out, in, wi, wo) ==
    /\ ~ open => out = NewPeer /\ wi = <<>>
    /\ out.closed => out.authenticated
    /\ out.challenge => ~ out.authenticated
    /\ out.encrypted => out.authenticated
    /\ in.authenticated => out.authenticated
    /\ in.encrypted => out.encrypted
    /\ Under(wi, "auth_confirm") => out.authenticated
    /\ Under(wi, "session_key") => out.encrypted
    /\ \A i \in 1..Len(wo) : /\ wo[i].trusted => out.authenticated
                             /\ wo[i].encrypted => out.encrypted
    /\ in.state # "left" =>
          /\ Ordered(wi, in.authenticated, in.encrypted)
          /\ out.authenticated /\ out.state # "left" =>
                /\ in.authenticated \/ Under(wi, "auth_confirm")
                /\ out.encrypted => in.encrypted \/ Under(wi, "session_key")

AgreedAt(c) ==
    Agreed(dial[c] = "open", end[c]["out"], end[c]["in"], wire[c]["in"], wire[c]["out"])

HandshakeInv ==
    /\ wire \in [Conn -> [Side -> Seq(Message)]]
    /\ \A c \in Conn : AgreedAt(c)

\* Nothing is closed as a duplicate but a connection of the greater address,
\* of which there is one in the other direction.
Smaller ==
    \A c \in duplicates :
        /\ c \in Conn /\ Callee[c] < Caller[c]
        /\ \E d \in Conn : Caller[d] = Callee[c] /\ Callee[d] = Caller[c]

-----------------------------------------------------------------------------
(* Ends and keys *)

LEMMA Ends ==
    /\ \A c \in Conn : /\ Caller[c] \in Node /\ Callee[c] \in Node /\ Caller[c] # Callee[c]
                       /\ c \notin Node /\ c # NoConn
                       /\ At(c, "out") = Caller[c] /\ At(c, "in") = Callee[c]
                       /\ Remote(c, "out") = Callee[c] /\ Remote(c, "in") = Caller[c]
    /\ \A c \in Conn, s \in Side : At(c, s) \in Node /\ Remote(c, s) \in Node
    /\ \A c \in Conn, s, t \in Side : At(c, s) = At(c, t) => s = t
    /\ \A s \in Side : Other(s) \in Side /\ Other(s) # s
    /\ \A s \in Side : s = "out" \/ s = "in"
    /\ "out" \in Side /\ "in" \in Side
BY SessionAssumption DEF Side, At, Remote, Other

LEMMA Keys ==
    ASSUME RegistryInv, NEW c \in Conn, NEW s \in Side
    PROVE  /\ KeyOf(c, s) \in Node \cup Conn
           /\ KeyOf(c, s) = IF end[c][s].temp THEN c ELSE Remote(c, s)
           /\ \A d \in Conn : KeyOf(c, s) = d => d = c /\ s = "in"
BY Ends DEF KeyOf, RegistryInv, TempKeys

\* finally removes one entry.
LEMMA Finally ==
    ASSUME RegistryInv, NEW c \in Conn, NEW s \in Side
    PROVE  /\ finally(c, s) \in [Node -> [Node \cup Conn -> Conn \cup {NoConn}]]
           /\ \A n \in Node, k \in Node \cup Conn :
                 finally(c, s)[n][k] =
                     IF n = At(c, s) /\ k = KeyOf(c, s) THEN NoConn ELSE peers[n][k]
<1>1. KeyOf(c, s) \in Node \cup Conn /\ At(c, s) \in Node
    BY Keys, Ends
<1>2. peers \in [Node -> [Node \cup Conn -> Conn \cup {NoConn}]]
    BY DEF RegistryInv, TypeOK
<1> QED BY <1>1, <1>2 DEF finally

\* The ends keep their states and keys, and the registry loses at most what is
\* not that of an end before its first line.
LEMMA Stays ==
    ASSUME RegistryInv, TypeOK',
           \A d \in Conn, t \in Side : /\ end'[d][t].state = end[d][t].state
                                       /\ end'[d][t].temp = end[d][t].temp,
           \A d \in Conn : end[d]["in"].state \in {"none", "hello"}
                              => ~ end'[d]["in"].authenticated,
           \A n \in Node, k \in Node \cup Conn : peers'[n][k] \in {peers[n][k], NoConn},
           \A d \in Conn : end[d]["in"].state = "hello" => peers'[Callee[d]][d] = d
    PROVE  RegistryInv'
<1>1. TempKeys'
    BY Ends DEF RegistryInv, TempKeys
<1>2. Entries'
    <2> SUFFICES ASSUME NEW n \in Node, NEW k \in Node \cup Conn, NEW c,
                        peers'[n][k] = c, c # NoConn
                 PROVE  Entry(n, k, c)'
        BY DEF Entries, Entry
    <2>1. peers[n][k] = c
        OBVIOUS
    <2>2. Entry(n, k, c)
        BY <2>1 DEF RegistryInv, Entries
    <2>3. PICK s \in Side : At(c, s) = n /\ k = KeyOf(c, s) /\ end[c][s].state \in Live
        BY <2>2 DEF Entry
    <2>4. c \in Conn
        BY <2>2 DEF Entry
    <2>5. KeyOf(c, s)' = KeyOf(c, s)
        BY <2>4 DEF KeyOf
    <2> QED BY <2>3, <2>4, <2>5 DEF Entry
<1> QED BY <1>1, <1>2 DEF RegistryInv

\* An end leaves, and finally takes its entry.
LEMMA Leaves ==
    ASSUME RegistryInv, NEW c \in Conn, NEW s \in Side, TypeOK', peers' = finally(c, s),
           end'[c][s].state = "left", s = "out" => ~ end'[c][s].temp,
           \A d \in Conn, t \in Side : d # c \/ t # s =>
               /\ end'[d][t].state = end[d][t].state
               /\ end'[d][t].temp = end[d][t].temp
               /\ end'[d][t].authenticated = end[d][t].authenticated
    PROVE  RegistryInv'
<1>1. /\ \A n \in Node, k \in Node \cup Conn :
            peers'[n][k] = IF n = At(c, s) /\ k = KeyOf(c, s) THEN NoConn ELSE peers[n][k]
    BY Finally
<1>2. TempKeys'
    <2> SUFFICES ASSUME NEW d \in Conn
                 PROVE  /\ ~ end'[d]["out"].temp
                        /\ end'[d]["in"].state = "hello" =>
                              /\ end'[d]["in"].temp /\ ~ end'[d]["in"].authenticated
                              /\ peers'[Callee[d]][d] = d
                        /\ end'[d]["in"].state = "none" => ~ end'[d]["in"].authenticated
        BY DEF TempKeys
    <2>1. ~ end'[d]["out"].temp
        BY Ends DEF RegistryInv, TempKeys
    <2>2. CASE d = c /\ s = "in"
        BY <2>1, <2>2
    <2>3. CASE ~ (d = c /\ s = "in")
        <3>1. /\ end'[d]["in"].state = end[d]["in"].state
              /\ end'[d]["in"].temp = end[d]["in"].temp
              /\ end'[d]["in"].authenticated = end[d]["in"].authenticated
            BY <2>3, Ends
        <3>2. KeyOf(c, s) # d /\ Callee[d] \in Node
            BY <2>3, Keys, Ends
        <3>3. peers'[Callee[d]][d] = peers[Callee[d]][d]
            BY <1>1, <3>2
        <3> QED BY <2>1, <3>1, <3>3 DEF RegistryInv, TempKeys
    <2> QED BY <2>2, <2>3
<1>3. Entries'
    <2> SUFFICES ASSUME NEW n \in Node, NEW k \in Node \cup Conn, NEW d,
                        peers'[n][k] = d, d # NoConn
                 PROVE  Entry(n, k, d)'
        BY DEF Entries, Entry
    <2>1. peers[n][k] = d /\ ~ (n = At(c, s) /\ k = KeyOf(c, s))
        BY <1>1
    <2>2. Entry(n, k, d)
        BY <2>1 DEF RegistryInv, Entries
    <2>3. PICK t \in Side : At(d, t) = n /\ k = KeyOf(d, t) /\ end[d][t].state \in Live
        BY <2>2 DEF Entry
    <2>4. d \in Conn
        BY <2>2 DEF Entry
    <2>5. d # c \/ t # s
        BY <2>1, <2>3
    <2>6. KeyOf(d, t)' = KeyOf(d, t) /\ end'[d][t].state = end[d][t].state
        BY <2>4, <2>5 DEF KeyOf
    <2> QED BY <2>3, <2>4, <2>6 DEF Entry
<1> QED BY <1>2, <1>3 DEF RegistryInv

\* An end begins, or is registered anew under the key it now has.
LEMMA Enters ==
    ASSUME RegistryInv, NEW c \in Conn, NEW s \in Side, TypeOK',
           end'[c][s].state \in Live,
           s = "out" => ~ end'[c][s].temp,
           s = "in" /\ end'[c][s].state = "hello" =>
               end'[c][s].temp /\ ~ end'[c][s].authenticated /\ peers'[Callee[c]][c] = c,
           \A d \in Conn, t \in Side : d # c \/ t # s => end'[d][t] = end[d][t],
           \A d \in Conn \ {c} : peers'[Callee[d]][d] = peers[Callee[d]][d],
           \A n \in Node, k \in Node \cup Conn :
               \/ peers'[n][k] = NoConn
               \/ n = At(c, s) /\ k = KeyOf(c, s)' /\ peers'[n][k] = c
               \/ /\ peers'[n][k] = peers[n][k]
                  /\ n = At(c, s) => peers[n][k] # c \/ k = KeyOf(c, s)',
           s = "out" => peers'[Callee[c]][c] = peers[Callee[c]][c]
    PROVE  RegistryInv'
<1>1. TempKeys'
    <2> SUFFICES ASSUME NEW d \in Conn
                 PROVE  /\ ~ end'[d]["out"].temp
                        /\ end'[d]["in"].state = "hello" =>
                              /\ end'[d]["in"].temp /\ ~ end'[d]["in"].authenticated
                              /\ peers'[Callee[d]][d] = d
                        /\ end'[d]["in"].state = "none" => ~ end'[d]["in"].authenticated
        BY DEF TempKeys
    <2>1. ~ end'[d]["out"].temp
        BY Ends DEF RegistryInv, TempKeys
    <2>2. CASE d = c /\ s = "in"
        BY <2>1, <2>2 DEF Live
    <2>3. CASE ~ (d = c /\ s = "in")
        <3>1. end'[d]["in"] = end[d]["in"] /\ (d = c => s = "out")
            BY <2>3, Ends
        <3> QED BY <2>1, <3>1 DEF RegistryInv, TempKeys
    <2> QED BY <2>2, <2>3
<1>2. Entries'
    <2> SUFFICES ASSUME NEW n \in Node, NEW k \in Node \cup Conn, NEW d,
                        peers'[n][k] = d, d # NoConn
                 PROVE  Entry(n, k, d)'
        BY DEF Entries, Entry
    <2>1. CASE n = At(c, s) /\ k = KeyOf(c, s)' /\ d = c
        BY <2>1 DEF Entry
    <2>2. CASE /\ d = peers[n][k]
               /\ n = At(c, s) => peers[n][k] # c \/ k = KeyOf(c, s)'
        <3>1. Entry(n, k, d)
            BY <2>2 DEF RegistryInv, Entries
        <3>2. PICK t \in Side : At(d, t) = n /\ k = KeyOf(d, t) /\ end[d][t].state \in Live
            BY <3>1 DEF Entry
        <3>3. d \in Conn
            BY <3>1 DEF Entry
        <3>4. CASE d = c /\ t = s
            BY <3>2, <3>4, <2>2 DEF Entry
        <3>5. CASE d # c \/ t # s
            <4>1. end'[d][t] = end[d][t]
                BY <3>3, <3>5
            <4>2. KeyOf(d, t)' = KeyOf(d, t)
                BY <4>1 DEF KeyOf
            <4> QED BY <3>2, <3>3, <4>1, <4>2 DEF Entry
        <3> QED BY <3>4, <3>5
    <2> QED BY <2>1, <2>2
<1> QED BY <1>1, <1>2 DEF RegistryInv

\* An action that changes one end.
LEMMA Put ==
    ASSUME TypeOK, NEW c \in Conn, NEW s \in Side, NEW p \in PeerObject,
           end' = [end EXCEPT ![c][s] = p]
    PROVE  /\ end' \in [Conn -> [Side -> PeerObject]]
           /\ end'[c][s] = p
           /\ \A d \in Conn, t \in Side : d # c \/ t # s => end'[d][t] = end[d][t]
BY DEF TypeOK

LEMMA EndIn ==
    ASSUME TypeOK, NEW c \in Conn, NEW s \in Side
    PROVE  /\ end[c][s] \in PeerObject
           /\ [end[c][s] EXCEPT !.state = "left"] \in PeerObject
           /\ [end[c][s] EXCEPT !.state = "left", !.challenge = FALSE] \in PeerObject
<1>1. end[c][s] \in PeerObject
    BY DEF TypeOK
<1>2. \A p \in PeerObject : /\ [p EXCEPT !.state = "left"] \in PeerObject
                            /\ [p EXCEPT !.state = "left", !.challenge = FALSE] \in PeerObject
    BY DEF PeerObject
<1> QED BY <1>1, <1>2

LEMMA PutOut ==
    ASSUME TypeOK, NEW c \in Conn, NEW p \in PeerObject, end' = [end EXCEPT ![c]["out"] = p]
    PROVE  /\ end' \in [Conn -> [Side -> PeerObject]]
           /\ end'[c]["out"] = p
           /\ \A d \in Conn, t \in Side : d # c \/ t # "out" => end'[d][t] = end[d][t]
<1>1. end \in [Conn -> [Side -> PeerObject]] /\ "out" \in Side
    BY DEF TypeOK, Side
<1>2. end' = [d \in Conn |-> IF d = c THEN [end[c] EXCEPT !["out"] = p] ELSE end[d]]
    BY <1>1
<1>3. [end[c] EXCEPT !["out"] = p] = [t \in Side |-> IF t = "out" THEN p ELSE end[c][t]]
    BY <1>1, Zenon
<1> DEFINE f == [t \in Side |-> IF t = "out" THEN p ELSE end[c][t]]
<1>4. end' = [d \in Conn |-> IF d = c THEN f ELSE end[d]]
    BY <1>2, <1>3
<1>5. f \in [Side -> PeerObject] /\ f["out"] = p
      /\ \A t \in Side : t # "out" => f[t] = end[c][t]
    BY <1>1
<1> HIDE DEF f
<1>6. end' \in [Conn -> [Side -> PeerObject]] /\ end'[c] = f
      /\ \A d \in Conn : d # c => end'[d] = end[d]
    BY <1>1, <1>4, <1>5
<1> QED BY <1>5, <1>6, Zenon

LEMMA PutIn ==
    ASSUME TypeOK, NEW c \in Conn, NEW p \in PeerObject, end' = [end EXCEPT ![c]["in"] = p]
    PROVE  /\ end' \in [Conn -> [Side -> PeerObject]]
           /\ end'[c]["in"] = p
           /\ \A d \in Conn, t \in Side : d # c \/ t # "in" => end'[d][t] = end[d][t]
<1>1. end \in [Conn -> [Side -> PeerObject]] /\ "in" \in Side
    BY DEF TypeOK, Side
<1>2. end' = [d \in Conn |-> IF d = c THEN [end[c] EXCEPT !["in"] = p] ELSE end[d]]
    BY <1>1
<1>3. [end[c] EXCEPT !["in"] = p] = [t \in Side |-> IF t = "in" THEN p ELSE end[c][t]]
    BY <1>1, Zenon
<1> DEFINE f == [t \in Side |-> IF t = "in" THEN p ELSE end[c][t]]
<1>4. end' = [d \in Conn |-> IF d = c THEN f ELSE end[d]]
    BY <1>2, <1>3
<1>5. f \in [Side -> PeerObject] /\ f["in"] = p
      /\ \A t \in Side : t # "in" => f[t] = end[c][t]
    BY <1>1
<1> HIDE DEF f
<1>6. end' \in [Conn -> [Side -> PeerObject]] /\ end'[c] = f
      /\ \A d \in Conn : d # c => end'[d] = end[d]
    BY <1>1, <1>4, <1>5
<1> QED BY <1>5, <1>6, Zenon

LEMMA EntryPut ==
    ASSUME TypeOK, NEW n \in Node, NEW k \in Node \cup Conn, NEW c \in Conn \cup {NoConn},
           peers' = [peers EXCEPT ![n][k] = c]
    PROVE  /\ peers' \in [Node -> [Node \cup Conn -> Conn \cup {NoConn}]]
           /\ \A m \in Node, j \in Node \cup Conn :
                 peers'[m][j] = IF m = n /\ j = k THEN c ELSE peers[m][j]
BY DEF TypeOK

LEMMA LeaveKeeps ==
    ASSUME RegistryInv, NEW c \in Conn, NEW s \in Side, Leave(c, s), UNCHANGED dial
    PROVE  RegistryInv'
<1> DEFINE p == [end[c][s] EXCEPT !.state = "left"]
<1>1. TypeOK /\ p \in PeerObject
    BY EndIn DEF RegistryInv
<1>2. end' = [end EXCEPT ![c][s] = p]
    BY DEF Leave
<1>3. p.state = "left" /\ p.temp = end[c][s].temp
    BY <1>1, EndIn DEF PeerObject
<1> HIDE DEF p
<1>4. /\ end' \in [Conn -> [Side -> PeerObject]]
      /\ end'[c][s] = p
      /\ \A d \in Conn, t \in Side : d # c \/ t # s => end'[d][t] = end[d][t]
    BY <1>1, <1>2 DEF TypeOK
<1>5. peers' = finally(c, s) /\ TypeOK'
    BY <1>1, <1>4, Finally DEF TypeOK, Leave
<1>6. s = "out" => ~ end[c][s].temp
    BY DEF RegistryInv, TempKeys
<1> QED BY <1>3, <1>4, <1>5, <1>6, Leaves

\* _dedup_connection keeps the registry, whatever it closes.
LEMMA DedupKeeps ==
    ASSUME RegistryInv, NEW c \in Conn, NEW s \in Side, NEW peer \in PeerObject,
           NEW w, NEW v, dedup_connection(c, s, peer, w, v), UNCHANGED dial,
           end[c][s].state = "reading", peer.state = "reading",
           peer.temp = end[c][s].temp
    PROVE  RegistryInv'
<1>a. TypeOK
    BY DEF RegistryInv
<1>1. CASE end' = [end EXCEPT ![c][s] = peer] /\ UNCHANGED peers
    <2>1. /\ end' \in [Conn -> [Side -> PeerObject]]
          /\ end'[c][s] = peer
          /\ \A d \in Conn, t \in Side : d # c \/ t # s => end'[d][t] = end[d][t]
        BY <1>a, <1>1 DEF TypeOK
    <2>2. TypeOK'
        BY <1>a, <1>1, <2>1 DEF TypeOK
    <2>3. \A d \in Conn, t \in Side : /\ end'[d][t].state = end[d][t].state
                                      /\ end'[d][t].temp = end[d][t].temp
        BY <2>1
    <2>4. \A d \in Conn : end[d]["in"].state \in {"none", "hello"}
                              => ~ end'[d]["in"].authenticated
        BY <2>1, Ends DEF RegistryInv, TempKeys
    <2>5. \A d \in Conn : end[d]["in"].state = "hello" => peers'[Callee[d]][d] = d
        BY <1>1 DEF RegistryInv, TempKeys
    <2> QED BY <1>1, <2>2, <2>3, <2>4, <2>5, Stays
<1>2. ASSUME NEW o \in Rivals(c, s),
             peers' = [peers EXCEPT ![At(c, s)][KeyOf(o[1], o[2])] = NoConn],
             end' = [end EXCEPT ![o[1]][o[2]].closed = TRUE, ![c][s] = peer]
      PROVE  RegistryInv'
    <2>1. /\ o[1] \in Conn \ {c} /\ o[2] \in Side
          /\ end[o[1]][o[2]].authenticated
        BY DEF Rivals
    <2> DEFINE q == [end[o[1]][o[2]] EXCEPT !.closed = TRUE]
    <2>2. end[o[1]][o[2]] \in PeerObject
        BY <2>1, <1>a, EndIn
    <2>3. q \in PeerObject /\ q.state = end[o[1]][o[2]].state
          /\ q.temp = end[o[1]][o[2]].temp /\ q.authenticated
        BY <2>1, <2>2 DEF PeerObject
    <2>4. end' = [end EXCEPT ![o[1]][o[2]] = q, ![c][s] = peer]
        BY <1>2
    <2> HIDE DEF q
    <2>5. /\ end' \in [Conn -> [Side -> PeerObject]]
          /\ end'[c][s] = peer /\ end'[o[1]][o[2]] = q
          /\ \A d \in Conn, t \in Side :
                (d # c \/ t # s) /\ (d # o[1] \/ t # o[2]) => end'[d][t] = end[d][t]
        <3> DEFINE e == [end EXCEPT ![o[1]][o[2]] = q]
        <3>1. /\ e \in [Conn -> [Side -> PeerObject]] /\ e[o[1]][o[2]] = q
              /\ \A d \in Conn, t \in Side : d # o[1] \/ t # o[2] => e[d][t] = end[d][t]
            BY <1>a, <2>1, <2>3 DEF TypeOK
        <3>2. end' = [e EXCEPT ![c][s] = peer]
            BY <2>4
        <3> HIDE DEF e
        <3>3. /\ end' \in [Conn -> [Side -> PeerObject]] /\ end'[c][s] = peer
              /\ \A d \in Conn, t \in Side : d # c \/ t # s => end'[d][t] = e[d][t]
            BY <3>1, <3>2
        <3> QED BY <2>1, <3>1, <3>3
    <2>6. KeyOf(o[1], o[2]) \in Node \cup Conn /\ At(c, s) \in Node
          /\ \A d \in Conn : KeyOf(o[1], o[2]) = d => d = o[1] /\ o[2] = "in"
        BY <2>1, Keys, Ends
    <2>7. /\ peers' \in [Node -> [Node \cup Conn -> Conn \cup {NoConn}]]
          /\ \A m \in Node, j \in Node \cup Conn :
                peers'[m][j] = IF m = At(c, s) /\ j = KeyOf(o[1], o[2])
                               THEN NoConn ELSE peers[m][j]
        BY <1>2, <1>a, <2>6, EntryPut
    <2>8. TypeOK'
        BY <1>a, <2>5, <2>7 DEF TypeOK
    <2>9. \A d \in Conn, t \in Side : /\ end'[d][t].state = end[d][t].state
                                      /\ end'[d][t].temp = end[d][t].temp
        BY <2>3, <2>5
    <2>10. \A d \in Conn : end[d]["in"].state \in {"none", "hello"}
                              => ~ end'[d]["in"].authenticated
        <3> SUFFICES ASSUME NEW d \in Conn, end[d]["in"].state \in {"none", "hello"}
                     PROVE  ~ end'[d]["in"].authenticated
            OBVIOUS
        <3>1. ~ end[d]["in"].authenticated
            BY DEF RegistryInv, TempKeys
        <3>2. (d # c \/ "in" # s) /\ (d # o[1] \/ "in" # o[2])
            BY <2>1, <3>1
        <3> QED BY <3>1, <3>2, <2>5, Ends
    <2>11. \A d \in Conn : end[d]["in"].state = "hello" => peers'[Callee[d]][d] = d
        <3> SUFFICES ASSUME NEW d \in Conn, end[d]["in"].state = "hello"
                     PROVE  peers'[Callee[d]][d] = d
            OBVIOUS
        <3>1. ~ end[d]["in"].authenticated /\ peers[Callee[d]][d] = d
            BY DEF RegistryInv, TempKeys
        <3>2. KeyOf(o[1], o[2]) # d
            BY <2>1, <2>6, <3>1
        <3> QED BY <2>7, <3>1, <3>2, Ends
    <2> QED BY <2>7, <2>8, <2>9, <2>10, <2>11, Stays
<1>3. CASE /\ end' = [end EXCEPT ![c][s] = [peer EXCEPT !.state = "left"]]
           /\ peers' = finally(c, s)
    <2> DEFINE p == [peer EXCEPT !.state = "left"]
    <2>1. p \in PeerObject /\ p.state = "left" /\ p.temp = end[c][s].temp
        BY DEF PeerObject
    <2>2. end' = [end EXCEPT ![c][s] = p]
        BY <1>3
    <2> HIDE DEF p
    <2>3. /\ end' \in [Conn -> [Side -> PeerObject]]
          /\ end'[c][s] = p
          /\ \A d \in Conn, t \in Side : d # c \/ t # s => end'[d][t] = end[d][t]
        BY <1>a, <2>1, <2>2 DEF TypeOK
    <2>4. TypeOK'
        BY <1>a, <1>3, <2>3, Finally DEF TypeOK
    <2>5. s = "out" => ~ end[c][s].temp
        BY DEF RegistryInv, TempKeys
    <2> QED BY <1>3, <2>1, <2>3, <2>4, <2>5, Leaves
<1> QED BY <1>1, <1>2, <1>3 DEF dedup_connection

\* A step that leaves the registry and all states and keys alone.
LEMMA Aside ==
    ASSUME RegistryInv, UNCHANGED <<end, peers>>, dial' \in [Conn -> {"idle", "opening", "open", "failed"}]
    PROVE  RegistryInv'
<1>1. TypeOK'
    BY DEF RegistryInv, TypeOK
<1>2. \A d \in Conn : end[d]["in"].state = "hello" => peers'[Callee[d]][d] = d
    BY DEF RegistryInv, TempKeys
<1>3. \A d \in Conn : end[d]["in"].state \in {"none", "hello"} => ~ end'[d]["in"].authenticated
    BY DEF RegistryInv, TempKeys
<1> QED BY <1>1, <1>2, <1>3, Stays

LEMMA Opened ==
    ASSUME RegistryInv, NEW c \in Conn, opened(c)
    PROVE  RegistryInv'
<1> DEFINE p == [NewPeer EXCEPT !.state = "reading", !.challenge = Caller[c] \in Signing,
                                !.v2 = Caller[c] \in Signing]
<1>a. NewPeer \in PeerObject /\ ~ NewPeer.temp
    BY DEF NewPeer, PeerObject
<1>1. TypeOK /\ p \in PeerObject /\ p.state = "reading" /\ ~ p.temp
    <2>1. \A q \in PeerObject, x \in BOOLEAN :
             LET r == [q EXCEPT !.state = "reading", !.challenge = x, !.v2 = x]
             IN r \in PeerObject /\ r.state = "reading" /\ r.temp = q.temp
        BY DEF PeerObject
    <2>2. (Caller[c] \in Signing) \in BOOLEAN
        OBVIOUS
    <2> QED BY <2>1, <2>2, <1>a DEF RegistryInv
<1>2. end' = [end EXCEPT ![c]["out"] = p] /\ peers' = [peers EXCEPT ![Caller[c]][Callee[c]] = c]
    BY DEF opened
<1> HIDE DEF p
<1>3. /\ end' \in [Conn -> [Side -> PeerObject]]
      /\ end'[c]["out"] = p
      /\ \A d \in Conn, t \in Side : d # c \/ t # "out" => end'[d][t] = end[d][t]
    BY <1>1, <1>2, PutOut
<1>4. /\ Caller[c] \in Node /\ Callee[c] \in Node /\ Callee[c] \in Node \cup Conn
      /\ c \in Conn \cup {NoConn} /\ Caller[c] = At(c, "out") /\ "out" \in Side
    BY Ends
<1>5. /\ peers' \in [Node -> [Node \cup Conn -> Conn \cup {NoConn}]]
      /\ \A n \in Node, k \in Node \cup Conn :
            peers'[n][k] = IF n = Caller[c] /\ k = Callee[c] THEN c ELSE peers[n][k]
    <2> DEFINE a == Caller[c]
               b == Callee[c]
    <2>1. /\ a \in Node /\ b \in Node \cup Conn /\ peers' = [peers EXCEPT ![a][b] = c]
          /\ TypeOK /\ c \in Conn \cup {NoConn}
        BY <1>1, <1>2, <1>4
    <2> HIDE DEF a, b
    <2>2. /\ peers' \in [Node -> [Node \cup Conn -> Conn \cup {NoConn}]]
          /\ \A n \in Node, k \in Node \cup Conn :
                peers'[n][k] = IF n = a /\ k = b THEN c ELSE peers[n][k]
        BY <2>1, EntryPut, ZenonT(60)
    <2> QED BY <2>2 DEF a, b
<1>6. TypeOK'
    BY <1>1, <1>3, <1>5 DEF TypeOK, opened
<1>7. KeyOf(c, "out")' = Callee[c]
    BY <1>1, <1>3, Ends DEF KeyOf
<1>8. \A d \in Conn : peers'[Callee[d]][d] = peers[Callee[d]][d]
    BY <1>4, <1>5, Ends
<1>9. \A n \in Node, k \in Node \cup Conn :
          /\ n = At(c, "out") /\ peers[n][k] = c => k = Callee[c]
    <2> SUFFICES ASSUME NEW k \in Node \cup Conn, peers[Caller[c]][k] = c
                 PROVE  k = Callee[c]
        BY <1>4
    <2>1. Entry(Caller[c], k, c)
        BY <1>4, Ends DEF RegistryInv, Entries
    <2>2. k = KeyOf(c, "out")
        BY <2>1, Ends DEF Entry
    <2> QED BY <2>2, Keys, Ends DEF RegistryInv, TempKeys
<1>10. \A n \in Node, k \in Node \cup Conn :
           \/ n = At(c, "out") /\ k = KeyOf(c, "out")' /\ peers'[n][k] = c
           \/ /\ peers'[n][k] = peers[n][k]
              /\ n = At(c, "out") => peers[n][k] # c \/ k = KeyOf(c, "out")'
    BY <1>4, <1>5, <1>7, <1>9
<1> QED BY <1>1, <1>3, <1>4, <1>6, <1>8, <1>10, Enters DEF Live

LEMMA Connected ==
    ASSUME RegistryInv, NEW c \in Conn, on_connect(c)
    PROVE  RegistryInv'
<1>1. TypeOK /\ end[c]["in"] \in PeerObject /\ end[c]["in"].state = "none"
    BY Ends, EndIn DEF RegistryInv, on_connect
<1>n. \A k \in Node \cup Conn : peers[Callee[c]][k] # c
    <2> SUFFICES ASSUME NEW k \in Node \cup Conn, peers[Callee[c]][k] = c
                 PROVE  FALSE
        OBVIOUS
    <2>1. Entry(Callee[c], k, c)
        BY Ends DEF RegistryInv, Entries
    <2> QED BY <2>1, <1>1, Ends DEF Entry, Live
<1>2. CASE end' = [end EXCEPT ![c]["in"].state = "left", ![c]["in"].closed = TRUE]
           /\ UNCHANGED peers
    <2> DEFINE p == [end[c]["in"] EXCEPT !.state = "left", !.closed = TRUE]
    <2>1. p \in PeerObject /\ p.state = "left" /\ p.temp = end[c]["in"].temp
          /\ end' = [end EXCEPT ![c]["in"] = p]
        BY <1>1, <1>2 DEF PeerObject
    <2> HIDE DEF p
    <2>2. /\ end' \in [Conn -> [Side -> PeerObject]]
          /\ end'[c]["in"] = p
          /\ \A d \in Conn, t \in Side : d # c \/ t # "in" => end'[d][t] = end[d][t]
        BY <1>1, <2>1, PutIn
    <2>3. TypeOK'
        BY <1>1, <1>2, <2>2 DEF TypeOK, on_connect
    <2>4. TempKeys'
        BY <1>2, <2>1, <2>2, Ends DEF RegistryInv, TempKeys
    <2>5. Entries'
        <3> SUFFICES ASSUME NEW n \in Node, NEW k \in Node \cup Conn, NEW d,
                            peers[n][k] = d, d # NoConn
                     PROVE  Entry(n, k, d)'
            BY <1>2, ZenonT(60) DEF Entries, Entry
        <3>1. Entry(n, k, d)
            BY DEF RegistryInv, Entries
        <3>2. PICK t \in Side : At(d, t) = n /\ k = KeyOf(d, t) /\ end[d][t].state \in Live
            BY <3>1 DEF Entry
        <3>3. d \in Conn /\ (d # c \/ t # "in")
            BY <3>1, <3>2, <1>1 DEF Entry, Live
        <3>4. end'[d][t] = end[d][t]
            BY <2>2, <3>3
        <3>5. KeyOf(d, t)' = KeyOf(d, t)
            BY <3>4 DEF KeyOf
        <3> QED BY <3>2, <3>3, <3>4, <3>5 DEF Entry
    <2> QED BY <2>3, <2>4, <2>5 DEF RegistryInv
<1>3. CASE /\ end' = [end EXCEPT ![c]["in"].state = "hello", ![c]["in"].temp = TRUE]
           /\ peers' = [peers EXCEPT ![Callee[c]][c] = c]
    <2> DEFINE p == [end[c]["in"] EXCEPT !.state = "hello", !.temp = TRUE]
    <2>1. p \in PeerObject /\ p.state = "hello" /\ p.temp
          /\ p.authenticated = end[c]["in"].authenticated
          /\ end' = [end EXCEPT ![c]["in"] = p]
        BY <1>1, <1>3 DEF PeerObject
    <2> HIDE DEF p
    <2>2. /\ end' \in [Conn -> [Side -> PeerObject]]
          /\ end'[c]["in"] = p
          /\ \A d \in Conn, t \in Side : d # c \/ t # "in" => end'[d][t] = end[d][t]
        BY <1>1, <2>1, PutIn
    <2>3. /\ Callee[c] \in Node /\ c \in Node \cup Conn /\ "in" \in Side
          /\ c \in Conn \cup {NoConn} /\ Callee[c] = At(c, "in")
        BY Ends
    <2>4. /\ peers' \in [Node -> [Node \cup Conn -> Conn \cup {NoConn}]]
          /\ \A n \in Node, k \in Node \cup Conn :
                peers'[n][k] = IF n = Callee[c] /\ k = c THEN c ELSE peers[n][k]
        BY <1>1, <1>3, <2>3, EntryPut, ZenonT(60)
    <2>5. TypeOK'
        BY <1>1, <2>2, <2>4 DEF TypeOK, on_connect
    <2>6. KeyOf(c, "in")' = c
        BY <2>1, <2>2 DEF KeyOf
    <2>7. \A d \in Conn \ {c} : peers'[Callee[d]][d] = peers[Callee[d]][d]
        BY <2>4, Ends
    <2>8. \A n \in Node, k \in Node \cup Conn :
           \/ n = At(c, "in") /\ k = KeyOf(c, "in")' /\ peers'[n][k] = c
           \/ /\ peers'[n][k] = peers[n][k]
              /\ n = At(c, "in") => peers[n][k] # c
        BY <2>3, <2>4, <2>6, <1>n
    <2>9. ~ end[c]["in"].authenticated /\ peers'[Callee[c]][c] = c
        BY <1>1, <2>3, <2>4 DEF RegistryInv, TempKeys
    <2> QED BY <2>1, <2>2, <2>3, <2>5, <2>7, <2>8, <2>9, Enters DEF Live
<1> QED BY <1>2, <1>3 DEF on_connect

\* The responder before its first line, and the entry it has.
LEMMA Waiting ==
    ASSUME RegistryInv, NEW c \in Conn, end[c]["in"].state = "hello"
    PROVE  /\ end[c]["in"] \in PeerObject /\ end[c]["in"].temp
           /\ peers[Callee[c]][c] = c
           /\ \A k \in Node \cup Conn : peers[Callee[c]][k] = c => k = c
           /\ KeyOf(c, "in") = c
<1>1. end[c]["in"] \in PeerObject /\ end[c]["in"].temp /\ peers[Callee[c]][c] = c
    BY Ends, EndIn DEF RegistryInv, TempKeys
<1>2. KeyOf(c, "in") = c
    BY <1>1 DEF KeyOf
<1>3. ASSUME NEW k \in Node \cup Conn, peers[Callee[c]][k] = c PROVE k = c
    <2>1. Entry(Callee[c], k, c)
        BY <1>3, Ends DEF RegistryInv, Entries
    <2> QED BY <2>1, <1>2, Ends DEF Entry
<1> QED BY <1>1, <1>2, <1>3

LEMMA RekeyedIs ==
    ASSUME TypeOK, NEW c \in Conn
    PROVE  LET n == Callee[c]
               m == Caller[c]
               t == Rekeyed(c)
           IN /\ t \in [Node -> [Node \cup Conn -> Conn \cup {NoConn}]]
              /\ peers[n][m] # NoConn => t = peers
              /\ peers[n][m] = NoConn => \A i \in Node, k \in Node \cup Conn :
                    t[i][k] = IF i = n /\ k = m THEN c
                              ELSE IF i = n /\ k = c THEN NoConn ELSE peers[i][k]
<1> DEFINE n == Callee[c]
           m == Caller[c]
           t == Rekeyed(c)
<1>1. /\ peers \in [Node -> [Node \cup Conn -> Conn \cup {NoConn}]]
      /\ n \in Node /\ m \in Node \cup Conn /\ c \in Node \cup Conn
      /\ c \in Conn \cup {NoConn} /\ NoConn \in Conn \cup {NoConn}
    BY Ends DEF TypeOK
<1>2. peers[n][m] # NoConn => t = peers
    BY DEF Rekeyed
<1>3. peers[n][m] = NoConn => t = [peers EXCEPT ![n][c] = NoConn, ![n][m] = c]
    BY DEF Rekeyed
<1> HIDE DEF n, m, t
<1>4. ASSUME peers[n][m] = NoConn
      PROVE  /\ t \in [Node -> [Node \cup Conn -> Conn \cup {NoConn}]]
             /\ \A i \in Node, k \in Node \cup Conn :
                    t[i][k] = IF i = n /\ k = m THEN c
                              ELSE IF i = n /\ k = c THEN NoConn ELSE peers[i][k]
    <2> DEFINE r == [peers EXCEPT ![n][c] = NoConn]
    <2>1. /\ r \in [Node -> [Node \cup Conn -> Conn \cup {NoConn}]]
          /\ \A i \in Node, k \in Node \cup Conn :
                r[i][k] = IF i = n /\ k = c THEN NoConn ELSE peers[i][k]
        BY <1>1
    <2>2. t = [r EXCEPT ![n][m] = c]
        BY <1>3, <1>4
    <2> HIDE DEF r
    <2>3. /\ t \in [Node -> [Node \cup Conn -> Conn \cup {NoConn}]]
          /\ \A i \in Node, k \in Node \cup Conn :
                t[i][k] = IF i = n /\ k = m THEN c ELSE r[i][k]
        BY <1>1, <2>1, <2>2
    <2>4. \A i \in Node, k \in Node \cup Conn :
             t[i][k] = IF i = n /\ k = m THEN c
                       ELSE IF i = n /\ k = c THEN NoConn ELSE peers[i][k]
        BY <2>1, <2>3
    <2> QED BY <2>3, <2>4
<1>5. /\ t \in [Node -> [Node \cup Conn -> Conn \cup {NoConn}]]
      /\ peers[n][m] # NoConn => t = peers
      /\ peers[n][m] = NoConn => \A i \in Node, k \in Node \cup Conn :
            t[i][k] = IF i = n /\ k = m THEN c
                      ELSE IF i = n /\ k = c THEN NoConn ELSE peers[i][k]
    BY <1>1, <1>2, <1>4
<1> QED BY <1>5 DEF n, m, t

LEMMA Rekeys ==
    ASSUME RegistryInv, NEW c \in Conn, end[c]["in"].state = "hello", peers' = Rekeyed(c),
           NEW p \in PeerObject, p.state = "reading",
           p.temp = (peers[Callee[c]][Caller[c]] # NoConn),
           end' = [end EXCEPT ![c]["in"] = p], UNCHANGED dial
    PROVE  RegistryInv'
<1> DEFINE n == Callee[c]
           m == Caller[c]
<1>1. /\ TypeOK /\ n \in Node /\ m \in Node /\ m \in Node \cup Conn /\ c \in Node \cup Conn
      /\ "in" \in Side /\ At(c, "in") = n /\ Remote(c, "in") = m /\ c # m
    BY Ends DEF RegistryInv
<1>2. /\ end' \in [Conn -> [Side -> PeerObject]]
      /\ end'[c]["in"] = p
      /\ \A d \in Conn, t \in Side : d # c \/ t # "in" => end'[d][t] = end[d][t]
    BY <1>1, PutIn
<1>3. \A k \in Node \cup Conn : peers[n][k] = c => k = c
    BY Waiting
<1>4. KeyOf(c, "in")' = IF p.temp THEN c ELSE m
    BY <1>1, <1>2 DEF KeyOf
<1>5. /\ peers' \in [Node -> [Node \cup Conn -> Conn \cup {NoConn}]]
      /\ p.temp => peers' = peers
      /\ ~ p.temp => \A i \in Node, k \in Node \cup Conn :
            peers'[i][k] = IF i = n /\ k = m THEN c
                           ELSE IF i = n /\ k = c THEN NoConn ELSE peers[i][k]
    <2>1. TypeOK
        BY <1>1
    <2> HIDE DEF n, m
    <2>2. /\ Rekeyed(c) \in [Node -> [Node \cup Conn -> Conn \cup {NoConn}]]
          /\ peers[n][m] # NoConn => Rekeyed(c) = peers
          /\ peers[n][m] = NoConn => \A i \in Node, k \in Node \cup Conn :
                Rekeyed(c)[i][k] = IF i = n /\ k = m THEN c
                                   ELSE IF i = n /\ k = c THEN NoConn ELSE peers[i][k]
        BY <2>1, RekeyedIs, Zenon DEF n, m
    <2>3. p.temp = (peers[n][m] # NoConn)
        BY DEF n, m
    <2> QED BY <2>2, <2>3
<1>6. TypeOK'
    BY <1>1, <1>2, <1>5 DEF TypeOK
<1> HIDE DEF n, m
<1>7. \A d \in Conn \ {c} : peers'[Callee[d]][d] = peers[Callee[d]][d]
    <2> SUFFICES ASSUME NEW d \in Conn \ {c} PROVE peers'[Callee[d]][d] = peers[Callee[d]][d]
        OBVIOUS
    <2>1. Callee[d] \in Node /\ d # m /\ d \in Node \cup Conn
        BY <1>1, Ends
    <2> QED BY <2>1, <1>5
<1>8. \A i \in Node, k \in Node \cup Conn :
           \/ peers'[i][k] = NoConn
           \/ i = At(c, "in") /\ k = KeyOf(c, "in")' /\ peers'[i][k] = c
           \/ /\ peers'[i][k] = peers[i][k]
              /\ i = At(c, "in") => peers[i][k] # c \/ k = KeyOf(c, "in")'
    BY <1>1, <1>3, <1>4, <1>5
<1> QED BY <1>1, <1>2, <1>6, <1>7, <1>8, Enters DEF Live

LEMMA HelloReceived ==
    ASSUME RegistryInv, NEW c \in Conn, hello(c) \/ hello_auth_inbound(c)
    PROVE  RegistryInv'
<1> DEFINE temp == peers[Callee[c]][Caller[c]] # NoConn
           e == end[c]["in"]
<1>1. /\ TypeOK /\ e \in PeerObject /\ e.state = "hello"
      /\ peers[Callee[c]][c] = c /\ KeyOf(c, "in") = c /\ temp \in BOOLEAN
    BY Waiting DEF RegistryInv, hello, hello_auth_inbound, FirstLine
<1>2. CASE hello(c)
    <2> DEFINE p == [e EXCEPT !.state = "reading", !.temp = temp]
    <2>1. p \in PeerObject /\ p.state = "reading" /\ p.temp = temp
        <3> HIDE DEF temp, e
        <3> QED BY <1>1 DEF PeerObject
    <2>2. /\ end' = [end EXCEPT ![c]["in"] = p] /\ peers' = Rekeyed(c) /\ UNCHANGED dial
        BY <1>2 DEF hello
    <2> HIDE DEF p
    <2> QED BY <1>1, <2>1, <2>2, Rekeys
<1>3. CASE /\ peers' = Rekeyed(c) /\ UNCHANGED dial
           /\ end' = [end EXCEPT ![c]["in"] =
                   [@ EXCEPT !.state = "reading", !.temp = temp,
                             !.challenge = TRUE, !.v2 = TRUE]]
    <2> DEFINE p == [e EXCEPT !.state = "reading", !.temp = temp,
                              !.challenge = TRUE, !.v2 = TRUE]
    <2>1. p \in PeerObject /\ p.state = "reading" /\ p.temp = temp
        <3> HIDE DEF temp, e
        <3> QED BY <1>1 DEF PeerObject
    <2>2. end' = [end EXCEPT ![c]["in"] = p]
        BY <1>3
    <2> HIDE DEF p
    <2> QED BY <1>1, <1>3, <2>1, <2>2, Rekeys
<1>4. CASE /\ peers' = [peers EXCEPT ![Callee[c]][c] = NoConn] /\ UNCHANGED dial
           /\ end' = [end EXCEPT ![c]["in"] = [@ EXCEPT !.state = "left", !.temp = temp]]
    <2> DEFINE p == [e EXCEPT !.state = "left", !.temp = temp]
    <2>1. p \in PeerObject /\ p.state = "left"
        <3> HIDE DEF temp, e
        <3> QED BY <1>1 DEF PeerObject
    <2>2. end' = [end EXCEPT ![c]["in"] = p]
        BY <1>4
    <2> HIDE DEF p
    <2>3. /\ end' \in [Conn -> [Side -> PeerObject]]
          /\ end'[c]["in"] = p
          /\ \A d \in Conn, t \in Side : d # c \/ t # "in" => end'[d][t] = end[d][t]
        BY <1>1, <2>1, <2>2, PutIn
    <2>4. peers' = finally(c, "in")
        <3>1. At(c, "in") = Callee[c]
            BY Ends
        <3> QED BY <1>1, <1>4, <3>1 DEF finally
    <2>5. TypeOK' /\ "in" \in Side
        <3>1. "in" \in Side
            BY Ends
        <3>2. peers' \in [Node -> [Node \cup Conn -> Conn \cup {NoConn}]]
            BY <2>4, <3>1, Finally
        <3> QED BY <1>1, <1>4, <2>3, <3>1, <3>2 DEF TypeOK
    <2> QED BY <2>1, <2>3, <2>4, <2>5, Leaves
<1> QED BY <1>2, <1>3, <1>4 DEF hello_auth_inbound

LEMMA RegistryInit == Init => RegistryInv
<1> SUFFICES ASSUME Init PROVE RegistryInv
    OBVIOUS
<1>1. NewPeer \in PeerObject /\ NewPeer.state = "none" /\ ~ NewPeer.temp
      /\ ~ NewPeer.authenticated
    BY DEF NewPeer, PeerObject
<1>2. \A c \in Conn, s \in Side : end[c][s] = NewPeer
    BY DEF Init
<1>3. TypeOK
    BY <1>1 DEF Init, TypeOK
<1>4. TempKeys
    BY <1>1, <1>2, Ends DEF TempKeys
<1>5. Entries
    BY DEF Init, Entries
<1> QED BY <1>3, <1>4, <1>5 DEF RegistryInv

LEMMA RegistryNext == RegistryInv /\ [Next]_vars => RegistryInv'
<1> SUFFICES ASSUME RegistryInv, [Next]_vars PROVE RegistryInv'
    OBVIOUS
<1>a. TypeOK
    BY DEF RegistryInv
<1>1. ASSUME NEW c \in Conn, connect(c) \/ connect_failed(c) PROVE RegistryInv'
    BY <1>1, <1>a, Aside DEF connect, connect_failed, TypeOK
<1>2. ASSUME NEW c \in Conn, handle_auth_response(c) PROVE RegistryInv'
    <2> DEFINE e == end[c]["out"]
               p == [authenticated(e) EXCEPT !.encrypted = Encrypts(c), !.msgpack = Packs(c)]
    <2>1. e \in PeerObject /\ e.state = "reading" /\ "out" \in Side
        BY <1>2, <1>a, Ends, EndIn DEF handle_auth_response, Reads
    <2>2. Encrypts(c) \in BOOLEAN /\ Packs(c) \in BOOLEAN
        BY DEF Encrypts, Packs
    <2>3. p \in PeerObject /\ p.state = "reading" /\ p.temp = e.temp
        <3> HIDE DEF e
        <3> QED BY <2>1, <2>2 DEF PeerObject, authenticated
    <2>4. dedup_connection(c, "out", p,
              Sent(Taken(c, "out"), c, "out", handshake_tail(c)),
              Sent(Taken(c, "out"), c, "out", <<"auth_confirm">>))
        BY <1>2 DEF handle_auth_response
    <2> HIDE DEF p
    <2>5. UNCHANGED dial
        BY <1>2 DEF handle_auth_response
    <2> QED BY <2>1, <2>3, <2>4, <2>5, DedupKeeps
<1>3. ASSUME NEW c \in Conn, handle_auth_confirm(c) PROVE RegistryInv'
    <2> DEFINE e == end[c]["in"]
               p == [authenticated(e) EXCEPT !.msgpack = Packs(c)]
    <2>1. e \in PeerObject /\ e.state = "reading" /\ "in" \in Side
        BY <1>3, <1>a, Ends, EndIn DEF handle_auth_confirm, Reads
    <2>2. Packs(c) \in BOOLEAN
        BY DEF Packs
    <2>3. p \in PeerObject /\ p.state = "reading" /\ p.temp = e.temp
        <3> HIDE DEF e
        <3> QED BY <2>1, <2>2 DEF PeerObject, authenticated
    <2>4. dedup_connection(c, "in", p, Taken(c, "in"), Taken(c, "in"))
        BY <1>3 DEF handle_auth_confirm
    <2> HIDE DEF p
    <2>5. UNCHANGED dial
        BY <1>3 DEF handle_auth_confirm
    <2> QED BY <2>1, <2>3, <2>4, <2>5, DedupKeeps
<1>4. ASSUME NEW c \in Conn, handle_session_key(c) PROVE RegistryInv'
    <2> DEFINE e == end[c]["in"]
               p == [e EXCEPT !.encrypted = e.authenticated]
    <2>1. e \in PeerObject /\ e.state = "reading"
        BY <1>4, <1>a, Ends, EndIn DEF handle_session_key, Reads
    <2>2. p \in PeerObject /\ p.state = "reading" /\ p.temp = e.temp
          /\ p.authenticated = e.authenticated
        <3> HIDE DEF e
        <3> QED BY <2>1 DEF PeerObject
    <2>3. end' = [end EXCEPT ![c]["in"] = p] /\ UNCHANGED <<dial, peers>>
        BY <1>4 DEF handle_session_key
    <2> HIDE DEF p
    <2>4. /\ end' \in [Conn -> [Side -> PeerObject]]
          /\ end'[c]["in"] = p
          /\ \A d \in Conn, t \in Side : d # c \/ t # "in" => end'[d][t] = end[d][t]
        BY <1>a, <2>2, <2>3, PutIn
    <2>5. TypeOK'
        BY <1>a, <2>3, <2>4 DEF TypeOK
    <2>6. \A d \in Conn, t \in Side : /\ end'[d][t].state = end[d][t].state
                                      /\ end'[d][t].temp = end[d][t].temp
                                      /\ end'[d][t].authenticated = end[d][t].authenticated
        BY <2>1, <2>2, <2>4
    <2>7. \A d \in Conn : end[d]["in"].state = "hello" => peers'[Callee[d]][d] = d
        BY <2>3 DEF RegistryInv, TempKeys
    <2>8. \A d \in Conn : end[d]["in"].state \in {"none", "hello"}
                              => ~ end'[d]["in"].authenticated
        BY <2>6, Ends DEF RegistryInv, TempKeys
    <2> QED BY <2>3, <2>5, <2>6, <2>7, <2>8, Stays
<1>5. ASSUME NEW c \in Conn, NEW s \in Side, auth_timeout(c, s) PROVE RegistryInv'
    <2> DEFINE p == [end[c][s] EXCEPT !.state = "left", !.challenge = FALSE]
    <2>1. p \in PeerObject
        BY <1>a, EndIn
    <2>2. end[c][s] \in PeerObject /\ (s = "out" => ~ end[c][s].temp)
        BY <1>a, EndIn DEF RegistryInv, TempKeys
    <2>3. p.state = "left" /\ p.temp = end[c][s].temp
        BY <2>2 DEF PeerObject
    <2>4. end' = [end EXCEPT ![c][s] = p] /\ peers' = finally(c, s) /\ UNCHANGED dial
        BY <1>5 DEF auth_timeout
    <2> HIDE DEF p
    <2>5. /\ end' \in [Conn -> [Side -> PeerObject]]
          /\ end'[c][s] = p
          /\ \A d \in Conn, t \in Side : d # c \/ t # s => end'[d][t] = end[d][t]
        BY <1>a, <2>1, <2>4 DEF TypeOK
    <2>6. TypeOK'
        BY <1>a, <2>4, <2>5, Finally DEF TypeOK
    <2> QED BY <2>2, <2>3, <2>4, <2>5, <2>6, Leaves
<1>6. ASSUME NEW c \in Conn, NEW s \in Side, read_data(c, s) \/ read_ends(c, s)
      PROVE  RegistryInv'
    <2>1. CASE Leave(c, s)
        BY <1>6, <2>1, LeaveKeeps DEF read_data, read_ends
    <2>2. CASE UNCHANGED <<end, peers>>
        BY <1>6, <2>2, <1>a, Aside DEF read_data, read_ends, TypeOK
    <2> QED BY <1>6, <2>1, <2>2 DEF read_data, read_ends
<1>7. ASSUME NEW c \in Conn, hello_timeout(c) PROVE RegistryInv'
    BY <1>7, LeaveKeeps, Ends DEF hello_timeout
<1>8. ASSUME NEW c \in Conn, ignore_hello(c) PROVE RegistryInv'
    BY <1>8, <1>a, Aside DEF ignore_hello, TypeOK
<1>9. ASSUME NEW n \in Node, broadcast(n) PROVE RegistryInv'
    BY <1>9, <1>a, Aside DEF broadcast, TypeOK
<1>10. CASE UNCHANGED vars
    BY <1>10, <1>a, Aside DEF vars, TypeOK
<1> QED BY <1>1, <1>2, <1>3, <1>4, <1>5, <1>6, <1>7, <1>8, <1>9, <1>10,
           Opened, Connected, HelloReceived DEF Next, Handshake

-----------------------------------------------------------------------------
\* p2p.peers never holds an end whose read loop is gone, whichever of the loops,
\* the deadlines, the bans and the duplicates ends it (p2p.py, the finally of
\* _read_loop, _update_peer_key and _dedup_connection): broadcasts go to loops.
THEOREM NobodyGone == Spec => []RegisteredLive
<1>1. RegistryInv => RegisteredLive
    <2> SUFFICES ASSUME RegistryInv, NEW c \in Conn, NEW s \in Side,
                        NEW k \in Node \cup Conn, peers[At(c, s)][k] = c
                 PROVE  end[c][s].state \in {"hello", "reading"}
        BY DEF RegisteredLive, Registered
    <2>1. Entry(At(c, s), k, c)
        BY Ends DEF RegistryInv, Entries
    <2> QED BY <2>1, Ends DEF Entry, Live
<1> QED BY <1>1, RegistryInit, RegistryNext, PTL DEF Spec

-----------------------------------------------------------------------------
(* Duplicates *)

\* No address is dialled twice, neither at once nor again.
DistinctAddresses ==
    \A c, d \in Conn : Caller[c] = Caller[d] /\ Callee[c] = Callee[d] => c = d

\* Both ends of a connection decide alike.
LEMMA KeepsIs ==
    ASSUME NEW c \in Conn, NEW s \in Side
    PROVE  /\ keeps(c, s) <=> Caller[c] < Callee[c]
           /\ ~ keeps(c, s) <=> Callee[c] < Caller[c]
<1>1. Caller[c] \in Nat /\ Callee[c] \in Nat /\ Caller[c] # Callee[c]
    BY Ends, SessionAssumption
<1>2. CASE s = "out"
    BY <1>1, <1>2, Ends DEF keeps
<1>3. CASE s = "in"
    BY <1>1, <1>3, Ends DEF keeps
<1> QED BY <1>2, <1>3, Ends

LEMMA RivalIs ==
    ASSUME DistinctAddresses, NEW c \in Conn, NEW s \in Side, NEW o \in Rivals(c, s)
    PROVE  o[1] \in Conn /\ Caller[o[1]] = Callee[c] /\ Callee[o[1]] = Caller[c]
<1>1. /\ o[1] \in Conn /\ o[1] # c /\ o[2] \in Side
      /\ At(o[1], o[2]) = At(c, s) /\ Remote(o[1], o[2]) = Remote(c, s)
    BY DEF Rivals
<1> DEFINE d == o[1]
           t == o[2]
<1> HIDE DEF d, t
<1>2. d \in Conn /\ d # c /\ t \in Side /\ At(d, t) = At(c, s) /\ Remote(d, t) = Remote(c, s)
    BY <1>1 DEF d, t
<1>3. t # s
    BY <1>2, Ends DEF DistinctAddresses
<1>4. Caller[d] = Callee[c] /\ Callee[d] = Caller[c]
    BY <1>2, <1>3, Ends
<1> QED BY <1>2, <1>4 DEF d

LEMMA SmallerDedup ==
    ASSUME DistinctAddresses, Smaller, NEW c \in Conn, NEW s \in Side, NEW peer, NEW w, NEW v,
           dedup_connection(c, s, peer, w, v)
    PROVE  Smaller'
<1>1. CASE UNCHANGED duplicates
    BY <1>1 DEF Smaller
<1>2. ASSUME NEW o \in Rivals(c, s), keeps(c, s), duplicates' = duplicates \cup {o[1]}
      PROVE  Smaller'
    <2>1. o[1] \in Conn /\ Caller[o[1]] = Callee[c] /\ Callee[o[1]] = Caller[c]
          /\ Caller[c] < Callee[c]
        BY <1>2, RivalIs, KeepsIs
    <2> QED BY <1>2, <2>1 DEF Smaller
<1>3. ASSUME NEW o \in Rivals(c, s), ~ keeps(c, s), duplicates' = duplicates \cup {c}
      PROVE  Smaller'
    <2>1. o[1] \in Conn /\ Caller[o[1]] = Callee[c] /\ Callee[o[1]] = Caller[c]
          /\ Callee[c] < Caller[c]
        BY <1>3, RivalIs, KeepsIs
    <2> QED BY <1>3, <2>1 DEF Smaller
<1> QED BY <1>1, <1>2, <1>3 DEF dedup_connection

LEMMA SmallerNext == DistinctAddresses /\ Smaller /\ [Next]_vars => Smaller'
<1> SUFFICES ASSUME DistinctAddresses, Smaller, [Next]_vars PROVE Smaller'
    OBVIOUS
<1>1. ASSUME NEW c \in Conn, handle_auth_response(c) \/ handle_auth_confirm(c) PROVE Smaller'
    BY <1>1, SmallerDedup, Ends DEF handle_auth_response, handle_auth_confirm
<1>2. CASE UNCHANGED duplicates
    BY <1>2 DEF Smaller
<1>3. ASSUME NEW c \in Conn,
             \/ connect(c) \/ opened(c) \/ connect_failed(c) \/ on_connect(c) \/ hello(c)
             \/ hello_auth_inbound(c) \/ handle_session_key(c) \/ ignore_hello(c)
             \/ hello_timeout(c)
      PROVE  UNCHANGED duplicates
    BY <1>3 DEF connect, opened, connect_failed, on_connect, hello, hello_auth_inbound,
        handle_session_key, ignore_hello, hello_timeout
<1>4. ASSUME NEW c \in Conn, NEW s \in Side,
             auth_timeout(c, s) \/ read_data(c, s) \/ read_ends(c, s)
      PROVE  UNCHANGED duplicates
    BY <1>4 DEF auth_timeout, read_data, read_ends
<1>5. ASSUME NEW n \in Node, broadcast(n) PROVE UNCHANGED duplicates
    BY <1>5 DEF broadcast
<1> QED BY <1>1, <1>2, <1>3, <1>4, <1>5 DEF Next, Handshake, vars

\* Where no address is dialled twice, two nodes that dial each other at the same
\* time, and each close the duplicate that they see, never close both: both ends
\* of a connection keep it or give it up by the same rule (p2p.py,
\* _dedup_connection).
THEOREM NeverBoth == DistinctAddresses /\ Spec => []OneIsKept
<1>1. DistinctAddresses /\ Init => DistinctAddresses /\ Smaller
    BY DEF Init, Smaller
<1>2. DistinctAddresses /\ Smaller /\ [Next]_vars => (DistinctAddresses /\ Smaller)'
    BY SmallerNext DEF DistinctAddresses
<1>3. DistinctAddresses /\ Smaller => OneIsKept
    <2> SUFFICES ASSUME Smaller, NEW c \in duplicates
                 PROVE  \E d \in Conn \ duplicates :
                            {Caller[d], Callee[d]} = {Caller[c], Callee[c]}
        BY DEF OneIsKept
    <2>1. c \in Conn /\ Callee[c] < Caller[c]
        BY DEF Smaller
    <2>2. PICK d \in Conn : Caller[d] = Callee[c] /\ Callee[d] = Caller[c]
        BY DEF Smaller
    <2>3. Caller[c] \in Nat /\ Callee[c] \in Nat
        BY <2>1, Ends, SessionAssumption
    <2>4. d \notin duplicates
        BY <2>1, <2>2, <2>3 DEF Smaller
    <2> QED BY <2>2, <2>4
<1> QED BY <1>1, <1>2, <1>3, PTL DEF Spec

-----------------------------------------------------------------------------
(* What is under way *)

LEMMA UnderTail ==
    ASSUME NEW w \in Seq(Message), w # <<>>, NEW type
    PROVE  /\ Under(Tail(w), type) => Under(w, type)
           /\ Under(w, type) => Under(Tail(w), type) \/ Head(w).type = type
           /\ Head(w).type = type => Under(w, type)
           /\ Head(w) = w[1] /\ 1 \in 1..Len(w)
<1>1. /\ Len(w) \in Nat \ {0} /\ Len(Tail(w)) = Len(w) - 1 /\ Head(w) = w[1]
      /\ \A i \in 1..Len(Tail(w)) : Tail(w)[i] = w[i + 1]
    BY LenProperties, EmptySeq, HeadTailProperties
<1>2. ASSUME NEW i \in 1..Len(Tail(w)), Tail(w)[i].type = type PROVE Under(w, type)
    <2>1. i + 1 \in 1..Len(w) /\ w[i + 1].type = type
        BY <1>1, <1>2
    <2> QED BY <2>1 DEF Under
<1>3. ASSUME NEW i \in 1..Len(w), w[i].type = type
      PROVE  Under(Tail(w), type) \/ Head(w).type = type
    <2>1. CASE i = 1
        BY <1>1, <1>3, <2>1
    <2>2. CASE i # 1
        <3>1. i - 1 \in 1..Len(Tail(w)) /\ (i - 1) + 1 = i
            BY <1>1, <2>2
        <3>2. Tail(w)[i - 1].type = type
            BY <1>1, <1>3, <3>1
        <3> QED BY <3>1, <3>2 DEF Under
    <2> QED BY <2>1, <2>2
<1>4. 1 \in 1..Len(w)
    BY <1>1
<1> QED BY <1>1, <1>2, <1>3, <1>4 DEF Under

LEMMA UnderConcat ==
    ASSUME NEW w \in Seq(Message), NEW m \in Seq(Message), NEW type
    PROVE  Under(w \o m, type) <=> Under(w, type) \/ Under(m, type)
<1>1. /\ Len(w) \in Nat /\ Len(m) \in Nat /\ Len(w \o m) = Len(w) + Len(m)
      /\ \A i \in 1..(Len(w) + Len(m)) :
            (w \o m)[i] = IF i <= Len(w) THEN w[i] ELSE m[i - Len(w)]
    BY LenProperties, ConcatProperties
<1>2. ASSUME NEW i \in 1..Len(w), w[i].type = type PROVE Under(w \o m, type)
    <2>1. i \in 1..Len(w \o m) /\ (w \o m)[i] = w[i]
        BY <1>1
    <2> QED BY <1>2, <2>1 DEF Under
<1>3. ASSUME NEW i \in 1..Len(m), m[i].type = type PROVE Under(w \o m, type)
    <2>1. Len(w) + i \in 1..Len(w \o m) /\ (w \o m)[Len(w) + i] = m[i]
        BY <1>1
    <2> QED BY <1>3, <2>1 DEF Under
<1>4. ASSUME NEW i \in 1..Len(w \o m), (w \o m)[i].type = type
      PROVE  Under(w, type) \/ Under(m, type)
    <2>1. CASE i <= Len(w)
        BY <1>1, <1>4, <2>1 DEF Under
    <2>2. CASE ~ (i <= Len(w))
        <3>1. i - Len(w) \in 1..Len(m) /\ (w \o m)[i] = m[i - Len(w)]
            BY <1>1, <2>2
        <3> QED BY <1>4, <3>1 DEF Under
    <2> QED BY <2>1, <2>2
<1> QED BY <1>2, <1>3, <1>4 DEF Under

\* Taking the first message keeps the order, if the end reaches what it brings.
LEMMA OrderedTail ==
    ASSUME NEW w \in Seq(Message), w # <<>>, NEW a, NEW k, NEW b, NEW l, Ordered(w, a, k),
           a => b, k => l, Head(w).type = "auth_confirm" => b,
           Head(w).type = "session_key" => l
    PROVE  Ordered(Tail(w), b, l)
<1>1. /\ Len(w) \in Nat \ {0} /\ Len(Tail(w)) = Len(w) - 1 /\ Head(w) = w[1]
      /\ \A i \in 1..Len(Tail(w)) : Tail(w)[i] = w[i + 1]
    BY LenProperties, EmptySeq, HeadTailProperties
<1>2. ASSUME NEW i \in 1..Len(Tail(w)), NEW type, Before(w, i + 1, type)
      PROVE  Head(w).type = type \/ Before(Tail(w), i, type)
    <2>1. PICK j \in 1..((i + 1) - 1) : w[j].type = type
        BY <1>2 DEF Before
    <2>2. CASE j = 1
        BY <1>1, <2>1, <2>2
    <2>3. CASE j # 1
        <3>1. j - 1 \in 1..(i - 1) /\ j - 1 \in 1..Len(Tail(w)) /\ (j - 1) + 1 = j
            BY <1>1, <2>3
        <3>2. Tail(w)[j - 1].type = type
            BY <1>1, <2>1, <3>1
        <3> QED BY <3>1, <3>2 DEF Before
    <2> QED BY <2>2, <2>3
<1> SUFFICES ASSUME NEW i \in 1..Len(Tail(w))
             PROVE  /\ Tail(w)[i].trusted \/ Tail(w)[i].type = "session_key"
                          => b \/ Before(Tail(w), i, "auth_confirm")
                    /\ Tail(w)[i].encrypted => l \/ Before(Tail(w), i, "session_key")
    BY DEF Ordered
<1>3. i + 1 \in 1..Len(w) /\ Tail(w)[i] = w[i + 1]
    BY <1>1
<1>4. /\ w[i + 1].trusted \/ w[i + 1].type = "session_key"
            => a \/ Before(w, i + 1, "auth_confirm")
      /\ w[i + 1].encrypted => k \/ Before(w, i + 1, "session_key")
    BY <1>3 DEF Ordered
<1>5. Before(w, i + 1, "auth_confirm") => b \/ Before(Tail(w), i, "auth_confirm")
    BY <1>2
<1>6. Before(w, i + 1, "session_key") => l \/ Before(Tail(w), i, "session_key")
    BY <1>2
<1> QED BY <1>3, <1>4, <1>5, <1>6

\* So does sending, if what the new messages need is under way.
LEMMA OrderedConcat ==
    ASSUME NEW w \in Seq(Message), NEW m \in Seq(Message), NEW a, NEW k, Ordered(w, a, k),
           \A j \in 1..Len(m) :
              /\ m[j].trusted \/ m[j].type = "session_key"
                    => a \/ Under(w, "auth_confirm") \/ Before(m, j, "auth_confirm")
              /\ m[j].encrypted
                    => k \/ Under(w, "session_key") \/ Before(m, j, "session_key")
    PROVE  Ordered(w \o m, a, k)
<1>1. /\ Len(w) \in Nat /\ Len(m) \in Nat /\ Len(w \o m) = Len(w) + Len(m)
      /\ \A i \in 1..(Len(w) + Len(m)) :
            (w \o m)[i] = IF i <= Len(w) THEN w[i] ELSE m[i - Len(w)]
    BY LenProperties, ConcatProperties
<1> SUFFICES ASSUME NEW i \in 1..Len(w \o m)
             PROVE  /\ (w \o m)[i].trusted \/ (w \o m)[i].type = "session_key"
                          => a \/ Before(w \o m, i, "auth_confirm")
                    /\ (w \o m)[i].encrypted => k \/ Before(w \o m, i, "session_key")
    BY DEF Ordered
<1>2. CASE i <= Len(w)
    <2>1. i \in 1..Len(w) /\ (w \o m)[i] = w[i]
        BY <1>1, <1>2
    <2>2. ASSUME NEW type, Before(w, i, type) PROVE Before(w \o m, i, type)
        <3>1. PICK j \in 1..(i - 1) : w[j].type = type
            BY <2>2 DEF Before
        <3>2. (w \o m)[j] = w[j]
            BY <1>1, <1>2
        <3> QED BY <3>1, <3>2 DEF Before
    <2>3. /\ w[i].trusted \/ w[i].type = "session_key" => a \/ Before(w, i, "auth_confirm")
          /\ w[i].encrypted => k \/ Before(w, i, "session_key")
        BY <2>1 DEF Ordered
    <2> QED BY <2>1, <2>2, <2>3
<1>3. CASE ~ (i <= Len(w))
    <2> DEFINE j == i - Len(w)
    <2>1. j \in 1..Len(m) /\ (w \o m)[i] = m[j] /\ i = Len(w) + j
        BY <1>1, <1>3
    <2> HIDE DEF j
    <2>2. ASSUME NEW type, Under(w, type) PROVE Before(w \o m, i, type)
        <3>1. PICK h \in 1..Len(w) : w[h].type = type
            BY <2>2 DEF Under
        <3>2. (w \o m)[h] = w[h] /\ h \in 1..(i - 1)
            BY <1>1, <1>3
        <3> QED BY <3>1, <3>2 DEF Before
    <2>3. ASSUME NEW type, Before(m, j, type) PROVE Before(w \o m, i, type)
        <3>1. PICK h \in 1..(j - 1) : m[h].type = type
            BY <2>3 DEF Before
        <3>2. Len(w) + h \in 1..(i - 1) /\ (w \o m)[Len(w) + h] = m[h]
            BY <1>1, <2>1
        <3> QED BY <3>1, <3>2 DEF Before
    <2>4. /\ m[j].trusted \/ m[j].type = "session_key"
                => a \/ Under(w, "auth_confirm") \/ Before(m, j, "auth_confirm")
          /\ m[j].encrypted => k \/ Under(w, "session_key") \/ Before(m, j, "session_key")
        BY <2>1
    <2> QED BY <2>1, <2>2, <2>3, <2>4
<1> QED BY <1>2, <1>3

-----------------------------------------------------------------------------
(* Steps of one connection, in the terms of Agreed *)

\* Nothing new is under way, or only what is neither trusted nor encrypted.
Plain(v, w) ==
    \A i \in 1..Len(v) : \/ ~ v[i].trusted /\ ~ v[i].encrypted
                         \/ \E j \in 1..Len(w) : v[i] = w[j]

LEMMA PlainKeeps ==
    ASSUME NEW v, NEW w, Plain(v, w), NEW a, NEW k,
           \A i \in 1..Len(w) : (w[i].trusted => a) /\ (w[i].encrypted => k)
    PROVE  \A i \in 1..Len(v) : (v[i].trusted => a) /\ (v[i].encrypted => k)
BY DEF Plain

LEMMA PlainTail ==
    ASSUME NEW w \in Seq(Message), w # <<>>
    PROVE  Plain(Tail(w), w)
<1>1. /\ Len(w) \in Nat \ {0} /\ Len(Tail(w)) = Len(w) - 1
      /\ \A i \in 1..Len(Tail(w)) : Tail(w)[i] = w[i + 1]
    BY LenProperties, EmptySeq, HeadTailProperties
<1>2. \A i \in 1..Len(Tail(w)) : i + 1 \in 1..Len(w) /\ Tail(w)[i] = w[i + 1]
    BY <1>1
<1> QED BY <1>2 DEF Plain

LEMMA PlainConcat ==
    ASSUME NEW w \in Seq(Message), NEW m \in Seq(Message),
           \A i \in 1..Len(m) : ~ m[i].trusted /\ ~ m[i].encrypted
    PROVE  Plain(w \o m, w)
<1>1. /\ Len(w) \in Nat /\ Len(m) \in Nat /\ Len(w \o m) = Len(w) + Len(m)
      /\ \A i \in 1..(Len(w) + Len(m)) :
            (w \o m)[i] = IF i <= Len(w) THEN w[i] ELSE m[i - Len(w)]
    BY LenProperties, ConcatProperties
<1> SUFFICES ASSUME NEW i \in 1..Len(w \o m)
             PROVE  \/ ~ (w \o m)[i].trusted /\ ~ (w \o m)[i].encrypted
                    \/ \E j \in 1..Len(w) : (w \o m)[i] = w[j]
    BY DEF Plain
<1>2. CASE i <= Len(w)
    BY <1>1, <1>2
<1>3. CASE ~ (i <= Len(w))
    <2>1. i - Len(w) \in 1..Len(m) /\ (w \o m)[i] = m[i - Len(w)]
        BY <1>1, <1>3
    <2> QED BY <2>1
<1> QED BY <1>2, <1>3

\* The responder reads a message and reaches what it brings, or leaves.
LEMMA ResponderReads ==
    ASSUME NEW open, NEW out, NEW in, NEW wi \in Seq(Message), NEW wo, NEW in2, NEW wo2,
           Agreed(open, out, in, wi, wo), wi # <<>>, Plain(wo2, wo),
           in.authenticated => in2.authenticated, in.encrypted => in2.encrypted,
           in2.authenticated => in.authenticated \/ Head(wi).type = "auth_confirm",
           in2.encrypted => in.encrypted \/ Head(wi).type = "session_key",
           in2.state # "left" =>
               /\ in.state # "left"
               /\ Head(wi).type = "auth_confirm" => in2.authenticated
               /\ Head(wi).type = "session_key" => in2.encrypted
    PROVE  Agreed(open, out, in2, Tail(wi), wo2)
<1>1. open
    BY DEF Agreed
<1>2. \A type : /\ Under(Tail(wi), type) => Under(wi, type)
                /\ Under(wi, type) => Under(Tail(wi), type) \/ Head(wi).type = type
                /\ Head(wi).type = type => Under(wi, type)
    BY UnderTail
<1>3. /\ in2.authenticated => out.authenticated
      /\ in2.encrypted => out.encrypted
    BY <1>2 DEF Agreed
<1>4. \A i \in 1..Len(wo2) : /\ wo2[i].trusted => out.authenticated
                             /\ wo2[i].encrypted => out.encrypted
    BY PlainKeeps DEF Agreed
<1>5. ASSUME in2.state # "left"
      PROVE  /\ Ordered(Tail(wi), in2.authenticated, in2.encrypted)
             /\ out.authenticated /\ out.state # "left" =>
                  /\ in2.authenticated \/ Under(Tail(wi), "auth_confirm")
                  /\ out.encrypted => in2.encrypted \/ Under(Tail(wi), "session_key")
    <2>1. Ordered(wi, in.authenticated, in.encrypted)
        BY <1>5 DEF Agreed
    <2>2. Ordered(Tail(wi), in2.authenticated, in2.encrypted)
        BY <1>5, <2>1, OrderedTail
    <2>3. out.authenticated /\ out.state # "left" =>
             /\ in.authenticated \/ Under(wi, "auth_confirm")
             /\ out.encrypted => in.encrypted \/ Under(wi, "session_key")
        BY <1>5 DEF Agreed
    <2> QED BY <1>2, <1>5, <2>2, <2>3
<1> QED BY <1>1, <1>2, <1>3, <1>4, <1>5 DEF Agreed

\* The responder begins, leaves or is closed.
LEMMA ResponderMoves ==
    ASSUME NEW open, NEW out, NEW in, NEW wi, NEW wo, NEW in2,
           Agreed(open, out, in, wi, wo),
           in.authenticated <=> in2.authenticated, in.encrypted <=> in2.encrypted,
           in2.state # "left" => in.state # "left"
    PROVE  Agreed(open, out, in2, wi, wo)
<1>1. Ordered(wi, in.authenticated, in.encrypted)
          => Ordered(wi, in2.authenticated, in2.encrypted)
    BY DEF Ordered
<1> QED BY <1>1 DEF Agreed

\* The initiator reads what changes nothing, leaves or is closed.
LEMMA InitiatorMoves ==
    ASSUME NEW open, NEW out, NEW in, NEW wi, NEW wo, NEW out2, NEW wo2,
           Agreed(open, out, in, wi, wo), Plain(wo2, wo), open \/ out2 = out,
           out.authenticated <=> out2.authenticated, out.encrypted <=> out2.encrypted,
           out2.challenge => out.challenge, out2.closed => out.closed \/ out.authenticated,
           out2.state # "left" => out.state # "left"
    PROVE  Agreed(open, out2, in, wi, wo2)
<1>1. \A i \in 1..Len(wo2) : /\ wo2[i].trusted => out.authenticated
                             /\ wo2[i].encrypted => out.encrypted
    BY PlainKeeps DEF Agreed
<1> QED BY <1>1 DEF Agreed

\* The initiator authenticates the responder and replies with m, or leaves
\* without the session key.
LEMMA InitiatorReplies ==
    ASSUME NEW open, NEW out, NEW in, NEW wi \in Seq(Message), NEW wo, NEW out2,
           NEW m \in Seq(Message), NEW wo2,
           Agreed(open, out, in, wi, wo), open, Plain(wo2, wo), out.challenge,
           out2.authenticated, ~ out2.challenge, ~ out2.closed,
           m[1].type = "auth_confirm", Len(m) >= 1,
           \A j \in 1..Len(m) : ~ m[j].trusted /\ ~ m[j].encrypted,
           Under(m, "session_key") => out2.encrypted,
           out2.state # "left" => (out2.encrypted => Under(m, "session_key"))
    PROVE  Agreed(open, out2, in, wi \o m, wo2)
<1>1. ~ out.authenticated /\ ~ out.encrypted /\ ~ in.authenticated /\ ~ in.encrypted
    BY DEF Agreed
<1>2. \A i \in 1..Len(wo) : (wo[i].trusted => FALSE) /\ (wo[i].encrypted => FALSE)
    BY <1>1 DEF Agreed
<1>3. \A i \in 1..Len(wo2) : (wo2[i].trusted => FALSE) /\ (wo2[i].encrypted => FALSE)
    BY <1>2, PlainKeeps
<1>4. Len(m) \in Nat /\ 1 \in 1..Len(m)
    BY LenProperties
<1>5. Under(m, "auth_confirm")
    BY <1>4 DEF Under
<1>6. \A type : Under(wi \o m, type) <=> Under(wi, type) \/ Under(m, type)
    BY UnderConcat
<1>7. ~ Under(wi, "session_key")
    BY <1>1 DEF Agreed
<1>8. ASSUME in.state # "left" PROVE Ordered(wi \o m, in.authenticated, in.encrypted)
    <2>1. Ordered(wi, in.authenticated, in.encrypted)
        BY <1>8 DEF Agreed
    <2>2. \A j \in 1..Len(m) : m[j].type = "session_key" => Before(m, j, "auth_confirm")
        <3> SUFFICES ASSUME NEW j \in 1..Len(m), m[j].type = "session_key"
                     PROVE  Before(m, j, "auth_confirm")
            OBVIOUS
        <3>1. j # 1
            OBVIOUS
        <3>2. 1 \in 1..(j - 1)
            BY <3>1, <1>4
        <3> QED BY <3>2 DEF Before
    <2> QED BY <2>1, <2>2, OrderedConcat
<1> QED BY <1>1, <1>3, <1>5, <1>6, <1>7, <1>8 DEF Agreed

\* The initiator, live and not gone, broadcasts.
LEMMA InitiatorSays ==
    ASSUME NEW open, NEW out, NEW in, NEW wi \in Seq(Message), NEW wo, NEW x \in Message,
           Agreed(open, out, in, wi, wo), open, out.state # "left",
           x.type = "data", x.trusted <=> out.authenticated, x.encrypted <=> out.encrypted
    PROVE  Agreed(open, out, in, wi \o <<x>>, wo)
<1>1. <<x>> \in Seq(Message) /\ Len(<<x>>) = 1 /\ <<x>>[1] = x
    OBVIOUS
<1>2. \A type : Under(wi \o <<x>>, type) <=> Under(wi, type) \/ Under(<<x>>, type)
    BY <1>1, UnderConcat
<1>3. \A type : Under(<<x>>, type) <=> x.type = type
    BY <1>1 DEF Under
<1>4. ASSUME in.state # "left" PROVE Ordered(wi \o <<x>>, in.authenticated, in.encrypted)
    <2>1. Ordered(wi, in.authenticated, in.encrypted)
        BY <1>4 DEF Agreed
    <2>2. /\ x.trusted => in.authenticated \/ Under(wi, "auth_confirm")
          /\ x.encrypted => in.encrypted \/ Under(wi, "session_key")
        BY <1>4 DEF Agreed
    <2>3. \A j \in 1..Len(<<x>>) :
              /\ <<x>>[j].trusted \/ <<x>>[j].type = "session_key"
                    => in.authenticated \/ Under(wi, "auth_confirm")
                          \/ Before(<<x>>, j, "auth_confirm")
              /\ <<x>>[j].encrypted
                    => in.encrypted \/ Under(wi, "session_key")
                          \/ Before(<<x>>, j, "session_key")
        BY <1>1, <2>2
    <2> QED BY <1>1, <2>1, <2>3, OrderedConcat
<1> QED BY <1>2, <1>3, <1>4 DEF Agreed

\* The responder broadcasts.
LEMMA ResponderSays ==
    ASSUME NEW open, NEW out, NEW in, NEW wi, NEW wo \in Seq(Message), NEW x \in Message,
           Agreed(open, out, in, wi, wo),
           x.trusted <=> in.authenticated, x.encrypted <=> in.encrypted
    PROVE  Agreed(open, out, in, wi, wo \o <<x>>)
<1>1. <<x>> \in Seq(Message) /\ Len(<<x>>) = 1 /\ <<x>>[1] = x
    OBVIOUS
<1>2. /\ Len(wo) \in Nat /\ Len(wo \o <<x>>) = Len(wo) + 1
      /\ \A i \in 1..(Len(wo) + 1) :
            (wo \o <<x>>)[i] = IF i <= Len(wo) THEN wo[i] ELSE <<x>>[i - Len(wo)]
    BY <1>1, LenProperties, ConcatProperties
<1>3. \A i \in 1..(Len(wo) + 1) : i \in 1..Len(wo) \/ i - Len(wo) = 1
    BY <1>2
<1>4. \A i \in 1..Len(wo \o <<x>>) :
          (wo \o <<x>>)[i] = x \/ \E j \in 1..Len(wo) : (wo \o <<x>>)[i] = wo[j]
    BY <1>1, <1>2, <1>3
<1>5. \A i \in 1..Len(wo \o <<x>>) :
          /\ (wo \o <<x>>)[i].trusted => out.authenticated
          /\ (wo \o <<x>>)[i].encrypted => out.encrypted
    BY <1>4 DEF Agreed
<1> QED BY <1>5 DEF Agreed

-----------------------------------------------------------------------------
(* The actions *)

Wires == [Conn -> [Side -> Seq(Message)]]

Kinds == {"hello", "hello_auth", "auth_response", "auth_confirm", "session_key"}

Messages(c, s, types) ==
    [i \in 1..Len(types) |->
        [type |-> types[i], msgpack |-> end[c][s].msgpack,
         encrypted |-> FALSE, trusted |-> FALSE]]

LEMMA MessagesAre ==
    ASSUME TypeOK, NEW c \in Conn, NEW s \in Side, NEW types \in Seq(Kinds)
    PROVE  /\ Messages(c, s, types) \in Seq(Message)
           /\ Len(Messages(c, s, types)) = Len(types)
           /\ \A i \in 1..Len(types) :
                 /\ Messages(c, s, types)[i].type = types[i]
                 /\ ~ Messages(c, s, types)[i].trusted
                 /\ ~ Messages(c, s, types)[i].encrypted
<1>1. end[c][s].msgpack \in BOOLEAN /\ Len(types) \in Nat
    BY EndIn, LenProperties DEF PeerObject
<1>2. \A i \in 1..Len(types) : types[i] \in Kinds
    BY ElementOfSeq
<1> DEFINE m == Messages(c, s, types)
           n == Len(types)
<1>3. m \in [1..n -> Message]
    BY <1>1, <1>2 DEF Messages, Message, Kinds
<1>4. \A i \in 1..n : m[i].type = types[i] /\ ~ m[i].trusted /\ ~ m[i].encrypted
    BY DEF Messages
<1> HIDE DEF m, n
<1>5. m \in Seq(Message) /\ Len(m) = n
    BY <1>1, <1>3, SeqDef, LenProperties DEF n
<1> QED BY <1>4, <1>5 DEF m, n

LEMMA Takes ==
    ASSUME wire \in Wires, NEW c \in Conn, NEW s \in Side, wire[c][s] # <<>>
    PROVE  /\ Taken(c, s) \in Wires
           /\ Taken(c, s)[c][s] = Tail(wire[c][s])
           /\ \A d \in Conn, t \in Side : d # c \/ t # s => Taken(c, s)[d][t] = wire[d][t]
<1>1. wire[c][s] \in Seq(Message)
    BY DEF Wires
<1>2. Tail(wire[c][s]) \in Seq(Message)
    BY <1>1, HeadTailProperties
<1> QED BY <1>2 DEF Taken, Wires

LEMMA Sends ==
    ASSUME TypeOK, NEW w \in Wires, NEW c \in Conn, NEW s \in Side, NEW types \in Seq(Kinds)
    PROVE  /\ Sent(w, c, s, types) \in Wires
           /\ end[c][s].closed => Sent(w, c, s, types) = w
           /\ ~ end[c][s].closed =>
                 Sent(w, c, s, types)[c][Other(s)] = w[c][Other(s)] \o Messages(c, s, types)
           /\ \A d \in Conn, t \in Side : d # c \/ t # Other(s) =>
                 Sent(w, c, s, types)[d][t] = w[d][t]
<1> DEFINE m == Messages(c, s, types)
           o == Other(s)
           v == Sent(w, c, s, types)
<1>1. m \in Seq(Message) /\ o \in Side /\ w[c][o] \in Seq(Message)
    BY MessagesAre, Ends DEF Wires
<1>2. end[c][s].closed => v = w
    BY DEF Sent
<1>3. ~ end[c][s].closed => v = [w EXCEPT ![c][o] = w[c][o] \o m]
    BY DEF Sent, Messages
<1> HIDE DEF m, o, v
<1>4. w[c][o] \o m \in Seq(Message)
    BY <1>1, ConcatProperties
<1>5. CASE end[c][s].closed
    <2>1. v = w
        BY <1>2, <1>5
    <2> QED BY <1>5, <2>1 DEF m, o, v
<1>6. CASE ~ end[c][s].closed
    <2> DEFINE x == w[c][o] \o m
    <2>1. x \in Seq(Message) /\ v = [w EXCEPT ![c][o] = x] /\ o \in Side
        BY <1>1, <1>3, <1>4, <1>6
    <2> HIDE DEF x
    <2>2. /\ v \in Wires /\ v[c][o] = x
          /\ \A d \in Conn, t \in Side : d # c \/ t # o => v[d][t] = w[d][t]
        BY <2>1 DEF Wires
    <2> QED BY <1>6, <2>2 DEF m, o, v, x
<1> QED BY <1>5, <1>6

LEMMA SendsOut ==
    ASSUME TypeOK, NEW w \in Wires, NEW c \in Conn, NEW types \in Seq(Kinds)
    PROVE  /\ Sent(w, c, "out", types) \in Wires
           /\ end[c]["out"].closed => Sent(w, c, "out", types) = w
           /\ ~ end[c]["out"].closed =>
                 Sent(w, c, "out", types)[c]["in"] = w[c]["in"] \o Messages(c, "out", types)
           /\ \A d \in Conn, t \in Side : d # c \/ t # "in" =>
                 Sent(w, c, "out", types)[d][t] = w[d][t]
<1> DEFINE s == "out"
<1>1. s \in Side /\ Other(s) = "in"
    BY DEF Side, Other
<1> HIDE DEF s
<1>2. /\ Sent(w, c, s, types) \in Wires
      /\ end[c][s].closed => Sent(w, c, s, types) = w
      /\ ~ end[c][s].closed =>
            Sent(w, c, s, types)[c][Other(s)] = w[c][Other(s)] \o Messages(c, s, types)
      /\ \A d \in Conn, t \in Side : d # c \/ t # Other(s) =>
            Sent(w, c, s, types)[d][t] = w[d][t]
    BY <1>1, Sends, ZenonT(60)
<1> QED BY <1>1, <1>2, Zenon DEF s

LEMMA SendsIn ==
    ASSUME TypeOK, NEW w \in Wires, NEW c \in Conn, NEW types \in Seq(Kinds)
    PROVE  /\ Sent(w, c, "in", types) \in Wires
           /\ end[c]["in"].closed => Sent(w, c, "in", types) = w
           /\ ~ end[c]["in"].closed =>
                 Sent(w, c, "in", types)[c]["out"] = w[c]["out"] \o Messages(c, "in", types)
           /\ \A d \in Conn, t \in Side : d # c \/ t # "out" =>
                 Sent(w, c, "in", types)[d][t] = w[d][t]
<1> DEFINE s == "in"
<1>1. s \in Side /\ Other(s) = "out"
    BY DEF Side, Other
<1> HIDE DEF s
<1>2. /\ Sent(w, c, s, types) \in Wires
      /\ end[c][s].closed => Sent(w, c, s, types) = w
      /\ ~ end[c][s].closed =>
            Sent(w, c, s, types)[c][Other(s)] = w[c][Other(s)] \o Messages(c, s, types)
      /\ \A d \in Conn, t \in Side : d # c \/ t # Other(s) =>
            Sent(w, c, s, types)[d][t] = w[d][t]
    BY <1>1, Sends, ZenonT(60)
<1> QED BY <1>1, <1>2, Zenon DEF s

\* Another end: unchanged, or closed as a duplicate.
Closing(p, q) ==
    /\ q.state = p.state
    /\ q.authenticated <=> p.authenticated
    /\ q.encrypted <=> p.encrypted
    /\ q.challenge => p.challenge
    /\ q.closed => p.closed \/ p.authenticated
    /\ p.authenticated \/ q = p

LEMMA ClosingSame == \A p : Closing(p, p)
BY DEF Closing

LEMMA Bystander ==
    ASSUME NEW d \in Conn, AgreedAt(d), dial'[d] = "open" <=> dial[d] = "open",
           wire'[d]["in"] = wire[d]["in"], wire'[d]["out"] = wire[d]["out"],
           Closing(end[d]["out"], end'[d]["out"]), Closing(end[d]["in"], end'[d]["in"])
    PROVE  AgreedAt(d)'
<1> DEFINE open == dial[d] = "open"
           out == end[d]["out"]
           in == end[d]["in"]
           out2 == end'[d]["out"]
           in2 == end'[d]["in"]
           wi == wire[d]["in"]
           wo == wire[d]["out"]
<1>1. Agreed(open, out, in, wi, wo) /\ Closing(out, out2) /\ Closing(in, in2)
    BY DEF AgreedAt
<1>2. AgreedAt(d)' <=> Agreed(open, out2, in2, wi, wo)
    BY DEF AgreedAt, Agreed
<1> HIDE DEF open, out, in, out2, in2, wi, wo
<1>3. open \/ out2 = out
    <2>1. ~ NewPeer.authenticated
        BY DEF NewPeer
    <2> QED BY <1>1, <2>1 DEF Agreed, Closing
<1>4. Plain(wo, wo)
    BY DEF Plain
<1>5. Agreed(open, out2, in, wi, wo)
    BY <1>1, <1>3, <1>4, InitiatorMoves DEF Closing
<1>6. Agreed(open, out2, in2, wi, wo)
    BY <1>1, <1>5, ResponderMoves DEF Closing
<1> QED BY <1>2, <1>6

LEMMA Bystanders ==
    ASSUME HandshakeInv, NEW c \in Conn, wire' \in Wires, AgreedAt(c)',
           \A d \in Conn : d # c => (dial'[d] = "open" <=> dial[d] = "open"),
           \A d \in Conn, t \in Side : d # c =>
               wire'[d][t] = wire[d][t] /\ Closing(end[d][t], end'[d][t])
    PROVE  HandshakeInv'
<1>1. ASSUME NEW d \in Conn, d # c PROVE AgreedAt(d)'
    <2>1. /\ wire'[d]["in"] = wire[d]["in"] /\ wire'[d]["out"] = wire[d]["out"]
          /\ Closing(end[d]["out"], end'[d]["out"]) /\ Closing(end[d]["in"], end'[d]["in"])
        BY <1>1, Ends
    <2> QED BY <1>1, <2>1, Bystander DEF HandshakeInv
<1> QED BY <1>1 DEF HandshakeInv, Wires

\* Nothing but dial changes, and nothing opens.
LEMMA QuietAgreed ==
    ASSUME HandshakeInv, UNCHANGED <<end, wire>>,
           \A d \in Conn : dial'[d] = "open" <=> dial[d] = "open"
    PROVE  HandshakeInv'
<1>1. ASSUME NEW d \in Conn PROVE AgreedAt(d)'
    <2>1. AgreedAt(d) /\ wire' = wire /\ end' = end /\ (dial'[d] = "open" <=> dial[d] = "open")
        BY DEF HandshakeInv
    <2> QED BY <2>1, Bystander, ClosingSame
<1> QED BY <1>1 DEF HandshakeInv

\* connect after open_connection.
LEMMA InitiatorOpens ==
    ASSUME NEW out, NEW in, NEW wi, NEW wo, NEW out2, NEW m \in Seq(Message),
           Agreed(FALSE, out, in, wi, wo),
           ~ out2.closed, ~ out2.authenticated, ~ out2.encrypted,
           \A j \in 1..Len(m) : /\ ~ m[j].trusted /\ ~ m[j].encrypted
                                /\ m[j].type \notin {"auth_confirm", "session_key"}
    PROVE  Agreed(TRUE, out2, in, wi \o m, wo)
<1>1. out = NewPeer /\ wi = <<>>
    BY DEF Agreed
<1>2. ~ out.authenticated /\ ~ out.encrypted
    BY <1>1 DEF NewPeer
<1>3. wi \o m = m
    BY <1>1, ConcatEmptySeq
<1>4. ~ Under(m, "auth_confirm") /\ ~ Under(m, "session_key")
    BY DEF Under
<1>5. Ordered(m, in.authenticated, in.encrypted)
    BY DEF Ordered
<1> QED BY <1>2, <1>3, <1>4, <1>5 DEF Agreed

LEMMA OpenedAgreed ==
    ASSUME RegistryInv, HandshakeInv, NEW c \in Conn, opened(c)
    PROVE  HandshakeInv'
<1> DEFINE p == [NewPeer EXCEPT !.state = "reading", !.challenge = Caller[c] \in Signing,
                                !.v2 = Caller[c] \in Signing]
           types == <<IF Caller[c] \in Signing THEN "hello_auth" ELSE "hello">>
<1>a. TypeOK /\ wire \in Wires /\ AgreedAt(c)
    BY DEF RegistryInv, HandshakeInv, Wires
<1>b. "out" \in Side /\ "in" \in Side /\ Other("out") = "in" /\ "in" # "out"
    BY DEF Side, Other
<1>1. p \in PeerObject /\ ~ p.closed /\ ~ p.authenticated /\ ~ p.encrypted
    <2>1. /\ NewPeer \in PeerObject
          /\ ~ NewPeer.closed /\ ~ NewPeer.authenticated /\ ~ NewPeer.encrypted
        BY DEF NewPeer, PeerObject
    <2>2. \A q \in PeerObject, x \in BOOLEAN :
             LET r == [q EXCEPT !.state = "reading", !.challenge = x, !.v2 = x]
             IN /\ r \in PeerObject /\ r.closed = q.closed
                /\ r.authenticated = q.authenticated /\ r.encrypted = q.encrypted
        BY DEF PeerObject
    <2>3. (Caller[c] \in Signing) \in BOOLEAN
        OBVIOUS
    <2> QED BY <2>1, <2>2, <2>3
<1>2. end' = [end EXCEPT ![c]["out"] = p] /\ wire' = Sent(wire, c, "out", types)
    BY DEF opened
<1>3. types \in Seq(Kinds) /\ Len(types) = 1 /\ types[1] \in {"hello_auth", "hello"}
    BY DEF Kinds
<1>4. dial[c] = "opening" /\ dial' = [dial EXCEPT ![c] = "open"]
    BY DEF opened
<1> HIDE DEF p, types
<1>5. /\ end'[c]["out"] = p
      /\ \A d \in Conn, t \in Side : d # c \/ t # "out" => end'[d][t] = end[d][t]
    BY <1>a, <1>1, <1>2, PutOut
<1>6. Agreed(FALSE, end[c]["out"], end[c]["in"], wire[c]["in"], wire[c]["out"])
    <2>1. (dial[c] = "open") = FALSE
        BY <1>4
    <2> QED BY <1>a, <2>1 DEF AgreedAt
<1>7. ~ end[c]["out"].closed
    BY <1>6 DEF Agreed, NewPeer
<1>8. /\ wire' \in Wires
      /\ wire'[c]["in"] = wire[c]["in"] \o Messages(c, "out", types)
      /\ \A d \in Conn, t \in Side : d # c \/ t # "in" => wire'[d][t] = wire[d][t]
    BY <1>a, <1>2, <1>3, <1>7, SendsOut
<1> DEFINE m == Messages(c, "out", types)
<1>9. /\ m \in Seq(Message)
      /\ \A j \in 1..Len(m) : /\ ~ m[j].trusted /\ ~ m[j].encrypted
                              /\ m[j].type \notin {"auth_confirm", "session_key"}
    <2>1. /\ m \in Seq(Message) /\ Len(m) = Len(types)
          /\ \A i \in 1..Len(types) : m[i].type = types[i] /\ ~ m[i].trusted /\ ~ m[i].encrypted
        BY <1>a, <1>b, <1>3, MessagesAre
    <2> HIDE DEF m
    <2>2. \A j \in 1..Len(m) : j = 1
        BY <2>1, <1>3
    <2> QED BY <2>1, <2>2, <1>3
<1> HIDE DEF m
<1>10. Agreed(TRUE, p, end[c]["in"], wire[c]["in"] \o m, wire[c]["out"])
    BY <1>1, <1>6, <1>9, InitiatorOpens
<1>11. AgreedAt(c)'
    <2>1. (dial'[c] = "open") = TRUE
        BY <1>a, <1>4 DEF TypeOK
    <2>2. end'[c]["in"] = end[c]["in"] /\ wire'[c]["out"] = wire[c]["out"]
        BY <1>5, <1>8, <1>b
    <2> QED BY <1>5, <1>8, <1>10, <2>1, <2>2 DEF AgreedAt, m
<1>12. \A d \in Conn : d # c => (dial'[d] = "open" <=> dial[d] = "open")
    BY <1>a, <1>4 DEF TypeOK
<1>13. \A d \in Conn, t \in Side : d # c =>
           wire'[d][t] = wire[d][t] /\ Closing(end[d][t], end'[d][t])
    BY <1>5, <1>8, ClosingSame
<1> QED BY <1>8, <1>11, <1>12, <1>13, Bystanders

\* An action that changes the responder of c, and takes nothing.
LEMMA ResponderPut ==
    ASSUME RegistryInv, HandshakeInv, NEW c \in Conn, NEW p \in PeerObject,
           end' = [end EXCEPT ![c]["in"] = p], UNCHANGED <<dial, wire>>,
           end[c]["in"].authenticated <=> p.authenticated,
           end[c]["in"].encrypted <=> p.encrypted,
           p.state # "left" => end[c]["in"].state # "left"
    PROVE  HandshakeInv'
<1>1. TypeOK /\ wire \in Wires /\ AgreedAt(c) /\ "out" \in Side /\ "in" # "out"
    BY Ends DEF RegistryInv, HandshakeInv, Wires
<1>2. /\ end'[c]["in"] = p
      /\ \A d \in Conn, t \in Side : d # c \/ t # "in" => end'[d][t] = end[d][t]
    BY <1>1, PutIn
<1>3. Agreed(dial[c] = "open", end[c]["out"], p, wire[c]["in"], wire[c]["out"])
    BY <1>1, ResponderMoves DEF AgreedAt
<1>4. AgreedAt(c)'
    <2>1. end'[c]["out"] = end[c]["out"] /\ dial' = dial /\ wire' = wire
        BY <1>1, <1>2
    <2> QED BY <1>2, <1>3, <2>1 DEF AgreedAt
<1>5. \A d \in Conn, t \in Side : d # c =>
           wire'[d][t] = wire[d][t] /\ Closing(end[d][t], end'[d][t])
    BY <1>2, ClosingSame
<1> QED BY <1>1, <1>4, <1>5, Bystanders

LEMMA ConnectedAgreed ==
    ASSUME RegistryInv, HandshakeInv, NEW c \in Conn, on_connect(c)
    PROVE  HandshakeInv'
<1> DEFINE e == end[c]["in"]
<1>1. e \in PeerObject /\ e.state = "none" /\ UNCHANGED <<dial, wire>>
    BY EndIn, Ends DEF RegistryInv, on_connect
<1>2. CASE end' = [end EXCEPT ![c]["in"].state = "left", ![c]["in"].closed = TRUE]
    <2> DEFINE p == [e EXCEPT !.state = "left", !.closed = TRUE]
    <2>1. /\ p \in PeerObject /\ p.state = "left"
          /\ e.authenticated <=> p.authenticated
          /\ e.encrypted <=> p.encrypted
          /\ end' = [end EXCEPT ![c]["in"] = p]
        BY <1>1, <1>2 DEF PeerObject
    <2> HIDE DEF p
    <2> QED BY <1>1, <2>1, ResponderPut
<1>3. CASE end' = [end EXCEPT ![c]["in"].state = "hello", ![c]["in"].temp = TRUE]
    <2> DEFINE p == [e EXCEPT !.state = "hello", !.temp = TRUE]
    <2>1. /\ p \in PeerObject /\ p.state = "hello"
          /\ e.authenticated <=> p.authenticated
          /\ e.encrypted <=> p.encrypted
          /\ end' = [end EXCEPT ![c]["in"] = p]
        BY <1>1, <1>3 DEF PeerObject
    <2> HIDE DEF p
    <2> QED BY <1>1, <2>1, ResponderPut
<1> QED BY <1>2, <1>3 DEF on_connect

\* An action in which the responder of c takes a message.
LEMMA ResponderTakes ==
    ASSUME HandshakeInv, NEW c \in Conn, NEW p, UNCHANGED dial, wire' \in Wires,
           end'[c]["in"] = p, end'[c]["out"] = end[c]["out"],
           wire[c]["in"] # <<>>, wire'[c]["in"] = Tail(wire[c]["in"]),
           Plain(wire'[c]["out"], wire[c]["out"]),
           \A d \in Conn, t \in Side : d # c =>
               wire'[d][t] = wire[d][t] /\ Closing(end[d][t], end'[d][t]),
           end[c]["in"].authenticated => p.authenticated,
           end[c]["in"].encrypted => p.encrypted,
           p.authenticated => \/ end[c]["in"].authenticated
                              \/ Head(wire[c]["in"]).type = "auth_confirm",
           p.encrypted => end[c]["in"].encrypted \/ Head(wire[c]["in"]).type = "session_key",
           p.state # "left" =>
               /\ end[c]["in"].state # "left"
               /\ Head(wire[c]["in"]).type = "auth_confirm" => p.authenticated
               /\ Head(wire[c]["in"]).type = "session_key" => p.encrypted
    PROVE  HandshakeInv'
<1>1. wire \in Wires /\ AgreedAt(c) /\ wire[c]["in"] \in Seq(Message)
    BY Ends DEF HandshakeInv, Wires
<1>2. Agreed(dial[c] = "open", end[c]["out"], p, Tail(wire[c]["in"]), wire'[c]["out"])
    BY <1>1, ResponderReads DEF AgreedAt
<1>3. AgreedAt(c)'
    BY <1>2 DEF AgreedAt
<1> QED BY <1>3, Bystanders

\* An action in which the initiator of c takes a message or leaves.
LEMMA InitiatorPut ==
    ASSUME HandshakeInv, NEW c \in Conn, NEW p, UNCHANGED dial, wire' \in Wires,
           end'[c]["out"] = p, end'[c]["in"] = end[c]["in"],
           wire'[c]["in"] = wire[c]["in"], Plain(wire'[c]["out"], wire[c]["out"]),
           \A d \in Conn, t \in Side : d # c =>
               wire'[d][t] = wire[d][t] /\ Closing(end[d][t], end'[d][t]),
           end[c]["out"].state # "none",
           end[c]["out"].authenticated <=> p.authenticated,
           end[c]["out"].encrypted <=> p.encrypted,
           p.challenge => end[c]["out"].challenge, p.closed => end[c]["out"].closed,
           p.state # "left" => end[c]["out"].state # "left"
    PROVE  HandshakeInv'
<1>1. AgreedAt(c)
    BY DEF HandshakeInv
<1>2. dial[c] = "open"
    <2>1. NewPeer.state = "none"
        BY DEF NewPeer
    <2> QED BY <1>1, <2>1 DEF AgreedAt, Agreed
<1>3. Agreed(dial[c] = "open", p, end[c]["in"], wire[c]["in"], wire'[c]["out"])
    <2> DEFINE open == dial[c] = "open"
               out == end[c]["out"]
               in == end[c]["in"]
               wi == wire[c]["in"]
               wo == wire[c]["out"]
               wo2 == wire'[c]["out"]
    <2>1. Agreed(open, out, in, wi, wo) /\ Plain(wo2, wo) /\ open
        BY <1>1, <1>2 DEF AgreedAt
    <2>2. /\ out.authenticated <=> p.authenticated
          /\ out.encrypted <=> p.encrypted
          /\ p.challenge => out.challenge
          /\ p.closed => out.closed \/ out.authenticated
          /\ p.state # "left" => out.state # "left"
        OBVIOUS
    <2> HIDE DEF open, out, in, wi, wo, wo2
    <2>3. Agreed(open, p, in, wi, wo2)
        <3>1. /\ Agreed(open, out, in, wi, wo) /\ Plain(wo2, wo) /\ (open \/ p = out)
              /\ p.closed => out.closed \/ out.authenticated
            BY <2>1, <2>2
        <3>2. (out.authenticated <=> p.authenticated) /\ (out.encrypted <=> p.encrypted)
            BY <2>2
        <3>3. (p.challenge => out.challenge) /\ (p.state # "left" => out.state # "left")
            BY <2>2
        <3> QED BY ONLY <3>1, <3>2, <3>3, InitiatorMoves
    <2> QED BY <2>3 DEF open, out, in, wi, wo, wo2
<1>4. AgreedAt(c)'
    BY <1>3 DEF AgreedAt
<1> QED BY <1>4, Bystanders

LEMMA TakesIn ==
    ASSUME wire \in Wires, NEW c \in Conn, wire[c]["in"] # <<>>
    PROVE  /\ Taken(c, "in") \in Wires
           /\ Taken(c, "in")[c]["in"] = Tail(wire[c]["in"])
           /\ \A d \in Conn, t \in Side : d # c \/ t # "in" => Taken(c, "in")[d][t] = wire[d][t]
<1> DEFINE s == "in"
<1>1. s \in Side /\ wire[c][s] # <<>>
    BY DEF Side
<1> HIDE DEF s
<1>2. /\ Taken(c, s) \in Wires
      /\ Taken(c, s)[c][s] = Tail(wire[c][s])
      /\ \A d \in Conn, t \in Side : d # c \/ t # s => Taken(c, s)[d][t] = wire[d][t]
    BY <1>1, Takes
<1> QED BY <1>2, Zenon DEF s

LEMMA TakesOut ==
    ASSUME wire \in Wires, NEW c \in Conn, wire[c]["out"] # <<>>
    PROVE  /\ Taken(c, "out") \in Wires
           /\ Taken(c, "out")[c]["out"] = Tail(wire[c]["out"])
           /\ \A d \in Conn, t \in Side : d # c \/ t # "out" => Taken(c, "out")[d][t] = wire[d][t]
<1> DEFINE s == "out"
<1>1. s \in Side /\ wire[c][s] # <<>>
    BY DEF Side
<1> HIDE DEF s
<1>2. /\ Taken(c, s) \in Wires
      /\ Taken(c, s)[c][s] = Tail(wire[c][s])
      /\ \A d \in Conn, t \in Side : d # c \/ t # s => Taken(c, s)[d][t] = wire[d][t]
    BY <1>1, Takes
<1> QED BY <1>2, Zenon DEF s

\* The first line: the responder takes it and answers.
LEMMA Answers ==
    ASSUME TypeOK, wire \in Wires, NEW c \in Conn, wire[c]["in"] # <<>>,
           NEW type \in Kinds, wire' = Sent(Taken(c, "in"), c, "in", <<type>>)
    PROVE  /\ wire' \in Wires
           /\ wire'[c]["in"] = Tail(wire[c]["in"])
           /\ Plain(wire'[c]["out"], wire[c]["out"])
           /\ \A d \in Conn, t \in Side : d # c => wire'[d][t] = wire[d][t]
<1> DEFINE v == Taken(c, "in")
           m == Messages(c, "in", <<type>>)
<1>1. /\ v \in Wires /\ v[c]["in"] = Tail(wire[c]["in"]) /\ v[c]["out"] = wire[c]["out"]
      /\ \A d \in Conn, t \in Side : d # c => v[d][t] = wire[d][t]
    BY TakesIn, Ends
<1>2. <<type>> \in Seq(Kinds) /\ "in" \in Side /\ "out" \in Side /\ "in" # "out"
    BY Ends
<1>3. /\ m \in Seq(Message)
      /\ \A i \in 1..Len(m) : ~ m[i].trusted /\ ~ m[i].encrypted
    BY <1>2, MessagesAre
<1> HIDE DEF v, m
<1>4. /\ wire' \in Wires
      /\ end[c]["in"].closed => wire' = v
      /\ ~ end[c]["in"].closed => wire'[c]["out"] = v[c]["out"] \o m
      /\ \A d \in Conn, t \in Side : d # c \/ t # "out" => wire'[d][t] = v[d][t]
    <2> DEFINE types == <<type>>
    <2>1. types \in Seq(Kinds) /\ v \in Wires /\ wire' = Sent(v, c, "in", types)
        BY <1>1, <1>2 DEF v
    <2>2. m = Messages(c, "in", types)
        BY DEF m
    <2> HIDE DEF types
    <2>3. /\ Sent(v, c, "in", types) \in Wires
          /\ end[c]["in"].closed => Sent(v, c, "in", types) = v
          /\ ~ end[c]["in"].closed =>
                Sent(v, c, "in", types)[c]["out"] = v[c]["out"] \o Messages(c, "in", types)
          /\ \A d \in Conn, t \in Side : d # c \/ t # "out" =>
                Sent(v, c, "in", types)[d][t] = v[d][t]
        BY <2>1, SendsIn, Zenon
    <2> QED BY <2>1, <2>2, <2>3, Zenon
<1>5. wire[c]["out"] \in Seq(Message)
    BY <1>2 DEF Wires
<1>6. Plain(wire'[c]["out"], wire[c]["out"])
    <2>1. CASE end[c]["in"].closed
        BY <1>1, <1>4, <2>1 DEF Plain
    <2>2. CASE ~ end[c]["in"].closed
        BY <1>1, <1>3, <1>4, <1>5, <2>2, PlainConcat
    <2> QED BY <2>1, <2>2
<1> QED BY <1>1, <1>2, <1>4, <1>6

LEMMA HelloAgreed ==
    ASSUME RegistryInv, HandshakeInv, NEW c \in Conn, hello(c) \/ hello_auth_inbound(c)
    PROVE  HandshakeInv'
<1> DEFINE temp == peers[Callee[c]][Caller[c]] # NoConn
           e == end[c]["in"]
<1>1. /\ TypeOK /\ wire \in Wires /\ e \in PeerObject /\ e.state = "hello" /\ temp \in BOOLEAN
      /\ wire[c]["in"] # <<>> /\ Head(wire[c]["in"]).type \in {"hello", "hello_auth"}
      /\ UNCHANGED dial
    BY Waiting DEF RegistryInv, HandshakeInv, Wires, hello, hello_auth_inbound, FirstLine
<1>2. ASSUME NEW p \in PeerObject, end' = [end EXCEPT ![c]["in"] = p],
             p.authenticated <=> e.authenticated, p.encrypted <=> e.encrypted,
             \/ \E type \in Kinds : wire' = Sent(Taken(c, "in"), c, "in", <<type>>)
             \/ wire' = Taken(c, "in")
      PROVE  HandshakeInv'
    <2>1. /\ end'[c]["in"] = p
          /\ \A d \in Conn, t \in Side : d # c \/ t # "in" => end'[d][t] = end[d][t]
        BY <1>1, <1>2, PutIn
    <2>2. /\ wire' \in Wires
          /\ wire'[c]["in"] = Tail(wire[c]["in"])
          /\ Plain(wire'[c]["out"], wire[c]["out"])
          /\ \A d \in Conn, t \in Side : d # c => wire'[d][t] = wire[d][t]
        <3>1. CASE \E type \in Kinds : wire' = Sent(Taken(c, "in"), c, "in", <<type>>)
            BY <3>1, <1>1, Answers
        <3>2. CASE wire' = Taken(c, "in")
            BY <3>2, <1>1, TakesIn, Ends DEF Plain
        <3> QED BY <1>2, <3>1, <3>2
    <2>3. end'[c]["out"] = end[c]["out"]
        BY <2>1, Ends
    <2>4. \A d \in Conn, t \in Side : d # c => Closing(end[d][t], end'[d][t])
        BY <2>1, ClosingSame
    <2> QED BY <1>1, <1>2, <2>1, <2>2, <2>3, <2>4, ResponderTakes
<1>3. CASE hello(c)
    <2> DEFINE p == [e EXCEPT !.state = "reading", !.temp = temp]
    <2>1. /\ p \in PeerObject
          /\ p.authenticated <=> e.authenticated
          /\ p.encrypted <=> e.encrypted
        <3> HIDE DEF temp, e
        <3> QED BY <1>1 DEF PeerObject
    <2>2. end' = [end EXCEPT ![c]["in"] = p] /\ wire' = Sent(Taken(c, "in"), c, "in", <<"hello">>)
        BY <1>3 DEF hello
    <2> HIDE DEF p
    <2> QED BY <1>2, <2>1, <2>2 DEF Kinds
<1>4. CASE /\ end' = [end EXCEPT ![c]["in"] =
                   [@ EXCEPT !.state = "reading", !.temp = temp,
                             !.challenge = TRUE, !.v2 = TRUE]]
           /\ wire' = Sent(Taken(c, "in"), c, "in", <<"auth_response">>)
    <2> DEFINE p == [e EXCEPT !.state = "reading", !.temp = temp,
                              !.challenge = TRUE, !.v2 = TRUE]
    <2>1. /\ p \in PeerObject
          /\ p.authenticated <=> e.authenticated
          /\ p.encrypted <=> e.encrypted
        <3> HIDE DEF temp, e
        <3> QED BY <1>1 DEF PeerObject
    <2>2. end' = [end EXCEPT ![c]["in"] = p]
        BY <1>4
    <2> HIDE DEF p
    <2> QED BY <1>2, <1>4, <2>1, <2>2 DEF Kinds
<1>5. CASE /\ end' = [end EXCEPT ![c]["in"] = [@ EXCEPT !.state = "left", !.temp = temp]]
           /\ wire' = Taken(c, "in")
    <2> DEFINE p == [e EXCEPT !.state = "left", !.temp = temp]
    <2>1. /\ p \in PeerObject
          /\ p.authenticated <=> e.authenticated
          /\ p.encrypted <=> e.encrypted
        <3> HIDE DEF temp, e
        <3> QED BY <1>1 DEF PeerObject
    <2>2. end' = [end EXCEPT ![c]["in"] = p]
        BY <1>5
    <2> HIDE DEF p
    <2> QED BY <1>2, <1>5, <2>1, <2>2
<1> QED BY <1>3, <1>4, <1>5 DEF hello_auth_inbound

\* What _dedup_connection makes of the ends.
LEMMA DedupEnds ==
    ASSUME TypeOK, NEW c \in Conn, NEW s \in Side, NEW peer \in PeerObject,
           NEW w, NEW v, dedup_connection(c, s, peer, w, v)
    PROVE  /\ \/ end'[c][s] = peer /\ wire' = w
              \/ end'[c][s] = [peer EXCEPT !.state = "left"] /\ wire' = v
           /\ \A t \in Side : t # s => end'[c][t] = end[c][t]
           /\ \A d \in Conn, t \in Side : d # c => Closing(end[d][t], end'[d][t])
<1>1. CASE end' = [end EXCEPT ![c][s] = peer] /\ wire' = w
    <2>1. /\ end'[c][s] = peer
          /\ \A d \in Conn, t \in Side : d # c \/ t # s => end'[d][t] = end[d][t]
        BY <1>1 DEF TypeOK
    <2> QED BY <1>1, <2>1, ClosingSame
<1>2. ASSUME NEW o \in Rivals(c, s), wire' = w,
             end' = [end EXCEPT ![o[1]][o[2]].closed = TRUE, ![c][s] = peer]
      PROVE  /\ end'[c][s] = peer /\ wire' = w
             /\ \A t \in Side : t # s => end'[c][t] = end[c][t]
             /\ \A d \in Conn, t \in Side : d # c => Closing(end[d][t], end'[d][t])
    <2> DEFINE a == o[1]
               b == o[2]
               r == end[a][b]
               q == [r EXCEPT !.closed = TRUE]
    <2>1. a \in Conn \ {c} /\ b \in Side /\ r.authenticated
        BY DEF Rivals
    <2>2. r \in PeerObject
        BY <2>1, EndIn
    <2>3. end' = [end EXCEPT ![a][b] = q, ![c][s] = peer]
        BY <1>2
    <2>4. q \in PeerObject /\ Closing(r, q)
        <3> HIDE DEF r
        <3> QED BY <2>1, <2>2 DEF PeerObject, Closing
    <2> HIDE DEF a, b, q
    <2> DEFINE e == [end EXCEPT ![a][b] = q]
    <2>5. /\ e \in [Conn -> [Side -> PeerObject]] /\ e[a][b] = q
          /\ \A d \in Conn, t \in Side : d # a \/ t # b => e[d][t] = end[d][t]
        BY <2>1, <2>4 DEF TypeOK
    <2>6. end' = [e EXCEPT ![c][s] = peer]
        BY <2>3
    <2> HIDE DEF e
    <2>7. /\ end'[c][s] = peer
          /\ \A d \in Conn, t \in Side : d # c \/ t # s => end'[d][t] = e[d][t]
        BY <2>5, <2>6
    <2>8. ASSUME NEW d \in Conn, NEW t \in Side, d # c
          PROVE  Closing(end[d][t], end'[d][t])
        <3>1. end'[d][t] = e[d][t]
            BY <2>7, <2>8
        <3>2. CASE d = a /\ t = b
            BY <2>4, <2>5, <3>1, <3>2
        <3>3. CASE d # a \/ t # b
            BY <2>5, <3>1, <3>3, ClosingSame
        <3> QED BY <3>2, <3>3
    <2>9. \A t \in Side : t # s => end'[c][t] = end[c][t]
        BY <2>1, <2>5, <2>7
    <2> QED BY <1>2, <2>7, <2>8, <2>9
<1>3. CASE /\ end' = [end EXCEPT ![c][s] = [peer EXCEPT !.state = "left"]]
           /\ wire' = v
    <2> DEFINE p == [peer EXCEPT !.state = "left"]
    <2>1. p \in PeerObject
        BY DEF PeerObject
    <2>2. end' = [end EXCEPT ![c][s] = p]
        BY <1>3
    <2> HIDE DEF p
    <2>3. /\ end'[c][s] = p
          /\ \A d \in Conn, t \in Side : d # c \/ t # s => end'[d][t] = end[d][t]
        BY <2>1, <2>2 DEF TypeOK
    <2> QED BY <1>3, <2>3, ClosingSame DEF p
<1> QED BY <1>1, <1>2, <1>3 DEF dedup_connection

\* auth_confirm at the responder.
LEMMA ConfirmAgreed ==
    ASSUME RegistryInv, HandshakeInv, NEW c \in Conn, handle_auth_confirm(c)
    PROVE  HandshakeInv'
<1> DEFINE e == end[c]["in"]
           p == [authenticated(e) EXCEPT !.msgpack = Packs(c)]
           q == [p EXCEPT !.state = "left"]
<1>1. /\ TypeOK /\ wire \in Wires /\ e \in PeerObject /\ e.state = "reading"
      /\ wire[c]["in"] # <<>> /\ Head(wire[c]["in"]).type = "auth_confirm"
      /\ UNCHANGED dial /\ "in" \in Side
    BY Ends, EndIn DEF RegistryInv, HandshakeInv, Wires, handle_auth_confirm, Reads
<1>2. Packs(c) \in BOOLEAN
    BY DEF Packs
<1>3. /\ p \in PeerObject /\ p.authenticated
      /\ p.encrypted <=> e.encrypted
      /\ q.authenticated /\ q.state = "left"
      /\ q.encrypted <=> e.encrypted
    <2> HIDE DEF e
    <2> QED BY <1>1, <1>2 DEF PeerObject, authenticated
<1>4. dedup_connection(c, "in", p, Taken(c, "in"), Taken(c, "in"))
    BY DEF handle_auth_confirm
<1> HIDE DEF p
<1>5. /\ \/ end'[c]["in"] = p /\ wire' = Taken(c, "in")
         \/ end'[c]["in"] = q /\ wire' = Taken(c, "in")
      /\ \A t \in Side : t # "in" => end'[c][t] = end[c][t]
      /\ \A d \in Conn, t \in Side : d # c => Closing(end[d][t], end'[d][t])
    BY <1>1, <1>3, <1>4, DedupEnds, Zenon
<1> HIDE DEF q
<1>6. /\ wire' \in Wires /\ wire'[c]["in"] = Tail(wire[c]["in"])
      /\ \A d \in Conn, t \in Side : d # c => wire'[d][t] = wire[d][t]
      /\ Plain(wire'[c]["out"], wire[c]["out"])
    BY <1>1, <1>5, TakesIn, Ends DEF Plain
<1>7. end'[c]["out"] = end[c]["out"]
    BY <1>5, Ends
<1>8. ASSUME NEW x, end'[c]["in"] = x, x = p \/ x = q PROVE HandshakeInv'
    <2>1. /\ x.authenticated
          /\ x.encrypted <=> e.encrypted
        BY <1>3, <1>8
    <2> QED BY <1>1, <1>5, <1>6, <1>7, <1>8, <2>1, ResponderTakes
<1> QED BY <1>5, <1>8

\* The session key: what came before it has authenticated the initiator.
LEMMA KeyAgreed ==
    ASSUME RegistryInv, HandshakeInv, NEW c \in Conn, handle_session_key(c)
    PROVE  HandshakeInv'
<1> DEFINE e == end[c]["in"]
           p == [e EXCEPT !.encrypted = e.authenticated]
<1>1. /\ TypeOK /\ wire \in Wires /\ e \in PeerObject /\ e.state = "reading"
      /\ wire[c]["in"] # <<>> /\ Head(wire[c]["in"]).type = "session_key"
      /\ UNCHANGED dial /\ "in" \in Side /\ AgreedAt(c) /\ wire[c]["in"] \in Seq(Message)
    <2>1. TypeOK /\ wire \in Wires /\ "in" \in Side /\ AgreedAt(c)
        BY Ends DEF RegistryInv, HandshakeInv, Wires
    <2>2. e \in PeerObject /\ wire[c]["in"] \in Seq(Message)
        BY <2>1, EndIn, Zenon DEF Wires
    <2> QED BY <2>1, <2>2 DEF handle_session_key, Reads
<1>2. e.authenticated
    <2> DEFINE w == wire[c]["in"]
    <2>1. Ordered(w, e.authenticated, e.encrypted)
        BY <1>1 DEF AgreedAt, Agreed
    <2>2. w \in Seq(Message) /\ w # <<>> /\ Head(w).type = "session_key"
        BY <1>1
    <2> HIDE DEF w, e
    <2>3. Head(w) = w[1] /\ 1 \in 1..Len(w)
        BY <2>2, UnderTail
    <2>4. ~ Before(w, 1, "auth_confirm")
        BY DEF Before
    <2> QED BY <2>1, <2>2, <2>3, <2>4 DEF Ordered
<1>3. /\ p \in PeerObject /\ p.encrypted /\ p.state = "reading"
      /\ p.authenticated <=> e.authenticated
    <2> HIDE DEF e
    <2> QED BY <1>1, <1>2 DEF PeerObject
<1>4. end' = [end EXCEPT ![c]["in"] = p] /\ wire' = Taken(c, "in")
    BY DEF handle_session_key
<1> HIDE DEF p
<1>5. /\ end'[c]["in"] = p
      /\ \A d \in Conn, t \in Side : d # c \/ t # "in" => end'[d][t] = end[d][t]
    BY <1>1, <1>3, <1>4, PutIn
<1>6. /\ wire' \in Wires /\ wire'[c]["in"] = Tail(wire[c]["in"])
      /\ \A d \in Conn, t \in Side : d # c => wire'[d][t] = wire[d][t]
      /\ Plain(wire'[c]["out"], wire[c]["out"])
    BY <1>1, <1>4, TakesIn, Ends DEF Plain
<1>7. end'[c]["out"] = end[c]["out"]
    BY <1>5, Ends
<1>8. \A d \in Conn, t \in Side : d # c => Closing(end[d][t], end'[d][t])
    BY <1>5, ClosingSame
<1> QED BY <1>1, <1>2, <1>3, <1>5, <1>6, <1>7, <1>8, ResponderTakes

\* The initiator takes a message with a challenge unanswered, and replies.
LEMMA Replies ==
    ASSUME RegistryInv, HandshakeInv, NEW c \in Conn, NEW types \in Seq(Kinds), NEW x,
           UNCHANGED dial, end[c]["out"].state # "none", end[c]["out"].challenge,
           wire[c]["out"] # <<>>, wire' = Sent(Taken(c, "out"), c, "out", types),
           end'[c]["out"] = x, end'[c]["in"] = end[c]["in"],
           \A d \in Conn, t \in Side : d # c => Closing(end[d][t], end'[d][t]),
           x.authenticated, ~ x.challenge, ~ x.closed,
           types[1] = "auth_confirm", Len(types) >= 1,
           Under(Messages(c, "out", types), "session_key") => x.encrypted,
           x.state # "left" =>
               (x.encrypted => Under(Messages(c, "out", types), "session_key"))
    PROVE  HandshakeInv'
<1> DEFINE m == Messages(c, "out", types)
           v == Taken(c, "out")
           open == dial[c] = "open"
           out == end[c]["out"]
           in == end[c]["in"]
           wi == wire[c]["in"]
           wo == wire[c]["out"]
           wo2 == wire'[c]["out"]
<1>1. TypeOK /\ wire \in Wires /\ "in" \in Side /\ "out" \in Side /\ "in" # "out" /\ AgreedAt(c)
    BY Ends DEF RegistryInv, HandshakeInv, Wires
<1>2. wi \in Seq(Message) /\ wo \in Seq(Message) /\ wo # <<>>
    BY <1>1, Zenon DEF Wires
<1>3. Agreed(open, out, in, wi, wo)
    BY <1>1 DEF AgreedAt
<1>4. open /\ ~ out.closed
    <2>1. NewPeer.state = "none" /\ out.state # "none" /\ out.challenge
        BY DEF NewPeer
    <2> HIDE DEF open, out, in, wi, wo
    <2> QED BY <1>3, <2>1 DEF Agreed
<1>5. /\ m \in Seq(Message) /\ Len(m) = Len(types)
      /\ \A i \in 1..Len(types) : m[i].type = types[i] /\ ~ m[i].trusted /\ ~ m[i].encrypted
    BY <1>1, MessagesAre
<1>6. /\ v \in Wires /\ v[c]["out"] = Tail(wo)
      /\ \A d \in Conn, t \in Side : d # c \/ t # "out" => v[d][t] = wire[d][t]
    <2>1. wire \in Wires /\ c \in Conn /\ wire[c]["out"] # <<>>
        BY <1>1
    <2> QED BY <2>1, TakesOut, Zenon
<1>7. wire' = Sent(v, c, "out", types)
    OBVIOUS
<1> HIDE DEF m, v
<1>8. /\ wire' \in Wires /\ wire'[c]["in"] = v[c]["in"] \o m
      /\ \A d \in Conn, t \in Side : d # c \/ t # "in" => wire'[d][t] = v[d][t]
    <2>1. /\ Sent(v, c, "out", types) \in Wires
          /\ Sent(v, c, "out", types)[c]["in"] = v[c]["in"] \o Messages(c, "out", types)
          /\ \A d \in Conn, t \in Side : d # c \/ t # "in" =>
                Sent(v, c, "out", types)[d][t] = v[d][t]
        BY <1>1, <1>4, <1>6, SendsOut, Zenon
    <2> QED BY <1>7, <2>1, ZenonT(60) DEF m
<1>9. /\ wire'[c]["in"] = wi \o m /\ wo2 = Tail(wo)
      /\ \A d \in Conn, t \in Side : d # c => wire'[d][t] = wire[d][t]
    <2>1. v[c]["in"] = wi /\ wire'[c]["out"] = v[c]["out"]
        BY <1>1, <1>6, <1>8, Zenon
    <2>2. \A d \in Conn, t \in Side : d # c => wire'[d][t] = wire[d][t]
        BY <1>6, <1>8
    <2> QED BY <1>6, <1>8, <2>1, <2>2
<1>10. Plain(wo2, wo)
    BY <1>2, <1>9, PlainTail
<1>11. m[1].type = "auth_confirm" /\ Len(m) >= 1
    <2>1. Len(types) \in Nat /\ Len(types) >= 1
        BY LenProperties
    <2>2. 1 \in 1..Len(types)
        BY <2>1
    <2> QED BY <1>5, <2>2
<1>12. \A j \in 1..Len(m) : ~ m[j].trusted /\ ~ m[j].encrypted
    BY <1>5
<1>13. /\ Under(m, "session_key") => x.encrypted
       /\ x.state # "left" => (x.encrypted => Under(m, "session_key"))
       /\ out.challenge
    BY DEF m
<1>14. Agreed(open, x, in, wi \o m, wo2)
    <2> HIDE DEF open, out, in, wi, wo, wo2
    <2> QED BY <1>2, <1>3, <1>4, <1>5, <1>10, <1>11, <1>12, <1>13, InitiatorReplies
<1>15. AgreedAt(c)'
    BY <1>9, <1>14 DEF AgreedAt
<1> QED BY <1>8, <1>9, <1>15, Bystanders

\* auth_response at the initiator.
LEMMA ResponseAgreed ==
    ASSUME RegistryInv, HandshakeInv, NEW c \in Conn, handle_auth_response(c)
    PROVE  HandshakeInv'
<1> DEFINE e == end[c]["out"]
           p == [authenticated(e) EXCEPT !.encrypted = Encrypts(c), !.msgpack = Packs(c)]
           q == [p EXCEPT !.state = "left"]
           tail == handshake_tail(c)
           short == <<"auth_confirm">>
<1>1. TypeOK /\ wire \in Wires /\ "in" \in Side /\ "out" \in Side /\ "in" # "out" /\ AgreedAt(c)
    BY Ends DEF RegistryInv, HandshakeInv, Wires
<1>2. /\ e \in PeerObject /\ e.state = "reading" /\ e.challenge
      /\ wire[c]["out"] # <<>> /\ UNCHANGED dial
    <2>1. e \in PeerObject
        BY <1>1, EndIn, Zenon
    <2> QED BY <2>1 DEF handle_auth_response, Reads
<1>3. Encrypts(c) \in BOOLEAN /\ Packs(c) \in BOOLEAN
    BY DEF Encrypts, Packs
<1>4. ~ e.closed
    <2> HIDE DEF e
    <2> QED BY <1>1, <1>2 DEF AgreedAt, Agreed, e
<1>5. /\ p \in PeerObject /\ p.authenticated /\ ~ p.challenge /\ ~ p.closed
      /\ p.encrypted <=> Encrypts(c)
      /\ q.authenticated /\ ~ q.challenge /\ ~ q.closed /\ q.state = "left"
      /\ q.encrypted <=> Encrypts(c)
    <2> HIDE DEF e
    <2> QED BY <1>2, <1>3, <1>4 DEF PeerObject, authenticated
<1>6. dedup_connection(c, "out", p, Sent(Taken(c, "out"), c, "out", tail),
                       Sent(Taken(c, "out"), c, "out", short))
    BY DEF handle_auth_response
<1>7. /\ tail \in Seq(Kinds) /\ tail[1] = "auth_confirm" /\ Len(tail) >= 1
      /\ (\E j \in 1..Len(tail) : tail[j] = "session_key") <=> Encrypts(c)
    <2>1. CASE Encrypts(c)
        <3>1. tail = <<"auth_confirm", "session_key">>
            BY <2>1 DEF handshake_tail
        <3> QED BY <2>1, <3>1 DEF Kinds
    <2>2. CASE ~ Encrypts(c)
        <3>1. tail = <<"auth_confirm">>
            BY <2>2 DEF handshake_tail
        <3> QED BY <2>2, <3>1 DEF Kinds
    <2> QED BY <2>1, <2>2
<1>8. /\ short \in Seq(Kinds) /\ short[1] = "auth_confirm" /\ Len(short) >= 1
      /\ \A j \in 1..Len(short) : short[j] # "session_key"
    BY DEF Kinds
<1> HIDE DEF p, tail, short
<1>9. /\ \/ end'[c]["out"] = p /\ wire' = Sent(Taken(c, "out"), c, "out", tail)
         \/ end'[c]["out"] = q /\ wire' = Sent(Taken(c, "out"), c, "out", short)
      /\ \A t \in Side : t # "out" => end'[c][t] = end[c][t]
      /\ \A d \in Conn, t \in Side : d # c => Closing(end[d][t], end'[d][t])
    BY <1>1, <1>5, <1>6, DedupEnds, Zenon
<1> HIDE DEF q
<1>10. end'[c]["in"] = end[c]["in"]
    BY <1>1, <1>9, Zenon
<1>11. ASSUME NEW types \in Seq(Kinds)
       PROVE  Under(Messages(c, "out", types), "session_key")
                  <=> \E j \in 1..Len(types) : types[j] = "session_key"
    <2> DEFINE m == Messages(c, "out", types)
    <2>1. Len(m) = Len(types) /\ \A i \in 1..Len(types) : m[i].type = types[i]
        BY <1>1, MessagesAre, Zenon
    <2> HIDE DEF m
    <2>2. Under(m, "session_key") <=> \E j \in 1..Len(types) : types[j] = "session_key"
        BY <2>1 DEF Under
    <2> QED BY <2>2 DEF m
<1>12. CASE end'[c]["out"] = p /\ wire' = Sent(Taken(c, "out"), c, "out", tail)
    <2>1. Under(Messages(c, "out", tail), "session_key") <=> p.encrypted
        BY <1>5, <1>7, <1>11
    <2>2. end[c]["out"].state # "none" /\ end[c]["out"].challenge
        BY <1>2
    <2> QED BY <1>2, <1>5, <1>7, <1>9, <1>10, <1>12, <2>1, <2>2, Replies
<1>13. CASE end'[c]["out"] = q /\ wire' = Sent(Taken(c, "out"), c, "out", short)
    <2>1. ~ Under(Messages(c, "out", short), "session_key")
        BY <1>8, <1>11
    <2>2. end[c]["out"].state # "none" /\ end[c]["out"].challenge
        BY <1>2
    <2> QED BY <1>2, <1>5, <1>8, <1>9, <1>10, <1>13, <2>1, <2>2, Replies
<1> QED BY <1>9, <1>12, <1>13

\* An end takes a message that brings it nothing, or leaves, or both.
LEMMA StepAside ==
    ASSUME RegistryInv, HandshakeInv, NEW c \in Conn, NEW s \in Side, NEW p \in PeerObject,
           UNCHANGED dial, end' = [end EXCEPT ![c][s] = p],
           end[c][s].state \in Live,
           end[c][s].authenticated <=> p.authenticated,
           end[c][s].encrypted <=> p.encrypted,
           p.challenge => end[c][s].challenge, p.closed => end[c][s].closed,
           \/ UNCHANGED wire
           \/ /\ wire[c][s] # <<>> /\ wire' = Taken(c, s)
              /\ p.state = "left" \/ Head(wire[c][s]).type \in {"hello", "data"}
    PROVE  HandshakeInv'
<1>1. TypeOK /\ wire \in Wires /\ "in" \in Side /\ "out" \in Side /\ "in" # "out"
    BY Ends DEF RegistryInv, HandshakeInv, Wires
<1>2. /\ end'[c][s] = p
      /\ \A d \in Conn, t \in Side : d # c \/ t # s => end'[d][t] = end[d][t]
    BY <1>1 DEF TypeOK
<1>3. \A d \in Conn, t \in Side : d # c => Closing(end[d][t], end'[d][t])
    BY <1>2, ClosingSame
<1>4. wire[c][s] \in Seq(Message)
    BY <1>1 DEF Wires
<1>5. /\ wire' \in Wires
      /\ \A d \in Conn, t \in Side : d # c \/ t # s => wire'[d][t] = wire[d][t]
      /\ Plain(wire'[c][s], wire[c][s])
    <2>1. CASE UNCHANGED wire
        BY <1>1, <2>1 DEF Plain
    <2>2. CASE wire[c][s] # <<>> /\ wire' = Taken(c, s)
        <3>1. /\ wire' \in Wires /\ wire'[c][s] = Tail(wire[c][s])
              /\ \A d \in Conn, t \in Side : d # c \/ t # s => wire'[d][t] = wire[d][t]
            BY <1>1, <2>2, Takes
        <3>2. Plain(Tail(wire[c][s]), wire[c][s])
            BY <1>4, <2>2, PlainTail
        <3> QED BY <3>1, <3>2
    <2> QED BY <2>1, <2>2
<1>6. \A d \in Conn, t \in Side : d # c =>
          wire'[d][t] = wire[d][t] /\ Closing(end[d][t], end'[d][t])
    BY <1>3, <1>5
<1>7. end[c][s].state # "left" /\ end[c][s].state # "none"
    BY DEF Live
<1>8. CASE s = "out"
    <2>1. /\ end'[c]["out"] = p /\ end'[c]["in"] = end[c]["in"]
          /\ wire'[c]["in"] = wire[c]["in"] /\ Plain(wire'[c]["out"], wire[c]["out"])
        BY <1>1, <1>2, <1>5, <1>8, Zenon
    <2>2. /\ end[c]["out"].state # "none" /\ end[c]["out"].state # "left"
          /\ end[c]["out"].authenticated <=> p.authenticated
          /\ end[c]["out"].encrypted <=> p.encrypted
          /\ p.challenge => end[c]["out"].challenge
          /\ p.closed => end[c]["out"].closed
        BY <1>7, <1>8
    <2> QED BY <1>5, <1>6, <2>1, <2>2, InitiatorPut
<1>9. CASE s = "in" /\ UNCHANGED wire
    <2>1. end[c]["in"].state # "left" /\ end' = [end EXCEPT ![c]["in"] = p]
          /\ (end[c]["in"].authenticated <=> p.authenticated)
          /\ (end[c]["in"].encrypted <=> p.encrypted)
        BY <1>7, <1>9
    <2> QED BY <1>9, <2>1, ResponderPut
<1>10. CASE /\ s = "in" /\ wire[c][s] # <<>> /\ wire' = Taken(c, s)
            /\ p.state = "left" \/ Head(wire[c][s]).type \in {"hello", "data"}
    <2>1. wire'[c][s] = Tail(wire[c][s])
        BY <1>1, <1>10, Takes
    <2>2. /\ end'[c]["in"] = p /\ end'[c]["out"] = end[c]["out"]
          /\ wire'[c]["out"] = wire[c]["out"] /\ wire'[c]["in"] = Tail(wire[c]["in"])
          /\ wire[c]["in"] # <<>>
        BY <1>1, <1>2, <1>5, <1>10, <2>1, Zenon
    <2>3. /\ end[c]["in"].state # "left"
          /\ end[c]["in"].authenticated <=> p.authenticated
          /\ end[c]["in"].encrypted <=> p.encrypted
          /\ p.state # "left" => Head(wire[c]["in"]).type \in {"hello", "data"}
        BY <1>7, <1>10
    <2>4. Plain(wire'[c]["out"], wire[c]["out"])
        BY <2>2 DEF Plain
    <2> QED BY <1>5, <1>6, <2>2, <2>3, <2>4, ResponderTakes
<1> QED BY <1>8, <1>9, <1>10, Ends

LEMMA LeaveAgreed ==
    ASSUME RegistryInv, HandshakeInv, NEW c \in Conn, NEW s \in Side, UNCHANGED dial,
           Leave(c, s), end[c][s].state \in Live,
           UNCHANGED wire \/ (wire[c][s] # <<>> /\ wire' = Taken(c, s))
    PROVE  HandshakeInv'
<1> DEFINE e == end[c][s]
           p == [e EXCEPT !.state = "left"]
<1>1. e \in PeerObject
    BY EndIn DEF RegistryInv
<1>2. end' = [end EXCEPT ![c][s] = p]
    BY DEF Leave
<1>3. /\ p \in PeerObject /\ p.state = "left"
      /\ e.authenticated <=> p.authenticated
      /\ e.encrypted <=> p.encrypted
      /\ p.challenge => e.challenge
      /\ p.closed => e.closed
    <2> HIDE DEF e
    <2> QED BY <1>1 DEF PeerObject
<1> HIDE DEF p
<1> QED BY <1>2, <1>3, StepAside

LEMMA TimeoutAgreed ==
    ASSUME RegistryInv, HandshakeInv, NEW c \in Conn, NEW s \in Side, auth_timeout(c, s)
    PROVE  HandshakeInv'
<1> DEFINE e == end[c][s]
           p == [e EXCEPT !.state = "left", !.challenge = FALSE]
<1>1. /\ e \in PeerObject /\ e.state \in Live /\ wire[c][s] # <<>>
      /\ wire' = Taken(c, s) /\ UNCHANGED dial
    BY EndIn DEF RegistryInv, auth_timeout, Reads, Live
<1>2. end' = [end EXCEPT ![c][s] = p]
    BY DEF auth_timeout
<1>3. /\ p \in PeerObject /\ p.state = "left"
      /\ e.authenticated <=> p.authenticated
      /\ e.encrypted <=> p.encrypted
      /\ p.challenge => e.challenge
      /\ p.closed => e.closed
    <2> HIDE DEF e
    <2> QED BY <1>1 DEF PeerObject
<1> HIDE DEF p
<1> QED BY <1>1, <1>2, <1>3, StepAside

\* A hello or a block is taken and nothing comes of it here.
LEMMA IgnoreAgreed ==
    ASSUME RegistryInv, HandshakeInv, NEW c \in Conn, NEW s \in Side, UNCHANGED <<dial, end>>,
           NEW type \in {"hello", "data"}, Reads(c, s, type), wire' = Taken(c, s)
    PROVE  HandshakeInv'
<1> DEFINE e == end[c][s]
<1>1. /\ e \in PeerObject /\ e.state \in Live /\ wire[c][s] # <<>>
      /\ Head(wire[c][s]).type \in {"hello", "data"}
    BY EndIn DEF RegistryInv, Reads, Live
<1>2. end' = [end EXCEPT ![c][s] = e]
    BY <1>1 DEF RegistryInv, TypeOK
<1> HIDE DEF e
<1>3. end[c][s] = e
    BY DEF e
<1> QED BY <1>1, <1>2, <1>3, StepAside

\* A broadcast, at each connection.
LEMMA BroadcastAgreed ==
    ASSUME RegistryInv, HandshakeInv, NEW n \in Node, broadcast(n)
    PROVE  HandshakeInv'
<1> DEFINE to(c, s) == /\ At(c, s) = n /\ Registered(c, s)
                       /\ end[c][s].state # "left" /\ ~ end[c][s].closed
           x(c, s) == send_encrypted(end[c][s])
<1>1. TypeOK /\ wire \in Wires /\ end' = end /\ dial' = dial
    BY DEF RegistryInv, HandshakeInv, Wires, broadcast
<1>2. \A c \in Conn, s \in Side :
          /\ x(c, s) \in Message /\ x(c, s).type = "data"
          /\ x(c, s).trusted <=> end[c][s].authenticated
          /\ x(c, s).encrypted <=> end[c][s].encrypted
    <2>1. \A c \in Conn, s \in Side : end[c][s] \in PeerObject
        BY <1>1, EndIn
    <2>2. \A e \in PeerObject :
              /\ send_encrypted(e) \in Message /\ send_encrypted(e).type = "data"
              /\ send_encrypted(e).trusted <=> e.authenticated
              /\ send_encrypted(e).encrypted <=> e.encrypted
        BY DEF PeerObject, send_encrypted, Message
    <2> QED BY <2>1, <2>2
<1>3. wire' = [c \in Conn |-> [s \in Side |->
           IF ~ to(c, Other(s)) THEN wire[c][s] ELSE Append(wire[c][s], x(c, Other(s)))]]
    BY DEF broadcast
<1> HIDE DEF to, x
<1>4. \A c \in Conn, s \in Side : wire'[c][s] =
           IF ~ to(c, Other(s)) THEN wire[c][s] ELSE Append(wire[c][s], x(c, Other(s)))
    BY <1>3
<1>5. ASSUME NEW c \in Conn, NEW s \in Side
      PROVE  /\ wire[c][s] \in Seq(Message) /\ wire'[c][s] \in Seq(Message)
             /\ wire'[c][s] = IF ~ to(c, Other(s)) THEN wire[c][s]
                              ELSE wire[c][s] \o <<x(c, Other(s))>>
    <2> DEFINE w == wire[c][s]
               y == x(c, Other(s))
    <2>1. w \in Seq(Message) /\ y \in Message
        BY <1>1, <1>2, Ends DEF Wires
    <2>2. wire'[c][s] = IF ~ to(c, Other(s)) THEN w ELSE Append(w, y)
        BY <1>4
    <2> HIDE DEF w, y
    <2>3. Append(w, y) = w \o <<y>> /\ Append(w, y) \in Seq(Message)
        BY <2>1, AppendIsConcat, AppendProperties
    <2> QED BY <2>1, <2>2, <2>3 DEF w, y
<1>6. wire' \in Wires
    <2>1. wire' = [c \in Conn |-> [s \in Side |-> wire'[c][s]]]
        BY <1>3
    <2> QED BY <1>5, <2>1 DEF Wires
<1>7. ASSUME NEW c \in Conn PROVE AgreedAt(c)'
    <2> DEFINE open == dial[c] = "open"
               out == end[c]["out"]
               in == end[c]["in"]
               wi == wire[c]["in"]
               wo == wire[c]["out"]
               wi2 == wire'[c]["in"]
               wo2 == wire'[c]["out"]
               xo == x(c, "out")
               xi == x(c, "in")
    <2>1. Agreed(open, out, in, wi, wo)
        BY DEF HandshakeInv, AgreedAt
    <2>2. /\ "out" \in Side /\ "in" \in Side
          /\ Other("in") = "out" /\ Other("out") = "in"
        BY DEF Side, Other
    <2>3. /\ wi \in Seq(Message) /\ wo \in Seq(Message)
          /\ wi2 = IF ~ to(c, "out") THEN wi ELSE wi \o <<xo>>
          /\ wo2 = IF ~ to(c, "in") THEN wo ELSE wo \o <<xi>>
        BY <1>5, <2>2
    <2>4. /\ xo \in Message /\ xo.type = "data"
          /\ xo.trusted <=> out.authenticated
          /\ xo.encrypted <=> out.encrypted
          /\ xi \in Message
          /\ xi.trusted <=> in.authenticated
          /\ xi.encrypted <=> in.encrypted
        BY <1>2, <2>2
    <2>5. ASSUME to(c, "out") PROVE open /\ out.state # "left"
        <3>1. Registered(c, "out") /\ out.state # "left"
            BY <2>5 DEF to
        <3>2. PICK k \in Node \cup Conn : peers[Caller[c]][k] = c
            BY <3>1, Ends DEF Registered
        <3>3. Entry(Caller[c], k, c)
            BY <3>2, Ends DEF RegistryInv, Entries
        <3>4. PICK s \in Side : At(c, s) = Caller[c] /\ end[c][s].state \in Live
            BY <3>3 DEF Entry
        <3>5. s = "out"
            BY <3>4, Ends
        <3>6. out.state # "none"
            BY <3>4, <3>5 DEF Live
        <3>7. NewPeer.state = "none"
            BY DEF NewPeer
        <3> HIDE DEF open, out, in, wi, wo
        <3> QED BY <2>1, <3>1, <3>6, <3>7 DEF Agreed
    <2> HIDE DEF open, out, in, wi, wo, wi2, wo2, xo, xi
    <2>6. Agreed(open, out, in, wi2, wo)
        <3>1. CASE ~ to(c, "out")
            BY <2>1, <2>3, <3>1
        <3>2. CASE to(c, "out")
            <4>1. Agreed(open, out, in, wi \o <<xo>>, wo)
                BY <2>1, <2>3, <2>4, <2>5, <3>2, InitiatorSays
            <4> QED BY <2>3, <3>2, <4>1
        <3> QED BY <3>1, <3>2
    <2>7. Agreed(open, out, in, wi2, wo2)
        <3>1. CASE ~ to(c, "in")
            BY <2>3, <2>6, <3>1
        <3>2. CASE to(c, "in")
            <4>1. Agreed(open, out, in, wi2, wo \o <<xi>>)
                BY <2>3, <2>4, <2>6, ResponderSays
            <4> QED BY <2>3, <3>2, <4>1
        <3> QED BY <3>1, <3>2
    <2> QED BY <1>1, <2>7 DEF AgreedAt, open, out, in, wi2, wo2
<1> QED BY <1>6, <1>7 DEF HandshakeInv, Wires

LEMMA HandshakeInit == Init => HandshakeInv
<1> SUFFICES ASSUME Init PROVE HandshakeInv
    OBVIOUS
<1>1. end = [c \in Conn |-> [s \in Side |-> NewPeer]] /\ wire = [c \in Conn |-> [s \in Side |-> <<>>]]
    BY DEF Init
<1>2. \A c \in Conn, s \in Side : end[c][s] = NewPeer /\ wire[c][s] = <<>>
    BY <1>1
<1>3. \A open : Agreed(open, NewPeer, NewPeer, <<>>, <<>>)
    <2>1. ~ NewPeer.closed /\ ~ NewPeer.challenge /\ ~ NewPeer.encrypted /\ ~ NewPeer.authenticated
        BY DEF NewPeer
    <2>2. Len(<<>>) = 0
        OBVIOUS
    <2>3. 1..Len(<<>>) = {}
        BY <2>2
    <2>4. \A type : ~ Under(<<>>, type)
        BY <2>3 DEF Under
    <2>5. \A a, k : Ordered(<<>>, a, k)
        BY <2>3 DEF Ordered
    <2> QED BY <2>1, <2>3, <2>4, <2>5 DEF Agreed
<1>4. \A c \in Conn : AgreedAt(c)
    BY <1>2, <1>3, Ends DEF AgreedAt
<1>5. wire \in [Conn -> [Side -> Seq(Message)]]
    <2>1. <<>> \in Seq(Message)
        OBVIOUS
    <2> QED BY <1>1, <2>1
<1> QED BY <1>4, <1>5 DEF HandshakeInv

LEMMA HandshakeNext == RegistryInv /\ HandshakeInv /\ [Next]_vars => HandshakeInv'
<1> SUFFICES ASSUME RegistryInv, HandshakeInv, [Next]_vars PROVE HandshakeInv'
    OBVIOUS
<1>1. ASSUME NEW c \in Conn, connect(c) \/ connect_failed(c) PROVE HandshakeInv'
    <2>1. /\ UNCHANGED <<end, wire>> /\ dial[c] # "open"
          /\ \E y \in {"opening", "failed"} : dial' = [dial EXCEPT ![c] = y]
        BY <1>1 DEF connect, connect_failed
    <2>2. \A d \in Conn : dial'[d] = "open" <=> dial[d] = "open"
        BY <2>1 DEF RegistryInv, TypeOK
    <2> QED BY <2>1, <2>2, QuietAgreed
<1>2. ASSUME NEW c \in Conn, ignore_hello(c) PROVE HandshakeInv'
    BY <1>2, IgnoreAgreed, Ends DEF ignore_hello
<1>3. ASSUME NEW c \in Conn, hello_timeout(c) PROVE HandshakeInv'
    <2> DEFINE s == "in"
    <2>1. /\ s \in Side /\ UNCHANGED dial /\ UNCHANGED wire /\ end[c][s].state \in Live
          /\ Leave(c, s)
        BY <1>3, Ends DEF hello_timeout, Live
    <2> HIDE DEF s
    <2> QED BY <2>1, LeaveAgreed
<1>4. ASSUME NEW c \in Conn, NEW s \in Side, read_data(c, s) PROVE HandshakeInv'
    <2>1. /\ Reads(c, s, "data") /\ wire' = Taken(c, s) /\ UNCHANGED dial
          /\ UNCHANGED end \/ Leave(c, s)
        BY <1>4 DEF read_data
    <2>2. end[c][s].state \in Live /\ wire[c][s] # <<>>
        BY <2>1 DEF Reads, Live
    <2> QED BY <2>1, <2>2, IgnoreAgreed, LeaveAgreed
<1>5. ASSUME NEW c \in Conn, NEW s \in Side, read_ends(c, s) PROVE HandshakeInv'
    <2>1. /\ UNCHANGED dial /\ UNCHANGED wire /\ end[c][s].state \in Live
          /\ Leave(c, s)
        BY <1>5 DEF read_ends, Live
    <2> QED BY <2>1, LeaveAgreed
<1>6. CASE UNCHANGED vars
    BY <1>6, QuietAgreed DEF vars
<1> QED BY <1>1, <1>2, <1>3, <1>4, <1>5, <1>6, OpenedAgreed, ConnectedAgreed, HelloAgreed,
           ResponseAgreed, ConfirmAgreed, KeyAgreed, TimeoutAgreed, BroadcastAgreed
    DEF Next, Handshake

-----------------------------------------------------------------------------
\* What an end sends once it has authenticated the other (p2p.py,
\* send_encrypted) finds the other end, if it still reads, authenticated and in
\* possession of the key: the confirmation, the session key and what follows are
\* sent without an await between them and read in that order, so that nothing
\* is lost to decrypt_message or to check_auth_gate.
THEOREM NothingTrustedLost == Spec => []TrustedDataAccepted
<1>1. Init => RegistryInv /\ HandshakeInv
    BY RegistryInit, HandshakeInit
<1>2. RegistryInv /\ HandshakeInv /\ [Next]_vars => (RegistryInv /\ HandshakeInv)'
    BY RegistryNext, HandshakeNext
<1>3. HandshakeInv => TrustedDataAccepted
    <2> SUFFICES ASSUME HandshakeInv, NEW c \in Conn, NEW s \in Side,
                        Reads(c, s, "data"), Head(wire[c][s]).trusted
                 PROVE  Decrypts(c, s) /\ check_auth_gate(end[c][s])
        BY DEF TrustedDataAccepted
    <2> DEFINE w == wire[c][s]
               e == end[c][s]
    <2>1. w \in Seq(Message) /\ w # <<>> /\ e.state # "left" /\ Head(w).trusted
        BY DEF Reads, HandshakeInv
    <2>2. AgreedAt(c)
        BY DEF HandshakeInv
    <2>3. CASE s = "in"
        <3>1. e.state # "left" => Ordered(w, e.authenticated, e.encrypted)
            BY <2>2, <2>3 DEF AgreedAt, Agreed
        <3> HIDE DEF w, e
        <3>2. Head(w) = w[1] /\ 1 \in 1..Len(w)
            BY <2>1, UnderTail
        <3>3. \A type : ~ Before(w, 1, type)
            BY DEF Before
        <3>4. e.authenticated /\ (Head(w).encrypted => e.encrypted)
            BY <2>1, <3>1, <3>2, <3>3 DEF Ordered
        <3> QED BY <3>4 DEF Decrypts, check_auth_gate, w, e
    <2>4. CASE s = "out"
        <3>1. \A i \in 1..Len(w) : /\ w[i].trusted => e.authenticated
                                   /\ w[i].encrypted => e.encrypted
            BY <2>2, <2>4 DEF AgreedAt, Agreed
        <3> HIDE DEF w, e
        <3>2. Head(w) = w[1] /\ 1 \in 1..Len(w)
            BY <2>1, UnderTail
        <3>3. e.authenticated /\ (Head(w).encrypted => e.encrypted)
            BY <2>1, <3>1, <3>2
        <3> QED BY <3>3 DEF Decrypts, check_auth_gate, w, e
    <2> QED BY <2>3, <2>4, Ends
<1> QED BY <1>1, <1>2, <1>3, PTL DEF Spec
=============================================================================
