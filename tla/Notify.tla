------------------------------- MODULE Notify -------------------------------
(***************************************************************************)
(* How a node tells the outside of what happens on the chain: WebSocket    *)
(* subscriptions (network/websocket.py), webhooks (network/webhooks.py)    *)
(* and the tasks of node.py that feed both.                                *)
(*                                                                         *)
(* Everything runs on one event loop, so a step is the code between two    *)
(* awaits.  A notifier is a task that broadcasts: the block loop, the      *)
(* handler of a peer's messages, an RPC handler or the loop of statistics. *)
(* It takes a snapshot of the subscribers of a channel and awaits one send *)
(* after the other; meanwhile handlers of connections start, subscribe and *)
(* end.  The notifier of a block then creates one delivery task for every  *)
(* webhook that matches; a delivery is a chain of attempts, each an await  *)
(* of an HTTP request.  Payloads, signatures and the checks of the shape   *)
(* of a request are left out: every request here is well formed.           *)
(***************************************************************************)
EXTENDS Integers, FiniteSets, Sequences

CONSTANTS
    Client,                      \* WebSocket connections, as id(ws) tells them apart
    Asked,                       \* the channels that clients ask for
    Notifier,                    \* the tasks that broadcast
    Kind,                        \* what each of them tells of: a key of SCRIPT
    MAX_WS_CONNECTIONS,
    MAX_SUBSCRIPTIONS_PER_CLIENT,
    Webhook,                     \* the ids secrets.token_hex(16) may return
    MAX_WEBHOOKS,
    RETRIES,                     \* len(RETRY_DELAYS)
    CONSECUTIVE_FAIL_DISABLE,
    Users,                       \* the sets of clients and webhooks of one behaviour
    MaxTasks                     \* bound: deliveries of one webhook in flight

VALID_CHANNELS == {"new_block", "new_tx", "chain_stats", "finalized"}

\* The channels a notifier broadcasts on, in their order: _ws_notify_block,
\* _ws_notify_tx and _stats_loop.
SCRIPT == [block |-> <<"new_block", "finalized">>,
           tx    |-> <<"new_tx">>,
           stats |-> <<"chain_stats">>]

ASSUME NotifyAssumption ==
    /\ Asked \subseteq VALID_CHANNELS
    /\ Kind \in [Notifier -> DOMAIN SCRIPT]
    /\ {MAX_WS_CONNECTIONS, MAX_SUBSCRIPTIONS_PER_CLIENT, MAX_WEBHOOKS,
        RETRIES, CONSECUTIVE_FAIL_DISABLE, MaxTasks} \subseteq Nat \ {0}
    /\ Users \subseteq SUBSET (Client \cup Webhook)

VARIABLES
    handler,          \* client -> how far websocket_handler is
    jammed,           \* clients whose write buffer is full: a send waits
    all_clients,      \* _all_clients
    subscribers,      \* _subscribers
    client_channels,  \* _client_channels
    notifier,         \* notifier -> the broadcast it is in
    status,           \* webhook -> its status, "none" before register
    failures,         \* webhook -> consecutive_failures
    waiting,          \* webhook -> attempt -> deliveries about to make it
    posting,          \* webhook -> attempt -> deliveries awaiting its answer
    endpoint,         \* webhook -> what its URL leads to at present
    phase,            \* how far Node.stop is
    users             \* who uses the node in this behaviour

wsVars == <<handler, jammed, all_clients, subscribers, client_channels>>
hookVars == <<status, failures, waiting, posting>>
vars == <<wsVars, notifier, hookVars, endpoint, phase, users>>

Attempt == 0..(RETRIES - 1)
NoTask == [a \in Attempt |-> 0]
Idle == [at |-> 0, todo |-> {}, dead |-> {}]

Init ==
    /\ handler = [c \in Client |-> "none"]
    /\ jammed = {}
    /\ all_clients = {}
    /\ subscribers = [ch \in VALID_CHANNELS |-> {}]
    /\ client_channels = [c \in Client |-> {}]
    /\ notifier = [n \in Notifier |-> Idle]
    /\ status = [w \in Webhook |-> "none"]
    /\ failures = [w \in Webhook |-> 0]
    /\ waiting = [w \in Webhook |-> NoTask]
    /\ posting = [w \in Webhook |-> NoTask]
    /\ endpoint = [w \in Webhook |-> "up"]
    /\ phase = "run"
    /\ users \in Users

----------------------------------------------------------------------------
(* WebSocket connections                                                   *)

\* A broadcast holds the connection object, so its id() is not given again.
Held(c) == \E n \in Notifier : c \in notifier[n].todo \cup notifier[n].dead

\* websocket_handler up to its first await: the limit is read before
\* ws.prepare() and the client counted after it.
connect(c) ==
    /\ c \in users
    /\ phase # "stopped"
    /\ handler[c] = "none"
    /\ ~Held(c)
    /\ Cardinality(all_clients) < MAX_WS_CONNECTIONS
    /\ handler' = [handler EXCEPT ![c] = "prepare"]
    /\ UNCHANGED <<jammed, all_clients, subscribers, client_channels,
                   notifier, hookVars, endpoint, phase, users>>

\* ws.prepare() returns, or raises and the client was never counted.
prepared(c) ==
    /\ handler[c] = "prepare"
    /\ \/ /\ handler' = [handler EXCEPT ![c] = "open"]
          /\ all_clients' = all_clients \cup {c}
       \/ /\ handler' = [handler EXCEPT ![c] = "none"]
          /\ UNCHANGED all_clients
    /\ UNCHANGED <<jammed, subscribers, client_channels,
                   notifier, hookVars, endpoint, phase, users>>

\* The handler reads messages until the connection is closed, and what was
\* received before it was lost even after that.
Reading(c) == handler[c] \in {"open", "gone"}

add_subscriber(c, ch) ==
    /\ Reading(c)
    /\ ch \notin client_channels[c]
    /\ Cardinality(client_channels[c]) < MAX_SUBSCRIPTIONS_PER_CLIENT
    /\ subscribers' = [subscribers EXCEPT ![ch] = @ \cup {c}]
    /\ client_channels' = [client_channels EXCEPT ![c] = @ \cup {ch}]
    /\ UNCHANGED <<handler, jammed, all_clients,
                   notifier, hookVars, endpoint, phase, users>>

remove_subscriber(c, ch) ==
    /\ Reading(c)
    /\ ch \in client_channels[c]
    /\ subscribers' = [subscribers EXCEPT ![ch] = @ \ {c}]
    /\ client_channels' = [client_channels EXCEPT ![c] = @ \ {ch}]
    /\ UNCHANGED <<handler, jammed, all_clients,
                   notifier, hookVars, endpoint, phase, users>>

\* remove_all(ws) for every ws of C.
remove_all(C) ==
    /\ subscribers' = [ch \in VALID_CHANNELS |->
            subscribers[ch] \ {c \in C : ch \in client_channels[c]}]
    /\ client_channels' = [c \in Client |->
            IF c \in C THEN {} ELSE client_channels[c]]
    /\ all_clients' = all_clients \ C

\* The finally of websocket_handler.
\* Fault: a client that a broadcast has dropped already is not cleaned up.
finished_once(c) ==
    /\ handler[c] = "gone"
    /\ handler' = [handler EXCEPT ![c] = "none"]
    /\ jammed' = jammed \ {c}
    /\ remove_all({c} \cap all_clients)
    /\ UNCHANGED <<notifier, hookVars, endpoint, phase, users>>

finished(c) ==
    /\ handler[c] = "gone"
    /\ handler' = [handler EXCEPT ![c] = "none"]
    /\ jammed' = jammed \ {c}
    /\ remove_all({c})
    /\ UNCHANGED <<notifier, hookVars, endpoint, phase, users>>

\* The client stops reading, and the buffer of its connection fills.
Jam(c) ==
    /\ handler[c] = "open" /\ c \notin jammed
    /\ jammed' = jammed \cup {c}
    /\ UNCHANGED <<handler, all_clients, subscribers, client_channels,
                   notifier, hookVars, endpoint, phase, users>>

\* The client closes, breaks off, or misses the pong of a heartbeat.
Lose(c) ==
    /\ handler[c] = "open"
    /\ handler' = [handler EXCEPT ![c] = "gone"]
    /\ UNCHANGED <<jammed, all_clients, subscribers, client_channels,
                   notifier, hookVars, endpoint, phase, users>>

----------------------------------------------------------------------------
(* Broadcasts                                                              *)

\* broadcast(channel) up to its first send: the snapshot of the subscribers.
Broadcast(i, subs) == [at |-> i, todo |-> subs, dead |-> {}]

\* A block was produced or accepted, a transaction admitted, or five seconds
\* went by.  The loops of the node itself end when it stops.
notify(n) ==
    /\ notifier[n] = Idle
    /\ n \in {"block_loop", "stats_loop"} => phase = "run"
    /\ Kind[n] = "stats" => subscribers["chain_stats"] # {}
    /\ notifier' = [notifier EXCEPT
            ![n] = Broadcast(1, subscribers[SCRIPT[Kind[n]][1]])]
    /\ UNCHANGED <<wsVars, hookVars, endpoint, phase, users>>

\* One send of a broadcast.  A connection that is closed, or whose send raises,
\* is dead; one whose send does not end within five seconds is closed as well,
\* in this step: the await of ws.close() that follows the timeout is part of it.
\* Fault: the send is awaited without a timeout.
send_forever(n, c) ==
    /\ c \in notifier[n].todo
    /\ c \notin jammed \/ handler[c] # "open"
    /\ notifier' = [notifier EXCEPT
            ![n].todo = @ \ {c},
            ![n].dead = IF handler[c] = "open" THEN @ ELSE @ \cup {c}]
    /\ UNCHANGED <<wsVars, hookVars, endpoint, phase, users>>

send(n, c) ==
    LET timeout == handler[c] = "open" /\ c \in jammed
    IN  /\ c \in notifier[n].todo
        /\ notifier' = [notifier EXCEPT
                ![n].todo = @ \ {c},
                ![n].dead = IF handler[c] = "open" /\ ~timeout
                            THEN @ ELSE @ \cup {c}]
        /\ handler' = IF timeout THEN [handler EXCEPT ![c] = "gone"] ELSE handler
        /\ UNCHANGED <<jammed, all_clients, subscribers, client_channels,
                       hookVars, endpoint, phase, users>>

\* The statuses of a webhook that deliver() creates tasks for.
deliverable == {"active", "failing"}

InFlight(w) == \E a \in Attempt : waiting[w][a] + posting[w][a] > 0

\* deliver(): one task per matching event; no block matches a webhook that has
\* MaxTasks deliveries in flight.
deliver(matching) ==
    waiting' = [w \in Webhook |->
        IF w \in matching /\ status[w] \in deliverable
        THEN [waiting[w] EXCEPT ![0] = @ + 1] ELSE waiting[w]]

TaskCount(w) ==
    LET upto[a \in 0..RETRIES] ==
            IF a = 0 THEN 0
            ELSE upto[a - 1] + waiting[w][a - 1] + posting[w][a - 1]
    IN  upto[RETRIES]

\* The end of a broadcast: the dead are dropped, and without another await the
\* notifier goes on to its next channel, or, for a block, to the webhooks.
\* "finalized" is left out while no block is final.
broadcast_end(n) ==
    LET b == notifier[n]
        script == SCRIPT[Kind[n]]
    IN  /\ b.at > 0 /\ b.todo = {}
        /\ remove_all(b.dead)
        /\ \/ /\ b.at < Len(script)
              /\ notifier' = [notifier EXCEPT
                    ![n] = Broadcast(b.at + 1, subscribers'[script[b.at + 1]])]
              /\ UNCHANGED waiting
           \/ /\ \A i \in (b.at + 1)..Len(script) : script[i] = "finalized"
              /\ notifier' = [notifier EXCEPT ![n] = Idle]
              /\ IF Kind[n] = "block"
                 THEN \E matching \in SUBSET
                            {w \in Webhook : TaskCount(w) < MaxTasks} :
                        deliver(matching)
                 ELSE UNCHANGED waiting
        /\ UNCHANGED <<handler, jammed, status, failures, posting,
                       endpoint, phase, users>>

----------------------------------------------------------------------------
(* Webhooks                                                                *)

Live(w) == status[w] \notin {"none", "deleted"}

register(w) ==
    /\ w \in users
    /\ status[w] = "none"
    /\ Cardinality({v \in Webhook : Live(v)}) < MAX_WEBHOOKS
    /\ status' = [status EXCEPT ![w] = "active"]
    /\ UNCHANGED <<wsVars, notifier, failures, waiting, posting,
                   endpoint, phase, users>>

delete(w) ==
    /\ Live(w)
    /\ status' = [status EXCEPT ![w] = "deleted"]
    /\ UNCHANGED <<wsVars, notifier, failures, waiting, posting,
                   endpoint, phase, users>>

\* The head of the loop of _deliver_one: a deleted webhook gets no request.
attempt(w, a) ==
    /\ waiting[w][a] > 0
    /\ waiting' = [waiting EXCEPT ![w][a] = @ - 1]
    /\ posting' = IF status[w] = "deleted" THEN posting
                  ELSE [posting EXCEPT ![w][a] = @ + 1]
    /\ UNCHANGED <<wsVars, notifier, status, failures, endpoint, phase, users>>

\* After the last attempt.
\* Fault: a failure is counted only where it changes the status.
exhausted_change(w) ==
    /\ failures' = [failures EXCEPT ![w] = IF status[w] = "active" THEN @ + 1 ELSE @]
    /\ status' = [status EXCEPT ![w] =
            IF failures'[w] >= CONSECUTIVE_FAIL_DISABLE THEN "disabled"
            ELSE IF @ = "active" THEN "failing" ELSE @]

exhausted(w) ==
    /\ failures' = [failures EXCEPT ![w] = @ + 1]
    /\ status' = [status EXCEPT ![w] =
            IF failures[w] + 1 >= CONSECUTIVE_FAIL_DISABLE THEN "disabled"
            ELSE IF @ = "active" THEN "failing" ELSE @]

\* The request is answered, fails, or ends at DELIVERY_TIMEOUT.
answer(w, a) ==
    /\ posting[w][a] > 0
    /\ posting' = [posting EXCEPT ![w][a] = @ - 1]
    /\ \/ /\ endpoint[w] = "up"
          /\ failures' = [failures EXCEPT ![w] = 0]
          /\ status' = [status EXCEPT ![w] = IF @ = "failing" THEN "active" ELSE @]
          /\ UNCHANGED waiting
       \/ /\ endpoint[w] = "private"     \* "SSRF blocked" by the resolver
          /\ UNCHANGED <<failures, status, waiting>>
       \/ /\ endpoint[w] = "down" /\ a + 1 < RETRIES
          /\ waiting' = [waiting EXCEPT ![w][a + 1] = @ + 1]
          /\ UNCHANGED <<failures, status>>
       \/ /\ endpoint[w] = "down" /\ a + 1 = RETRIES
          /\ exhausted(w)
          /\ UNCHANGED waiting
    /\ UNCHANGED <<wsVars, notifier, endpoint, phase, users>>

\* The server behind a URL, or the address its name resolves to, changes.
Endpoint(w, e) ==
    /\ w \in users
    /\ endpoint[w] # e
    /\ endpoint' = [endpoint EXCEPT ![w] = e]
    /\ UNCHANGED <<wsVars, notifier, hookVars, phase, users>>

----------------------------------------------------------------------------
(* Node.stop                                                               *)

\* The loops are cancelled wherever they are, then all deliveries; then
\* ws_manager.stop() closes every client it knows.  Handlers of peers go on.
stop ==
    /\ phase = "run"
    /\ phase' = "closing"
    /\ notifier' = [n \in Notifier |->
            IF n \in {"block_loop", "stats_loop"} THEN Idle ELSE notifier[n]]
    /\ waiting' = [w \in Webhook |-> NoTask]
    /\ posting' = [w \in Webhook |-> NoTask]
    /\ handler' = [c \in Client |->
            IF c \in all_clients /\ handler[c] = "open" THEN "gone" ELSE handler[c]]
    /\ UNCHANGED <<jammed, all_clients, subscribers, client_channels,
                   status, failures, endpoint, users>>

\* The rest of ws_manager.stop(), once the closes are over.
stop_clear ==
    /\ phase = "closing"
    /\ phase' = "stopped"
    /\ all_clients' = {}
    /\ subscribers' = [ch \in VALID_CHANNELS |-> {}]
    /\ client_channels' = [c \in Client |-> {}]
    /\ UNCHANGED <<handler, jammed, notifier, hookVars, endpoint, users>>

----------------------------------------------------------------------------

Next ==
    \/ \E c \in Client : connect(c) \/ prepared(c) \/ finished(c) \/ Jam(c) \/ Lose(c)
    \/ \E c \in Client, ch \in Asked : add_subscriber(c, ch) \/ remove_subscriber(c, ch)
    \/ \E n \in Notifier : notify(n) \/ broadcast_end(n)
    \/ \E n \in Notifier, c \in Client : send(n, c)
    \/ \E w \in Webhook : register(w) \/ delete(w)
    \/ \E w \in Webhook, a \in Attempt : attempt(w, a) \/ answer(w, a)
    \/ \E w \in Webhook, e \in {"up", "down", "private"} : Endpoint(w, e)
    \/ stop
    \/ stop_clear

Spec == Init /\ [][Next]_vars

\* The event loop resumes a task whose await is over, and every await here is
\* over in time: a request at DELIVERY_TIMEOUT, a pause between attempts at its
\* delay, a send at five seconds.  The ws.close() after a send that timed out has
\* no timeout in this code: that it returns is aiohttp's close timeout.
FairSpec ==
    /\ Spec
    /\ \A n \in Notifier :
        /\ WF_vars(\E c \in Client : send(n, c))
        /\ WF_vars(broadcast_end(n))
    /\ \A w \in Webhook, a \in Attempt :
        /\ WF_vars(attempt(w, a))
        /\ WF_vars(answer(w, a))

----------------------------------------------------------------------------
(* Properties                                                              *)

\* What is kept of connections is exact across every await: a channel's set
\* and a client's set tell the same, and a connection whose handler has ended
\* is in none, so that a later one with the same id() inherits nothing.  A
\* broadcast and a handler may both clean up one client, in either order and
\* with a subscription in between.
NoGhost ==
    \A c \in Client :
        /\ client_channels[c] = {ch \in VALID_CHANNELS : c \in subscribers[ch]}
        /\ handler[c] \in {"none", "prepare"} =>
              client_channels[c] = {} /\ c \notin all_clients

\* No client can hold the task that tells it of a block: whatever clients do,
\* _ws_notify_block returns, and the block loop that awaits it produces again.
NotifyEnds ==
    \A n \in Notifier : notifier[n] # Idle ~> notifier[n] = Idle

\* An endpoint that stays down is left alone in the end, though blocks go on
\* for ever and successes of earlier deliveries may come late: its webhook is
\* disabled and the deliveries under way run out.
LeftAlone ==
    \A w \in Webhook : <>[](endpoint[w] = "down") => <>[]~InFlight(w)

=============================================================================
