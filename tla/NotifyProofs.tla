---------------------------- MODULE NotifyProofs ----------------------------
(***************************************************************************)
(* For any number of clients, notifiers and webhooks: no subscription      *)
(* outlives the connection it was made on.                                 *)
(***************************************************************************)
EXTENDS Notify, TLAPS

\* Where the handler of a connection can be.
HandlerStates == {"none", "prepare", "open", "gone"}

TypeOK ==
    /\ handler \in [Client -> HandlerStates]
    /\ all_clients \subseteq Client
    /\ subscribers \in [VALID_CHANNELS -> SUBSET Client]
    /\ client_channels \in [Client -> SUBSET VALID_CHANNELS]
    /\ notifier \in [Notifier -> [at : Nat, todo : SUBSET Client, dead : SUBSET Client]]

\* The inductive invariant: with types, the property itself.
NotifyInv == TypeOK /\ NoGhost

-----------------------------------------------------------------------------
(* The three tables that are kept of connections *)

\* remove_all leaves the two kinds of subscription tables in agreement and
\* takes every client of C out of all of them.
LEMMA RemoveAll ==
    ASSUME NotifyInv, NEW C \in SUBSET Client, remove_all(C)
    PROVE  /\ all_clients' \subseteq Client
           /\ subscribers' \in [VALID_CHANNELS -> SUBSET Client]
           /\ client_channels' \in [Client -> SUBSET VALID_CHANNELS]
           /\ \A c \in Client :
                 client_channels'[c] = {ch \in VALID_CHANNELS : c \in subscribers'[ch]}
           /\ \A c \in C : client_channels'[c] = {} /\ c \notin all_clients'
           /\ \A c \in Client \ C :
                 /\ client_channels'[c] = client_channels[c]
                 /\ c \in all_clients' => c \in all_clients
<1>1. /\ subscribers' \in [VALID_CHANNELS -> SUBSET Client]
      /\ client_channels' \in [Client -> SUBSET VALID_CHANNELS]
      /\ all_clients' \subseteq Client
    BY DEF remove_all, NotifyInv, TypeOK
<1>2. ASSUME NEW c \in Client
      PROVE  client_channels'[c] = {ch \in VALID_CHANNELS : c \in subscribers'[ch]}
    <2>1. client_channels[c] = {ch \in VALID_CHANNELS : c \in subscribers[ch]}
        BY DEF NotifyInv, NoGhost
    <2>2. \A ch \in VALID_CHANNELS : c \in subscribers'[ch] <=>
              c \in subscribers[ch] /\ ~ (c \in C /\ ch \in client_channels[c])
        BY DEF remove_all
    <2>3. client_channels'[c] = IF c \in C THEN {} ELSE client_channels[c]
        BY DEF remove_all
    <2> QED BY <2>1, <2>2, <2>3
<1>3. \A c \in C : client_channels'[c] = {} /\ c \notin all_clients'
    BY DEF remove_all
<1>4. \A c \in Client \ C :
          /\ client_channels'[c] = client_channels[c]
          /\ c \in all_clients' => c \in all_clients
    BY DEF remove_all
<1> QED BY <1>1, <1>2, <1>3, <1>4

-----------------------------------------------------------------------------
(* Induction *)

LEMMA NotifyInit == Init => NotifyInv
BY DEF Init, NotifyInv, TypeOK, NoGhost, Idle, HandlerStates, VALID_CHANNELS

\* Steps that leave the tables alone keep the property if a connection that
\* comes to be before or after its handler was so already.
LEMMA TablesKept ==
    ASSUME NotifyInv,
           UNCHANGED <<all_clients, subscribers, client_channels>>,
           \A c \in Client : handler'[c] \in {"none", "prepare"} =>
                                handler[c] \in {"none", "prepare"}
    PROVE  NoGhost'
BY DEF NotifyInv, NoGhost

LEMMA NotifyNext == NotifyInv /\ [Next]_vars => NotifyInv'
<1> SUFFICES ASSUME NotifyInv, [Next]_vars PROVE NotifyInv'
    OBVIOUS
<1> USE DEF HandlerStates
<1>1. ASSUME NEW c \in Client, connect(c) PROVE NotifyInv'
    <2>1. TypeOK'
        BY <1>1 DEF NotifyInv, TypeOK, connect
    <2>2. \A d \in Client : handler'[d] \in {"none", "prepare"} =>
                                handler[d] \in {"none", "prepare"}
        BY <1>1 DEF NotifyInv, TypeOK, connect
    <2> QED BY <1>1, <2>1, <2>2, TablesKept DEF connect, NotifyInv
<1>2. ASSUME NEW c \in Client, prepared(c) PROVE NotifyInv'
    <2>1. TypeOK'
        BY <1>2 DEF NotifyInv, TypeOK, prepared
    <2>2. NoGhost'
        BY <1>2 DEF NotifyInv, NoGhost, TypeOK, prepared
    <2> QED BY <2>1, <2>2 DEF NotifyInv
<1>3. ASSUME NEW c \in Client, finished(c) PROVE NotifyInv'
    <2>1. remove_all({c}) /\ {c} \in SUBSET Client
        BY <1>3 DEF finished
    <2>2. TypeOK'
        BY <1>3, <2>1, RemoveAll DEF NotifyInv, TypeOK, finished
    <2>3. \A d \in Client \ {c} : handler'[d] = handler[d]
        BY <1>3 DEF finished, NotifyInv, TypeOK
    <2>4. NoGhost'
        BY <2>1, <2>3, RemoveAll DEF NotifyInv, NoGhost
    <2> QED BY <2>2, <2>4 DEF NotifyInv
<1>4. ASSUME NEW c \in Client, Jam(c) \/ Lose(c) PROVE NotifyInv'
    <2>1. TypeOK'
        BY <1>4 DEF NotifyInv, TypeOK, Jam, Lose
    <2>2. \A d \in Client : handler'[d] \in {"none", "prepare"} =>
                                handler[d] \in {"none", "prepare"}
        BY <1>4 DEF NotifyInv, TypeOK, Jam, Lose
    <2> QED BY <1>4, <2>1, <2>2, TablesKept DEF Jam, Lose, NotifyInv
<1>5. ASSUME NEW c \in Client, NEW ch \in Asked,
             add_subscriber(c, ch) \/ remove_subscriber(c, ch)
      PROVE  NotifyInv'
    <2>1. ch \in VALID_CHANNELS
        BY NotifyAssumption
    <2>2. TypeOK'
        BY <1>5, <2>1 DEF NotifyInv, TypeOK, add_subscriber, remove_subscriber
    <2>3. handler[c] \in {"open", "gone"}
        BY <1>5 DEF add_subscriber, remove_subscriber, Reading
    <2>4. ASSUME NEW d \in Client
          PROVE  client_channels'[d] = {x \in VALID_CHANNELS : d \in subscribers'[x]}
        <3>1. client_channels[d] = {x \in VALID_CHANNELS : d \in subscribers[x]}
            BY DEF NotifyInv, NoGhost
        <3>2. CASE d = c
            BY <1>5, <2>1, <3>1, <3>2
               DEF NotifyInv, TypeOK, add_subscriber, remove_subscriber
        <3>3. CASE d # c
            BY <1>5, <2>1, <3>1, <3>3
               DEF NotifyInv, TypeOK, add_subscriber, remove_subscriber
        <3> QED BY <3>2, <3>3
    <2>5. NoGhost'
        BY <1>5, <2>3, <2>4
           DEF NotifyInv, TypeOK, NoGhost, add_subscriber, remove_subscriber
    <2> QED BY <2>2, <2>5 DEF NotifyInv
<1>6. ASSUME NEW n \in Notifier, notify(n) PROVE NotifyInv'
    <2>1. SCRIPT[Kind[n]][1] \in VALID_CHANNELS
        BY NotifyAssumption DEF SCRIPT, VALID_CHANNELS
    <2>2. TypeOK'
        BY <1>6, <2>1 DEF NotifyInv, TypeOK, notify, Broadcast, wsVars
    <2> QED BY <1>6, <2>2, TablesKept DEF notify, wsVars, NotifyInv
<1>7. ASSUME NEW n \in Notifier, broadcast_end(n) PROVE NotifyInv'
    <2> DEFINE b == notifier[n]
               script == SCRIPT[Kind[n]]
    <2>1. b \in [at : Nat, todo : SUBSET Client, dead : SUBSET Client]
        BY DEF NotifyInv, TypeOK
    <2>2. remove_all(b.dead) /\ UNCHANGED handler
        BY <1>7 DEF broadcast_end
    <2>3. b.dead \in SUBSET Client
        BY <2>1
    <2>4. NoGhost'
        BY <2>2, <2>3, RemoveAll DEF NotifyInv, NoGhost
    <2>5. b.at < Len(script) => script[b.at + 1] \in VALID_CHANNELS
        <3>1. Kind[n] \in {"block", "tx", "stats"}
            BY NotifyAssumption DEF SCRIPT
        <3>2. b.at > 0 /\ b.at \in Nat
            BY <1>7, <2>1 DEF broadcast_end
        <3> QED BY <3>1, <3>2, SMTT(40) DEF SCRIPT, VALID_CHANNELS
    <2>6. subscribers' \in [VALID_CHANNELS -> SUBSET Client]
        BY <2>2, <2>3, RemoveAll
    <2>7. \/ /\ b.at < Len(script)
             /\ notifier' = [notifier EXCEPT
                   ![n] = Broadcast(b.at + 1, subscribers'[script[b.at + 1]])]
          \/ notifier' = [notifier EXCEPT ![n] = Idle]
        BY <1>7 DEF broadcast_end
    <2>8. notifier' \in [Notifier -> [at : Nat, todo : SUBSET Client, dead : SUBSET Client]]
        <3>1. CASE notifier' = [notifier EXCEPT ![n] = Idle]
            BY <3>1 DEF NotifyInv, TypeOK, Idle
        <3>2. CASE /\ b.at < Len(script)
                   /\ notifier' = [notifier EXCEPT
                        ![n] = Broadcast(b.at + 1, subscribers'[script[b.at + 1]])]
            <4>1. Broadcast(b.at + 1, subscribers'[script[b.at + 1]])
                     \in [at : Nat, todo : SUBSET Client, dead : SUBSET Client]
                BY <2>1, <2>5, <2>6, <3>2 DEF Broadcast
            <4> QED BY <3>2, <4>1 DEF NotifyInv, TypeOK
        <3> QED BY <2>7, <3>1, <3>2
    <2>9. TypeOK'
        BY <2>2, <2>3, <2>8, RemoveAll DEF NotifyInv, TypeOK
    <2> QED BY <2>4, <2>9 DEF NotifyInv
<1>8. ASSUME NEW n \in Notifier, NEW c \in Client, send(n, c) PROVE NotifyInv'
    <2>1. TypeOK'
        BY <1>8 DEF NotifyInv, TypeOK, send
    <2>2. \A d \in Client : handler'[d] \in {"none", "prepare"} =>
                                handler[d] \in {"none", "prepare"}
        BY <1>8 DEF NotifyInv, TypeOK, send
    <2> QED BY <1>8, <2>1, <2>2, TablesKept DEF send, NotifyInv
<1>9. ASSUME UNCHANGED <<wsVars, notifier>> PROVE NotifyInv'
    BY <1>9 DEF NotifyInv, TypeOK, NoGhost, wsVars
<1>10. ASSUME NEW w \in Webhook, register(w) \/ delete(w) PROVE NotifyInv'
    BY <1>9, <1>10 DEF register, delete
<1>11. ASSUME NEW w \in Webhook, NEW a \in Attempt, attempt(w, a) \/ answer(w, a)
       PROVE  NotifyInv'
    BY <1>9, <1>11 DEF attempt, answer
<1>12. ASSUME NEW w \in Webhook, NEW e \in {"up", "down", "private"}, Endpoint(w, e)
       PROVE  NotifyInv'
    BY <1>9, <1>12 DEF Endpoint
<1>13. CASE stop
    <2>1. TypeOK'
        BY <1>13 DEF NotifyInv, TypeOK, stop, Idle
    <2>2. \A d \in Client : handler'[d] \in {"none", "prepare"} =>
                                handler[d] \in {"none", "prepare"}
        BY <1>13 DEF NotifyInv, TypeOK, stop
    <2> QED BY <1>13, <2>1, <2>2, TablesKept DEF stop, NotifyInv
<1>14. CASE stop_clear
    BY <1>14 DEF NotifyInv, TypeOK, NoGhost, stop_clear
<1>15. CASE UNCHANGED vars
    BY <1>9, <1>15 DEF vars
<1> QED BY <1>1, <1>2, <1>3, <1>4, <1>5, <1>6, <1>7, <1>8, <1>10, <1>11, <1>12,
           <1>13, <1>14, <1>15 DEF Next

\* Whatever clients, broadcasts and Node.stop do in which order: the channel
\* sets and the client sets agree, and a connection whose handler has not
\* begun or has ended is in none of them (websocket.py, remove_all).
THEOREM NoGhostHolds == Spec => []NoGhost
<1>1. NotifyInv => NoGhost
    BY DEF NotifyInv
<1> QED BY <1>1, NotifyInit, NotifyNext, PTL DEF Spec
=============================================================================
