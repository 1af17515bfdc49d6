------------------------------ MODULE QrRooms -------------------------------
(***************************************************************************)
(* The WebSocket side of QR tickets: BaseGateway                           *)
(* (src/src/common/gateways/base.gateway.ts) and QrGateway                 *)
(* (src/src/qr/qr.gateway.ts), with the broadcasts of the controller       *)
(* (src/src/qr/qr.controller.ts).                                          *)
(*                                                                         *)
(* Who is in a ticket's room is known twice: to socket.io, which delivers, *)
(* and to connectedClients, which every query of the gateway looks at.  A  *)
(* handler reads the ticket from Redis and goes on with what it has read,  *)
(* whether the client is still there or not; everything after that await   *)
(* runs without another one that lets a request in between.                *)
(*                                                                         *)
(* The guard of qr:subscribe sets client.user when a message arrives, and  *)
(* handleConnection, which looks for it, has run before: every client is   *)
(* tracked as anonymous, and qr:subscribe and qr:wait_approval do the same *)
(* here.  A client id is not used again; a client that comes back is       *)
(* another one.                                                            *)
(***************************************************************************)
EXTENDS Naturals

CONSTANTS
    Client,      \* connections, by their socket id
    Ticket,      \* tickets, one room each
    Nil,         \* null, undefined
    Namespaced,  \* the gateway's server is the namespace that it declares
    MaxChanges   \* bound: changes of a ticket

VARIABLES
    version,  \* Redis: the version of each ticket, 0 before it exists
    writer,   \* the request that changes a ticket, or Nil
    conn,     \* each connection: "new", "on" or "gone"
    tracked,  \* connectedClients: the rooms of each client, or Nil
    room,     \* socket.io: the clients in the room of each ticket
    pending,  \* the subscription each client waits for, or Nil
    told,     \* history: the last version each client was sent of each ticket
    late      \* history: clients that went while their subscription was pending

vars == <<version, writer, conn, tracked, room, pending, told, late>>

-----------------------------------------------------------------------------
(* The gateway.                                                            *)

\* handleConnection.
Connect(c) ==
    /\ conn[c] = "new"
    /\ conn' = [conn EXCEPT ![c] = "on"]
    /\ tracked' = [tracked EXCEPT ![c] = {}]
    /\ UNCHANGED <<version, writer, room, pending, told, late>>

\* handleWaitQrApproval, handleSubscribe: the ticket is read.  When there is
\* none the client gets an error.
Ask(c, t) ==
    /\ conn[c] = "on" /\ pending[c] = Nil /\ version[t] # 0
    /\ pending' = [pending EXCEPT ![c] = [ticket |-> t, version |-> version[t]]]
    /\ UNCHANGED <<version, writer, conn, tracked, room, told, late>>

\* Mutant: a room replaces the ones that the client is in already.
TrackOnly(c, t) == {t}

\* The client's rooms with that of t, as joinRoom tracks them.
Track(c, t) == IF tracked[c] = Nil THEN {t} ELSE tracked[c] \cup {t}

\* joinRoom and what is sent afterwards.  A socket that is gone joins nothing,
\* but its room is tracked all the same.
Join(c) ==
    /\ pending[c] # Nil
    /\ LET t == pending[c].ticket
       IN /\ tracked' = [tracked EXCEPT ![c] = Track(c, t)]
          /\ IF conn[c] = "on"
             THEN /\ room' = [room EXCEPT ![t] = @ \cup {c}]
                  /\ told' = [told EXCEPT ![c][t] = pending[c].version]
             ELSE UNCHANGED <<room, told>>
    /\ pending' = [pending EXCEPT ![c] = Nil]
    /\ UNCHANGED <<version, writer, conn, late>>

\* getTicket or the join throws: the client gets an error.
JoinFails(c) ==
    /\ pending[c] # Nil
    /\ pending' = [pending EXCEPT ![c] = Nil]
    /\ UNCHANGED <<version, writer, conn, tracked, room, told, late>>

\* The client's rooms without that of t, as leaveRoom tracks them: the last
\* one takes the client's entry along.
Untrack(c, t) ==
    IF tracked[c] = Nil \/ tracked[c] \subseteq {t} THEN Nil ELSE tracked[c] \ {t}

\* handleUnsubscribe.
Leave(c, t) ==
    /\ conn[c] = "on"
    /\ room' = [room EXCEPT ![t] = @ \ {c}]
    /\ tracked' = [tracked EXCEPT ![c] = Untrack(c, t)]
    /\ UNCHANGED <<version, writer, conn, pending, told, late>>

\* socket.io takes a client that goes out of its rooms; cleanupClientRooms has
\* nothing left to do, and in a namespace finds no socket at all.
Vacated(c) == [t \in Ticket |-> room[t] \ {c}]

\* handleDisconnect.
Disconnect(c) ==
    /\ conn[c] = "on"
    /\ conn' = [conn EXCEPT ![c] = "gone"]
    /\ room' = Vacated(c)
    /\ tracked' = [tracked EXCEPT ![c] = Nil]
    /\ late' = IF pending[c] = Nil THEN late ELSE late \cup {c}
    /\ UNCHANGED <<version, writer, pending, told>>

-----------------------------------------------------------------------------
(* The requests that change a ticket.                                      *)

\* A creation, a scan, an approval, a rejection or an exchange stores the
\* ticket.  Changes that overlap are the subject of QrTicket.
Change(t) ==
    /\ writer = Nil /\ version[t] < MaxChanges
    /\ version' = [version EXCEPT ![t] = @ + 1]
    /\ writer' = t
    /\ UNCHANGED <<conn, tracked, room, pending, told, late>>

\* Who gets a broadcast: broadcastToRoom looks the room up in
\* server.sockets.adapter.  A namespace keeps its sockets in a map that has
\* no adapter; the look-up throws, and the error is caught and logged.
Receivers(t) == IF Namespaced THEN {} ELSE room[t]

\* The controller's broadcastStatus once the service has returned.
BroadcastStatus ==
    /\ writer # Nil
    /\ told' = [c \in Client |->
                  IF c \in Receivers(writer)
                  THEN [told[c] EXCEPT ![writer] = version[writer]] ELSE told[c]]
    /\ writer' = Nil
    /\ UNCHANGED <<version, conn, tracked, room, pending, late>>

\* The service throws after it has stored the ticket, when the action of an
\* approval fails, say: the controller does not broadcast.
ChangeFails ==
    /\ writer # Nil
    /\ writer' = Nil
    /\ UNCHANGED <<version, conn, tracked, room, pending, told, late>>

-----------------------------------------------------------------------------
Init ==
    /\ version = [t \in Ticket |-> 0] /\ writer = Nil
    /\ conn = [c \in Client |-> "new"]
    /\ tracked = [c \in Client |-> Nil]
    /\ room = [t \in Ticket |-> {}]
    /\ pending = [c \in Client |-> Nil]
    /\ told = [c \in Client |-> [t \in Ticket |-> 0]]
    /\ late = {}

Next ==
    \/ \E c \in Client :
          \/ Connect(c) \/ Join(c) \/ JoinFails(c) \/ Disconnect(c)
          \/ \E t \in Ticket : Ask(c, t) \/ Leave(c, t)
    \/ \E t \in Ticket : Change(t)
    \/ BroadcastStatus \/ ChangeFails

Spec == Init /\ [][Next]_vars

-----------------------------------------------------------------------------
\* getClientRooms, isClientInRoom: the rooms of a client for the gateway.
ClientRooms(c) == IF tracked[c] = Nil THEN {} ELSE tracked[c]

\* getClientsInRoom asks socket.io: the rooms whose members include a client.
SocketRooms(c) == {t \in Ticket : c \in room[t]}

\* isClientConnected, and what the statistics count.
IsClientConnected(c) == tracked[c] # Nil

\* The two records of who is in which room agree for every client that is
\* connected, whatever joins, leaves and failures overlap; a client that is
\* gone is in no room, and tracked only when it went before its subscription
\* was through.
RoomsAgree ==
    \A c \in Client :
        IF conn[c] = "on"
        THEN ClientRooms(c) = SocketRooms(c)
        ELSE SocketRooms(c) = {} /\ (IsClientConnected(c) => c \in late)

\* A subscriber that is in a ticket's room knows the ticket's current state
\* as soon as no change is under way: "Join the ticket room to receive
\* updates" (qr.gateway.ts).
SubscriberIsCurrent ==
    \A c \in Client, t \in Ticket :
        writer = Nil /\ c \in room[t] => told[c][t] = version[t]
=============================================================================
