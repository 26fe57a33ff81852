------------------------------- MODULE WsHub -------------------------------
(***************************************************************************)
(* The WebSocket hub of notification-service (hub/websocket_hub.go) and    *)
(* the handler of one connection (handler/websocket.go: serveWS).          *)
(*                                                                         *)
(* One goroutine, Hub.Run, owns the table of clients and selects among     *)
(* three buffered channels.  A connection has two goroutines: the handler, *)
(* which registers a client, reads until an error and unregisters it, and  *)
(* the write pump, which empties the client's Send channel into the        *)
(* connection.  The Kafka consumer calls Broadcast.  A full channel blocks *)
(* its sender, except Send, where the hub drops the message instead.       *)
(*                                                                         *)
(* The hub's lock is left out: only Run writes the table.  A reconnecting  *)
(* browser is a new client.  Messages are numbered in the order the        *)
(* consumer broadcasts them.                                               *)
(***************************************************************************)
EXTENDS Naturals, Sequences

CONSTANTS Clients,       \* connections, each opened at most once
          Companies,
          SendCap,       \* capacity of Client.Send (64)
          BroadcastCap,  \* capacity of Hub.broadcast (256)
          RegisterCap,   \* capacity of Hub.register and of Hub.unregister (16)
          MaxMsgs,       \* bound: messages broadcast
          NoCompany, NoMsg

ASSUME CapacityAssumption ==
    /\ SendCap \in Nat \ {0}
    /\ BroadcastCap \in Nat \ {0}
    /\ RegisterCap \in Nat \ {0}
    /\ MaxMsgs \in Nat

ASSUME ValuesAssumption ==
    /\ NoCompany \notin Companies
    /\ NoMsg \notin [id : 1..MaxMsgs, company : Companies]

VARIABLES
    \* the hub
    register, unregister,  \* channels of clients
    broadcast,  \* channel of messages
    clients,    \* the clients in Hub.clients
    msg,        \* the message Run is distributing, or NoMsg
    todo,       \* clients Run has still to offer msg to
    \* one connection
    serve,      \* handler: "new", "register", "reading", "unregister", "done"
    company,    \* company of the connection's token
    up,         \* the peer is reachable
    send,       \* Client.Send
    closed,     \* Client.Send is closed
    pump,       \* write pump: "off", "running", "failed" (write error), "done"
    got,        \* messages the browser has received
    \* history
    due,        \* due[c]: messages Run took for c's company while c was in the table
    slow,       \* clients for which a message was dropped
    count       \* messages broadcast so far

hub == <<clients, msg, todo>>
channels == <<register, unregister, broadcast>>
connection == <<serve, company, up, pump, got>>
vars == <<register, unregister, broadcast, clients, msg, todo, serve, company, up,
          send, closed, pump, got, due, slow, count>>

Message == [id : 1..MaxMsgs, company : Companies]

TypeOK ==
    /\ register \in Seq(Clients) /\ Len(register) <= RegisterCap
    /\ unregister \in Seq(Clients) /\ Len(unregister) <= RegisterCap
    /\ broadcast \in Seq(Message) /\ Len(broadcast) <= BroadcastCap
    /\ clients \subseteq Clients
    /\ msg \in Message \union {NoMsg}
    /\ todo \subseteq Clients
    /\ serve \in [Clients -> {"new", "register", "reading", "unregister", "done"}]
    /\ company \in [Clients -> Companies \union {NoCompany}]
    /\ up \in [Clients -> BOOLEAN]
    /\ send \in [Clients -> Seq(Message)]
    /\ \A c \in Clients : Len(send[c]) <= SendCap
    /\ closed \in [Clients -> BOOLEAN]
    /\ pump \in [Clients -> {"off", "running", "failed", "done"}]
    /\ got \in [Clients -> Seq(Message)]
    /\ due \in [Clients -> Seq(Message)]
    /\ slow \subseteq Clients
    /\ count \in 0..MaxMsgs

Init ==
    /\ register = <<>>
    /\ unregister = <<>>
    /\ broadcast = <<>>
    /\ clients = {}
    /\ msg = NoMsg
    /\ todo = {}
    /\ serve = [c \in Clients |-> "new"]
    /\ company = [c \in Clients |-> NoCompany]
    /\ up = [c \in Clients |-> FALSE]
    /\ send = [c \in Clients |-> <<>>]
    /\ closed = [c \in Clients |-> FALSE]
    /\ pump = [c \in Clients |-> "off"]
    /\ got = [c \in Clients |-> <<>>]
    /\ due = [c \in Clients |-> <<>>]
    /\ slow = {}
    /\ count = 0

-----------------------------------------------------------------------------
(* Hub.Run. *)

TakeRegister ==
    /\ msg = NoMsg
    /\ register # <<>>
    /\ clients' = clients \union {Head(register)}
    /\ register' = Tail(register)
    /\ UNCHANGED <<unregister, broadcast, msg, todo, connection, send, closed,
                   due, slow, count>>

\* Mutants of TakeUnregister: the client stays in the table; Send stays open.
TakeUnregisterKeeping ==
    LET c == Head(unregister)
    IN /\ msg = NoMsg
       /\ unregister # <<>>
       /\ unregister' = Tail(unregister)
       /\ closed' = [closed EXCEPT ![c] = @ \/ c \in clients]
       /\ UNCHANGED <<register, broadcast, hub, connection, send, due, slow, count>>

TakeUnregisterOpen ==
    /\ msg = NoMsg
    /\ unregister # <<>>
    /\ unregister' = Tail(unregister)
    /\ clients' = clients \ {Head(unregister)}
    /\ UNCHANGED <<register, broadcast, msg, todo, connection, send, closed,
                   due, slow, count>>

\* Send is closed only if the client is in the table.
TakeUnregister ==
    LET c == Head(unregister)
    IN /\ msg = NoMsg
       /\ unregister # <<>>
       /\ unregister' = Tail(unregister)
       /\ clients' = clients \ {c}
       /\ closed' = [closed EXCEPT ![c] = @ \/ c \in clients]
       /\ UNCHANGED <<register, broadcast, msg, todo, connection, send, due, slow, count>>

Targets(m) == {c \in clients : company[c] = m.company}

TakeBroadcast ==
    LET m == Head(broadcast)
    IN /\ msg = NoMsg
       /\ broadcast # <<>>
       /\ broadcast' = Tail(broadcast)
       /\ todo' = Targets(m)
       /\ msg' = IF Targets(m) = {} THEN NoMsg ELSE m
       /\ due' = [c \in Clients |-> IF c \in Targets(m) THEN Append(due[c], m) ELSE due[c]]
       /\ UNCHANGED <<register, unregister, clients, connection, send, closed, slow, count>>

\* Mutants of Offer: no capacity; the loop ends after one client; a full channel
\* makes the hub wait.
OfferUnbounded(c) ==
    /\ c \in todo
    /\ send' = [send EXCEPT ![c] = Append(@, msg)]
    /\ todo' = todo \ {c}
    /\ msg' = IF todo = {c} THEN NoMsg ELSE msg
    /\ UNCHANGED <<channels, clients, connection, closed, due, slow, count>>

OfferFirst(c) ==
    /\ c \in todo
    /\ Len(send[c]) < SendCap
    /\ send' = [send EXCEPT ![c] = Append(@, msg)]
    /\ todo' = {}
    /\ msg' = NoMsg
    /\ UNCHANGED <<channels, clients, connection, closed, due, slow, count>>

OfferBlocking(c) ==
    /\ c \in todo
    /\ Len(send[c]) < SendCap
    /\ send' = [send EXCEPT ![c] = Append(@, msg)]
    /\ todo' = todo \ {c}
    /\ msg' = IF todo = {c} THEN NoMsg ELSE msg
    /\ UNCHANGED <<channels, clients, connection, closed, due, slow, count>>

\* The inner select: into c's channel if there is room, else dropped.
Offer(c) ==
    /\ c \in todo
    /\ \/ /\ Len(send[c]) < SendCap
          /\ send' = [send EXCEPT ![c] = Append(@, msg)]
          /\ UNCHANGED slow
       \/ /\ Len(send[c]) = SendCap
          /\ slow' = slow \union {c}
          /\ UNCHANGED send
    /\ todo' = todo \ {c}
    /\ msg' = IF todo = {c} THEN NoMsg ELSE msg
    /\ UNCHANGED <<channels, clients, connection, closed, due, count>>

-----------------------------------------------------------------------------
(* The Kafka consumer's goroutine. *)

\* Mutant of Broadcast: a goroutine of its own for every send.
BroadcastOvertaking(k) ==
    /\ count < MaxMsgs
    /\ Len(broadcast) < BroadcastCap
    /\ count' = count + 1
    /\ broadcast' = <<[id |-> count + 1, company |-> k]>> \o broadcast
    /\ UNCHANGED <<register, unregister, hub, connection, send, closed, due, slow>>

Broadcast(k) ==
    /\ count < MaxMsgs
    /\ Len(broadcast) < BroadcastCap
    /\ count' = count + 1
    /\ broadcast' = Append(broadcast, [id |-> count + 1, company |-> k])
    /\ UNCHANGED <<register, unregister, hub, connection, send, closed, due, slow>>

-----------------------------------------------------------------------------
(* One connection. *)

Connect(c, k) ==
    /\ serve[c] = "new"
    /\ serve' = [serve EXCEPT ![c] = "register"]
    /\ company' = [company EXCEPT ![c] = k]
    /\ up' = [up EXCEPT ![c] = TRUE]
    /\ UNCHANGED <<channels, hub, send, closed, pump, got, due, slow, count>>

\* Hub.Register, then the write pump starts.
Register(c) ==
    /\ serve[c] = "register"
    /\ Len(register) < RegisterCap
    /\ register' = Append(register, c)
    /\ serve' = [serve EXCEPT ![c] = "reading"]
    /\ pump' = [pump EXCEPT ![c] = "running"]
    /\ UNCHANGED <<unregister, broadcast, hub, company, up, send, closed, got,
                   due, slow, count>>

\* The peer goes away.
Disconnect(c) ==
    /\ up[c]
    /\ up' = [up EXCEPT ![c] = FALSE]
    /\ UNCHANGED <<channels, hub, serve, company, send, closed, pump, got, due, slow, count>>

\* ReadMessage fails: the peer is gone, or 60 seconds have passed without a
\* pong (the server sends no ping, so no pong ever moves the deadline).
ReadFails(c) ==
    /\ serve[c] = "reading"
    /\ serve' = [serve EXCEPT ![c] = "unregister"]
    /\ UNCHANGED <<channels, hub, company, up, send, closed, pump, got, due, slow, count>>

\* Hub.Unregister, then c.Close().
Unregister(c) ==
    /\ serve[c] = "unregister"
    /\ Len(unregister) < RegisterCap
    /\ unregister' = Append(unregister, c)
    /\ serve' = [serve EXCEPT ![c] = "done"]
    /\ up' = [up EXCEPT ![c] = FALSE]
    /\ UNCHANGED <<register, broadcast, hub, company, send, closed, pump, got,
                   due, slow, count>>

\* One round of the pump: the next message is written.  Without a peer it is
\* lost, and the write fails sooner or later.
Pump(c) ==
    /\ pump[c] = "running"
    /\ send[c] # <<>>
    /\ send' = [send EXCEPT ![c] = Tail(@)]
    /\ \/ /\ up[c]
          /\ got' = [got EXCEPT ![c] = Append(@, Head(send[c]))]
          /\ UNCHANGED pump
       \/ /\ ~up[c]
          /\ \/ pump' = [pump EXCEPT ![c] = "failed"]
             \/ UNCHANGED pump
          /\ UNCHANGED got
    /\ UNCHANGED <<channels, hub, serve, company, up, closed, due, slow, count>>

\* The range over Send ends when the channel is closed and empty.
PumpEnds(c) ==
    /\ pump[c] = "running"
    /\ closed[c]
    /\ send[c] = <<>>
    /\ pump' = [pump EXCEPT ![c] = "done"]
    /\ UNCHANGED <<channels, hub, serve, company, up, send, closed, got, due, slow, count>>

-----------------------------------------------------------------------------
Run ==
    \/ TakeRegister \/ TakeUnregister \/ TakeBroadcast
    \/ \E c \in Clients : Offer(c)

Connection(c) ==
    \/ \E k \in Companies : Connect(c, k)
    \/ Register(c) \/ Disconnect(c) \/ ReadFails(c) \/ Unregister(c)
    \/ Pump(c) \/ PumpEnds(c)

Next ==
    \/ Run
    \/ \E k \in Companies : Broadcast(k)
    \/ \E c \in Clients : Connection(c)

Spec == Init /\ [][Next]_vars

\* Run never waits for a connection, and a handler never waits for its peer:
\* the read deadline ends every read.  A write may take for ever.
Fairness ==
    /\ WF_vars(Run)
    /\ \A c \in Clients :
          WF_vars(Register(c)) /\ WF_vars(ReadFails(c)) /\ WF_vars(Unregister(c))

FairSpec == Spec /\ Fairness

-----------------------------------------------------------------------------
(* Safety. *)

\* Run never sends on, nor closes again, a channel that is closed: that would
\* panic and take the whole service down, whatever the order in which Run's
\* select takes registrations, unregistrations and broadcasts.
NeverSendsOnClosed ==
    \A c \in clients \union todo : ~closed[c]

\* A dashboard that is connected and keeps up gets every message of its company
\* since Run registered it, with no gap and no repetition: what it has received,
\* what waits in its channel and what Run is about to offer it make up the whole.
StreamComplete ==
    \A c \in Clients : up[c] /\ c \notin slow =>
        due[c] = got[c] \o send[c] \o (IF c \in todo THEN <<msg>> ELSE <<>>)

\* Slow or not, a dashboard gets messages of its own company only, in the order
\* they were broadcast, none twice.
StreamInOrder ==
    \A c \in Clients : \A i \in 1..Len(got[c]) :
        /\ got[c][i].company = company[c]
        /\ \A j \in 1..(i - 1) : got[c][j].id < got[c][i].id

(* Liveness. *)

Taken(i) ==
    /\ count >= i
    /\ msg # NoMsg => msg.id # i
    /\ \A j \in 1..Len(broadcast) : broadcast[j].id # i

\* No connection can hold the hub up: every message the consumer has broadcast
\* is distributed, though writes to some or all peers never end.
EveryMessageIsDistributed ==
    \A i \in 1..MaxMsgs : (count >= i) ~> Taken(i)

\* Nor can it hold up other handlers: none waits for ever to unregister.
HandlersEnd ==
    \A c \in Clients : (serve[c] = "reading") ~> (serve[c] = "done")

\* If writes do end, no pump outlives a connection that was in the table when it
\* unregistered: Run closes its channel and the pump drains it.
PumpsEnd ==
    (\A c \in Clients : WF_vars(Pump(c)) /\ WF_vars(PumpEnds(c))) =>
        \A c \in Clients :
            (c \in clients /\ \E i \in 1..Len(unregister) : unregister[i] = c)
                ~> (pump[c] # "running")

(* What a comment says, and the code does not do. *)

\* A connection that has unregistered is out of the table once Run has emptied
\* its channels.  Run may take the unregistration before the registration.
UnregisteredIsGone ==
    \A c \in clients :
        serve[c] = "done" => \E i \in 1..Len(unregister) : unregister[i] = c
=============================================================================
