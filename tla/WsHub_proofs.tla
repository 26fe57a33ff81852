---------------------------- MODULE WsHub_proofs ----------------------------
(***************************************************************************)
(* The hub never sends on a closed channel, and a dashboard gets what it   *)
(* gets in order, for any number of connections and any capacities.        *)
(*                                                                         *)
(* A channel is closed once the client has left the table.  What has to be *)
(* shown is that the client cannot come back: Run may take an unregister   *)
(* before the register it belongs to, so it matters that each connection   *)
(* registers once (IInv: Entry).                                           *)
(*                                                                         *)
(* For the order, a message is followed through the channels it passes     *)
(* (InLine).                                                               *)
(***************************************************************************)
EXTENDS WsHub, SequenceTheorems, TLAPS

\* While Run is between two selects it has nobody left to offer a message to;
\* it offers messages to clients in the table only.
Distribution ==
    /\ msg = NoMsg => todo = {}
    /\ todo \subseteq clients

Queued(c) == \E i \in 1..Len(register) : register[i] = c
Started(c) == serve[c] \notin {"new", "register"}

\* A client enters the table once: it is waiting to, is in it, or has left it.
Entry ==
    /\ \A i, j \in 1..Len(register) : register[i] = register[j] => i = j
    /\ \A c \in Clients : Queued(c) => Started(c) /\ c \notin clients /\ ~closed[c]
    /\ \A c \in clients : Started(c) /\ ~closed[c]
    /\ \A c \in Clients : closed[c] => Started(c)

IInv == TypeOK /\ Distribution /\ Entry

-----------------------------------------------------------------------------
LEMMA InitIInv == Init => IInv
BY CapacityAssumption DEF Init, IInv, TypeOK, Distribution, Entry, Queued

\* Go channels as sequences.
LEMMA Receive ==
    ASSUME NEW S, NEW q \in Seq(S), q # <<>>
    PROVE  /\ Head(q) \in S /\ Head(q) = q[1]
           /\ Tail(q) \in Seq(S) /\ Len(Tail(q)) = Len(q) - 1 /\ Len(q) \in Nat \ {0}
           /\ \A i \in 1..Len(Tail(q)) : Tail(q)[i] = q[i + 1]
OBVIOUS

LEMMA Send ==
    ASSUME NEW S, NEW q \in Seq(S), NEW x \in S
    PROVE  /\ Append(q, x) \in Seq(S) /\ Len(Append(q, x)) = Len(q) + 1
           /\ \A i \in 1..Len(q) : Append(q, x)[i] = q[i]
           /\ Append(q, x)[Len(q) + 1] = x
OBVIOUS

LEMMA TypeNext == TypeOK /\ Distribution /\ [Next]_vars => TypeOK'
<1> SUFFICES ASSUME TypeOK, Distribution, [Next]_vars
             PROVE  TypeOK'
    OBVIOUS
<1> USE CapacityAssumption
<1>1. CASE TakeRegister
  <2>1. register' \in Seq(Clients) /\ Len(register') <= RegisterCap
        BY <1>1, Receive DEF TakeRegister, TypeOK
  <2>2. clients' \subseteq Clients
        BY <1>1, Receive DEF TakeRegister, TypeOK
  <2> QED BY <1>1, <2>1, <2>2 DEF TakeRegister, TypeOK, connection
<1>2. CASE TakeUnregister
  <2>1. unregister' \in Seq(Clients) /\ Len(unregister') <= RegisterCap
        BY <1>2, Receive DEF TakeUnregister, TypeOK
  <2>2. clients' \subseteq Clients
        BY <1>2 DEF TakeUnregister, TypeOK
  <2>3. closed' \in [Clients -> BOOLEAN]
        BY <1>2, ZenonT(30) DEF TakeUnregister, TypeOK
  <2>4. UNCHANGED <<register, broadcast, msg, todo, serve, company, up, send, pump, got,
                    due, slow, count>>
        BY <1>2 DEF TakeUnregister, connection
  <2> QED BY <2>1, <2>2, <2>3, <2>4 DEF TypeOK
<1>3. CASE TakeBroadcast
  <2>1. Head(broadcast) \in Message
        BY <1>3, Receive DEF TakeBroadcast, TypeOK
  <2>2. broadcast' \in Seq(Message) /\ Len(broadcast') <= BroadcastCap
        BY <1>3, Receive DEF TakeBroadcast, TypeOK
  <2>3. todo' \subseteq Clients /\ msg' \in Message \union {NoMsg}
        BY <1>3, <2>1 DEF TakeBroadcast, TypeOK, Targets
  <2>4. \A c \in Clients : Append(due[c], Head(broadcast)) \in Seq(Message)
        BY <2>1, Send DEF TypeOK
  <2>5. due' \in [Clients -> Seq(Message)]
        BY <1>3, <2>4 DEF TakeBroadcast, TypeOK
  <2>6. UNCHANGED <<register, unregister, clients, serve, company, up, send, closed, pump,
                    got, slow, count>>
        BY <1>3 DEF TakeBroadcast, connection
  <2> QED BY <2>2, <2>3, <2>5, <2>6 DEF TypeOK
<1>4. ASSUME NEW c \in Clients, Offer(c)
      PROVE  TypeOK'
  <2>1. msg \in Message
        BY <1>4 DEF Offer, TypeOK, Distribution
  <2>2. Append(send[c], msg) \in Seq(Message) /\ Len(Append(send[c], msg)) = Len(send[c]) + 1
        BY <2>1, Send DEF TypeOK
  <2>3. send' \in [Clients -> Seq(Message)] /\ \A d \in Clients : Len(send'[d]) <= SendCap
    <3>1. CASE UNCHANGED send
          BY <3>1 DEF TypeOK
    <3>2. CASE ~UNCHANGED send
      <4>1. Len(send[c]) < SendCap /\ send' = [send EXCEPT ![c] = Append(@, msg)]
            BY <1>4, <3>2 DEF Offer
      <4>2. Len(send[c]) \in Nat
            BY DEF TypeOK
      <4>3. send'[c] = Append(send[c], msg) /\ \A d \in Clients \ {c} : send'[d] = send[d]
            BY <4>1 DEF TypeOK
      <4>4. send' \in [Clients -> Seq(Message)]
            BY <4>1, <2>2 DEF TypeOK
      <4>5. Len(send'[c]) <= SendCap
            BY <4>1, <4>2, <4>3, <2>2
      <4> QED BY <4>3, <4>4, <4>5 DEF TypeOK
    <3> QED BY <3>1, <3>2
  <2>4. slow' \subseteq Clients /\ todo' \subseteq Clients /\ msg' \in Message \union {NoMsg}
        BY <1>4, <2>1 DEF Offer, TypeOK
  <2>5. UNCHANGED <<register, unregister, broadcast, clients, serve, company, up, closed,
                    pump, got, due, count>>
        BY <1>4 DEF Offer, channels, connection
  <2> QED BY <2>3, <2>4, <2>5 DEF TypeOK
<1>5. ASSUME NEW k \in Companies, Broadcast(k)
      PROVE  TypeOK'
  <2>1. [id |-> count + 1, company |-> k] \in Message /\ count' \in 0..MaxMsgs
        BY <1>5 DEF Broadcast, TypeOK, Message
  <2>2. broadcast' \in Seq(Message) /\ Len(broadcast') = Len(broadcast) + 1
        BY <1>5, <2>1, Send DEF Broadcast, TypeOK
  <2>3. Len(broadcast') <= BroadcastCap
        BY <1>5, <2>2 DEF Broadcast, TypeOK
  <2>4. UNCHANGED <<register, unregister, clients, msg, todo, serve, company, up, send,
                    closed, pump, got, due, slow>>
        BY <1>5 DEF Broadcast, hub, connection
  <2> QED BY <2>1, <2>2, <2>3, <2>4 DEF TypeOK
<1>6. ASSUME NEW c \in Clients, NEW k \in Companies, Connect(c, k)
      PROVE  TypeOK'
      BY <1>6 DEF Connect, TypeOK, channels, hub
<1>7. ASSUME NEW c \in Clients, Register(c)
      PROVE  TypeOK'
  <2>1. register' \in Seq(Clients) /\ Len(register') = Len(register) + 1
        BY <1>7, Send DEF Register, TypeOK
  <2>2. Len(register') <= RegisterCap
        BY <1>7, <2>1 DEF Register, TypeOK
  <2>3. /\ serve' \in [Clients -> {"new", "register", "reading", "unregister", "done"}]
        /\ pump' \in [Clients -> {"off", "running", "failed", "done"}]
        BY <1>7 DEF Register, TypeOK
  <2>4. UNCHANGED <<unregister, broadcast, clients, msg, todo, company, up, send, closed,
                    got, due, slow, count>>
        BY <1>7 DEF Register, hub
  <2> QED BY <2>1, <2>2, <2>3, <2>4 DEF TypeOK
<1>8. ASSUME NEW c \in Clients, Disconnect(c) \/ ReadFails(c) \/ PumpEnds(c)
      PROVE  TypeOK'
      BY <1>8 DEF Disconnect, ReadFails, PumpEnds, TypeOK, channels, hub
<1>9. ASSUME NEW c \in Clients, Unregister(c)
      PROVE  TypeOK'
  <2>1. unregister' \in Seq(Clients) /\ Len(unregister') = Len(unregister) + 1
        BY <1>9, Send DEF Unregister, TypeOK
  <2>2. Len(unregister') <= RegisterCap
        BY <1>9, <2>1 DEF Unregister, TypeOK
  <2>3. /\ serve' \in [Clients -> {"new", "register", "reading", "unregister", "done"}]
        /\ up' \in [Clients -> BOOLEAN]
        BY <1>9 DEF Unregister, TypeOK
  <2>4. UNCHANGED <<register, broadcast, clients, msg, todo, company, send, closed, pump,
                    got, due, slow, count>>
        BY <1>9 DEF Unregister, hub
  <2> QED BY <2>1, <2>2, <2>3, <2>4 DEF TypeOK
<1>10. ASSUME NEW c \in Clients, Pump(c)
       PROVE  TypeOK'
  <2>1. /\ Head(send[c]) \in Message
        /\ Tail(send[c]) \in Seq(Message) /\ Len(Tail(send[c])) = Len(send[c]) - 1
        BY <1>10, Receive DEF Pump, TypeOK
  <2>2. send' = [send EXCEPT ![c] = Tail(send[c])]
        BY <1>10 DEF Pump
  <2>3. send' \in [Clients -> Seq(Message)]
        BY <2>1, <2>2 DEF TypeOK
  <2>4. Len(send[c]) \in Nat /\ Len(send[c]) <= SendCap
        BY DEF TypeOK
  <2>5. \A d \in Clients : Len(send'[d]) <= SendCap
        BY <2>1, <2>2, <2>4 DEF TypeOK
  <2>6. Append(got[c], Head(send[c])) \in Seq(Message)
        BY <2>1, Send DEF TypeOK
  <2>7. /\ got' \in [Clients -> Seq(Message)]
        /\ pump' \in [Clients -> {"off", "running", "failed", "done"}]
        BY <1>10, <2>6 DEF Pump, TypeOK
  <2>8. UNCHANGED <<register, unregister, broadcast, clients, msg, todo, serve, company,
                    up, closed, due, slow, count>>
        BY <1>10 DEF Pump, channels, hub
  <2> QED BY <2>3, <2>5, <2>7, <2>8 DEF TypeOK
<1>11. CASE UNCHANGED vars
       BY <1>11 DEF TypeOK, vars
<1> QED BY <1>1, <1>2, <1>3, <1>4, <1>5, <1>6, <1>7, <1>8, <1>9, <1>10, <1>11
        DEF Next, Run, Connection

LEMMA DistributionNext == TypeOK /\ Distribution /\ [Next]_vars => Distribution'
<1> SUFFICES ASSUME TypeOK, Distribution, [Next]_vars
             PROVE  Distribution'
    OBVIOUS
<1>1. CASE TakeRegister
      BY <1>1 DEF TakeRegister, Distribution
<1>2. CASE TakeUnregister
      BY <1>2 DEF TakeUnregister, Distribution
<1>3. CASE TakeBroadcast
  <2>1. Head(broadcast) \in Message
        BY <1>3, Receive DEF TakeBroadcast, TypeOK
  <2>2. Head(broadcast) # NoMsg
        BY <2>1, ValuesAssumption DEF Message
  <2> QED BY <1>3, <2>2 DEF TakeBroadcast, Distribution, Targets
<1>4. ASSUME NEW c \in Clients, Offer(c)
      PROVE  Distribution'
      BY <1>4 DEF Offer, Distribution
<1>5. CASE UNCHANGED hub
      BY <1>5 DEF hub, Distribution
<1>6. /\ \A k \in Companies : Broadcast(k) => UNCHANGED hub
      /\ UNCHANGED vars => UNCHANGED hub
      BY DEF Broadcast, vars, hub
<1>7. \A c \in Clients : Connection(c) => UNCHANGED hub
      BY DEF Connection, Connect, Register, Disconnect, ReadFails, Unregister, Pump, PumpEnds
<1> QED BY <1>1, <1>2, <1>3, <1>4, <1>5, <1>6, <1>7 DEF Next, Run

LEMMA EntryNext == TypeOK /\ Distribution /\ Entry /\ [Next]_vars => Entry'
<1> SUFFICES ASSUME TypeOK, Distribution, Entry, [Next]_vars
             PROVE  Entry'
    OBVIOUS
<1>1. CASE TakeRegister
  <2> DEFINE c == Head(register)
  <2>1. /\ c \in Clients /\ c = register[1]
        /\ Len(register') = Len(register) - 1 /\ Len(register) \in Nat \ {0}
        /\ \A i \in 1..Len(register') : register'[i] = register[i + 1]
        BY <1>1, Receive DEF TakeRegister, TypeOK
  <2>2. \A i \in 1..Len(register') : i + 1 \in 1..Len(register) /\ i + 1 # 1
        BY <2>1
  <2>3. Queued(c)
        BY <2>1 DEF Queued
  <2>4. Started(c) /\ ~closed[c]
        BY <2>1, <2>3 DEF Entry
  <2>5. \A i \in 1..Len(register') : register'[i] # c
        BY <2>1, <2>2 DEF Entry
  <2>6. \A i, j \in 1..Len(register') : register'[i] = register'[j] => i = j
        BY <2>1, <2>2 DEF Entry
  <2>7. \A d \in Clients : Queued(d)' => Queued(d) /\ d # c
        BY <2>1, <2>2, <2>5 DEF Queued
  <2>8. clients' = clients \union {c} /\ UNCHANGED <<serve, closed>>
        BY <1>1 DEF TakeRegister, connection
  <2> QED BY <2>4, <2>6, <2>7, <2>8 DEF Entry, Started
<1>2. CASE TakeUnregister
  <2> DEFINE c == Head(unregister)
  <2>1. c \in Clients
        BY <1>2, Receive DEF TakeUnregister, TypeOK
  <2>2. /\ clients' = clients \ {c}
        /\ closed'[c] = (closed[c] \/ c \in clients)
        /\ \A d \in Clients \ {c} : closed'[d] = closed[d]
        BY <1>2, <2>1, ZenonT(30) DEF TakeUnregister, TypeOK
  <2>3. UNCHANGED <<register, serve>>
        BY <1>2 DEF TakeUnregister, connection
  <2>4. c \in clients => Started(c) /\ ~Queued(c)
        BY <2>1 DEF Entry
  <2>5. clients \subseteq Clients
        BY DEF TypeOK
  <2>6. /\ \A d \in Clients : Queued(d)' <=> Queued(d)
        /\ \A d \in Clients : Started(d)' <=> Started(d)
        BY <2>3 DEF Queued, Started
  <2>7. \A d \in Clients : closed'[d] => closed[d] \/ (d = c /\ c \in clients)
        BY <2>2
  <2> QED BY <2>2, <2>3, <2>4, <2>5, <2>6, <2>7 DEF Entry
<1>3. ASSUME NEW c \in Clients, Register(c)
      PROVE  Entry'
  <2>1. /\ ~Started(c) /\ ~Queued(c) /\ c \notin clients /\ ~closed[c]
        BY <1>3 DEF Register, Started, Entry
  <2>2. /\ Len(register') = Len(register) + 1 /\ Len(register) \in Nat
        /\ \A i \in 1..Len(register) : register'[i] = register[i]
        /\ register'[Len(register) + 1] = c
        BY <1>3, Send DEF Register, TypeOK
  <2>3. \A i \in 1..Len(register) : register[i] # c
        BY <2>1 DEF Queued
  <2>4. \A i \in 1..Len(register') : i \in 1..Len(register) \/ i = Len(register) + 1
        BY <2>2
  <2>5. \A i, j \in 1..Len(register') : register'[i] = register'[j] => i = j
        BY <2>2, <2>3, <2>4 DEF Entry
  <2>6. \A d \in Clients : Queued(d)' => Queued(d) \/ d = c
        BY <2>2, <2>4 DEF Queued
  <2>7. /\ UNCHANGED <<clients, closed>>
        /\ serve'[c] = "reading"
        /\ \A d \in Clients \ {c} : serve'[d] = serve[d]
        BY <1>3 DEF Register, TypeOK, hub
  <2>8. Started(c)' /\ \A d \in Clients : Started(d) => Started(d)'
        BY <2>7 DEF Started
  <2>9. clients \subseteq Clients
        BY DEF TypeOK
  <2> QED BY <2>1, <2>5, <2>6, <2>7, <2>8, <2>9 DEF Entry
<1>4. ASSUME UNCHANGED <<register, clients, closed>>,
             \A c \in Clients : Started(c) => Started(c)'
      PROVE  Entry'
  <2>1. \A d \in Clients : Queued(d)' <=> Queued(d)
        BY <1>4 DEF Queued
  <2>2. clients \subseteq Clients
        BY DEF TypeOK
  <2> QED BY <1>4, <2>1, <2>2 DEF Entry
<1>5. ASSUME NEW c \in Clients,
             (\E k \in Companies : Connect(c, k)) \/ ReadFails(c) \/ Unregister(c)
      PROVE  Entry'
  <2>1. UNCHANGED <<register, clients, closed>>
        BY <1>5 DEF Connect, ReadFails, Unregister, channels, hub
  <2>2. \A d \in Clients : Started(d) => Started(d)'
        BY <1>5 DEF Connect, ReadFails, Unregister, TypeOK, Started
  <2> QED BY <1>4, <2>1, <2>2
<1>6. ASSUME UNCHANGED <<register, clients, closed, serve>>
      PROVE  Entry'
      BY <1>4, <1>6 DEF Started
<1>7. /\ TakeBroadcast => UNCHANGED <<register, clients, closed, serve>>
      /\ \A c \in Clients : Offer(c) \/ Disconnect(c) \/ Pump(c) \/ PumpEnds(c)
                            => UNCHANGED <<register, clients, closed, serve>>
      /\ \A k \in Companies : Broadcast(k) => UNCHANGED <<register, clients, closed, serve>>
      /\ UNCHANGED vars => UNCHANGED <<register, clients, closed, serve>>
      BY DEF TakeBroadcast, Offer, Disconnect, Pump, PumpEnds, Broadcast, vars, channels,
             hub, connection
<1> QED BY <1>1, <1>2, <1>3, <1>5, <1>6, <1>7 DEF Next, Run, Connection

THEOREM Invariance == Spec => []IInv
<1>1. IInv /\ [Next]_vars => IInv'
      BY TypeNext, DistributionNext, EntryNext DEF IInv
<1> QED BY <1>1, InitIInv, PTL DEF Spec

THEOREM TypeCorrect == Spec => []TypeOK
<1>1. IInv => TypeOK
      BY DEF IInv
<1> QED BY <1>1, Invariance, PTL

\* Run never panics: it neither sends on nor closes a closed channel, whatever
\* the order in which it takes registrations, unregistrations and messages.
THEOREM NoPanic == Spec => []NeverSendsOnClosed
<1>1. IInv => NeverSendsOnClosed
      BY DEF IInv, NeverSendsOnClosed, Distribution, Entry
<1> QED BY <1>1, Invariance, PTL

-----------------------------------------------------------------------------
(* What a dashboard that keeps up has received.                              *)

\* StreamComplete looks at open connections only: when one opens, nothing has
\* been sent to it yet.
Fresh == \A c \in Clients :
            serve[c] = "new" => due[c] = <<>> /\ got[c] = <<>> /\ send[c] = <<>>

\* What Run is about to offer c.
Coming(c) == IF c \in todo THEN <<msg>> ELSE <<>>

LEMMA Associative == \A s, t, u \in Seq(Message) : (s \o t) \o u = s \o (t \o u)
BY ConcatAssociative

LEMMA FreshNext == IInv /\ Fresh /\ [Next]_vars => Fresh'
<1> SUFFICES ASSUME IInv, Fresh, [Next]_vars, NEW c \in Clients, serve'[c] = "new"
             PROVE  due'[c] = <<>> /\ got'[c] = <<>> /\ send'[c] = <<>>
    BY DEF Fresh
<1> USE DEF IInv
<1>1. serve[c] = "new"
  <2>1. /\ TakeRegister \/ TakeUnregister \/ TakeBroadcast => UNCHANGED serve
        /\ \A d \in Clients : Offer(d) \/ Disconnect(d) \/ Pump(d) \/ PumpEnds(d)
                              => UNCHANGED serve
        /\ \A k \in Companies : Broadcast(k) => UNCHANGED serve
        /\ UNCHANGED vars => UNCHANGED serve
        BY DEF TakeRegister, TakeUnregister, TakeBroadcast, Offer, Disconnect, Pump, PumpEnds,
               Broadcast, vars, connection
  <2>2. /\ \A d \in Clients, k \in Companies : Connect(d, k) => serve[c] = "new"
        /\ \A d \in Clients : Register(d) \/ ReadFails(d) \/ Unregister(d) => serve[c] = "new"
        BY DEF Connect, Register, ReadFails, Unregister, TypeOK
  <2> QED BY <2>1, <2>2 DEF Next, Run, Connection
<1>2. due[c] = <<>> /\ got[c] = <<>> /\ send[c] = <<>>
      BY <1>1 DEF Fresh
<1>3. c \notin clients /\ c \notin todo
      BY <1>1 DEF Entry, Started, Distribution
<1>4. CASE TakeBroadcast
  <2>1. c \notin Targets(Head(broadcast))
        BY <1>3 DEF Targets
  <2> QED BY <1>2, <1>4, <2>1 DEF TakeBroadcast, connection
<1>5. ASSUME NEW d \in Clients, Offer(d)
      PROVE  due'[c] = <<>> /\ got'[c] = <<>> /\ send'[c] = <<>>
      BY <1>2, <1>3, <1>5 DEF Offer, TypeOK, connection
<1>6. ASSUME NEW d \in Clients, Pump(d)
      PROVE  due'[c] = <<>> /\ got'[c] = <<>> /\ send'[c] = <<>>
  <2>1. d # c
        BY <1>2, <1>6 DEF Pump
  <2> QED BY <1>2, <1>6, <2>1 DEF Pump, TypeOK
<1>7. /\ TakeRegister \/ TakeUnregister => UNCHANGED <<due, got, send>>
      /\ \A d \in Clients, k \in Companies : Connect(d, k) => UNCHANGED <<due, got, send>>
      /\ \A d \in Clients : Register(d) \/ ReadFails(d) \/ Unregister(d) \/ Disconnect(d)
                            \/ PumpEnds(d) => UNCHANGED <<due, got, send>>
      /\ \A k \in Companies : Broadcast(k) => UNCHANGED <<due, got, send>>
      /\ UNCHANGED vars => UNCHANGED <<due, got, send>>
      BY DEF TakeRegister, TakeUnregister, Connect, Register, ReadFails, Unregister, Disconnect,
             PumpEnds, Broadcast, vars, connection
<1> QED BY <1>2, <1>4, <1>5, <1>6, <1>7 DEF Next, Run, Connection

LEMMA StreamNext == IInv /\ Fresh /\ StreamComplete /\ [Next]_vars => StreamComplete'
<1> SUFFICES ASSUME IInv, Fresh, StreamComplete, [Next]_vars,
                    NEW c \in Clients, up'[c], c \notin slow'
             PROVE  due'[c] = got'[c] \o send'[c] \o Coming(c)'
    BY DEF StreamComplete, Coming
<1> USE DEF IInv
<1>1. due[c] \in Seq(Message) /\ got[c] \in Seq(Message) /\ send[c] \in Seq(Message)
      BY DEF TypeOK
<1>2. up[c] /\ c \notin slow => due[c] = got[c] \o send[c] \o Coming(c)
      BY DEF StreamComplete, Coming
<1>3. CASE TakeBroadcast
  <2> DEFINE m == Head(broadcast)
  <2>1. m \in Message
        BY <1>3, Receive DEF TakeBroadcast, TypeOK
  <2>2. Coming(c) = <<>>
        BY <1>3 DEF TakeBroadcast, Distribution, Coming
  <2>3. due[c] = got[c] \o send[c]
    <3>1. up[c] /\ c \notin slow
          BY <1>3 DEF TakeBroadcast, connection
    <3>2. got[c] \o send[c] \in Seq(Message)
          BY <1>1
    <3> QED BY <1>2, <2>2, <3>1, <3>2, ConcatEmptySeq
  <2>4. UNCHANGED <<got, send>> /\ todo' = Targets(m)
        BY <1>3 DEF TakeBroadcast, connection
  <2>5. CASE c \in Targets(m)
    <3>1. Coming(c)' = <<m>>
          BY <1>3, <2>4, <2>5 DEF TakeBroadcast, Coming
    <3>2. due'[c] = Append(due[c], m)
          BY <1>3, <2>5 DEF TakeBroadcast
    <3>3. Append(due[c], m) = due[c] \o <<m>>
          BY <1>1, <2>1, AppendIsConcat
    <3> QED BY <2>3, <2>4, <3>1, <3>2, <3>3
  <2>6. CASE c \notin Targets(m)
    <3>1. Coming(c)' = <<>>
          BY <2>4, <2>6 DEF Coming
    <3>2. due'[c] = due[c]
          BY <1>3, <2>6 DEF TakeBroadcast
    <3>3. got[c] \o send[c] \in Seq(Message)
          BY <1>1
    <3> QED BY <2>3, <2>4, <3>1, <3>2, <3>3, ConcatEmptySeq
  <2> QED BY <2>5, <2>6
<1>4. ASSUME NEW d \in Clients, Offer(d)
      PROVE  due'[c] = got'[c] \o send'[c] \o Coming(c)'
  <2>1. up[c] /\ c \notin slow /\ UNCHANGED <<due, got>>
        BY <1>4 DEF Offer, connection
  <2>2. CASE c # d
    <3>1. send'[c] = send[c]
          BY <1>4, <2>2 DEF Offer, TypeOK
    <3>2. Coming(c)' = Coming(c)
          BY <1>4, <2>2 DEF Offer, Coming
    <3> QED BY <1>2, <2>1, <3>1, <3>2
  <2>3. CASE c = d
    <3>1. Coming(c) = <<msg>> /\ Coming(c)' = <<>>
          BY <1>4, <2>3 DEF Offer, Coming
    <3>2. msg \in Message
          BY <1>4 DEF Offer, TypeOK, Distribution
    <3>3. send'[c] = Append(send[c], msg)
          BY <1>4, <2>3 DEF Offer, TypeOK
    <3>4. send'[c] = send[c] \o <<msg>> /\ <<msg>> \in Seq(Message)
          BY <1>1, <3>2, <3>3, AppendIsConcat
    <3>5. due[c] = got[c] \o (send[c] \o <<msg>>)
      <4>1. due[c] = (got[c] \o send[c]) \o <<msg>>
            BY <1>2, <2>1, <3>1
      <4>2. got[c] \in Seq(Message) /\ send[c] \in Seq(Message) /\ <<msg>> \in Seq(Message)
            BY <1>1, <3>4
      <4>3. (got[c] \o send[c]) \o <<msg>> = got[c] \o (send[c] \o <<msg>>)
            BY <4>2, Associative, Zenon
      <4> QED BY <4>1, <4>3
    <3>6. got'[c] \o send'[c] \in Seq(Message)
          BY <1>1, <2>1, <3>4
    <3> QED BY <2>1, <3>1, <3>4, <3>5, <3>6, ConcatEmptySeq
  <2> QED BY <2>2, <2>3
<1>5. ASSUME NEW d \in Clients, Pump(d)
      PROVE  due'[c] = got'[c] \o send'[c] \o Coming(c)'
  <2>1. up[c] /\ c \notin slow /\ due'[c] = due[c] /\ Coming(c)' = Coming(c)
        BY <1>5 DEF Pump, hub, Coming
  <2>2. CASE c # d
        BY <1>2, <1>5, <2>1, <2>2 DEF Pump, TypeOK
  <2>3. CASE c = d
    <3> DEFINE h == Head(send[c])
               t == Tail(send[c])
    <3>1. h \in Message /\ t \in Seq(Message) /\ send[c] = <<h>> \o t
          BY <1>1, <1>5, <2>3, HeadTailProperties, Receive DEF Pump
    <3>2. got'[c] = Append(got[c], h) /\ send'[c] = t
          BY <1>5, <2>1, <2>3 DEF Pump, TypeOK
    <3>3. Append(got[c], h) = got[c] \o <<h>> /\ <<h>> \in Seq(Message)
          BY <1>1, <3>1, AppendIsConcat
    <3> HIDE DEF h, t
    <3>4. (got[c] \o <<h>>) \o t = got[c] \o (<<h>> \o t)
      <4>1. got[c] \in Seq(Message) /\ <<h>> \in Seq(Message) /\ t \in Seq(Message)
            BY <1>1, <3>1, <3>3
      <4> QED BY <4>1, Associative, Zenon
    <3> QED BY <1>2, <2>1, <3>1, <3>2, <3>3, <3>4
  <2> QED BY <2>2, <2>3
<1>6. ASSUME NEW d \in Clients, NEW k \in Companies, Connect(d, k)
      PROVE  due'[c] = got'[c] \o send'[c] \o Coming(c)'
  <2>1. UNCHANGED <<due, got, send, todo, msg, slow>>
        BY <1>6 DEF Connect, hub
  <2>2. CASE c = d
    <3>1. due[c] = <<>> /\ got[c] = <<>> /\ send[c] = <<>>
          BY <1>6, <2>2 DEF Connect, Fresh
    <3>2. c \notin todo
          BY <1>6, <2>2 DEF Connect, Entry, Started, Distribution
    <3>3. Coming(c)' = <<>>
          BY <2>1, <3>2 DEF Coming
    <3> QED BY <2>1, <3>1, <3>3
  <2>3. CASE c # d
    <3>1. up[c]
          BY <1>6, <2>3 DEF Connect, TypeOK
    <3> QED BY <1>2, <2>1, <3>1 DEF Coming
  <2> QED BY <2>2, <2>3
<1>7. ASSUME UNCHANGED <<due, got, send, todo, msg, slow>>, up'[c] => up[c]
      PROVE  due'[c] = got'[c] \o send'[c] \o Coming(c)'
      BY <1>2, <1>7 DEF Coming
<1>8. /\ TakeRegister \/ TakeUnregister => UNCHANGED <<due, got, send, todo, msg, slow, up>>
      /\ \A d \in Clients : Register(d) \/ ReadFails(d) \/ PumpEnds(d)
                            => UNCHANGED <<due, got, send, todo, msg, slow, up>>
      /\ \A k \in Companies : Broadcast(k) => UNCHANGED <<due, got, send, todo, msg, slow, up>>
      /\ UNCHANGED vars => UNCHANGED <<due, got, send, todo, msg, slow, up>>
      BY DEF TakeRegister, TakeUnregister, Register, ReadFails, PumpEnds, Broadcast, vars,
             connection, hub
<1>9. \A d \in Clients : Disconnect(d) \/ Unregister(d)
         => UNCHANGED <<due, got, send, todo, msg, slow>> /\ (up'[c] => up[c])
      BY DEF Disconnect, Unregister, TypeOK, hub
<1> QED BY <1>3, <1>4, <1>5, <1>6, <1>7, <1>8, <1>9 DEF Next, Run, Connection

\* A dashboard that stays connected and keeps up misses nothing.
THEOREM NothingMissed == Spec => []StreamComplete
<1>1. Init => Fresh /\ StreamComplete
      BY DEF Init, Fresh, StreamComplete
<1> QED BY <1>1, FreshNext, StreamNext, Invariance, PTL DEF Spec

-----------------------------------------------------------------------------
(* In what order any dashboard, slow or not, receives.                       *)

Increasing(s) == \A i \in 1..Len(s) : \A j \in 1..(i - 1) : s[j].id < s[i].id
Before(s, t) == \A i \in 1..Len(s), j \in 1..Len(t) : s[i].id < t[j].id
Upto(s, n) == \A i \in 1..Len(s) : s[i].id <= n
Of(s, k) == \A i \in 1..Len(s) : s[i].company = k

\* A message moves from broadcast to Run, into a channel and out of it: all that
\* c has received comes before all that waits for it, which comes before what
\* Run is about to offer it, which comes before what Run has not taken yet.
Line(c) ==
    /\ Increasing(got[c]) /\ Increasing(send[c])
    /\ Before(got[c], send[c]) /\ Before(got[c], Coming(c)) /\ Before(got[c], broadcast)
    /\ Before(send[c], Coming(c)) /\ Before(send[c], broadcast)
    /\ Before(Coming(c), broadcast)
    /\ Upto(got[c], count) /\ Upto(send[c], count) /\ Upto(Coming(c), count)
    /\ Of(got[c], company[c]) /\ Of(send[c], company[c]) /\ Of(Coming(c), company[c])

InLine ==
    /\ Increasing(broadcast) /\ Upto(broadcast, count)
    /\ \A c \in Clients : Line(c)

LEMMA EmptyOrder ==
    /\ Increasing(<<>>)
    /\ \A s : Before(s, <<>>) /\ Before(<<>>, s)
    /\ \A n : Upto(<<>>, n) /\ Of(<<>>, n)
BY DEF Increasing, Before, Upto, Of

\* Appending what comes after the rest keeps the order.
LEMMA AppendOrder ==
    ASSUME NEW s \in Seq(Message), NEW m \in Message
    PROVE  /\ Increasing(s) /\ Before(s, <<m>>) => Increasing(Append(s, m))
           /\ \A t \in Seq(Message) :
                 /\ Before(s, t) /\ Before(<<m>>, t) => Before(Append(s, m), t)
                 /\ Before(t, s) /\ Before(t, <<m>>) => Before(t, Append(s, m))
           /\ \A n : Upto(s, n) /\ Upto(<<m>>, n) => Upto(Append(s, m), n)
           /\ \A k : Of(s, k) /\ Of(<<m>>, k) => Of(Append(s, m), k)
<1> DEFINE a == Append(s, m)
<1>1. /\ Len(a) = Len(s) + 1 /\ Len(s) \in Nat
      /\ \A i \in 1..Len(s) : a[i] = s[i]
      /\ a[Len(s) + 1] = m
      BY Send
<1>2. \A i \in 1..Len(a) : i \in 1..Len(s) \/ i = Len(s) + 1
      BY <1>1
<1>3. Len(<<m>>) = 1 /\ <<m>>[1] = m /\ 1 \in 1..1 /\ 1..1 = {1}
      OBVIOUS
<1> HIDE DEF a
<1>4. ASSUME Increasing(s), Before(s, <<m>>), NEW i \in 1..Len(a), NEW j \in 1..(i - 1)
      PROVE  a[j].id < a[i].id
  <2>1. j \in 1..Len(s) /\ a[j] = s[j]
        BY <1>1, <1>2
  <2>2. CASE i \in 1..Len(s)
        BY <1>1, <1>4, <2>1, <2>2 DEF Increasing
  <2>3. CASE i = Len(s) + 1
    <3>1. s[j].id < m.id
          BY <1>3, <1>4, <2>1 DEF Before
    <3> QED BY <1>1, <2>1, <2>3, <3>1
  <2> QED BY <1>2, <2>2, <2>3
<1>5. ASSUME NEW t \in Seq(Message), Before(s, t), Before(<<m>>, t)
      PROVE  Before(a, t)
      BY <1>1, <1>2, <1>3, <1>5 DEF Before
<1>6. ASSUME NEW t \in Seq(Message), Before(t, s), Before(t, <<m>>)
      PROVE  Before(t, a)
      BY <1>1, <1>2, <1>3, <1>6 DEF Before
<1>7. ASSUME NEW n, Upto(s, n), Upto(<<m>>, n)
      PROVE  Upto(a, n)
      BY <1>1, <1>2, <1>3, <1>7 DEF Upto
<1>8. ASSUME NEW k, Of(s, k), Of(<<m>>, k)
      PROVE  Of(a, k)
      BY <1>1, <1>2, <1>3, <1>8 DEF Of
<1>9. Increasing(s) /\ Before(s, <<m>>) => Increasing(a)
      BY <1>4 DEF Increasing
<1> QED BY <1>5, <1>6, <1>7, <1>8, <1>9 DEF a

\* So does taking the first one, which comes before the others.
LEMMA ReceiveOrder ==
    ASSUME NEW s \in Seq(Message), s # <<>>
    PROVE  /\ Increasing(s) => Increasing(Tail(s)) /\ Before(<<Head(s)>>, Tail(s))
           /\ \A t \in Seq(Message) :
                 /\ Before(s, t) => Before(<<Head(s)>>, t) /\ Before(Tail(s), t)
                 /\ Before(t, s) => Before(t, <<Head(s)>>) /\ Before(t, Tail(s))
           /\ \A n : Upto(s, n) => Upto(<<Head(s)>>, n) /\ Upto(Tail(s), n)
           /\ \A k : Of(s, k) => Of(<<Head(s)>>, k) /\ Of(Tail(s), k)
<1> DEFINE h == <<Head(s)>>
           r == Tail(s)
<1>1. /\ Len(r) = Len(s) - 1 /\ Len(s) \in Nat \ {0}
      /\ \A i \in 1..Len(r) : r[i] = s[i + 1]
      BY Receive
<1>2. Len(h) = 1 /\ h[1] = s[1] /\ 1..1 = {1}
      BY Receive
<1>3. /\ \A i \in 1..Len(r) : i + 1 \in 1..Len(s) /\ 1 \in 1..((i + 1) - 1)
      /\ \A i \in 1..Len(r) : \A j \in 1..(i - 1) : j + 1 \in 1..((i + 1) - 1) /\ j \in 1..Len(r)
      /\ 1 \in 1..Len(s)
      BY <1>1
<1> HIDE DEF h, r
<1>4. ASSUME Increasing(s)
      PROVE  Increasing(r) /\ Before(h, r)
  <2>1. Increasing(r)
        BY <1>1, <1>3, <1>4 DEF Increasing
  <2>2. Before(h, r)
        BY <1>1, <1>2, <1>3, <1>4 DEF Increasing, Before
  <2> QED BY <2>1, <2>2
<1>5. ASSUME NEW t \in Seq(Message)
      PROVE  /\ Before(s, t) => Before(h, t) /\ Before(r, t)
             /\ Before(t, s) => Before(t, h) /\ Before(t, r)
      BY <1>1, <1>2, <1>3 DEF Before
<1>6. /\ \A n : Upto(s, n) => Upto(h, n) /\ Upto(r, n)
      /\ \A k : Of(s, k) => Of(h, k) /\ Of(r, k)
      BY <1>1, <1>2, <1>3 DEF Upto, Of
<1> QED BY <1>4, <1>5, <1>6 DEF h, r

LEMMA UptoBefore ==
    ASSUME NEW s \in Seq(Message), NEW n \in Nat, NEW m \in Message, n < m.id, Upto(s, n)
    PROVE  Before(s, <<m>>) /\ Upto(s, m.id)
<1>1. Len(<<m>>) = 1 /\ <<m>>[1] = m /\ 1..1 = {1} /\ m.id \in Nat
      BY DEF Message
<1>2. \A i \in 1..Len(s) : s[i] \in Message
      OBVIOUS
<1>3. \A i \in 1..Len(s) : s[i].id \in Nat /\ s[i].id <= n
      BY <1>2 DEF Upto, Message
<1>4. n \in Nat /\ n < m.id
      OBVIOUS
<1> HIDE DEF Message
<1> QED BY <1>1, <1>3, <1>4 DEF Before, Upto

LEMMA InLineNext == IInv /\ Fresh /\ InLine /\ [Next]_vars => InLine'
<1> SUFFICES ASSUME IInv, Fresh, InLine, [Next]_vars
             PROVE  InLine'
    OBVIOUS
<1> USE DEF IInv
<1>1. /\ broadcast \in Seq(Message) /\ count \in Nat
      /\ \A c \in Clients : got[c] \in Seq(Message) /\ send[c] \in Seq(Message)
      BY DEF TypeOK
<1>2. \A c \in Clients : Coming(c) \in Seq(Message)
      BY DEF TypeOK, Distribution, Coming
<1>3. CASE TakeBroadcast
  <2> DEFINE m == Head(broadcast)
  <2>1. m \in Message /\ <<m>> \in Seq(Message) /\ broadcast' = Tail(broadcast)
        BY <1>1, <1>3, Receive DEF TakeBroadcast
  <2>2. UNCHANGED <<got, send, company, count>> /\ todo' = Targets(m)
        BY <1>3 DEF TakeBroadcast, connection
  <2>3. Increasing(broadcast') /\ Before(<<m>>, broadcast') /\ Upto(broadcast', count)
        /\ Upto(<<m>>, count)
        BY <1>1, <1>3, <2>1, ReceiveOrder DEF TakeBroadcast, InLine
  <2>4. ASSUME NEW c \in Clients
        PROVE  Line(c)'
    <3>1. /\ Before(got[c], <<m>>) /\ Before(got[c], broadcast')
          /\ Before(send[c], <<m>>) /\ Before(send[c], broadcast')
          BY <1>1, <1>3, <2>1, ReceiveOrder DEF TakeBroadcast, InLine, Line
    <3>2. CASE c \in Targets(m)
      <4>1. Coming(c)' = <<m>>
            BY <1>3, <2>2, <3>2 DEF TakeBroadcast, Coming
      <4>2. Of(<<m>>, company[c])
            BY <3>2 DEF Targets, Of
      <4> QED BY <2>2, <2>3, <3>1, <4>1, <4>2 DEF InLine, Line
    <3>3. CASE c \notin Targets(m)
      <4>1. Coming(c)' = <<>>
            BY <2>2, <3>3 DEF Coming
      <4> QED BY <2>2, <3>1, <4>1, EmptyOrder DEF InLine, Line
    <3> QED BY <3>2, <3>3
  <2> QED BY <2>2, <2>3, <2>4 DEF InLine
<1>4. ASSUME NEW d \in Clients, Offer(d)
      PROVE  InLine'
  <2>1. UNCHANGED <<got, company, count, broadcast>>
        BY <1>4 DEF Offer, channels, connection
  <2>2. Coming(d) = <<msg>> /\ msg \in Message /\ Coming(d)' = <<>>
        BY <1>4 DEF Offer, Coming, TypeOK, Distribution
  <2>3. send'[d] = send[d] \/ send'[d] = Append(send[d], msg)
        BY <1>4 DEF Offer, TypeOK
  <2>4. Line(d)'
    <3>1. /\ Increasing(send'[d]) /\ Before(got[d], send'[d]) /\ Before(send'[d], broadcast)
          /\ Upto(send'[d], count) /\ Of(send'[d], company[d])
          BY <1>1, <2>2, <2>3, AppendOrder DEF InLine, Line
    <3> QED BY <2>1, <2>2, <3>1, EmptyOrder DEF InLine, Line
  <2>5. ASSUME NEW c \in Clients \ {d}
        PROVE  Line(c)'
    <3>1. send'[c] = send[c] /\ Coming(c)' = Coming(c)
          BY <1>4 DEF Offer, TypeOK, Coming
    <3> QED BY <2>1, <3>1 DEF InLine, Line
  <2> QED BY <2>1, <2>4, <2>5 DEF InLine
<1>5. ASSUME NEW k \in Companies, Broadcast(k)
      PROVE  InLine'
  <2> DEFINE m == [id |-> count + 1, company |-> k]
  <2>1. m \in Message /\ m.id = count + 1 /\ <<m>> \in Seq(Message)
    <3>1. m \in Message /\ m.id = count + 1
          BY <1>5, CapacityAssumption DEF Broadcast, TypeOK, Message
    <3> HIDE DEF m
    <3> QED BY <3>1
  <2>2. broadcast' = Append(broadcast, m) /\ count' = m.id
        /\ UNCHANGED <<got, send, todo, msg, company>>
        BY <1>5 DEF Broadcast, connection, hub
  <2> HIDE DEF m
  <2>3. count < m.id
        BY <1>1, <2>1
  <2>4. Upto(<<m>>, m.id)
    <3>1. Len(<<m>>) = 1 /\ <<m>>[1] = m /\ 1..1 = {1}
          OBVIOUS
    <3> QED BY <1>1, <2>1, <3>1 DEF Upto
  <2>5. Before(broadcast, <<m>>) /\ Upto(broadcast, m.id)
        BY <1>1, <2>1, <2>3, UptoBefore DEF InLine
  <2>6. Increasing(broadcast') /\ Upto(broadcast', count')
        BY <1>1, <2>1, <2>2, <2>4, <2>5, AppendOrder DEF InLine
  <2>7. ASSUME NEW c \in Clients
        PROVE  Line(c)'
    <3>1. /\ Before(got[c], <<m>>) /\ Upto(got[c], m.id)
          /\ Before(send[c], <<m>>) /\ Upto(send[c], m.id)
          /\ Before(Coming(c), <<m>>) /\ Upto(Coming(c), m.id)
          BY <1>1, <1>2, <2>1, <2>3, UptoBefore DEF InLine, Line
    <3>2. /\ Before(got[c], broadcast') /\ Before(send[c], broadcast')
          /\ Before(Coming(c), broadcast')
          BY <1>1, <1>2, <2>1, <2>2, <3>1, AppendOrder DEF InLine, Line
    <3>3. Coming(c)' = Coming(c)
          BY <2>2 DEF Coming
    <3> QED BY <2>2, <3>1, <3>2, <3>3 DEF InLine, Line
  <2> QED BY <2>6, <2>7 DEF InLine
<1>6. ASSUME NEW d \in Clients, Pump(d)
      PROVE  InLine'
  <2> DEFINE h == Head(send[d])
             t == Tail(send[d])
  <2>1. h \in Message /\ t \in Seq(Message) /\ <<h>> \in Seq(Message)
        BY <1>1, <1>6, Receive DEF Pump
  <2>2. /\ send'[d] = t /\ \A c \in Clients \ {d} : send'[c] = send[c] /\ got'[c] = got[c]
        /\ got'[d] = got[d] \/ got'[d] = Append(got[d], h)
        BY <1>6 DEF Pump, TypeOK
  <2>3. UNCHANGED <<company, count, broadcast>> /\ \A c \in Clients : Coming(c)' = Coming(c)
        BY <1>6 DEF Pump, channels, hub, Coming
  <2>4. /\ Increasing(t) /\ Before(<<h>>, t)
        /\ Before(got[d], <<h>>) /\ Before(got[d], t)
        /\ Before(<<h>>, Coming(d)) /\ Before(t, Coming(d))
        /\ Before(<<h>>, broadcast) /\ Before(t, broadcast)
        /\ Upto(<<h>>, count) /\ Upto(t, count)
        /\ Of(<<h>>, company[d]) /\ Of(t, company[d])
        BY <1>1, <1>2, <1>6, ReceiveOrder DEF Pump, InLine, Line
  <2> HIDE DEF h, t
  <2>5. /\ Increasing(got'[d]) /\ Before(got'[d], t) /\ Before(got'[d], Coming(d))
        /\ Before(got'[d], broadcast) /\ Upto(got'[d], count) /\ Of(got'[d], company[d])
        BY <1>1, <1>2, <2>1, <2>2, <2>4, AppendOrder DEF InLine, Line
  <2>6. Line(d)'
        BY <2>2, <2>3, <2>4, <2>5 DEF InLine, Line
  <2>7. \A c \in Clients \ {d} : Line(c)'
        BY <2>2, <2>3 DEF InLine, Line
  <2> QED BY <2>3, <2>6, <2>7 DEF InLine
<1>7. ASSUME NEW d \in Clients, NEW k \in Companies, Connect(d, k)
      PROVE  InLine'
  <2>1. UNCHANGED <<got, send, todo, msg, broadcast, count>>
        BY <1>7 DEF Connect, hub, channels
  <2>2. \A c \in Clients \ {d} : company'[c] = company[c]
        BY <1>7 DEF Connect, TypeOK
  <2>3. got[d] = <<>> /\ send[d] = <<>> /\ Coming(d) = <<>>
        BY <1>7 DEF Connect, Fresh, Entry, Started, Distribution, Coming
  <2>4. \A c \in Clients : Coming(c)' = Coming(c)
        BY <2>1 DEF Coming
  <2>5. Line(d)'
        BY <2>1, <2>3, <2>4, EmptyOrder DEF Line
  <2>6. \A c \in Clients \ {d} : Line(c)'
        BY <2>1, <2>2, <2>4 DEF InLine, Line
  <2> QED BY <2>1, <2>5, <2>6 DEF InLine
<1>8. ASSUME UNCHANGED <<got, send, todo, msg, broadcast, count, company>>
      PROVE  InLine'
      BY <1>8 DEF InLine, Line, Coming
<1>9. /\ TakeRegister \/ TakeUnregister
             => UNCHANGED <<got, send, todo, msg, broadcast, count, company>>
      /\ \A d \in Clients : Register(d) \/ Disconnect(d) \/ ReadFails(d) \/ Unregister(d)
                            \/ PumpEnds(d)
             => UNCHANGED <<got, send, todo, msg, broadcast, count, company>>
      /\ UNCHANGED vars => UNCHANGED <<got, send, todo, msg, broadcast, count, company>>
      BY DEF TakeRegister, TakeUnregister, Register, Disconnect, ReadFails, Unregister,
             PumpEnds, vars, connection, hub, channels
<1> QED BY <1>3, <1>4, <1>5, <1>6, <1>7, <1>8, <1>9 DEF Next, Run, Connection

\* Whatever is dropped on the way, a dashboard gets messages of its own company
\* only, in the order the consumer broadcast them and none twice.
THEOREM InOrder == Spec => []StreamInOrder
<1>1. Init => Fresh /\ InLine
      BY EmptyOrder DEF Init, Fresh, InLine, Line, Coming
<1>2. InLine => StreamInOrder
      BY DEF InLine, Line, Increasing, Of, StreamInOrder
<1> QED BY <1>1, <1>2, FreshNext, InLineNext, Invariance, PTL DEF Spec
=============================================================================
