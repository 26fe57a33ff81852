------------------------ MODULE KafkaConsumer_proofs ------------------------
(***************************************************************************)
(* Proofs about KafkaConsumer for any number of members, partitions,       *)
(* attempts, messages, crashes and rebalances.                             *)
(*                                                                         *)
(* NoEventLost is not inductive: the committed prefix comes from a stash,  *)
(* the stash from the message in hand, and that message from the reader's  *)
(* position.  IInv follows the offset along that path: whatever is behind  *)
(* the stash, behind the message in hand or behind the position of a       *)
(* reader that owns the partition has been settled.                        *)
(*                                                                         *)
(* That offsets only grow needs the order of the same three places and the *)
(* owner of the partition to be the only one with commits of it to send    *)
(* (Exclusive), which holds until a rebalance takes it from a live member. *)
(***************************************************************************)
EXTENDS KafkaConsumer, TLAPS

\* Only messages of the log are settled.
SettledInLog ==
    \A p \in Partitions : \A o \in Settled(p) : o <= Len(log[p])

\* What CommitMessages accepted was settled.
StashSettled ==
    \A m \in Members : \A p \in Partitions : 1..stash[m][p] \subseteq Settled(p)

\* Everything before the message a member holds is settled, and the message
\* itself by the time it is committed.
HandOf(m) ==
    pc[m] \in {"handle", "commit"} =>
        /\ cur[m] \in Message
        /\ cur[m].off <= Len(log[cur[m].part])
        /\ 1..(cur[m].off - 1) \subseteq Settled(cur[m].part)
        /\ pc[m] = "commit" => cur[m].off \in Settled(cur[m].part)

InHand == \A m \in Members : HandOf(m)

\* Everything the reader of the owner has returned is settled or in its hand.
ReadBy(m, p) ==
    owner[p] = m =>
        \A o \in 1..pos[m][p] :
            \/ o \in Settled(p)
            \/ pc[m] = "handle" /\ cur[m] = [part |-> p, off |-> o]

ReadSettled == \A m \in Members : \A p \in Partitions : ReadBy(m, p)

\* A process that is down is outside Consume.
DownReturned == \A m \in Members : life[m] = "down" => pc[m] = "returned"

IInv ==
    /\ TypeOK
    /\ DownReturned
    /\ SettledInOrder
    /\ SettledInLog
    /\ NoEventLost
    /\ StashSettled
    /\ InHand
    /\ ReadSettled

-----------------------------------------------------------------------------
LEMMA InitTypeOK == Init => TypeOK
BY BoundsAssumption DEF Init, TypeOK

LEMMA NextTypeOK == TypeOK /\ [Next]_vars => TypeOK'
<1> SUFFICES ASSUME TypeOK, [Next]_vars
             PROVE  TypeOK'
  OBVIOUS
<1> USE BoundsAssumption DEF TypeOK, broker, process, history, bounds
<1>1. ASSUME NEW p \in Partitions, NEW kind \in {"event", "garbage"},
             Publish(p, kind)
      PROVE  TypeOK'
  <2>1. log' \in [Partitions -> Seq({"event", "garbage"})]
    BY <1>1 DEF Publish
  <2>2. \A q \in Partitions : Len(log'[q]) <= MaxLen
    BY <1>1 DEF Publish
  <2> QED
    BY <1>1, <2>1, <2>2 DEF Publish
<1>2. ASSUME NEW p \in Partitions, Revoke(p)
      PROVE  TypeOK'
  <2>1. owner' \in [Partitions -> Members \union {Nobody}]
    BY <1>2 DEF Revoke
  <2>2. rebalances' \in 0..MaxRebalances
    BY <1>2 DEF Revoke
  <2> QED
    BY <1>2, <2>1, <2>2 DEF Revoke
<1>3. ASSUME NEW p \in Partitions, NEW m \in Members, Assign(p, m)
      PROVE  TypeOK'
  BY <1>3 DEF Assign
<1>4. ASSUME NEW m \in Members, Flush(m)
      PROVE  TypeOK'
  BY <1>4 DEF Flush, Sent
<1>5. ASSUME NEW m \in Members, Start(m)
      PROVE  TypeOK'
  BY <1>5 DEF Start
<1>6. ASSUME NEW m \in Members, Terminate(m)
      PROVE  TypeOK'
  BY <1>6 DEF Terminate
<1>7. ASSUME NEW m \in Members, Exit(m)
      PROVE  TypeOK'
  BY <1>7 DEF Exit
<1>8. ASSUME NEW m \in Members, Close(m)
      PROVE  TypeOK'
  BY <1>8 DEF Close, Sent, Released
<1>9. ASSUME NEW m \in Members, Crash(m)
      PROVE  TypeOK'
  BY <1>9 DEF Crash, Released
<1>10. ASSUME NEW m \in Members, CheckContext(m)
       PROVE  TypeOK'
  BY <1>10 DEF CheckContext
<1>11. ASSUME NEW m \in Members, FetchCancelled(m)
       PROVE  TypeOK'
  BY <1>11 DEF FetchCancelled
<1>12. ASSUME NEW m \in Members, NEW p \in Partitions, Fetch(m, p)
       PROVE  TypeOK'
  <2> DEFINE o == pos[m][p] + 1
  <2>1. o \in 1..MaxLen /\ [part |-> p, off |-> o] \in Message
    BY <1>12 DEF Fetch, Message
  <2>2. /\ log' = log /\ committed' = committed /\ owner' = owner /\ life' = life
        /\ stash' = stash /\ handled' = handled
        /\ failures' = failures /\ rebalances' = rebalances
    BY <1>12 DEF Fetch
  <2>3. /\ pos' = [pos EXCEPT ![m][p] = o]
        /\ cur' = [cur EXCEPT ![m] = [part |-> p, off |-> o]]
        /\ attempt' = [attempt EXCEPT ![m] = 0]
    BY <1>12 DEF Fetch
  <2>4. \/ pc' = [pc EXCEPT ![m] = "handle"] /\ skipped' = skipped
        \/ /\ pc' = [pc EXCEPT ![m] = "commit"]
           /\ skipped' = [skipped EXCEPT ![p] = @ \union {o}]
    BY <1>12 DEF Fetch
  <2> HIDE DEF o
  <2>5. pos' \in [Members -> [Partitions -> 0..MaxLen]]
    BY <2>1, <2>3
  <2>6. /\ cur' \in [Members -> Message \union {NoMsg}]
        /\ attempt' \in [Members -> 0..(MaxRetries - 1)]
    BY <2>1, <2>3
  <2>7. /\ pc' \in [Members -> {"check", "fetch", "handle", "commit", "returned"}]
        /\ skipped' \in [Partitions -> SUBSET (1..MaxLen)]
    <3>1. /\ pc \in [Members -> {"check", "fetch", "handle", "commit", "returned"}]
          /\ skipped \in [Partitions -> SUBSET (1..MaxLen)]
      OBVIOUS
    <3> HIDE DEF TypeOK
    <3> QED
      BY <2>1, <2>4, <3>1
  <2>8. \A k \in Members : pc'[k] \in {"handle", "commit"} => cur'[k] \in Message
    BY <2>1, <2>3, <2>4
  <2> QED
    BY <2>2, <2>5, <2>6, <2>7, <2>8
<1>13. ASSUME NEW m \in Members, HandlerSucceeds(m)
       PROVE  TypeOK'
  <2>1. cur[m].part \in Partitions /\ cur[m].off \in 1..MaxLen
    BY <1>13 DEF HandlerSucceeds, Message
  <2> QED
    BY <1>13, <2>1 DEF HandlerSucceeds
<1>14. ASSUME NEW m \in Members, HandlerFails(m)
       PROVE  TypeOK'
  <2>1. cur[m].part \in Partitions /\ cur[m].off \in 1..MaxLen
    BY <1>14 DEF HandlerFails, Message
  <2>2. /\ log' = log /\ committed' = committed /\ owner' = owner /\ life' = life
        /\ cur' = cur /\ pos' = pos /\ stash' = stash /\ handled' = handled
        /\ failures' = failures /\ rebalances' = rebalances
    BY <1>14 DEF HandlerFails
  <2>3. pc[m] = "handle"
    BY <1>14 DEF HandlerFails
  <2>4. \/ /\ attempt[m] + 1 < MaxRetries
           /\ attempt' = [attempt EXCEPT ![m] = @ + 1]
           /\ pc' = pc /\ skipped' = skipped
        \/ /\ skipped' = [skipped EXCEPT ![cur[m].part] = @ \union {cur[m].off}]
           /\ pc' = [pc EXCEPT ![m] = "commit"]
           /\ attempt' = attempt
    BY <1>14 DEF HandlerFails
  <2>5. attempt' \in [Members -> 0..(MaxRetries - 1)]
    <3>1. attempt \in [Members -> 0..(MaxRetries - 1)]
      OBVIOUS
    <3> HIDE DEF TypeOK
    <3> QED
      BY <2>4, <3>1
  <2>6. /\ pc' \in [Members -> {"check", "fetch", "handle", "commit", "returned"}]
        /\ skipped' \in [Partitions -> SUBSET (1..MaxLen)]
    <3>1. /\ pc \in [Members -> {"check", "fetch", "handle", "commit", "returned"}]
          /\ skipped \in [Partitions -> SUBSET (1..MaxLen)]
      OBVIOUS
    <3> HIDE DEF TypeOK
    <3> QED
      BY <2>1, <2>4, <3>1
  <2>7. \A k \in Members : pc'[k] \in {"handle", "commit"} => cur'[k] \in Message
    BY <2>2, <2>3, <2>4
  <2> QED
    BY <2>2, <2>5, <2>6, <2>7
<1>15. ASSUME NEW m \in Members, Commit(m)
       PROVE  TypeOK'
  <2>1. cur[m].part \in Partitions /\ cur[m].off \in 1..MaxLen
    BY <1>15 DEF Commit, Message
  <2>2. Later(stash[m][cur[m].part], cur[m].off) \in 0..MaxLen
    BY <2>1 DEF Later
  <2>3. stash' \in [Members -> [Partitions -> 0..MaxLen]]
    <3>1. CASE UNCHANGED stash
      BY <3>1
    <3>2. CASE stash' = [stash EXCEPT ![m][cur[m].part] = Later(@, cur[m].off)]
      BY <2>1, <2>2, <3>2
    <3> QED
      BY <1>15, <3>1, <3>2 DEF Commit
  <2>4. cur' \in [Members -> Message \union {NoMsg}]
    BY <1>15 DEF Commit
  <2>5. \A k \in Members : pc'[k] \in {"handle", "commit"} => cur'[k] \in Message
    BY <1>15 DEF Commit
  <2>6. attempt' \in [Members -> 0..(MaxRetries - 1)]
    BY <1>15 DEF Commit
  <2> QED
    BY <1>15, <2>3, <2>4, <2>5, <2>6 DEF Commit
<1>16. CASE UNCHANGED vars
  BY <1>16 DEF vars
<1> QED
  BY <1>1, <1>2, <1>3, <1>4, <1>5, <1>6, <1>7, <1>8, <1>9, <1>10, <1>11,
     <1>12, <1>13, <1>14, <1>15, <1>16
  DEF Next, Consume

\* TypeOK for every reachable state: no handler, commit or rebalance leaves a
\* member with an offset outside the log's bounds or a commit without message.
THEOREM TypeCorrect == Spec => []TypeOK
BY InitTypeOK, NextTypeOK, PTL DEF Spec

-----------------------------------------------------------------------------
\* Adding the offset after a settled prefix keeps every settled set a prefix
\* of the log.
LEMMA SettleNext ==
  ASSUME NEW q \in Partitions, NEW o \in 1..MaxLen,
         TypeOK, SettledInOrder, SettledInLog,
         o <= Len(log[q]), 1..(o - 1) \subseteq Settled(q),
         log' = log,
         \A p \in Partitions :
            Settled(p)' = IF p = q THEN Settled(p) \union {o} ELSE Settled(p)
  PROVE  SettledInOrder' /\ SettledInLog'
<1>1. ASSUME NEW p \in Partitions, NEW x \in Settled(p)'
      PROVE  1..x \subseteq Settled(p)' /\ x <= Len(log'[p])
  <2>1. x \in Nat /\ o \in Nat
    <3>1. x \in Settled(p) \union {o}
      BY <1>1
    <3>2. Settled(p) \subseteq Nat /\ o \in Nat
      BY BoundsAssumption DEF TypeOK, Settled
    <3> QED
      BY <3>1, <3>2
  <2>2. CASE p = q /\ x = o
    <3>1. 1..o = (1..(o - 1)) \union {o}
      BY <2>1
    <3> QED
      BY <2>2, <3>1
  <2>3. CASE ~(p = q /\ x = o)
    <3>1. x \in Settled(p)
      BY <1>1, <2>3
    <3> QED
      BY <3>1 DEF SettledInOrder, SettledInLog
  <2> QED
    BY <2>2, <2>3
<1> QED
  BY <1>1 DEF SettledInOrder, SettledInLog

LEMMA InitIInv == Init => IInv
<1> SUFFICES ASSUME Init
             PROVE  IInv
  OBVIOUS
<1>1. TypeOK /\ DownReturned
  BY InitTypeOK DEF Init, DownReturned
<1>2. \A p \in Partitions : Settled(p) = {} /\ committed[p] = 0
  BY DEF Init, Settled
<1>3. SettledInOrder /\ SettledInLog /\ NoEventLost
  BY <1>2 DEF SettledInOrder, SettledInLog, NoEventLost
<1>4. StashSettled /\ InHand /\ ReadSettled
  BY <1>2, BoundsAssumption DEF Init, StashSettled, InHand, ReadSettled,
                                  HandOf, ReadBy
<1> QED
  BY <1>1, <1>3, <1>4 DEF IInv

\* Steps that settle nothing keep the order and the log part of IInv.
LEMMA SettledUnchanged ==
  ASSUME IInv, UNCHANGED <<log, handled, skipped>>
  PROVE  SettledInOrder' /\ SettledInLog'
BY DEF IInv, SettledInOrder, SettledInLog, Settled

\* A message leaves the reader only after everything before it in its
\* partition was settled, so fetching never opens a gap.
LEMMA FetchIInv ==
  ASSUME IInv, NEW m \in Members, NEW p \in Partitions, Fetch(m, p)
  PROVE  /\ SettledInOrder' /\ SettledInLog' /\ NoEventLost'
         /\ StashSettled' /\ InHand' /\ ReadSettled'
<1> DEFINE o == pos[m][p] + 1
<1> USE DEF broker, process, history, bounds
<1>1. TypeOK /\ o \in 1..MaxLen /\ o <= Len(log[p]) /\ o - 1 = pos[m][p]
  <2>1. o <= Len(log[p])
    BY DEF Fetch
  <2>2. TypeOK /\ pos[m][p] \in 0..MaxLen /\ Len(log[p]) <= MaxLen
    BY DEF IInv, TypeOK
  <2>3. Len(log[p]) \in Nat
    <3>1. log[p] \in Seq({"event", "garbage"})
      BY <2>2 DEF TypeOK
    <3> QED
      BY <3>1
  <2> QED
    BY <2>1, <2>2, <2>3, BoundsAssumption
<1>2. 1..(o - 1) \subseteq Settled(p)
  BY <1>1 DEF IInv, ReadSettled, ReadBy, Fetch
<1>3. /\ log' = log /\ committed' = committed /\ owner' = owner
      /\ stash' = stash /\ handled' = handled
      /\ pos' = [pos EXCEPT ![m][p] = o]
      /\ cur' = [cur EXCEPT ![m] = [part |-> p, off |-> o]]
      /\ owner[p] = m /\ pc[m] = "fetch"
  BY DEF Fetch
<1>4. \/ pc' = [pc EXCEPT ![m] = "handle"] /\ skipped' = skipped
      \/ /\ pc' = [pc EXCEPT ![m] = "commit"]
         /\ skipped' = [skipped EXCEPT ![p] = @ \union {o}]
  BY DEF Fetch
<1> HIDE DEF o
<1>5. \A q \in Partitions : Settled(q) \subseteq Settled(q)'
  <2>1. CASE skipped' = skipped
    BY <1>3, <2>1 DEF Settled
  <2>2. CASE skipped' = [skipped EXCEPT ![p] = @ \union {o}]
    BY <1>1, <1>3, <2>2 DEF Settled, TypeOK
  <2> QED
    BY <1>4, <2>1, <2>2
<1>6. SettledInOrder' /\ SettledInLog'
  <2>1. CASE skipped' = skipped
    BY <1>3, <2>1, SettledUnchanged
  <2>2. CASE skipped' = [skipped EXCEPT ![p] = @ \union {o}]
    <3>1. \A q \in Partitions :
             Settled(q)' = IF q = p THEN Settled(q) \union {o} ELSE Settled(q)
      BY <1>1, <1>3, <2>2 DEF Settled, TypeOK
    <3> QED
      BY <1>1, <1>2, <1>3, <3>1, SettleNext DEF IInv
  <2> QED
    BY <1>4, <2>1, <2>2
<1>7. NoEventLost' /\ StashSettled'
  BY <1>3, <1>5 DEF IInv, NoEventLost, StashSettled
<1>8. InHand'
  <2> SUFFICES ASSUME NEW k \in Members
               PROVE  HandOf(k)'
    BY DEF InHand
  <2>1. CASE k = m
    <3>1. cur'[m] = [part |-> p, off |-> o] /\ cur'[m] \in Message
      BY <1>1, <1>3 DEF TypeOK, Message
    <3>2. pc'[m] = "commit" => o \in Settled(p)'
      BY <1>1, <1>4 DEF TypeOK, Settled
    <3>3. 1..(o - 1) \subseteq Settled(p)'
      BY <1>2, <1>5
    <3> QED
      BY <1>1, <1>3, <2>1, <3>1, <3>2, <3>3 DEF HandOf
  <2>2. CASE k # m
    <3>1. pc'[k] = pc[k] /\ cur'[k] = cur[k]
      BY <1>1, <1>3, <1>4, <2>2 DEF TypeOK
    <3>2. HandOf(k)
      BY DEF IInv, InHand
    <3>3. pc[k] \in {"handle", "commit"} => cur[k].part \in Partitions
      BY <3>2 DEF HandOf, Message
    <3> QED
      BY <1>3, <1>5, <3>1, <3>2, <3>3 DEF HandOf
  <2> QED
    BY <2>1, <2>2
<1>9. ReadSettled'
  <2> SUFFICES ASSUME NEW k \in Members, NEW q \in Partitions
               PROVE  ReadBy(k, q)'
    BY DEF ReadSettled
  <2>1. CASE k = m /\ q = p
    <3>1. pos'[k][q] = o /\ cur'[k] = [part |-> p, off |-> o]
      BY <1>1, <1>3, <2>1 DEF TypeOK
    <3>2. \A x \in 1..o : x \in 1..(o - 1) \/ x = o
      BY <1>1
    <3>3. pc'[m] = "handle" \/ o \in Settled(p)'
      BY <1>1, <1>4 DEF TypeOK, Settled
    <3> QED
      BY <1>2, <1>5, <2>1, <3>1, <3>2, <3>3 DEF ReadBy
  <2>2. CASE ~(k = m /\ q = p)
    <3>1. pos'[k][q] = pos[k][q] /\ owner'[q] = owner[q]
      BY <1>1, <1>3, <2>2 DEF TypeOK
    <3>2. ReadBy(k, q)
      BY DEF IInv, ReadSettled
    <3>3. k # m => pc'[k] = pc[k] /\ cur'[k] = cur[k]
      BY <1>1, <1>3, <1>4 DEF TypeOK
    <3> QED
      BY <1>3, <1>5, <3>1, <3>2, <3>3 DEF ReadBy
  <2> QED
    BY <2>1, <2>2
<1> QED
  BY <1>6, <1>7, <1>8, <1>9

\* The end of the retry loop, on either side, settles the message in hand.
LEMMA HandlerIInv ==
  ASSUME IInv, NEW m \in Members, HandlerSucceeds(m) \/ HandlerFails(m)
  PROVE  /\ SettledInOrder' /\ SettledInLog' /\ NoEventLost'
         /\ StashSettled' /\ InHand' /\ ReadSettled'
<1> USE DEF broker, process, history, bounds
<1>1. TypeOK /\ pc[m] = "handle" /\ HandOf(m) /\ cur[m] \in Message
  BY DEF IInv, InHand, HandOf, HandlerSucceeds, HandlerFails
<1>0. PICK p \in Partitions, o \in 1..MaxLen : cur[m] = [part |-> p, off |-> o]
  BY <1>1 DEF Message
<1>2. o <= Len(log[p]) /\ 1..(o - 1) \subseteq Settled(p)
  BY <1>0, <1>1 DEF HandOf
<1>3. /\ log' = log /\ committed' = committed /\ owner' = owner
      /\ stash' = stash /\ pos' = pos /\ cur' = cur
  BY DEF HandlerSucceeds, HandlerFails
<1>4. \/ pc' = pc /\ handled' = handled /\ skipped' = skipped
      \/ /\ pc' = [pc EXCEPT ![m] = "commit"]
         /\ \/ /\ handled' = [handled EXCEPT ![p] = @ \union {o}]
               /\ skipped' = skipped
            \/ /\ skipped' = [skipped EXCEPT ![p] = @ \union {o}]
               /\ handled' = handled
  BY <1>0 DEF HandlerSucceeds, HandlerFails
<1>5. CASE pc' = pc /\ handled' = handled /\ skipped' = skipped
  <2>1. SettledInOrder' /\ SettledInLog'
    BY <1>3, <1>5, SettledUnchanged
  <2>2. NoEventLost' /\ StashSettled' /\ InHand' /\ ReadSettled'
    BY <1>3, <1>5 DEF IInv, NoEventLost, StashSettled, InHand, ReadSettled,
                      HandOf, ReadBy, Settled
  <2> QED
    BY <2>1, <2>2
<1>6. CASE /\ pc' = [pc EXCEPT ![m] = "commit"]
           /\ \/ /\ handled' = [handled EXCEPT ![p] = @ \union {o}]
                 /\ skipped' = skipped
              \/ /\ skipped' = [skipped EXCEPT ![p] = @ \union {o}]
                 /\ handled' = handled
  <2>1. \A q \in Partitions :
           Settled(q)' = IF q = p THEN Settled(q) \union {o} ELSE Settled(q)
    <3>1. CASE handled' = [handled EXCEPT ![p] = @ \union {o}] /\ skipped' = skipped
      BY <1>1, <1>2, <3>1 DEF Settled, TypeOK
    <3>2. CASE skipped' = [skipped EXCEPT ![p] = @ \union {o}] /\ handled' = handled
      BY <1>1, <1>2, <3>2 DEF Settled, TypeOK
    <3> QED
      BY <1>6, <3>1, <3>2
  <2>2. SettledInOrder' /\ SettledInLog'
    BY <1>1, <1>2, <1>3, <2>1, SettleNext DEF IInv
  <2>3. \A q \in Partitions : Settled(q) \subseteq Settled(q)'
    BY <2>1
  <2>4. NoEventLost' /\ StashSettled'
    BY <1>3, <2>3 DEF IInv, NoEventLost, StashSettled
  <2>5. ASSUME NEW k \in Members
        PROVE  HandOf(k)'
    <3>1. CASE k = m
      <4>1. Settled(p)' = Settled(p) \union {o}
        BY <1>2, <2>1
      <4>2. o \in Settled(p)' /\ 1..(o - 1) \subseteq Settled(p)'
        BY <1>2, <4>1
      <4> QED
        BY <1>0, <1>1, <1>2, <1>3, <1>6, <3>1, <4>2 DEF HandOf
    <3>2. CASE k # m
      <4>1. pc'[k] = pc[k] /\ HandOf(k)
        BY <1>1, <1>6, <3>2 DEF TypeOK, IInv, InHand
      <4>2. pc[k] \in {"handle", "commit"} => cur[k].part \in Partitions
        BY <4>1 DEF HandOf, Message
      <4> QED
        BY <1>3, <2>3, <4>1, <4>2 DEF HandOf
    <3> QED
      BY <3>1, <3>2
  <2>6. ASSUME NEW k \in Members, NEW q \in Partitions
        PROVE  ReadBy(k, q)'
    <3>1. ReadBy(k, q)
      BY DEF IInv, ReadSettled
    <3>2. k # m => pc'[k] = pc[k]
      BY <1>1, <1>6 DEF TypeOK
    <3>3. \A x : cur[m] = [part |-> q, off |-> x] => x \in Settled(q)'
      BY <1>0, <2>1
    <3> QED
      BY <1>3, <2>3, <3>1, <3>2, <3>3 DEF ReadBy
  <2> QED
    BY <2>2, <2>4, <2>5, <2>6 DEF InHand, ReadSettled
<1> QED
  BY <1>4, <1>5, <1>6

\* CommitMessages accepts only the offset of a settled message.
LEMMA CommitIInv ==
  ASSUME IInv, NEW m \in Members, Commit(m)
  PROVE  /\ NoEventLost' /\ StashSettled' /\ InHand' /\ ReadSettled'
         /\ UNCHANGED <<log, handled, skipped>>
<1> DEFINE p == cur[m].part
           o == cur[m].off
<1> USE DEF broker, process, history, bounds
<1>1. TypeOK /\ pc[m] = "commit" /\ HandOf(m) /\ cur[m] \in Message
  BY DEF IInv, InHand, HandOf, Commit
<1>2. p \in Partitions /\ o \in 1..MaxLen /\ 1..o \subseteq Settled(p)
  <2>1. p \in Partitions /\ o \in 1..MaxLen /\ o \in Settled(p)
    BY <1>1 DEF HandOf, Message
  <2> QED
    BY <2>1 DEF IInv, SettledInOrder
<1>3. /\ log' = log /\ committed' = committed /\ owner' = owner /\ pos' = pos
      /\ handled' = handled /\ skipped' = skipped
      /\ pc' = [pc EXCEPT ![m] = "check"]
      /\ cur' = [cur EXCEPT ![m] = NoMsg]
  BY DEF Commit
<1>4. \/ stash' = stash
      \/ stash' = [stash EXCEPT ![m][p] = Later(@, o)]
  BY DEF Commit
<1> HIDE DEF p, o
<1>5. \A q \in Partitions : Settled(q)' = Settled(q)
  BY <1>3 DEF Settled
<1>6. NoEventLost'
  BY <1>3, <1>5 DEF IInv, NoEventLost
<1>7. StashSettled'
  <2>1. CASE stash' = stash
    BY <1>5, <2>1 DEF IInv, StashSettled
  <2>2. CASE stash' = [stash EXCEPT ![m][p] = Later(@, o)]
    <3>1. 1..Later(stash[m][p], o) \subseteq Settled(p)
      BY <1>2 DEF Later, IInv, StashSettled
    <3>2. \A k \in Members : \A q \in Partitions :
             stash'[k][q] = IF k = m /\ q = p THEN Later(stash[m][p], o)
                                              ELSE stash[k][q]
      BY <1>1, <1>2, <2>2 DEF TypeOK
    <3> QED
      BY <1>5, <3>1, <3>2 DEF IInv, StashSettled
  <2> QED
    BY <1>4, <2>1, <2>2
<1>8. \A k \in Members : k # m => pc'[k] = pc[k] /\ cur'[k] = cur[k]
  BY <1>1, <1>3 DEF TypeOK
<1>9. pc'[m] = "check"
  BY <1>1, <1>3 DEF TypeOK
<1>10. InHand'
  BY <1>3, <1>5, <1>8, <1>9 DEF IInv, InHand, HandOf, Settled
<1>11. ReadSettled'
  <2> SUFFICES ASSUME NEW k \in Members, NEW q \in Partitions
               PROVE  ReadBy(k, q)'
    BY DEF ReadSettled
  <2>1. ReadBy(k, q)
    BY DEF IInv, ReadSettled
  <2> QED
    BY <1>1, <1>3, <1>5, <1>8, <2>1 DEF ReadBy
<1> QED
  BY <1>3, <1>6, <1>7, <1>10, <1>11

\* The broker's actions, start, shutdown and crash move offsets that are
\* settled already.
LEMMA ControlIInv ==
  ASSUME IInv, NEW m \in Members, NEW p \in Partitions,
         \/ Assign(p, m) \/ Revoke(p) \/ Flush(m) \/ Start(m)
         \/ CheckContext(m) \/ FetchCancelled(m)
         \/ Terminate(m) \/ Close(m) \/ Exit(m) \/ Crash(m)
  PROVE  /\ NoEventLost' /\ StashSettled' /\ InHand' /\ ReadSettled'
         /\ UNCHANGED <<log, handled, skipped>>
<1> USE DEF broker, process, history, bounds
<1>1. TypeOK /\ Nobody \notin Members
  BY GroupAssumption DEF IInv
<1>2. UNCHANGED <<log, handled, skipped>>
  BY DEF Assign, Revoke, Flush, Start, CheckContext, FetchCancelled, Terminate,
         Close, Exit, Crash
<1>3. \A q \in Partitions : Settled(q)' = Settled(q)
  BY <1>2 DEF Settled
<1>4. committed' = committed \/ committed' = Sent(m)
  BY DEF Assign, Revoke, Flush, Start, CheckContext, FetchCancelled, Terminate,
         Close, Exit, Crash
<1>5. NoEventLost'
  <2>1. \A q \in Partitions : 1..Sent(m)[q] \subseteq Settled(q)
    BY DEF Sent, IInv, StashSettled, NoEventLost
  <2> QED
    BY <1>3, <1>4, <2>1 DEF IInv, NoEventLost
<1>6. stash' = stash \/ stash' = [stash EXCEPT ![m] = [q \in Partitions |-> 0]]
  BY DEF Assign, Revoke, Flush, Start, CheckContext, FetchCancelled, Terminate,
         Close, Exit, Crash
<1>7. StashSettled'
  <2>1. \A k \in Members : \A q \in Partitions :
           stash'[k][q] = stash[k][q] \/ stash'[k][q] = 0
    <3>1. CASE stash' = stash
      BY <3>1
    <3>2. CASE stash' = [stash EXCEPT ![m] = [q \in Partitions |-> 0]]
      BY <1>1, <3>2 DEF TypeOK
    <3> QED
      BY <1>6, <3>1, <3>2
  <2> QED
    BY <1>3, <2>1 DEF IInv, StashSettled
<1>8. ASSUME NEW k \in Members
      PROVE  \/ pc'[k] = pc[k] /\ cur'[k] = cur[k]
             \/ pc[k] \notin {"handle", "commit"} /\ pc'[k] \notin {"handle", "commit"}
             \/ pc'[k] = "returned" /\ owner' = Released(k)
  <2>1. CASE UNCHANGED <<pc, cur>>
    BY <2>1
  <2>2. CASE Start(m) \/ CheckContext(m) \/ FetchCancelled(m)
    <3>1. pc[m] \notin {"handle", "commit"}
      BY <2>2 DEF Start, CheckContext, FetchCancelled, IInv, DownReturned
    <3> QED
      BY <1>1, <2>2, <3>1 DEF Start, CheckContext, FetchCancelled, TypeOK
  <2>3. CASE Crash(m)
    BY <1>1, <2>3 DEF Crash, TypeOK
  <2> QED
    BY <2>1, <2>2, <2>3 DEF Assign, Revoke, Flush, Terminate, Close, Exit
<1>9. InHand'
  <2> SUFFICES ASSUME NEW k \in Members
               PROVE  HandOf(k)'
    BY DEF InHand
  <2>1. HandOf(k)
    BY DEF IInv, InHand
  <2>2. pc[k] \in {"handle", "commit"} => cur[k].part \in Partitions
    BY <2>1 DEF HandOf, Message
  <2> QED
    BY <1>2, <1>3, <1>8, <2>1, <2>2 DEF HandOf
<1>10. ASSUME NEW k \in Members, NEW q \in Partitions, owner'[q] = k
       PROVE  \/ owner[q] = k /\ pos'[k][q] = pos[k][q]
              \/ pos'[k][q] = committed[q]
  <2>1. CASE Assign(p, m)
    BY <1>1, <1>10, <2>1 DEF Assign, TypeOK
  <2>2. CASE Revoke(p)
    BY <1>1, <1>10, <2>2 DEF Revoke, TypeOK
  <2>3. CASE Close(m) \/ Crash(m)
    BY <1>1, <1>10, <2>3 DEF Close, Crash, Released
  <2>4. CASE UNCHANGED <<owner, pos>>
    BY <1>10, <2>4
  <2> QED
    BY <2>1, <2>2, <2>3, <2>4
    DEF Flush, Start, CheckContext, FetchCancelled, Terminate, Exit
<1>11. ReadSettled'
  <2> SUFFICES ASSUME NEW k \in Members, NEW q \in Partitions, owner'[q] = k
               PROVE  ReadBy(k, q)'
    BY DEF ReadSettled, ReadBy
  <2>1. CASE pos'[k][q] = committed[q]
    BY <1>3, <2>1 DEF IInv, NoEventLost, ReadBy
  <2>2. CASE owner[q] = k /\ pos'[k][q] = pos[k][q]
    <3>1. ReadBy(k, q)
      BY DEF IInv, ReadSettled
    <3>2. ~(owner' = Released(k))
      BY <1>1 DEF Released
    <3> QED
      BY <1>3, <1>8, <2>2, <3>1, <3>2 DEF ReadBy
  <2> QED
    BY <1>10, <2>1, <2>2
<1> QED
  BY <1>2, <1>5, <1>7, <1>9, <1>11

\* Only Start leaves "down", and a process goes down after it left Consume.
LEMMA NextDownReturned == IInv /\ [Next]_vars => DownReturned'
<1> SUFFICES ASSUME IInv, [Next]_vars, NEW k \in Members
             PROVE  (life[k] = "down" => pc[k] = "returned")'
  BY DEF DownReturned
<1>1. TypeOK /\ (life[k] = "down" => pc[k] = "returned")
  BY DEF IInv, DownReturned
<1> USE DEF broker, process, history, bounds, TypeOK
<1>2. ASSUME NEW p \in Partitions, NEW m \in Members, Fetch(m, p)
      PROVE  life'[k] = "down" => pc'[k] = "returned"
  BY <1>1, <1>2 DEF Fetch
<1>3. ASSUME NEW m \in Members,
             HandlerSucceeds(m) \/ HandlerFails(m) \/ Commit(m) \/ CheckContext(m)
             \/ FetchCancelled(m)
      PROVE  life'[k] = "down" => pc'[k] = "returned"
  BY <1>1, <1>3
  DEF HandlerSucceeds, HandlerFails, Commit, CheckContext, FetchCancelled
<1>4. ASSUME NEW m \in Members,
             Start(m) \/ Terminate(m) \/ Close(m) \/ Exit(m) \/ Crash(m)
      PROVE  life'[k] = "down" => pc'[k] = "returned"
  BY <1>1, <1>4 DEF Start, Terminate, Close, Exit, Crash
<1>5. CASE UNCHANGED <<life, pc>>
  BY <1>1, <1>5
<1> QED
  BY <1>2, <1>3, <1>4, <1>5
  DEF Next, Consume, Publish, Revoke, Assign, Flush, vars

LEMMA NextIInv == IInv /\ [Next]_vars => IInv'
<1> SUFFICES ASSUME IInv, [Next]_vars
             PROVE  IInv'
  OBVIOUS
<1>1. TypeOK' /\ DownReturned'
  BY NextTypeOK, NextDownReturned DEF IInv
<1>2. ASSUME NEW p \in Partitions, NEW kind \in {"event", "garbage"},
             Publish(p, kind)
      PROVE  IInv'
  <2>1. UNCHANGED <<committed, owner, process, history>>
    BY <1>2 DEF Publish
  <2>2. \A q \in Partitions : Len(log'[q]) >= Len(log[q])
    BY <1>2 DEF Publish, IInv, TypeOK
  <2>3. SettledInLog'
    <3> SUFFICES ASSUME NEW q \in Partitions, NEW x \in Settled(q)
                 PROVE  x <= Len(log'[q])
      BY <2>1 DEF SettledInLog, Settled, history
    <3>1. x \in Nat /\ Len(log[q]) \in Nat /\ Len(log'[q]) \in Nat
      BY <1>1, BoundsAssumption DEF IInv, TypeOK, Settled
    <3> QED
      BY <2>2, <3>1 DEF IInv, SettledInLog
  <2>4. InHand'
    <3> SUFFICES ASSUME NEW k \in Members
                 PROVE  HandOf(k)'
      BY DEF InHand
    <3>1. HandOf(k)
      BY DEF IInv, InHand
    <3>2. pc[k] \in {"handle", "commit"} =>
             cur[k].part \in Partitions /\ cur[k].off \in Nat
      BY <3>1, BoundsAssumption DEF HandOf, Message
    <3>3. \A q \in Partitions : Len(log[q]) \in Nat /\ Len(log'[q]) \in Nat
      <4>1. \A q \in Partitions : /\ log[q] \in Seq({"event", "garbage"})
                                 /\ log'[q] \in Seq({"event", "garbage"})
        BY <1>1 DEF IInv, TypeOK
      <4> QED
        BY <4>1
    <3> QED
      BY <2>1, <2>2, <3>1, <3>2, <3>3 DEF HandOf, Settled, process, history
  <2> QED
    BY <1>1, <2>1, <2>3, <2>4
    DEF IInv, SettledInOrder, NoEventLost, StashSettled, ReadSettled, ReadBy,
        Settled, process, history
<1>3. ASSUME NEW m \in Members, NEW p \in Partitions, Fetch(m, p)
      PROVE  IInv'
  BY <1>1, <1>3, FetchIInv DEF IInv
<1>4. ASSUME NEW m \in Members, HandlerSucceeds(m) \/ HandlerFails(m)
      PROVE  IInv'
  BY <1>1, <1>4, HandlerIInv DEF IInv
<1>5. ASSUME NEW m \in Members, Commit(m)
      PROVE  IInv'
  BY <1>1, <1>5, CommitIInv, SettledUnchanged DEF IInv
<1>6. ASSUME NEW m \in Members, NEW p \in Partitions,
             \/ Assign(p, m) \/ Revoke(p) \/ Flush(m) \/ Start(m)
             \/ CheckContext(m) \/ FetchCancelled(m)
             \/ Terminate(m) \/ Close(m) \/ Exit(m) \/ Crash(m)
      PROVE  IInv'
  BY <1>1, <1>6, ControlIInv, SettledUnchanged DEF IInv
<1>7. CASE UNCHANGED vars
  BY <1>1, <1>7
  DEF vars, IInv, SettledInOrder, SettledInLog, NoEventLost, StashSettled,
      InHand, HandOf, ReadSettled, ReadBy, Settled
<1> QED
  BY <1>2, <1>3, <1>4, <1>5, <1>6, <1>7, GroupAssumption DEF Next, Consume

-----------------------------------------------------------------------------
THEOREM Invariance == Spec => []IInv
BY InitIInv, NextIInv, PTL DEF Spec

\* At-least-once delivery: no message is committed that was neither handled
\* nor given up, however often members crash, terminate or lose partitions.
THEOREM AtLeastOnce == Spec => []NoEventLost
<1>1. IInv => NoEventLost
  BY DEF IInv
<1> QED
  BY <1>1, Invariance, PTL

\* Each partition is settled in log order, whichever members processed it.
THEOREM InOrder == Spec => []SettledInOrder
<1>1. IInv => SettledInOrder
  BY DEF IInv
<1> QED
  BY <1>1, Invariance, PTL

-----------------------------------------------------------------------------
(* KafkaConsumer implements EventDelivery. *)

LEMMA DeliveryInit == Init => Delivery!Init
BY DEF Init, Delivery!Init, Settled

\* A step that leaves the log and the settled sets alone acknowledges, or does
\* nothing EventDelivery sees.
LEMMA DeliveryAck ==
  ASSUME IInv, IInv', UNCHANGED <<log, handled, skipped>>
  PROVE  Delivery!Ack
<1>1. \A p \in Partitions : Settled(p)' = Settled(p)
  BY DEF Settled
<1>2. committed' \in [Partitions -> 0..MaxLen]
  BY DEF IInv, TypeOK
<1>3. \A p \in Partitions : 1..committed'[p] \subseteq Settled(p)
  BY <1>1 DEF IInv, NoEventLost
<1> QED
  BY <1>1, <1>2, <1>3 DEF Delivery!Ack

\* A step that settles the next offset of one partition is a Settle.
LEMMA DeliverySettle ==
  ASSUME NEW q \in Partitions, NEW o \in 1..MaxLen,
         UNCHANGED <<log, committed>>, TypeOK,
         o <= Len(log[q]), 1..(o - 1) \subseteq Settled(q),
         \A p \in Partitions :
            Settled(p)' = IF p = q THEN Settled(p) \union {o} ELSE Settled(p)
  PROVE  Delivery!Next
<1>1. o \in 1..Len(log[q])
  <2>1. log[q] \in Seq({"event", "garbage"}) /\ o \in Nat /\ o >= 1
    BY BoundsAssumption DEF TypeOK
  <2> QED
    BY <2>1
<1>2. Delivery!Settle(q, o)
  BY <1>1 DEF Delivery!Settle
<1> QED
  BY <1>2 DEF Delivery!Next

LEMMA DeliveryFetch ==
  ASSUME IInv, IInv', NEW m \in Members, NEW p \in Partitions, Fetch(m, p)
  PROVE  Delivery!Next
<1> DEFINE o == pos[m][p] + 1
<1>1. TypeOK /\ o \in 1..MaxLen /\ o <= Len(log[p]) /\ o - 1 = pos[m][p]
  <2>1. o <= Len(log[p])
    BY DEF Fetch
  <2>2. TypeOK /\ pos[m][p] \in 0..MaxLen /\ Len(log[p]) <= MaxLen
    BY DEF IInv, TypeOK
  <2>3. Len(log[p]) \in Nat
    <3>1. log[p] \in Seq({"event", "garbage"})
      BY <2>2 DEF TypeOK
    <3> QED
      BY <3>1
  <2> QED
    BY <2>1, <2>2, <2>3, BoundsAssumption
<1>2. 1..(o - 1) \subseteq Settled(p)
  BY <1>1 DEF IInv, ReadSettled, ReadBy, Fetch
<1>3. UNCHANGED <<log, committed, handled>>
  BY DEF Fetch, broker, process, history, bounds
<1>4. \/ skipped' = skipped
      \/ skipped' = [skipped EXCEPT ![p] = @ \union {o}]
  BY DEF Fetch, broker, process, history, bounds
<1> HIDE DEF o
<1>5. CASE skipped' = skipped
  BY <1>3, <1>5, DeliveryAck DEF Delivery!Next
<1>6. CASE skipped' = [skipped EXCEPT ![p] = @ \union {o}]
  <2>1. \A q \in Partitions :
           Settled(q)' = IF q = p THEN Settled(q) \union {o} ELSE Settled(q)
    BY <1>1, <1>3, <1>6 DEF Settled, TypeOK
  <2> QED
    BY <1>1, <1>2, <1>3, <2>1, DeliverySettle
<1> QED
  BY <1>4, <1>5, <1>6

LEMMA DeliveryHandler ==
  ASSUME IInv, IInv', NEW m \in Members, HandlerSucceeds(m) \/ HandlerFails(m)
  PROVE  Delivery!Next
<1> USE DEF broker, process, history, bounds
<1>1. TypeOK /\ HandOf(m) /\ pc[m] = "handle" /\ cur[m] \in Message
  BY DEF IInv, InHand, HandOf, HandlerSucceeds, HandlerFails
<1>2. PICK p \in Partitions, o \in 1..MaxLen : cur[m] = [part |-> p, off |-> o]
  BY <1>1 DEF Message
<1>3. o <= Len(log[p]) /\ 1..(o - 1) \subseteq Settled(p)
  BY <1>1, <1>2 DEF HandOf
<1>4. UNCHANGED <<log, committed>>
  BY DEF HandlerSucceeds, HandlerFails
<1>5. \/ handled' = handled /\ skipped' = skipped
      \/ handled' = [handled EXCEPT ![p] = @ \union {o}] /\ skipped' = skipped
      \/ skipped' = [skipped EXCEPT ![p] = @ \union {o}] /\ handled' = handled
  BY <1>2 DEF HandlerSucceeds, HandlerFails
<1>6. CASE handled' = handled /\ skipped' = skipped
  BY <1>4, <1>6, DeliveryAck DEF Delivery!Next
<1>7. CASE handled' = [handled EXCEPT ![p] = @ \union {o}] /\ skipped' = skipped
  <2>1. \A q \in Partitions :
           Settled(q)' = IF q = p THEN Settled(q) \union {o} ELSE Settled(q)
    BY <1>1, <1>7 DEF Settled, TypeOK
  <2> QED
    BY <1>1, <1>3, <1>4, <2>1, DeliverySettle
<1>8. CASE skipped' = [skipped EXCEPT ![p] = @ \union {o}] /\ handled' = handled
  <2>1. \A q \in Partitions :
           Settled(q)' = IF q = p THEN Settled(q) \union {o} ELSE Settled(q)
    BY <1>1, <1>8 DEF Settled, TypeOK
  <2> QED
    BY <1>1, <1>3, <1>4, <2>1, DeliverySettle
<1> QED
  BY <1>5, <1>6, <1>7, <1>8

LEMMA DeliveryNext == IInv /\ IInv' /\ [Next]_vars => [Delivery!Next]_(Delivery!vars)
<1> SUFFICES ASSUME IInv, IInv', [Next]_vars
             PROVE  [Delivery!Next]_(Delivery!vars)
  OBVIOUS
<1>1. ASSUME NEW p \in Partitions, NEW kind \in {"event", "garbage"},
             Publish(p, kind)
      PROVE  Delivery!Next
  <2>1. UNCHANGED <<committed, handled, skipped>>
    BY <1>1 DEF Publish, history
  <2>2. \A q \in Partitions : log[q] \in Seq({"event", "garbage"})
    BY DEF IInv, TypeOK
  <2>3. Len(log[p]) < MaxLen
    BY <1>1 DEF Publish
  <2>4. \A q \in Partitions :
           Len(log'[q]) = IF q = p THEN Len(log[p]) + 1 ELSE Len(log[q])
    BY <1>1, <2>2 DEF Publish, IInv, TypeOK
  <2>5. Delivery!Publish(p)
    BY <2>1, <2>3, <2>4 DEF Delivery!Publish, Settled
  <2> QED
    BY <2>5 DEF Delivery!Next
<1>2. ASSUME NEW m \in Members, NEW p \in Partitions, Fetch(m, p)
      PROVE  Delivery!Next
  BY <1>2, DeliveryFetch
<1>3. ASSUME NEW m \in Members, HandlerSucceeds(m) \/ HandlerFails(m)
      PROVE  Delivery!Next
  BY <1>3, DeliveryHandler
<1>4. CASE UNCHANGED <<log, handled, skipped>>
  BY <1>4, DeliveryAck DEF Delivery!Next
<1> QED
  BY <1>1, <1>2, <1>3, <1>4
  DEF Next, Consume, Assign, Revoke, Flush, Start, CheckContext, FetchCancelled,
      Commit, Terminate, Close, Exit, Crash, vars, broker, process, history, bounds

\* The consumer loop, with its retries, skipped messages, asynchronous commits
\* and failures, implements in-order at-least-once delivery.
THEOREM Refinement == Spec => ImplementsDelivery
<1>1. Init => Delivery!Init
  BY DeliveryInit
<1>2. IInv /\ IInv' /\ [Next]_vars => [Delivery!Next]_(Delivery!vars)
  BY DeliveryNext
<1> QED
  BY <1>1, <1>2, Invariance, PTL DEF Spec, Delivery!Spec, ImplementsDelivery

-----------------------------------------------------------------------------
(* Without rebalances, a commit never takes the group back.                  *)

Alive(m) == life[m] \in {"running", "cancelled"}
Holds(m, p) == pc[m] \in {"handle", "commit"} /\ cur[m].part = p

\* Only the owner of a partition has commits of it to send and, unless its
\* reader is closed, a message of it in hand: both lie between what the group
\* has committed and what the owner has read.
Hold(m, p) ==
    /\ stash[m][p] > 0 => owner[p] = m /\ committed[p] <= stash[m][p]
    /\ owner[p] = m => committed[p] <= pos[m][p] /\ stash[m][p] <= pos[m][p]
    /\ Alive(m) /\ Holds(m, p) => owner[p] = m /\ cur[m].off = pos[m][p]

Exclusive == rebalances = 0 => \A m \in Members : \A p \in Partitions : Hold(m, p)

\* A rebalance is never undone.
LEMMA RebalancesGrow ==
  ASSUME TypeOK, [Next]_vars, rebalances' = 0
  PROVE  rebalances = 0 /\ \A p \in Partitions : ~Revoke(p)
<1>1. rebalances \in Nat
  BY BoundsAssumption DEF TypeOK
<1>2. \A p \in Partitions : ~Revoke(p)
  BY <1>1 DEF Revoke
<1>3. UNCHANGED rebalances
  BY <1>2 DEF Next, Consume, Publish, Assign, Flush, Start, Terminate, Close, Exit,
         Crash, CheckContext, Fetch, FetchCancelled, HandlerSucceeds, HandlerFails, Commit,
         vars, history, bounds
<1> QED
  BY <1>2, <1>3

LEMMA ExclusiveNext == IInv /\ Exclusive /\ [Next]_vars => Exclusive'
<1> SUFFICES ASSUME IInv, Exclusive, [Next]_vars, rebalances' = 0,
                    NEW k \in Members, NEW q \in Partitions
             PROVE  Hold(k, q)'
  BY DEF Exclusive
<1>1. TypeOK /\ Nobody \notin Members
  BY GroupAssumption DEF IInv
<1>2. rebalances = 0 /\ \A p \in Partitions : ~Revoke(p)
  BY <1>1, RebalancesGrow
<1>3. \A m \in Members : \A p \in Partitions : Hold(m, p)
  BY <1>2 DEF Exclusive
<1>4. /\ stash[k][q] \in Nat /\ pos[k][q] \in Nat /\ committed[q] \in Nat
  BY <1>1 DEF TypeOK
<1> USE DEF broker, process, history, bounds
<1>5. ASSUME NEW p \in Partitions, NEW m \in Members, Assign(p, m)
      PROVE  Hold(k, q)'
  <2>1. /\ owner[p] = Nobody /\ Alive(m)
        /\ UNCHANGED <<committed, life, pc, cur, stash>>
    BY <1>5 DEF Assign, Alive
  <2>2. CASE q # p
    BY <1>1, <1>3, <1>5, <2>1, <2>2 DEF Assign, TypeOK, Hold, Alive, Holds
  <2>3. CASE q = p /\ k # m
    <3>1. owner'[q] = m /\ ~(stash[k][q] > 0) /\ ~(Alive(k) /\ Holds(k, q))
      BY <1>1, <1>3, <1>5, <2>1, <2>3 DEF Assign, TypeOK, Hold
    <3> QED
      BY <2>1, <2>3, <3>1 DEF Hold, Alive, Holds
  <2>4. CASE q = p /\ k = m
    <3>1. owner'[q] = k /\ pos'[k][q] = committed[q]
      BY <1>1, <1>5, <2>4 DEF Assign, TypeOK
    <3>2. ~(stash[k][q] > 0) /\ ~Holds(k, q)
      BY <1>1, <1>3, <2>1, <2>4 DEF Hold
    <3> QED
      BY <1>4, <2>1, <3>1, <3>2 DEF Hold, Alive, Holds
  <2> QED
    BY <2>2, <2>3, <2>4
<1>6. ASSUME NEW m \in Members, Flush(m) \/ Close(m)
      PROVE  Hold(k, q)'
  <2>1. /\ committed' = Sent(m) /\ stash' = [stash EXCEPT ![m] = [p \in Partitions |-> 0]]
        /\ UNCHANGED <<pc, cur, pos>> /\ (Alive(k)' => Alive(k))
    BY <1>1, <1>6 DEF Flush, Close, Alive, TypeOK
  <2>2. /\ committed'[q] = IF stash[m][q] > 0 THEN stash[m][q] ELSE committed[q]
        /\ stash'[k][q] = IF k = m THEN 0 ELSE stash[k][q]
    BY <1>1, <2>1 DEF Sent, TypeOK
  <2>3. stash[m][q] > 0 => owner[q] = m /\ stash[m][q] <= pos[m][q]
    BY <1>3 DEF Hold
  <2>4. owner'[q] = k => owner[q] = k
    BY <1>1, <1>6 DEF Flush, Close, Released
  <2>5. \/ owner' = owner
        \/ owner' = Released(m) /\ ~Alive(m)'
    BY <1>1, <1>6 DEF Flush, Close, Alive, TypeOK
  <2>6. owner[q] = k /\ k # m => owner'[q] = k
    BY <2>5 DEF Released
  <2>7. stash'[k][q] > 0 => owner'[q] = k /\ committed'[q] <= stash'[k][q]
    BY <1>3, <1>4, <2>2, <2>3, <2>6 DEF Hold
  <2>8. owner'[q] = k => committed'[q] <= pos'[k][q] /\ stash'[k][q] <= pos'[k][q]
    BY <1>3, <1>4, <2>1, <2>2, <2>3, <2>4 DEF Hold
  <2>9. Alive(k)' /\ Holds(k, q)' => owner'[q] = k /\ cur'[k].off = pos'[k][q]
    BY <1>3, <2>1, <2>5, <2>6 DEF Hold, Holds
  <2> QED
    BY <2>7, <2>8, <2>9 DEF Hold
<1>7. ASSUME NEW m \in Members, NEW p \in Partitions, Fetch(m, p)
      PROVE  Hold(k, q)'
  <2>1. /\ UNCHANGED <<committed, owner, life, stash>> /\ owner[p] = m
        /\ pos' = [pos EXCEPT ![m][p] = pos[m][p] + 1]
        /\ cur' = [cur EXCEPT ![m] = [part |-> p, off |-> pos[m][p] + 1]]
    BY <1>7 DEF Fetch
  <2>2. CASE k # m
    <3>1. pc'[k] = pc[k] /\ cur'[k] = cur[k] /\ pos'[k][q] = pos[k][q]
      BY <1>1, <1>7, <2>1, <2>2 DEF Fetch, TypeOK
    <3> QED
      BY <1>3, <2>1, <3>1 DEF Hold, Holds, Alive
  <2>3. CASE k = m
    <3>1. /\ cur'[k].part = p /\ cur'[k].off = pos[k][p] + 1
          /\ pos'[k][q] = IF q = p THEN pos[k][q] + 1 ELSE pos[k][q]
      BY <1>1, <2>1, <2>3 DEF TypeOK
    <3> QED
      BY <1>3, <1>4, <2>1, <2>3, <3>1 DEF Hold, Holds
  <2> QED
    BY <2>2, <2>3
<1>8. ASSUME NEW m \in Members, Commit(m)
      PROVE  Hold(k, q)'
  <2> DEFINE p == cur[m].part
             o == cur[m].off
  <2>1. /\ UNCHANGED <<committed, owner, life, pos>> /\ Holds(m, p)
        /\ pc' = [pc EXCEPT ![m] = "check"] /\ cur' = [cur EXCEPT ![m] = NoMsg]
        /\ \/ Alive(m) /\ stash' = [stash EXCEPT ![m][p] = Later(@, o)]
           \/ stash' = stash
    BY <1>8 DEF Commit, Alive, Holds
  <2>2. p \in Partitions /\ o \in Nat
    BY <1>1, <1>8 DEF Commit, TypeOK, Message
  <2> HIDE DEF p, o
  <2>3. Alive(k)' /\ Holds(k, q)' => Alive(k) /\ Holds(k, q) /\ cur'[k] = cur[k]
    BY <1>1, <2>1 DEF TypeOK, Holds, Alive
  <2>4. \/ stash'[k][q] = stash[k][q]
        \/ Alive(m) /\ k = m /\ q = p /\ stash'[k][q] = Later(stash[k][q], o)
    BY <1>1, <2>1, <2>2 DEF TypeOK
  <2>5. CASE stash'[k][q] = stash[k][q]
    BY <1>3, <2>1, <2>3, <2>5 DEF Hold
  <2>6. CASE Alive(m) /\ k = m /\ q = p /\ stash'[k][q] = Later(stash[k][q], o)
    <3>1. owner[q] = k /\ o = pos[k][q]
      BY <1>3, <2>1, <2>6 DEF Hold, o
    <3> QED
      BY <1>3, <1>4, <2>1, <2>3, <2>6, <3>1 DEF Hold, Later
  <2> QED
    BY <2>4, <2>5, <2>6
<1>9. ASSUME NEW m \in Members, Crash(m)
      PROVE  Hold(k, q)'
  <2>1. UNCHANGED <<committed, pos>> /\ owner' = Released(m)
    BY <1>9 DEF Crash
  <2>2. CASE k # m
    <3>1. /\ life'[k] = life[k] /\ pc'[k] = pc[k] /\ cur'[k] = cur[k]
          /\ stash'[k][q] = stash[k][q] /\ (owner'[q] = k <=> owner[q] = k)
      BY <1>1, <1>9, <2>1, <2>2 DEF Crash, TypeOK, Released
    <3> QED
      BY <1>3, <2>1, <3>1 DEF Hold, Holds, Alive
  <2>3. CASE k = m
    <3>1. life'[k] = "down" /\ stash'[k][q] = 0 /\ owner'[q] # k
      BY <1>1, <1>9, <2>1, <2>3 DEF Crash, TypeOK, Released
    <3> QED
      BY <3>1 DEF Hold, Alive
  <2> QED
    BY <2>2, <2>3
<1>10. ASSUME UNCHANGED <<committed, owner, cur, pos, stash>>,
              Alive(k)' /\ Holds(k, q)' => Alive(k) /\ Holds(k, q)
       PROVE  Hold(k, q)'
  BY <1>3, <1>10 DEF Hold
<1>11. ASSUME NEW m \in Members,
              \/ Start(m) \/ CheckContext(m) \/ FetchCancelled(m) \/ HandlerSucceeds(m)
              \/ HandlerFails(m) \/ Terminate(m) \/ Exit(m)
       PROVE  Hold(k, q)'
  <2>1. UNCHANGED <<committed, owner, cur, pos, stash>>
    BY <1>11 DEF Start, CheckContext, FetchCancelled, HandlerSucceeds, HandlerFails,
                 Terminate, Exit
  <2>2. Alive(k)' /\ Holds(k, q)' => Alive(k) /\ Holds(k, q)
    BY <1>1, <1>11 DEF Start, CheckContext, FetchCancelled, HandlerSucceeds, HandlerFails,
                       Terminate, Exit, Alive, Holds, TypeOK
  <2> QED
    BY <1>10, <2>1, <2>2
<1>12. ASSUME NEW p \in Partitions, NEW kind \in {"event", "garbage"}, Publish(p, kind)
       PROVE  Hold(k, q)'
  BY <1>10, <1>12 DEF Publish, Alive, Holds
<1>13. CASE UNCHANGED vars
  BY <1>10, <1>13 DEF vars, Alive, Holds
<1> QED
  BY <1>2, <1>5, <1>6, <1>7, <1>8, <1>9, <1>11, <1>12, <1>13 DEF Next, Consume

LEMMA AdvanceNext ==
  ASSUME IInv, Exclusive, [Next]_vars, rebalances = 0
  PROVE  \A p \in Partitions : committed'[p] >= committed[p]
<1> SUFFICES ASSUME NEW p \in Partitions
             PROVE  committed'[p] >= committed[p]
  OBVIOUS
<1>1. committed[p] \in Nat
  BY DEF IInv, TypeOK
<1>2. ASSUME NEW m \in Members, committed' = Sent(m)
      PROVE  committed'[p] >= committed[p]
  <2>1. stash[m][p] \in Nat /\ Hold(m, p)
    BY DEF Exclusive, IInv, TypeOK
  <2> QED
    BY <1>1, <1>2, <2>1 DEF Sent, Hold
<1>3. UNCHANGED committed \/ \E m \in Members : committed' = Sent(m)
  BY DEF Next, Consume, Publish, Revoke, Assign, Flush, Start, Terminate, Close, Exit,
         Crash, CheckContext, Fetch, FetchCancelled, HandlerSucceeds, HandlerFails, Commit,
         vars, broker
<1> QED
  BY <1>1, <1>2, <1>3

\* As long as no partition is taken from a live member, whatever crashes and
\* terminations there are, no commit undoes another: Flush and Close only send
\* offsets of partitions the member still owns.
THEOREM Advance == Spec => CommitsOnlyAdvance
<1>1. Init => Exclusive
  BY DEF Init, Exclusive, Hold, Alive
<1>2. IInv /\ Exclusive /\ [Next]_vars
        => [rebalances = 0 => \A p \in Partitions : committed'[p] >= committed[p]]_vars
  BY AdvanceNext
<1> QED
  BY <1>1, <1>2, ExclusiveNext, Invariance, PTL DEF Spec, CommitsOnlyAdvance
=============================================================================
