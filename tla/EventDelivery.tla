--------------------------- MODULE EventDelivery ---------------------------
(***************************************************************************)
(* What a GoShield consumer group promises the services that publish to a  *)
(* topic, without saying how Consumer.Consume (pkg/events/kafka.go) gets   *)
(* there: every event of a partition is settled in log order (its handler  *)
(* returned nil, or the event was skipped), possibly more than once, and   *)
(* the group's acknowledged prefix never covers an event that has not been *)
(* settled.  The prefix may shrink: a member that lost a partition can     *)
(* still acknowledge an old offset.  KafkaConsumer implements it.          *)
(***************************************************************************)
EXTENDS Naturals

CONSTANTS Partitions,  \* the partitions of the topic
          MaxLen       \* bound: events produced to one partition

VARIABLES size,     \* size[p]: number of events in partition p
          settled,  \* settled[p]: offsets (from 1) handled or skipped so far
          acked     \* acked[p]: length of the acknowledged prefix of p

vars == <<size, settled, acked>>

Init ==
    /\ size = [p \in Partitions |-> 0]
    /\ settled = [p \in Partitions |-> {}]
    /\ acked = [p \in Partitions |-> 0]

Publish(p) ==
    /\ size[p] < MaxLen
    /\ size' = [size EXCEPT ![p] = @ + 1]
    /\ UNCHANGED <<settled, acked>>

\* An event is settled only once everything before it in its partition is.
Settle(p, o) ==
    /\ o \in 1..size[p]
    /\ 1..(o - 1) \subseteq settled[p]
    /\ settled' = [settled EXCEPT ![p] = @ \union {o}]
    /\ UNCHANGED <<size, acked>>

\* One commit request may move the prefixes of several partitions.
Ack ==
    /\ acked' \in [Partitions -> 0..MaxLen]
    /\ \A p \in Partitions : 1..acked'[p] \subseteq settled[p]
    /\ UNCHANGED <<size, settled>>

Next ==
    \/ \E p \in Partitions : Publish(p) \/ \E o \in 1..MaxLen : Settle(p, o)
    \/ Ack

Spec == Init /\ [][Next]_vars
=============================================================================
