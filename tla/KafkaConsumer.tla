--------------------------- MODULE KafkaConsumer ---------------------------
(***************************************************************************)
(* The Kafka consumer of pkg/events/kafka.go, the loop every GoShield      *)
(* worker runs on: Consumer.Consume fetches one message, decodes it, calls *)
(* the handler up to maxRetries times, skips the message when every        *)
(* attempt failed, and commits its offset.  Commits are asynchronous       *)
(* (CommitInterval: one second): CommitMessages only hands the offset to   *)
(* the reader, which sends it to the broker later.  The services run two   *)
(* replicas of each consumer in one group, so members crash, are           *)
(* terminated by a SIGTERM (which cancels the context Consume runs under   *)
(* and closes the reader) and lose partitions in a rebalance, all while a  *)
(* message is being processed.                                             *)
(*                                                                         *)
(* The broker and kafka-go are not in the repository; they are modelled    *)
(* from how kafka.go uses them (owner, Assign, Revoke, Flush).  Offsets    *)
(* count from 1; an offset stored as n stands for "1..n are done".         *)
(***************************************************************************)
EXTENDS Naturals, Sequences

CONSTANTS Members,        \* consumer processes of the group (replicas)
          Partitions,     \* partitions of the topic
          MaxRetries,     \* Consumer.maxRetries
          MaxLen,         \* bound: messages produced to one partition
          MaxFailures,    \* bound: crashes + terminations
          MaxRebalances,  \* bound: partitions taken from a live member
          Nobody,         \* owner of a partition nobody consumes
          NoMsg           \* value of cur when no message is in hand

ASSUME GroupAssumption ==
    /\ Members # {}
    /\ Partitions # {}
    /\ Nobody \notin Members
    /\ NoMsg \notin [part : Partitions, off : 1..MaxLen]

ASSUME BoundsAssumption ==
    /\ MaxRetries \in Nat \ {0}
    /\ MaxLen \in Nat
    /\ MaxFailures \in Nat
    /\ MaxRebalances \in Nat

VARIABLES
    \* the broker
    log,        \* log[p]: sequence of "event" or "garbage" (undecodable) messages
    committed,  \* committed[p]: the group's committed prefix of p
    owner,      \* owner[p]: the member p is assigned to, or Nobody
    \* one consumer process
    life,       \* "down", "running", "cancelled" (ctx done) or "closed" (reader closed)
    pc,         \* where Consume is: "check", "fetch", "handle", "commit", "returned"
    cur,        \* the message Consume holds
    attempt,    \* failed handler calls for cur
    pos,        \* pos[m][p]: last offset of p the reader has returned
    stash,      \* stash[m][p]: highest offset accepted by CommitMessages, not sent yet
    \* history
    handled,    \* handled[p]: offsets some handler call returned nil for
    skipped,    \* skipped[p]: offsets given up (undecodable or out of attempts)
    failures, rebalances

broker == <<log, committed, owner>>
process == <<life, pc, cur, attempt, pos, stash>>
bounds == <<failures, rebalances>>
history == <<handled, skipped, bounds>>
vars == <<log, committed, owner, life, pc, cur, attempt, pos, stash,
          handled, skipped, failures, rebalances>>

Message == [part : Partitions, off : 1..MaxLen]
Settled(p) == handled[p] \union skipped[p]
Later(a, b) == IF a < b THEN b ELSE a

TypeOK ==
    /\ log \in [Partitions -> Seq({"event", "garbage"})]
    /\ \A p \in Partitions : Len(log[p]) <= MaxLen
    /\ committed \in [Partitions -> 0..MaxLen]
    /\ owner \in [Partitions -> Members \union {Nobody}]
    /\ life \in [Members -> {"down", "running", "cancelled", "closed"}]
    /\ pc \in [Members -> {"check", "fetch", "handle", "commit", "returned"}]
    /\ cur \in [Members -> Message \union {NoMsg}]
    /\ \A m \in Members : pc[m] \in {"handle", "commit"} => cur[m] \in Message
    /\ attempt \in [Members -> 0..(MaxRetries - 1)]
    /\ pos \in [Members -> [Partitions -> 0..MaxLen]]
    /\ stash \in [Members -> [Partitions -> 0..MaxLen]]
    /\ handled \in [Partitions -> SUBSET (1..MaxLen)]
    /\ skipped \in [Partitions -> SUBSET (1..MaxLen)]
    /\ failures \in 0..MaxFailures
    /\ rebalances \in 0..MaxRebalances

Init ==
    /\ log = [p \in Partitions |-> <<>>]
    /\ committed = [p \in Partitions |-> 0]
    /\ owner = [p \in Partitions |-> Nobody]
    /\ life = [m \in Members |-> "down"]
    /\ pc = [m \in Members |-> "returned"]
    /\ cur = [m \in Members |-> NoMsg]
    /\ attempt = [m \in Members |-> 0]
    /\ pos = [m \in Members |-> [p \in Partitions |-> 0]]
    /\ stash = [m \in Members |-> [p \in Partitions |-> 0]]
    /\ handled = [p \in Partitions |-> {}]
    /\ skipped = [p \in Partitions |-> {}]
    /\ failures = 0
    /\ rebalances = 0

-----------------------------------------------------------------------------
(* The broker and the group coordinator. *)

Publish(p, kind) ==
    /\ Len(log[p]) < MaxLen
    /\ log' = [log EXCEPT ![p] = Append(@, kind)]
    /\ UNCHANGED <<committed, owner, process, history>>

\* Mutants of Assign: a group without a committed offset starts at the end of
\* the log; the reader starts over at the first offset every time.
AssignFromLast(p, m) ==
    /\ owner[p] = Nobody
    /\ life[m] = "running"
    /\ owner' = [owner EXCEPT ![p] = m]
    /\ pos' = [pos EXCEPT ![m][p] = IF committed[p] = 0 THEN Len(log[p]) ELSE committed[p]]
    /\ UNCHANGED <<log, committed, life, pc, cur, attempt, stash, history>>

AssignFromFirst(p, m) ==
    /\ owner[p] = Nobody
    /\ life[m] = "running"
    /\ owner' = [owner EXCEPT ![p] = m]
    /\ pos' = [pos EXCEPT ![m][p] = 0]
    /\ UNCHANGED <<log, committed, life, pc, cur, attempt, stash, history>>

\* A rebalance gives p to a member; its reader starts at the committed offset
\* (at the first one when the group has committed nothing).
Assign(p, m) ==
    /\ owner[p] = Nobody
    /\ life[m] = "running"
    /\ owner' = [owner EXCEPT ![p] = m]
    /\ pos' = [pos EXCEPT ![m][p] = committed[p]]
    /\ UNCHANGED <<log, committed, life, pc, cur, attempt, stash, history>>

\* A rebalance takes p away, whatever its owner is doing with a message of p.
Revoke(p) ==
    /\ owner[p] # Nobody
    /\ rebalances < MaxRebalances
    /\ owner' = [owner EXCEPT ![p] = Nobody]
    /\ rebalances' = rebalances + 1
    /\ UNCHANGED <<log, committed, process, handled, skipped, failures>>

\* What the broker stores when m's pending commits reach it.  Offsets of
\* partitions m has lost since are accepted too: a prefix can shrink.
Sent(m) == [p \in Partitions |->
              IF stash[m][p] > 0 THEN stash[m][p] ELSE committed[p]]

\* The reader's commit loop sends what CommitMessages accepted.
Flush(m) ==
    /\ life[m] \in {"running", "cancelled"}
    /\ \E p \in Partitions : stash[m][p] > 0
    /\ committed' = Sent(m)
    /\ stash' = [stash EXCEPT ![m] = [p \in Partitions |-> 0]]
    /\ UNCHANGED <<log, owner, life, pc, cur, attempt, pos, history>>

-----------------------------------------------------------------------------
(* The consumer process. *)

Start(m) ==
    /\ life[m] = "down"
    /\ life' = [life EXCEPT ![m] = "running"]
    /\ pc' = [pc EXCEPT ![m] = "check"]
    /\ UNCHANGED <<broker, cur, attempt, pos, stash, history>>

\* The select at the head of the loop.
CheckContext(m) ==
    /\ pc[m] = "check"
    /\ life[m] # "down"
    /\ pc' = [pc EXCEPT ![m] = IF life[m] = "running" THEN "fetch" ELSE "returned"]
    /\ UNCHANGED <<broker, life, cur, attempt, pos, stash, history>>

\* Mutants of Fetch: ReadMessage, which commits before the handler ran; a
\* message that does not decode ends Consume.
FetchAndCommit(m, p) ==
    LET o == pos[m][p] + 1
    IN /\ pc[m] = "fetch"
       /\ life[m] \in {"running", "cancelled"}
       /\ owner[p] = m
       /\ o <= Len(log[p])
       /\ pos' = [pos EXCEPT ![m][p] = o]
       /\ stash' = [stash EXCEPT ![m][p] = o]
       /\ cur' = [cur EXCEPT ![m] = [part |-> p, off |-> o]]
       /\ pc' = [pc EXCEPT ![m] = "handle"]
       /\ UNCHANGED <<broker, life, attempt, history>>

FetchOrReturn(m, p) ==
    LET o == pos[m][p] + 1
    IN /\ pc[m] = "fetch"
       /\ life[m] \in {"running", "cancelled"}
       /\ owner[p] = m
       /\ o <= Len(log[p])
       /\ pos' = [pos EXCEPT ![m][p] = o]
       /\ IF log[p][o] = "event"
          THEN /\ cur' = [cur EXCEPT ![m] = [part |-> p, off |-> o]]
               /\ pc' = [pc EXCEPT ![m] = "handle"]
          ELSE /\ pc' = [pc EXCEPT ![m] = "returned"]
               /\ UNCHANGED cur
       /\ UNCHANGED <<broker, life, attempt, stash, history>>

\* FetchMessage returns the next message of one of m's partitions.  A message
\* that does not decode goes straight to its commit.
Fetch(m, p) ==
    LET o == pos[m][p] + 1
    IN /\ pc[m] = "fetch"
       /\ life[m] \in {"running", "cancelled"}
       /\ owner[p] = m
       /\ o <= Len(log[p])
       /\ pos' = [pos EXCEPT ![m][p] = o]
       /\ cur' = [cur EXCEPT ![m] = [part |-> p, off |-> o]]
       /\ attempt' = [attempt EXCEPT ![m] = 0]
       /\ \/ /\ log[p][o] = "event"
             /\ pc' = [pc EXCEPT ![m] = "handle"]
             /\ UNCHANGED skipped
          \/ /\ log[p][o] = "garbage"
             /\ pc' = [pc EXCEPT ![m] = "commit"]
             /\ skipped' = [skipped EXCEPT ![p] = @ \union {o}]
       /\ UNCHANGED <<broker, life, stash, handled, bounds>>

\* FetchMessage fails because the context is done: Consume returns.
FetchCancelled(m) ==
    /\ pc[m] = "fetch"
    /\ life[m] \in {"cancelled", "closed"}
    /\ pc' = [pc EXCEPT ![m] = "returned"]
    /\ UNCHANGED <<broker, life, cur, attempt, pos, stash, history>>

HandlerSucceeds(m) ==
    /\ pc[m] = "handle"
    /\ handled' = [handled EXCEPT ![cur[m].part] = @ \union {cur[m].off}]
    /\ pc' = [pc EXCEPT ![m] = "commit"]
    /\ UNCHANGED <<broker, life, cur, attempt, pos, stash, skipped, bounds>>

\* Mutants of HandlerFails: one attempt too many; no limit.
HandlerFailsOnceMore(m) ==
    /\ pc[m] = "handle"
    /\ \/ /\ attempt[m] + 1 <= MaxRetries
          /\ attempt' = [attempt EXCEPT ![m] = @ + 1]
          /\ UNCHANGED <<pc, skipped>>
       \/ /\ attempt[m] + 1 > MaxRetries
          /\ skipped' = [skipped EXCEPT ![cur[m].part] = @ \union {cur[m].off}]
          /\ pc' = [pc EXCEPT ![m] = "commit"]
          /\ UNCHANGED attempt
    /\ UNCHANGED <<broker, life, cur, pos, stash, handled, bounds>>

HandlerFailsForever(m) ==
    /\ pc[m] = "handle"
    /\ attempt' = [attempt EXCEPT ![m] = 1 - @]
    /\ UNCHANGED <<broker, life, pc, cur, pos, stash, history>>

\* A failed attempt is retried, the last one is given up.
HandlerFails(m) ==
    /\ pc[m] = "handle"
    /\ \/ /\ attempt[m] + 1 < MaxRetries
          /\ attempt' = [attempt EXCEPT ![m] = @ + 1]
          /\ UNCHANGED <<pc, skipped>>
       \/ /\ attempt[m] + 1 = MaxRetries
          /\ skipped' = [skipped EXCEPT ![cur[m].part] = @ \union {cur[m].off}]
          /\ pc' = [pc EXCEPT ![m] = "commit"]
          /\ UNCHANGED attempt
    /\ UNCHANGED <<broker, life, cur, pos, stash, handled, bounds>>

\* Mutant of Commit: the next offset instead of the message's own.
CommitNext(m) ==
    /\ pc[m] = "commit"
    /\ stash' = [stash EXCEPT ![m][cur[m].part] = Later(@, cur[m].off + 1)]
    /\ pc' = [pc EXCEPT ![m] = "check"]
    /\ cur' = [cur EXCEPT ![m] = NoMsg]
    /\ attempt' = [attempt EXCEPT ![m] = 0]
    /\ UNCHANGED <<broker, life, pos, history>>

\* CommitMessages.  Once the context is done its select may refuse the offset,
\* once the reader is closed it always does; the error is only logged.
Commit(m) ==
    /\ pc[m] = "commit"
    /\ \/ /\ life[m] \in {"running", "cancelled"}
          /\ stash' = [stash EXCEPT ![m][cur[m].part] = Later(@, cur[m].off)]
       \/ /\ life[m] \in {"cancelled", "closed"}
          /\ UNCHANGED stash
    /\ pc' = [pc EXCEPT ![m] = "check"]
    /\ cur' = [cur EXCEPT ![m] = NoMsg]
    /\ attempt' = [attempt EXCEPT ![m] = 0]
    /\ UNCHANGED <<broker, life, pos, history>>

-----------------------------------------------------------------------------
(* Shutdown and failure. *)

\* SIGTERM: main cancels the context, the handler's too.
Terminate(m) ==
    /\ life[m] = "running"
    /\ failures < MaxFailures
    /\ life' = [life EXCEPT ![m] = "cancelled"]
    /\ failures' = failures + 1
    /\ UNCHANGED <<broker, pc, cur, attempt, pos, stash, handled, skipped, rebalances>>

Released(m) == [p \in Partitions |-> IF owner[p] = m THEN Nobody ELSE owner[p]]

\* main closes the reader without waiting for Consume: the reader sends its
\* pending commits a last time and leaves the group.
Close(m) ==
    /\ life[m] = "cancelled"
    /\ life' = [life EXCEPT ![m] = "closed"]
    /\ committed' = Sent(m)
    /\ stash' = [stash EXCEPT ![m] = [p \in Partitions |-> 0]]
    /\ owner' = Released(m)
    /\ UNCHANGED <<log, pc, cur, attempt, pos, history>>

\* Consume has returned: main receives from consumerDone and the process ends.
Exit(m) ==
    /\ life[m] = "closed"
    /\ pc[m] = "returned"
    /\ life' = [life EXCEPT ![m] = "down"]
    /\ UNCHANGED <<broker, pc, cur, attempt, pos, stash, history>>

\* The process dies: the message in hand and the commits not yet sent are lost.
Crash(m) ==
    /\ life[m] # "down"
    /\ failures < MaxFailures
    /\ life' = [life EXCEPT ![m] = "down"]
    /\ pc' = [pc EXCEPT ![m] = "returned"]
    /\ cur' = [cur EXCEPT ![m] = NoMsg]
    /\ attempt' = [attempt EXCEPT ![m] = 0]
    /\ stash' = [stash EXCEPT ![m] = [p \in Partitions |-> 0]]
    /\ owner' = Released(m)
    /\ failures' = failures + 1
    /\ UNCHANGED <<log, committed, pos, handled, skipped, rebalances>>

-----------------------------------------------------------------------------
\* One step of the goroutine that runs Consume.
Consume(m) ==
    \/ CheckContext(m)
    \/ \E p \in Partitions : Fetch(m, p)
    \/ FetchCancelled(m)
    \/ HandlerSucceeds(m)
    \/ HandlerFails(m)
    \/ Commit(m)

Next ==
    \/ \E p \in Partitions :
          \/ \E kind \in {"event", "garbage"} : Publish(p, kind)
          \/ Revoke(p)
          \/ \E m \in Members : Assign(p, m)
    \/ \E m \in Members :
          \/ Consume(m)
          \/ Flush(m)
          \/ Start(m) \/ Terminate(m) \/ Close(m) \/ Exit(m) \/ Crash(m)

Spec == Init /\ [][Next]_vars

\* The scheduler runs every process, the deployment restarts one that is down,
\* shutdown runs to its end, and the coordinator assigns every free partition.
Fairness ==
    /\ \A m \in Members :
          /\ WF_vars(Consume(m))
          /\ WF_vars(Flush(m))
          /\ WF_vars(Start(m))
          /\ WF_vars(Close(m))
          /\ WF_vars(Exit(m))
    /\ \A p \in Partitions : WF_vars(\E m \in Members : Assign(p, m))

FairSpec == Spec /\ Fairness

-----------------------------------------------------------------------------
(* Safety. *)

\* At-least-once delivery: the committed prefix, where a restarted member
\* resumes, holds only messages that were handled or deliberately skipped,
\* whatever crashes, terminations and rebalances happened in between
\* (Consume commits only after its retry loop).
NoEventLost ==
    \A p \in Partitions : 1..committed[p] \subseteq Settled(p)

\* Per-partition order: no message is handled or skipped before every earlier
\* message of its partition was, by whichever member.
SettledInOrder ==
    \A p \in Partitions : \A o \in Settled(p) : 1..o \subseteq Settled(p)

\* Committed offsets only grow while members leave the group by terminating or
\* crashing: a closed reader refuses the offset of the message still in hand.
\* Once a rebalance has taken a partition from a live member it may go back: that
\* member commits the message in its hands after its successor committed later ones.
CommitsOnlyAdvance ==
    [][rebalances = 0 => \A p \in Partitions : committed'[p] >= committed[p]]_vars

\* Consume implements in-order, at-least-once delivery.
Delivery == INSTANCE EventDelivery
              WITH size <- [p \in Partitions |-> Len(log[p])],
                   settled <- [p \in Partitions |-> Settled(p)],
                   acked <- committed
ImplementsDelivery == Delivery!Spec

(* Liveness. *)

\* No message is starved, not behind an undecodable one nor behind one whose
\* handler always fails: everything published is eventually settled.
EverythingSettles ==
    \A p \in Partitions : \A o \in 1..MaxLen :
        (Len(log[p]) >= o) ~> (o \in Settled(p))

\* A terminated member gets out of its retry loop and restarts.
ShutdownCompletes ==
    \A m \in Members : (life[m] = "cancelled") ~> (life[m] = "running")
=============================================================================
