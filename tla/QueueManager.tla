---------------------------- MODULE QueueManager ----------------------------
(***************************************************************************)
(* The consumers of queue/rabbitmq_pub_sub.go: one worker goroutine for    *)
(* each queue, all of them on the client of RabbitClient, whose callers    *)
(* they are.  The broker hands a worker one message at a time and keeps it *)
(* until it is acknowledged; it requeues what a lost connection has not.   *)
(*                                                                         *)
(* chan[q] is the connection of the consumer's channel, and the deliveries *)
(* channel of the worker is closed when that connection is not open.  The  *)
(* context of the consumers is never cancelled.                            *)
(***************************************************************************)
EXTENDS RabbitClient, Sequences

CONSTANTS
  Messages,   \* the messages to be consumed
  QueueOf,    \* the queue each message is in
  Prefixed,   \* whether queue_prefix is set
  BetSettlements,  \* the names that begin with "bet_settlement"
  Troubles    \* bound: handler errors, closed channels, and crashes

(***************************************************************************)
(* The queues are the callers of the client: each is the sequence of the   *)
(* names that its name, "channel.action", is made of.                      *)
(***************************************************************************)
ASSUME QueueAssumption ==
  /\ \A q \in Callers : q \in Seq(STRING) /\ Len(q) = 2
  /\ IsFiniteSet(Messages) /\ None \notin Messages
  /\ QueueOf \in [Messages -> Callers]
  /\ Prefixed \in BOOLEAN
  /\ {"bet_settlement", "bet_settlement_rollback"} \subseteq BetSettlements
  /\ {"rollback_bet_settlement", "bet_closure", "bet_approval"}
       \cap BetSettlements = {}
  /\ Troubles \in Nat

VARIABLES
  up,        \* whether the process runs
  at,        \* where the worker of each queue is
  hand,      \* the message it works on
  buffer,    \* the message its deliveries channel holds
  msgs,      \* where each message is, for the broker
  handled,   \* history: how often each message was given to its handler
  succeeded, \* history: the messages a handler has had without an error
  troubles   \* handler errors, closed channels, crashes and panics so far

workers == <<up, at, hand, buffer>>
broker  == <<msgs, handled, succeeded>>
vars == <<clientVars, workers, broker, troubles>>

Live(q) == chan[q] \in open

Holds(q, m) == m \in {hand[q], buffer[q]}

QTypeOK ==
  /\ ClientTypeOK
  /\ up \in BOOLEAN
  /\ at \in [Callers -> {"setup", "receive", "route", "ack", "nack",
                         "reconsume", "sleep"}]
  /\ hand \in [Callers -> Messages \cup {None}]
  /\ buffer \in [Callers -> Messages \cup {None}]
  /\ msgs \in [Messages -> {"ready", "unacked", "acked", "gone"}]
  /\ handled \in [Messages -> Nat]
  /\ succeeded \subseteq Messages
  /\ troubles \in Nat
  /\ \A q \in Callers : /\ (at[q] \in {"route", "ack", "nack"}) = (hand[q] # None)
                        /\ pc[q] # "idle" => at[q] \in {"setup", "reconsume"}
                        /\ \A m \in Messages : Holds(q, m) => QueueOf[m] = q

\* InitializeQueues starts a goroutine per queue.
Init ==
  /\ ClientInit
  /\ up = TRUE
  /\ at = [q \in Callers |-> "setup"]
  /\ hand = [q \in Callers |-> None]
  /\ buffer = [q \in Callers |-> None]
  /\ msgs = [m \in Messages |-> "ready"]
  /\ handled = [m \in Messages |-> 0]
  /\ succeeded = {}
  /\ troubles = 0

\* What the broker requeues when the consumers of the queues qs are gone.
Requeued(qs) ==
  [m \in Messages |-> IF QueueOf[m] \in qs /\ msgs[m] # "gone" THEN "ready" ELSE msgs[m]]

-----------------------------------------------------------------------------
(***************************************************************************)
(* Consume, called by SetupQueue and by a worker that finds its deliveries *)
(* closed.                                                                 *)
(***************************************************************************)
SetupQueue(q) ==
  /\ at[q] = "setup"
  /\ Call(q)
  /\ UNCHANGED <<workers, broker, troubles>>

(***************************************************************************)
(* Each definition whose name ends in Mutant is the next one with a        *)
(* plausible mistake; the specification uses none of them.                 *)
(***************************************************************************)

\* The worker goes on with the old deliveries until it has read them all.
ReconsumeMutant(q) ==
  /\ at[q] = "receive" /\ ~Live(q)
  /\ Call(q)
  /\ at' = [at EXCEPT ![q] = "reconsume"]
  /\ UNCHANGED <<up, hand, buffer, broker, troubles>>

\* The deliveries are closed; what they still held may be lost with them.
Reconsume(q) ==
  /\ at[q] = "receive" /\ ~Live(q)
  /\ Call(q)
  /\ at' = [at EXCEPT ![q] = "reconsume"]
  /\ buffer' = [buffer EXCEPT ![q] = None]
  /\ UNCHANGED <<up, hand, broker, troubles>>

Consume(q) == Step(q) /\ UNCHANGED <<workers, broker, troubles>>

\* The worker keeps the channel: it is what its deliveries come from.
Consumed(q) ==
  /\ pc[q] = "ok"
  /\ Goto(q, "idle")
  /\ after' = [after EXCEPT ![q] = "channel"]
  /\ at' = [at EXCEPT ![q] = "receive"]
  /\ UNCHANGED <<shared, monitors, seen, chan, faults, up, hand, buffer, broker, troubles>>

\* return in the place of continue.
ConsumeFailedMutant(q) ==
  /\ at[q] = "reconsume"
  /\ pc[q] \in {"failed", "exhausted"}
  /\ Return(q)
  /\ at' = [at EXCEPT ![q] = "returned"]
  /\ UNCHANGED <<up, hand, buffer, broker, troubles>>

\* After five seconds it finds the old deliveries closed again.
ConsumeFailed(q) ==
  /\ at[q] = "reconsume"
  /\ pc[q] \in {"failed", "exhausted"}
  /\ Return(q)
  /\ at' = [at EXCEPT ![q] = "sleep"]
  /\ UNCHANGED <<up, hand, buffer, broker, troubles>>

Wake(q) ==
  /\ at[q] = "sleep"
  /\ at' = [at EXCEPT ![q] = "receive"]
  /\ UNCHANGED <<clientVars, up, hand, buffer, broker, troubles>>

-----------------------------------------------------------------------------
(***************************************************************************)
(* The broker, as the prefetch count of one and the absence of auto-ack    *)
(* let it behave.                                                          *)
(***************************************************************************)
Send(q, m) ==
  /\ Live(q) /\ pc[q] = "idle"
  /\ QueueOf[m] = q /\ msgs[m] = "ready"
  /\ \A n \in Messages : QueueOf[n] = q => msgs[n] \notin {"unacked", "acked"}
  /\ buffer' = [buffer EXCEPT ![q] = m]
  /\ msgs' = [msgs EXCEPT ![m] = "unacked"]
  /\ UNCHANGED <<clientVars, up, at, hand, handled, succeeded, troubles>>

\* An acknowledgement arrives.
Settle(m) ==
  /\ msgs[m] = "acked"
  /\ msgs' = [msgs EXCEPT ![m] = "gone"]
  /\ UNCHANGED <<clientVars, workers, handled, succeeded, troubles>>

LoseConnection(c) ==
  /\ Lose(c)
  /\ msgs' = Requeued({q \in Callers : chan[q] = c})
  /\ UNCHANGED <<workers, handled, succeeded, troubles>>

\* The broker closes the channel of a consumer and not its connection.
CloseChannel(q) ==
  /\ Live(q) /\ pc[q] = "idle"
  /\ troubles < Troubles
  /\ troubles' = troubles + 1
  /\ chan' = [chan EXCEPT ![q] = None]
  /\ msgs' = Requeued({q})
  /\ UNCHANGED <<shared, monitors, pc, after, seen, faults, workers, handled,
                 succeeded>>

-----------------------------------------------------------------------------
\* parts[0:] in the place of parts[1:].
NameMutant(q) == q

(***************************************************************************)
(* RouteMessage: the handler a queue's messages are given to.  That a name *)
(* begins with "bet_settlement" is tested before the longer name is; the   *)
(* name of a queue does if the first name it is made of does.              *)
(***************************************************************************)
Name(q) == IF Prefixed THEN Tail(q) ELSE q

Handler(q) ==
  CASE Head(Name(q)) \in BetSettlements -> "ProcessSettlement"
    [] Name(q) = <<"rollback_bet_settlement">> -> "ProcessSettlementRollback"
    [] Name(q) = <<"bet_closure">> -> "ProcessBetClosure"
    [] Name(q) = <<"bet_approval">> -> "ProcessBetApproval"
    [] OTHER -> "none"

\* A message that the channel still holds may be received after it was closed.
Receive(q) ==
  /\ at[q] = "receive" /\ buffer[q] # None
  /\ hand' = [hand EXCEPT ![q] = buffer[q]]
  /\ buffer' = [buffer EXCEPT ![q] = None]
  /\ at' = [at EXCEPT ![q] = "route"]
  /\ UNCHANGED <<clientVars, up, broker, troubles>>

(***************************************************************************)
(* The handlers are placeholders that return nil; RouteMessage provides    *)
(* for the errors of those to come.  A queue with no handler is no error.  *)
(***************************************************************************)
RouteMessage(q) ==
  /\ at[q] = "route"
  /\ handled' = IF Handler(q) = "none" THEN handled
                ELSE [handled EXCEPT ![hand[q]] = @ + 1]
  /\ \/ /\ at' = [at EXCEPT ![q] = "ack"]
        /\ succeeded' = IF Handler(q) = "none" THEN succeeded
                        ELSE succeeded \cup {hand[q]}
        /\ UNCHANGED troubles
     \/ /\ Handler(q) # "none"
        /\ troubles < Troubles
        /\ troubles' = troubles + 1
        /\ at' = [at EXCEPT ![q] = "nack"]
        /\ UNCHANGED succeeded
  /\ UNCHANGED <<clientVars, up, hand, buffer, msgs>>

\* The next round still has the message at hand.
AckMutant(q) ==
  /\ at[q] = "ack"
  /\ msgs' = IF Live(q) THEN [msgs EXCEPT ![hand[q]] = "acked"] ELSE msgs
  /\ at' = [at EXCEPT ![q] = "receive"]
  /\ UNCHANGED <<clientVars, up, hand, buffer, handled, succeeded, troubles>>

\* Nack whatever the handler returned.
AckRequeueMutant(q) ==
  /\ at[q] = "ack"
  /\ msgs' = IF Live(q) THEN [msgs EXCEPT ![hand[q]] = "ready"] ELSE msgs
  /\ hand' = [hand EXCEPT ![q] = None]
  /\ at' = [at EXCEPT ![q] = "receive"]
  /\ UNCHANGED <<clientVars, up, buffer, handled, succeeded, troubles>>

\* No acknowledgement: the broker sends nothing more.
AckForgottenMutant(q) ==
  /\ at[q] = "ack"
  /\ hand' = [hand EXCEPT ![q] = None]
  /\ at' = [at EXCEPT ![q] = "receive"]
  /\ UNCHANGED <<clientVars, up, buffer, broker, troubles>>

\* Ack and Nack fail when the channel is closed; the worker goes on as if not.
Ack(q) ==
  /\ at[q] = "ack"
  /\ msgs' = IF Live(q) THEN [msgs EXCEPT ![hand[q]] = "acked"] ELSE msgs
  /\ hand' = [hand EXCEPT ![q] = None]
  /\ at' = [at EXCEPT ![q] = "receive"]
  /\ UNCHANGED <<clientVars, up, buffer, handled, succeeded, troubles>>

\* A message whose handler failed is acknowledged too.
NackMutant(q) ==
  /\ at[q] = "nack"
  /\ msgs' = IF Live(q) THEN [msgs EXCEPT ![hand[q]] = "acked"] ELSE msgs
  /\ hand' = [hand EXCEPT ![q] = None]
  /\ at' = [at EXCEPT ![q] = "receive"]
  /\ UNCHANGED <<clientVars, up, buffer, handled, succeeded, troubles>>

Nack(q) ==
  /\ at[q] = "nack"
  /\ msgs' = IF Live(q) THEN [msgs EXCEPT ![hand[q]] = "ready"] ELSE msgs
  /\ hand' = [hand EXCEPT ![q] = None]
  /\ at' = [at EXCEPT ![q] = "receive"]
  /\ UNCHANGED <<clientVars, up, buffer, handled, succeeded, troubles>>

-----------------------------------------------------------------------------
\* The process is gone, and its connections with it.
Die ==
  /\ up' = FALSE
  /\ msgs' = Requeued(Callers)
  /\ troubles' = troubles + 1
  /\ UNCHANGED <<clientVars, at, hand, buffer, handled, succeeded>>

\* SetupQueue panics, in a goroutine that nothing recovers.
Panic(q) == at[q] = "setup" /\ pc[q] \in {"failed", "exhausted"} /\ Die

Crash == troubles < Troubles /\ Die

Restart ==
  /\ ClientRestart
  /\ up' = TRUE
  /\ at' = [q \in Callers |-> "setup"]
  /\ hand' = [q \in Callers |-> None]
  /\ buffer' = [q \in Callers |-> None]
  /\ UNCHANGED <<broker, troubles>>

\* The goroutine of SetupQueue, and then that of processDeliveries.
Worker(q) ==
  \/ SetupQueue(q) \/ Reconsume(q) \/ Consume(q) \/ Consumed(q) \/ ConsumeFailed(q)
  \/ Wake(q) \/ Receive(q) \/ RouteMessage(q) \/ Ack(q) \/ Nack(q) \/ Panic(q)

Watching == Monitor /\ UNCHANGED <<workers, broker, troubles>>

Serving(q) == \E m \in Messages : Send(q, m)

Settling == \E m \in Messages : Settle(m)

Next ==
  \/ up /\ \/ \E q \in Callers : Worker(q) \/ Serving(q) \/ CloseChannel(q)
           \/ Watching \/ Settling \/ Crash
           \/ \E c \in Conns : LoseConnection(c)
  \/ ~up /\ Restart

Spec == Init /\ [][Next]_vars

\* Goroutines run on, and the broker serves whoever consumes.  Nothing restarts
\* the process: docker-compose.app.yml gives it no restart policy.
Fairness ==
  /\ \A q \in Callers : WF_vars(up /\ Worker(q)) /\ WF_vars(up /\ Serving(q))
  /\ WF_vars(up /\ Watching)
  /\ WF_vars(up /\ Settling)

FairSpec == Spec /\ Fairness

-----------------------------------------------------------------------------
\* A message is with its worker for as long as the broker counts on it, and no
\* message the broker has done with is still to be handled: a worker whose
\* connection is lost finishes the message it holds before it consumes again,
\* so that a message is never handled twice at once (rabbitmq_pub_sub.go:126-192).
HeldMessagesAreOutstanding ==
  \A q \in Callers : \A m \in Messages :
    Holds(q, m) => msgs[m] = IF up /\ Live(q) THEN "unacked" ELSE "ready"

\* Redelivery has a cause: a message is handled again only after a connection or
\* a channel was lost, its handler failed, or the process died
\* (rabbitmq_pub_sub.go:175, 184).
RedeliveryHasACause ==
  \A m \in Messages : handled[m] <= 1 + lost + troubles

\* The messages are handled at least once each, and removed only after that
\* has succeeded: what a handler failed with, or a queue without a handler
\* received, is not removed (rabbitmq_pub_sub.go:165-191).
Consumption == INSTANCE AtLeastOnce
  WITH pending <- {m \in Messages : msgs[m] # "gone"}

ConsumesAtLeastOnce == Consumption!Spec

\* "Delivery channel closed, attempting to reconnect" (rabbitmq_pub_sub.go:142):
\* unless the process dies, the consumer of every queue is back in the end.
ConsumersComeBack == \A q \in Callers : []<>(~up \/ Live(q))

\* Unless the process dies, every message is consumed (rabbitmq_pub_sub.go:136-191).
EveryMessageIsConsumed == \A m \in Messages : <>(~up \/ msgs[m] = "gone")

\* "ProcessSettlementRollback handles bet settlement rollback messages"
\* (rabbitmq_pub_sub.go:255): no other handler is given one.
RollbacksAreRolledBack ==
  \A m \in Messages :
    handled[m] > 0 /\ "bet_settlement_rollback" \in {QueueOf[m][1], QueueOf[m][2]}
      => Handler(QueueOf[m]) = "ProcessSettlementRollback"
=============================================================================
