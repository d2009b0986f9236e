------------------------- MODULE QueueManagerProofs -------------------------
(***************************************************************************)
(* Theorems about QueueManager, for any queues, messages, connections and  *)
(* faults: its types, that what a worker holds is what the broker counts   *)
(* on, and that it implements AtLeastOnce when every queue has a handler.  *)
(***************************************************************************)
EXTENDS QueueManager, RabbitClientProofs

(***************************************************************************)
(* What HeldMessagesAreOutstanding rests on: a worker holds one message at *)
(* most, and none while it has no deliveries to take one from.             *)
(***************************************************************************)
OneAtATime == \A q \in Callers : hand[q] = None \/ buffer[q] = None

Away == {"setup", "sleep", "reconsume"}

Consuming ==
  \A q \in Callers :
    /\ at[q] \in Away => buffer[q] = None
    /\ at[q] \in {"setup", "sleep"} /\ pc[q] = "idle" => chan[q] = None
    /\ at[q] = "reconsume" => pc[q] # "idle"

Inv == QTypeOK /\ HeldMessagesAreOutstanding /\ OneAtATime /\ Consuming

LEMMA InitInv == Init => Inv
<1>. SUFFICES ASSUME Init PROVE Inv  OBVIOUS
<1>1. ClientTypeOK  BY ClientInitTypeOK DEF Init
<1>2. QTypeOK
  BY <1>1, QueueAssumption DEF Init, ClientInit, QTypeOK, Holds
<1>3. HeldMessagesAreOutstanding /\ OneAtATime
  BY QueueAssumption DEF Init, HeldMessagesAreOutstanding, OneAtATime, Holds
<1>4. Consuming  BY DEF Init, ClientInit, Consuming
<1>. QED BY <1>2, <1>3, <1>4 DEF Inv

-----------------------------------------------------------------------------
(***************************************************************************)
(* The steps of a call: they concern one caller, and the channels of the   *)
(* others are as open as they were.                                        *)
(***************************************************************************)
LEMMA StepEffect ==
  ASSUME ClientTypeOK, NEW q \in Callers, Step(q)
  PROVE  /\ pc[q] # "idle" /\ pc'[q] # "idle"
         /\ \A o \in Callers \ {q} : pc'[o] = pc[o] /\ chan'[o] = chan[o]
         /\ \A o \in Callers \ {q} : chan'[o] \in open' <=> chan[o] \in open
<1>. USE DEF ClientTypeOK, Goto, shared, monitors, callers, faults
<1>1. CASE Select(q)         BY <1>1 DEF Select
<1>2. CASE CheckConnected(q) BY <1>2 DEF CheckConnected
<1>3. CASE Reconnect(q)      BY <1>3 DEF Reconnect
<1>4. CASE ReadReconnects(q) BY <1>4 DEF ReadReconnects
<1>5. CASE WriteReconnects(q) BY <1>5 DEF WriteReconnects
<1>6. CASE Connect(q)
  <2>1. /\ pc[q] = "dial" /\ pc' = [pc EXCEPT ![q] = after[q]]
        /\ chan' = chan
    BY <1>6 DEF Connect
  <2>2. PICK c \in Fresh : open' = open \cup {c}
    BY <1>6 DEF Connect
  <2>3. \A o \in Callers : chan[o] # c
    BY <2>2 DEF Fresh
  <2>. QED BY <2>1, <2>2, <2>3
<1>7. CASE Refuse(q)         BY <1>7 DEF Refuse
<1>8. CASE OpenChannel(q)    BY <1>8 DEF OpenChannel
<1>9. CASE Declare(q)        BY <1>9 DEF Declare
<1>. QED BY <1>1, <1>2, <1>3, <1>4, <1>5, <1>6, <1>7, <1>8, <1>9 DEF Step

LEMMA CallEffect ==
  ASSUME ClientTypeOK, NEW q \in Callers, Call(q)
  PROVE  /\ pc[q] = "idle" /\ pc' = [pc EXCEPT ![q] = "select"]
         /\ chan' = chan /\ open' = open
BY DEF Call, Goto, shared

LEMMA ReturnEffect ==
  ASSUME ClientTypeOK, NEW q \in Callers, Return(q)
  PROVE  /\ pc' = [pc EXCEPT ![q] = "idle"]
         /\ chan' = [chan EXCEPT ![q] = None] /\ open' = open
BY DEF Return, Goto, shared

-----------------------------------------------------------------------------
\* What the invariant says, part by part, of the state after a step.
LEMMA Parts ==
  ASSUME ClientTypeOK',
         up' \in BOOLEAN,
         at' \in [Callers -> {"setup", "receive", "route", "ack", "nack",
                              "reconsume", "sleep"}],
         hand' \in [Callers -> Messages \cup {None}],
         buffer' \in [Callers -> Messages \cup {None}],
         msgs' \in [Messages -> {"ready", "unacked", "acked", "gone"}],
         handled' \in [Messages -> Nat],
         succeeded' \subseteq Messages,
         troubles' \in Nat,
         \A q \in Callers :
           /\ (at'[q] \in {"route", "ack", "nack"}) = (hand'[q] # None)
           /\ pc'[q] # "idle" => at'[q] \in {"setup", "reconsume"}
           /\ \A m \in Messages : m \in {hand'[q], buffer'[q]} => QueueOf[m] = q,
         \A q \in Callers : \A m \in Messages :
           m \in {hand'[q], buffer'[q]} =>
             msgs'[m] = IF up' /\ chan'[q] \in open' THEN "unacked" ELSE "ready",
         \A q \in Callers : hand'[q] = None \/ buffer'[q] = None,
         \A q \in Callers :
           /\ at'[q] \in Away => buffer'[q] = None
           /\ at'[q] \in {"setup", "sleep"} /\ pc'[q] = "idle" => chan'[q] = None
           /\ at'[q] = "reconsume" => pc'[q] # "idle"
  PROVE  Inv'
BY DEF Inv, QTypeOK, HeldMessagesAreOutstanding, OneAtATime, Consuming, Holds, Live

\* The client's steps are those of a client, so that its types are kept.
LEMMA ClientTypes ==
  ASSUME QTypeOK,
         \/ UNCHANGED clientVars
         \/ Monitor
         \/ \E q \in Callers : Call(q) \/ Step(q) \/ Return(q)
         \/ \E c \in Conns : Lose(c)
  PROVE  ClientTypeOK'
<1>1. [ClientNext]_clientVars  BY DEF ClientNext
<1>. QED BY <1>1, ClientNextTypeOK DEF QTypeOK

LEMMA SetupQueueInv ==
  ASSUME Inv, NEW q \in Callers, SetupQueue(q)
  PROVE  Inv'
<1>1. ClientTypeOK'  BY ClientTypes DEF SetupQueue, Inv
<1>2. ClientTypeOK  BY DEF Inv, QTypeOK
<1>3. /\ at[q] = "setup"
      /\ pc[q] = "idle" /\ pc' = [pc EXCEPT ![q] = "select"]
      /\ chan' = chan /\ open' = open
      /\ UNCHANGED <<up, at, hand, buffer, msgs, handled, succeeded, troubles>>
  BY <1>2, CallEffect DEF SetupQueue, workers, broker
<1>4. pc \in [Callers -> {"idle", "select", "connected", "reconnect", "backoff",
                          "increment", "dial", "channel", "declare", "ok",
                          "failed", "exhausted"}]
  BY <1>2 DEF ClientTypeOK
<1>. QED
  BY <1>1, <1>3, <1>4, Parts
  DEF Inv, QTypeOK, HeldMessagesAreOutstanding, OneAtATime, Consuming, Holds, Live, Away

LEMMA ReconsumeInv ==
  ASSUME Inv, NEW q \in Callers, Reconsume(q)
  PROVE  Inv'
<1>1. ClientTypeOK'  BY ClientTypes DEF Reconsume, Inv
<1>2. ClientTypeOK  BY DEF Inv, QTypeOK
<1>3. /\ at[q] = "receive" /\ at' = [at EXCEPT ![q] = "reconsume"]
      /\ buffer' = [buffer EXCEPT ![q] = None]
      /\ pc[q] = "idle" /\ pc' = [pc EXCEPT ![q] = "select"]
      /\ chan' = chan /\ open' = open
      /\ UNCHANGED <<up, hand, msgs, handled, succeeded, troubles>>
  BY <1>2, CallEffect DEF Reconsume, broker
<1>4. pc \in [Callers -> {"idle", "select", "connected", "reconnect", "backoff",
                          "increment", "dial", "channel", "declare", "ok",
                          "failed", "exhausted"}]
  BY <1>2 DEF ClientTypeOK
<1>. QED
  BY <1>1, <1>3, <1>4, Parts
  DEF Inv, QTypeOK, HeldMessagesAreOutstanding, OneAtATime, Consuming, Holds, Live, Away

LEMMA ConsumeInv ==
  ASSUME Inv, NEW q \in Callers, Consume(q)
  PROVE  Inv'
<1>1. ClientTypeOK'  BY ClientTypes DEF Consume, Inv
<1>2. ClientTypeOK  BY DEF Inv, QTypeOK
<1>3. /\ pc[q] # "idle" /\ pc'[q] # "idle"
      /\ \A o \in Callers \ {q} : pc'[o] = pc[o] /\ chan'[o] = chan[o]
      /\ \A o \in Callers \ {q} : chan'[o] \in open' <=> chan[o] \in open
  BY <1>2, StepEffect DEF Consume
<1>4. UNCHANGED <<up, at, hand, buffer, msgs, handled, succeeded, troubles>>
  BY DEF Consume, workers, broker
\* A worker that consumes holds no message.
<1>5. at[q] \in {"setup", "reconsume"} /\ hand[q] = None /\ buffer[q] = None
  BY <1>3 DEF Inv, QTypeOK, Consuming, Away
<1>6. \A o \in Callers : \A m \in Messages :
        m \in {hand'[o], buffer'[o]} =>
          msgs'[m] = IF up' /\ chan'[o] \in open' THEN "unacked" ELSE "ready"
  <2>. SUFFICES ASSUME NEW o \in Callers, NEW m \in Messages, m \in {hand[o], buffer[o]}
       PROVE msgs[m] = IF up /\ chan'[o] \in open' THEN "unacked" ELSE "ready"
    BY <1>4
  <2>1. o # q  BY <1>5, QueueAssumption
  <2>2. chan'[o] \in open' <=> chan[o] \in open  BY <2>1, <1>3
  <2>. QED BY <2>2 DEF Inv, HeldMessagesAreOutstanding, Holds, Live
<1>7. \A o \in Callers :
        /\ at'[o] \in {"setup", "sleep"} /\ pc'[o] = "idle" => chan'[o] = None
        /\ at'[o] = "reconsume" => pc'[o] # "idle"
        /\ pc'[o] # "idle" => at'[o] \in {"setup", "reconsume"}
  BY <1>3, <1>4, <1>5 DEF Inv, QTypeOK, Consuming
<1>. QED
  BY <1>1, <1>4, <1>6, <1>7, Parts
  DEF Inv, QTypeOK, HeldMessagesAreOutstanding, OneAtATime, Consuming, Holds, Live, Away

LEMMA ConsumedInv ==
  ASSUME Inv, NEW q \in Callers, Consumed(q)
  PROVE  Inv'
<1>2. ClientTypeOK  BY DEF Inv, QTypeOK
<1>3. /\ pc[q] = "ok" /\ pc' = [pc EXCEPT ![q] = "idle"]
      /\ after' = [after EXCEPT ![q] = "channel"]
      /\ at' = [at EXCEPT ![q] = "receive"]
      /\ UNCHANGED <<open, current, connected, reconnects, starting, watchers,
                     reporting, sending>>
      /\ UNCHANGED <<seen, chan, lost, refused, rejected, failures>>
      /\ UNCHANGED <<up, hand, buffer, msgs, handled, succeeded, troubles>>
  BY DEF Consumed, Goto, shared, monitors, faults, broker
<1>4. pc \in [Callers -> {"idle", "select", "connected", "reconnect", "backoff",
                          "increment", "dial", "channel", "declare", "ok",
                          "failed", "exhausted"}]
  BY <1>2 DEF ClientTypeOK
<1>1. ClientTypeOK'  BY <1>2, <1>3 DEF ClientTypeOK
<1>. QED
  BY <1>1, <1>3, <1>4, Parts
  DEF Inv, QTypeOK, HeldMessagesAreOutstanding, OneAtATime, Consuming, Holds, Live, Away

LEMMA ConsumeFailedInv ==
  ASSUME Inv, NEW q \in Callers, ConsumeFailed(q)
  PROVE  Inv'
<1>1. ClientTypeOK'  BY ClientTypes DEF ConsumeFailed, Inv
<1>2. ClientTypeOK  BY DEF Inv, QTypeOK
<1>3. /\ at[q] = "reconsume" /\ at' = [at EXCEPT ![q] = "sleep"]
      /\ pc' = [pc EXCEPT ![q] = "idle"]
      /\ chan' = [chan EXCEPT ![q] = None] /\ open' = open
      /\ UNCHANGED <<up, hand, buffer, msgs, handled, succeeded, troubles>>
  BY <1>2, ReturnEffect DEF ConsumeFailed, broker
<1>4. /\ pc \in [Callers -> {"idle", "select", "connected", "reconnect", "backoff",
                             "increment", "dial", "channel", "declare", "ok",
                             "failed", "exhausted"}]
      /\ chan \in [Callers -> Conns \cup {None}]
  BY <1>2 DEF ClientTypeOK
<1>5. hand[q] = None /\ buffer[q] = None
  BY <1>3 DEF Inv, QTypeOK, Consuming, Away
<1>. QED
  BY <1>1, <1>3, <1>4, <1>5, QueueAssumption, Parts
  DEF Inv, QTypeOK, HeldMessagesAreOutstanding, OneAtATime, Consuming, Holds, Live, Away

LEMMA WakeInv ==
  ASSUME Inv, NEW q \in Callers, Wake(q)
  PROVE  Inv'
<1>1. ClientTypeOK'  BY ClientTypes DEF Wake, Inv
<1>3. /\ at[q] = "sleep" /\ at' = [at EXCEPT ![q] = "receive"]
      /\ UNCHANGED <<pc, chan, open>>
      /\ UNCHANGED <<up, hand, buffer, msgs, handled, succeeded, troubles>>
  BY DEF Wake, broker, clientVars, shared, callers
<1>. QED
  BY <1>1, <1>3, Parts
  DEF Inv, QTypeOK, HeldMessagesAreOutstanding, OneAtATime, Consuming, Holds, Live, Away

LEMMA SendInv ==
  ASSUME Inv, up, NEW q \in Callers, NEW m \in Messages, Send(q, m)
  PROVE  Inv'
<1>1. ClientTypeOK'  BY ClientTypes DEF Send, Inv
<1>2. ClientTypeOK  BY DEF Inv, QTypeOK
<1>3. /\ chan[q] \in open /\ pc[q] = "idle"
      /\ QueueOf[m] = q /\ msgs[m] = "ready"
      /\ \A n \in Messages : QueueOf[n] = q => msgs[n] \notin {"unacked", "acked"}
      /\ buffer' = [buffer EXCEPT ![q] = m]
      /\ msgs' = [msgs EXCEPT ![m] = "unacked"]
      /\ UNCHANGED <<pc, chan, open>>
      /\ UNCHANGED <<up, at, hand, handled, succeeded, troubles>>
  BY DEF Send, Live, clientVars, shared, callers
<1>4. None \notin open  BY <1>2, RabbitClientAssumption DEF ClientTypeOK
<1>5. at[q] \notin Away  BY <1>3, <1>4 DEF Inv, QTypeOK, Consuming, Away
\* What it held would be unacknowledged, and nothing would be sent.
<1>6. hand[q] = None /\ buffer[q] = None
  <2>1. \A n \in Messages : ~Holds(q, n)
    BY <1>3 DEF Inv, QTypeOK, HeldMessagesAreOutstanding, Live
  <2>. QED BY <2>1 DEF Holds, Inv, QTypeOK
<1>. QED
  BY <1>1, <1>3, <1>5, <1>6, QueueAssumption, Parts
  DEF Inv, QTypeOK, HeldMessagesAreOutstanding, OneAtATime, Consuming, Holds, Live, Away

LEMMA SettleInv ==
  ASSUME Inv, NEW m \in Messages, Settle(m)
  PROVE  Inv'
<1>1. ClientTypeOK'  BY ClientTypes DEF Settle, Inv
<1>3. /\ msgs[m] = "acked" /\ msgs' = [msgs EXCEPT ![m] = "gone"]
      /\ UNCHANGED <<pc, chan, open>>
      /\ UNCHANGED <<up, at, hand, buffer, handled, succeeded, troubles>>
  BY DEF Settle, workers, clientVars, shared, callers
<1>. QED
  BY <1>1, <1>3, Parts
  DEF Inv, QTypeOK, HeldMessagesAreOutstanding, OneAtATime, Consuming, Holds, Live, Away

LEMMA LoseConnectionInv ==
  ASSUME Inv, up, NEW c \in Conns, LoseConnection(c)
  PROVE  Inv'
<1>1. ClientTypeOK'  BY ClientTypes DEF LoseConnection, Inv
<1>3. /\ open' = open \ {c}
      /\ msgs' = [m \in Messages |->
                    IF chan[QueueOf[m]] = c /\ msgs[m] # "gone" THEN "ready" ELSE msgs[m]]
      /\ UNCHANGED <<pc, chan>>
      /\ UNCHANGED <<up, at, hand, buffer, handled, succeeded, troubles>>
  BY QueueAssumption DEF LoseConnection, Lose, Requeued, workers, callers
<1>4. \A q \in Callers : \A m \in Messages :
        m \in {hand'[q], buffer'[q]} =>
          msgs'[m] = IF up' /\ chan'[q] \in open' THEN "unacked" ELSE "ready"
  <2>. SUFFICES ASSUME NEW q \in Callers, NEW m \in Messages, Holds(q, m)
       PROVE msgs'[m] = IF up /\ chan[q] \in open' THEN "unacked" ELSE "ready"
    BY <1>3 DEF Holds
  <2>1. QueueOf[m] = q  BY DEF Inv, QTypeOK
  <2>2. msgs[m] = IF up /\ chan[q] \in open THEN "unacked" ELSE "ready"
    BY DEF Inv, HeldMessagesAreOutstanding, Live
  <2>. QED BY <1>3, <2>1, <2>2
<1>5. msgs' \in [Messages -> {"ready", "unacked", "acked", "gone"}]
  BY <1>3 DEF Inv, QTypeOK
<1>. QED
  BY <1>1, <1>3, <1>4, <1>5, Parts
  DEF Inv, QTypeOK, HeldMessagesAreOutstanding, OneAtATime, Consuming, Holds, Live, Away

LEMMA CloseChannelInv ==
  ASSUME Inv, up, NEW q \in Callers, CloseChannel(q)
  PROVE  Inv'
<1>2. ClientTypeOK  BY DEF Inv, QTypeOK
<1>3. /\ pc[q] = "idle"
      /\ troubles' = troubles + 1
      /\ chan' = [chan EXCEPT ![q] = None]
      /\ msgs' = [m \in Messages |->
                    IF QueueOf[m] = q /\ msgs[m] # "gone" THEN "ready" ELSE msgs[m]]
      /\ UNCHANGED <<open, current, connected, reconnects, starting, watchers,
                     reporting, sending>>
      /\ UNCHANGED <<pc, after, seen, lost, refused, rejected, failures>>
      /\ UNCHANGED <<up, at, hand, buffer, handled, succeeded>>
  BY DEF CloseChannel, Requeued, workers, shared, monitors, faults
<1>1. ClientTypeOK'  BY <1>2, <1>3 DEF ClientTypeOK
<1>4. chan \in [Callers -> Conns \cup {None}] /\ None \notin open
  BY <1>2, RabbitClientAssumption DEF ClientTypeOK
<1>5. \A o \in Callers : \A m \in Messages :
        m \in {hand'[o], buffer'[o]} =>
          msgs'[m] = IF up' /\ chan'[o] \in open' THEN "unacked" ELSE "ready"
  <2>. SUFFICES ASSUME NEW o \in Callers, NEW m \in Messages, Holds(o, m)
       PROVE msgs'[m] = IF up /\ chan'[o] \in open THEN "unacked" ELSE "ready"
    BY <1>3 DEF Holds
  <2>1. QueueOf[m] = o  BY DEF Inv, QTypeOK
  <2>2. msgs[m] = IF up /\ chan[o] \in open THEN "unacked" ELSE "ready"
    BY DEF Inv, HeldMessagesAreOutstanding, Live
  <2>3. CASE o = q   BY <1>3, <1>4, <2>1, <2>2, <2>3
  <2>4. CASE o # q   BY <1>3, <1>4, <2>1, <2>2, <2>4
  <2>. QED BY <2>3, <2>4
<1>6. msgs' \in [Messages -> {"ready", "unacked", "acked", "gone"}]
  BY <1>3 DEF Inv, QTypeOK
<1>. QED
  BY <1>1, <1>3, <1>4, <1>5, <1>6, Parts
  DEF Inv, QTypeOK, HeldMessagesAreOutstanding, OneAtATime, Consuming, Holds, Live, Away

LEMMA ReceiveInv ==
  ASSUME Inv, NEW q \in Callers, Receive(q)
  PROVE  Inv'
<1>1. ClientTypeOK'  BY ClientTypes DEF Receive, Inv
<1>3. /\ at[q] = "receive" /\ at' = [at EXCEPT ![q] = "route"]
      /\ buffer[q] # None
      /\ hand' = [hand EXCEPT ![q] = buffer[q]]
      /\ buffer' = [buffer EXCEPT ![q] = None]
      /\ UNCHANGED <<pc, chan, open>>
      /\ UNCHANGED <<up, msgs, handled, succeeded, troubles>>
  BY DEF Receive, broker, clientVars, shared, callers
<1>. QED
  BY <1>1, <1>3, QueueAssumption, Parts
  DEF Inv, QTypeOK, HeldMessagesAreOutstanding, OneAtATime, Consuming, Holds, Live, Away

LEMMA RouteMessageInv ==
  ASSUME Inv, NEW q \in Callers, RouteMessage(q)
  PROVE  Inv'
<1>1. ClientTypeOK'  BY ClientTypes DEF RouteMessage, Inv
<1>3. /\ at[q] = "route"
      /\ at' = [at EXCEPT ![q] = "ack"] \/ at' = [at EXCEPT ![q] = "nack"]
      /\ handled' = handled \/ handled' = [handled EXCEPT ![hand[q]] = @ + 1]
      /\ succeeded' = succeeded \/ succeeded' = succeeded \cup {hand[q]}
      /\ troubles' = troubles \/ troubles' = troubles + 1
      /\ UNCHANGED <<pc, chan, open>>
      /\ UNCHANGED <<up, hand, buffer, msgs>>
  BY DEF RouteMessage, clientVars, shared, callers
<1>4. handled' \in [Messages -> Nat]  BY <1>3 DEF Inv, QTypeOK
<1>5. troubles' \in Nat  BY <1>3 DEF Inv, QTypeOK
<1>6. succeeded' \subseteq Messages
  <2>1. hand[q] \in Messages  BY <1>3 DEF Inv, QTypeOK
  <2>. QED BY <1>3, <2>1 DEF Inv, QTypeOK
<1>. QED
  BY <1>1, <1>3, <1>4, <1>5, <1>6, Parts
  DEF Inv, QTypeOK, HeldMessagesAreOutstanding, OneAtATime, Consuming, Holds, Live, Away

LEMMA AckInv ==
  ASSUME Inv, NEW q \in Callers, Ack(q)
  PROVE  Inv'
<1>1. ClientTypeOK'  BY ClientTypes DEF Ack, Inv
<1>3. /\ at[q] = "ack" /\ at' = [at EXCEPT ![q] = "receive"]
      /\ hand' = [hand EXCEPT ![q] = None]
      /\ msgs' = msgs \/ msgs' = [msgs EXCEPT ![hand[q]] = "acked"]
      /\ UNCHANGED <<pc, chan, open>>
      /\ UNCHANGED <<up, buffer, handled, succeeded, troubles>>
  BY DEF Ack, clientVars, shared, callers
\* Nobody else holds the message.
<1>4. hand[q] \in Messages /\ buffer[q] = None
  BY <1>3 DEF Inv, QTypeOK, OneAtATime
<1>5. \A o \in Callers : \A m \in Messages :
        m \in {hand'[o], buffer'[o]} => Holds(o, m) /\ msgs'[m] = msgs[m]
  <2>. SUFFICES ASSUME NEW o \in Callers, NEW m \in Messages, m \in {hand'[o], buffer'[o]}
       PROVE Holds(o, m) /\ msgs'[m] = msgs[m]
    OBVIOUS
  <2>1. o # q  BY <1>3, <1>4, QueueAssumption DEF Inv, QTypeOK
  <2>2. Holds(o, m)  BY <1>3, <2>1 DEF Holds, Inv, QTypeOK
  <2>3. m # hand[q]  BY <1>4, <2>1, <2>2 DEF Inv, QTypeOK, Holds
  <2>. QED BY <1>3, <2>2, <2>3 DEF Inv, QTypeOK
<1>6. msgs' \in [Messages -> {"ready", "unacked", "acked", "gone"}]
  BY <1>3 DEF Inv, QTypeOK
<1>7. \A o \in Callers : \A m \in Messages :
        m \in {hand'[o], buffer'[o]} =>
          msgs'[m] = IF up' /\ chan'[o] \in open' THEN "unacked" ELSE "ready"
  BY <1>3, <1>5 DEF Inv, HeldMessagesAreOutstanding, Live
<1>. QED
  BY <1>1, <1>3, <1>4, <1>5, <1>6, <1>7, Parts
  DEF Inv, QTypeOK, HeldMessagesAreOutstanding, OneAtATime, Consuming, Holds, Live, Away

LEMMA NackInv ==
  ASSUME Inv, NEW q \in Callers, Nack(q)
  PROVE  Inv'
<1>1. ClientTypeOK'  BY ClientTypes DEF Nack, Inv
<1>3. /\ at[q] = "nack" /\ at' = [at EXCEPT ![q] = "receive"]
      /\ hand' = [hand EXCEPT ![q] = None]
      /\ msgs' = msgs \/ msgs' = [msgs EXCEPT ![hand[q]] = "ready"]
      /\ UNCHANGED <<pc, chan, open>>
      /\ UNCHANGED <<up, buffer, handled, succeeded, troubles>>
  BY DEF Nack, clientVars, shared, callers
\* Nobody else holds the message.
<1>4. hand[q] \in Messages /\ buffer[q] = None
  BY <1>3 DEF Inv, QTypeOK, OneAtATime
<1>5. \A o \in Callers : \A m \in Messages :
        m \in {hand'[o], buffer'[o]} => Holds(o, m) /\ msgs'[m] = msgs[m]
  <2>. SUFFICES ASSUME NEW o \in Callers, NEW m \in Messages, m \in {hand'[o], buffer'[o]}
       PROVE Holds(o, m) /\ msgs'[m] = msgs[m]
    OBVIOUS
  <2>1. o # q  BY <1>3, <1>4, QueueAssumption DEF Inv, QTypeOK
  <2>2. Holds(o, m)  BY <1>3, <2>1 DEF Holds, Inv, QTypeOK
  <2>3. m # hand[q]  BY <1>4, <2>1, <2>2 DEF Inv, QTypeOK, Holds
  <2>. QED BY <1>3, <2>2, <2>3 DEF Inv, QTypeOK
<1>6. msgs' \in [Messages -> {"ready", "unacked", "acked", "gone"}]
  BY <1>3 DEF Inv, QTypeOK
<1>7. \A o \in Callers : \A m \in Messages :
        m \in {hand'[o], buffer'[o]} =>
          msgs'[m] = IF up' /\ chan'[o] \in open' THEN "unacked" ELSE "ready"
  BY <1>3, <1>5 DEF Inv, HeldMessagesAreOutstanding, Live
<1>. QED
  BY <1>1, <1>3, <1>4, <1>5, <1>6, <1>7, Parts
  DEF Inv, QTypeOK, HeldMessagesAreOutstanding, OneAtATime, Consuming, Holds, Live, Away

LEMMA DieInv ==
  ASSUME Inv, up, Die
  PROVE  Inv'
<1>1. ClientTypeOK'  BY ClientTypes DEF Die, Inv
<1>3. /\ up' = FALSE
      /\ msgs' = [m \in Messages |-> IF msgs[m] # "gone" THEN "ready" ELSE msgs[m]]
      /\ troubles' = troubles + 1
      /\ UNCHANGED <<pc, chan, open>>
      /\ UNCHANGED <<at, hand, buffer, handled, succeeded>>
  BY QueueAssumption DEF Die, Requeued, clientVars, shared, callers
<1>4. \A q \in Callers : \A m \in Messages :
        m \in {hand'[q], buffer'[q]} => msgs'[m] = "ready"
  <2>. SUFFICES ASSUME NEW q \in Callers, NEW m \in Messages, Holds(q, m)
       PROVE msgs'[m] = "ready"
    BY <1>3 DEF Holds
  <2>1. msgs[m] # "gone"  BY DEF Inv, HeldMessagesAreOutstanding
  <2>. QED BY <1>3, <2>1
<1>5. msgs' \in [Messages -> {"ready", "unacked", "acked", "gone"}]
  BY <1>3 DEF Inv, QTypeOK
<1>6. \A q \in Callers : \A m \in Messages :
        m \in {hand'[q], buffer'[q]} =>
          msgs'[m] = IF up' /\ chan'[q] \in open' THEN "unacked" ELSE "ready"
  BY <1>3, <1>4
<1>7. troubles' \in Nat  BY <1>3 DEF Inv, QTypeOK
<1>. QED
  BY <1>1, <1>3, <1>5, <1>6, <1>7, Parts
  DEF Inv, QTypeOK, OneAtATime, Consuming, Holds, Away

LEMMA RestartInv ==
  ASSUME Inv, Restart
  PROVE  Inv'
<1>2. ClientTypeOK  BY DEF Inv, QTypeOK
<1>1. ClientTypeOK'
  BY <1>2, FirstIsAConn, RabbitClientAssumption DEF Restart, ClientRestart, ClientTypeOK
<1>3. /\ up' = TRUE
      /\ at' = [q \in Callers |-> "setup"]
      /\ hand' = [q \in Callers |-> None] /\ buffer' = [q \in Callers |-> None]
      /\ pc' = [q \in Callers |-> "idle"] /\ chan' = [q \in Callers |-> None]
      /\ UNCHANGED <<msgs, handled, succeeded, troubles>>
  BY DEF Restart, ClientRestart, broker
<1>. QED
  BY <1>1, <1>3, QueueAssumption, Parts
  DEF Inv, QTypeOK, HeldMessagesAreOutstanding, OneAtATime, Consuming, Holds, Live, Away

LEMMA WatchingInv ==
  ASSUME Inv, Watching
  PROVE  Inv'
<1>1. ClientTypeOK'  BY ClientTypes DEF Watching, Inv
<1>3. /\ UNCHANGED <<pc, chan, open>>
      /\ UNCHANGED <<up, at, hand, buffer, msgs, handled, succeeded, troubles>>
  BY DEF Watching, Monitor, Watch, Report, Notice, workers, broker, shared, callers
<1>. QED
  BY <1>1, <1>3, Parts
  DEF Inv, QTypeOK, HeldMessagesAreOutstanding, OneAtATime, Consuming, Holds, Live, Away

LEMMA NextInv == Inv /\ [Next]_vars => Inv'
<1>. SUFFICES ASSUME Inv, [Next]_vars PROVE Inv'  OBVIOUS
<1>1. ASSUME up, NEW q \in Callers, Worker(q) PROVE Inv'
  BY <1>1, SetupQueueInv, ReconsumeInv, ConsumeInv, ConsumedInv, ConsumeFailedInv,
     WakeInv, ReceiveInv, RouteMessageInv, AckInv, NackInv, DieInv
  DEF Worker, Panic
<1>2. ASSUME up, NEW q \in Callers, Serving(q) \/ CloseChannel(q) PROVE Inv'
  BY <1>2, SendInv, CloseChannelInv DEF Serving
<1>3. ASSUME up, Watching \/ Settling \/ Crash PROVE Inv'
  BY <1>3, WatchingInv, SettleInv, DieInv DEF Settling, Crash
<1>4. ASSUME up, NEW c \in Conns, LoseConnection(c) PROVE Inv'
  BY <1>4, LoseConnectionInv
<1>5. ASSUME Restart PROVE Inv'  BY <1>5, RestartInv
<1>6. CASE UNCHANGED vars
  <2>1. ClientTypeOK'
    BY <1>6, ClientTypes DEF Inv, vars
  <2>2. /\ UNCHANGED <<pc, chan, open, up, at, hand, buffer>>
        /\ UNCHANGED <<msgs, handled, succeeded, troubles>>
    BY <1>6 DEF vars, clientVars, shared, callers, workers, broker
  <2>. QED
    BY <2>1, <2>2, Parts
    DEF Inv, QTypeOK, HeldMessagesAreOutstanding, OneAtATime, Consuming, Holds, Live, Away
<1>. QED BY <1>1, <1>2, <1>3, <1>4, <1>5, <1>6 DEF Next

\* The invariant holds of every reachable state, whatever fails and however often.
THEOREM Invariant == Spec => []Inv
BY InitInv, NextInv, PTL DEF Spec

\* Every variable of the queue manager keeps its type.
THEOREM QueueTypeCorrect == Spec => []QTypeOK
<1>1. Inv => QTypeOK  BY DEF Inv
<1>. QED BY <1>1, Invariant, PTL

\* The broker still counts on every message that a worker holds, and on nothing
\* else from it: no message is handled by two rounds at once.
THEOREM HeldMessagesAreSafe == Spec => []HeldMessagesAreOutstanding
<1>1. Inv => HeldMessagesAreOutstanding  BY DEF Inv
<1>. QED BY <1>1, Invariant, PTL

-----------------------------------------------------------------------------
(***************************************************************************)
(* The queue manager implements AtLeastOnce for the messages of the queues *)
(* that have a handler; those of the others are acknowledged unhandled.    *)
(***************************************************************************)
Routed == {m \in Messages : Handler(QueueOf[m]) # "none"}

Pending == {m \in Messages : msgs[m] # "gone"}

RoutedConsumption == INSTANCE AtLeastOnce
  WITH Messages <- Routed, pending <- Pending \cap Routed,
       handled <- [m \in Routed |-> handled[m]],
       succeeded <- succeeded \cap Routed

\* What is acknowledged, or about to be, is what a handler has succeeded with.
SucceededFirst ==
  \A m \in Routed :
    \/ msgs[m] \in {"acked", "gone"}
    \/ at[QueueOf[m]] = "ack" /\ hand[QueueOf[m]] = m
    => m \in succeeded

\* Most steps give nothing to a handler, acknowledge nothing and remove nothing.
Passive ==
  /\ handled' = handled /\ succeeded' = succeeded
  /\ \A q \in Callers : at'[q] = "ack" => at[q] = "ack" /\ hand'[q] = hand[q]
  /\ \A m \in Messages : /\ msgs'[m] = "acked" => msgs[m] = "acked"
                         /\ msgs'[m] = "gone" <=> msgs[m] = "gone"

LEMMA PassiveKeeps ==
  ASSUME SucceededFirst, Passive
  PROVE  SucceededFirst'
<1>. SUFFICES ASSUME NEW m \in Routed,
                     \/ msgs'[m] \in {"acked", "gone"}
                     \/ at'[QueueOf[m]] = "ack" /\ hand'[QueueOf[m]] = m
              PROVE  m \in succeeded'
  BY DEF SucceededFirst, Routed
<1>1. m \in Messages /\ QueueOf[m] \in Callers
  BY QueueAssumption DEF Routed
<1>2. \/ msgs[m] \in {"acked", "gone"}
      \/ at[QueueOf[m]] = "ack" /\ hand[QueueOf[m]] = m
  BY <1>1 DEF Passive
<1>. QED BY <1>2 DEF SucceededFirst, Passive

LEMMA Quiet ==
  ASSUME Inv, UNCHANGED <<handled, succeeded>>,
         \/ msgs' = msgs
         \/ \E m \in Messages : msgs[m] # "gone" /\ msgs' = [msgs EXCEPT ![m] = "unacked"]
         \/ \E m \in Messages : msgs[m] # "gone" /\ msgs' = [msgs EXCEPT ![m] = "ready"]
         \/ \E qs \in SUBSET Callers : msgs' = Requeued(qs),
         \/ at' = at /\ hand' = hand
         \/ \E q \in Callers, l \in {"receive", "route", "reconsume", "sleep"} :
              /\ at' = [at EXCEPT ![q] = l]
              /\ \A o \in Callers \ {q} : hand'[o] = hand[o]
         \/ at' = [q \in Callers |-> "setup"]
  PROVE  Passive
<1>1. \A q \in Callers : at'[q] = "ack" => at[q] = "ack" /\ hand'[q] = hand[q]
  BY DEF Inv, QTypeOK
<1>2. \A m \in Messages : /\ msgs'[m] = "acked" => msgs[m] = "acked"
                          /\ msgs'[m] = "gone" <=> msgs[m] = "gone"
  BY DEF Inv, QTypeOK, Requeued
<1>. QED BY <1>1, <1>2 DEF Passive

LEMMA PassiveSteps ==
  ASSUME Inv, [Next]_vars
  PROVE  \/ Passive
         \/ \E q \in Callers : RouteMessage(q) \/ Ack(q)
         \/ \E m \in Messages : Settle(m)
<1>1. ASSUME NEW q \in Callers, SetupQueue(q) \/ Consume(q) PROVE Passive
  BY <1>1, Quiet DEF SetupQueue, Consume, workers, broker
<1>2. ASSUME NEW q \in Callers, Reconsume(q) PROVE Passive
  BY <1>2, Quiet DEF Reconsume, broker
<1>3. ASSUME NEW q \in Callers, Consumed(q) PROVE Passive
  BY <1>3, Quiet DEF Consumed, broker
<1>4. ASSUME NEW q \in Callers, ConsumeFailed(q) PROVE Passive
  BY <1>4, Quiet DEF ConsumeFailed, broker
<1>5. ASSUME NEW q \in Callers, Wake(q) PROVE Passive
  BY <1>5, Quiet DEF Wake, broker
<1>6. ASSUME NEW q \in Callers, Receive(q) PROVE Passive
  <2>1. /\ at' = [at EXCEPT ![q] = "route"] /\ UNCHANGED <<msgs, handled, succeeded>>
        /\ hand' = [hand EXCEPT ![q] = buffer[q]]
    BY <1>6 DEF Receive, broker
  <2>2. \A o \in Callers \ {q} : hand'[o] = hand[o]  BY <2>1 DEF Inv, QTypeOK
  <2>. QED BY <2>1, <2>2, Quiet
<1>7. ASSUME NEW q \in Callers, Nack(q) PROVE Passive
  <2>1. /\ at[q] = "nack" /\ at' = [at EXCEPT ![q] = "receive"]
        /\ UNCHANGED <<handled, succeeded>>
        /\ hand' = [hand EXCEPT ![q] = None]
        /\ msgs' = msgs \/ msgs' = [msgs EXCEPT ![hand[q]] = "ready"]
    BY <1>7 DEF Nack
  <2>2. \A o \in Callers \ {q} : hand'[o] = hand[o]  BY <2>1 DEF Inv, QTypeOK
  <2>3. hand[q] \in Messages /\ msgs[hand[q]] # "gone"
    BY <2>1 DEF Inv, QTypeOK, HeldMessagesAreOutstanding, Holds
  <2>. QED BY <2>1, <2>2, <2>3, Quiet
<1>8. ASSUME NEW q \in Callers, NEW m \in Messages, Send(q, m) PROVE Passive
  BY <1>8, Quiet DEF Send
<1>9. ASSUME NEW q \in Callers, CloseChannel(q) PROVE Passive
  <2>1. {q} \in SUBSET Callers  OBVIOUS
  <2>. QED BY <1>9, <2>1, Quiet DEF CloseChannel, workers
<1>10. ASSUME NEW c \in Conns, LoseConnection(c) PROVE Passive
  <2>1. {q \in Callers : chan[q] = c} \in SUBSET Callers  OBVIOUS
  <2>. QED BY <1>10, <2>1, Quiet DEF LoseConnection, workers
<1>11. ASSUME Die PROVE Passive
  <2>1. Callers \in SUBSET Callers  OBVIOUS
  <2>. QED BY <1>11, <2>1, Quiet DEF Die
<1>12. ASSUME Restart PROVE Passive
  BY <1>12, Quiet DEF Restart, broker
<1>13. ASSUME Watching \/ UNCHANGED vars PROVE Passive
  BY <1>13, Quiet DEF Watching, vars, workers, broker
<1>. QED
  BY <1>1, <1>2, <1>3, <1>4, <1>5, <1>6, <1>7, <1>8, <1>9, <1>10, <1>11, <1>12, <1>13
  DEF Next, Worker, Serving, Settling, Crash, Panic

\* The message a worker holds is neither acknowledged nor gone.
LEMMA HeldIsPending ==
  ASSUME Inv, NEW q \in Callers, at[q] \in {"route", "ack", "nack"}
  PROVE  hand[q] \in Messages /\ msgs[hand[q]] \notin {"acked", "gone"}
BY DEF Inv, QTypeOK, HeldMessagesAreOutstanding, Holds

\* What RouteMessage does: if there is a handler, it counts a handling, and the
\* message is to be acknowledged only if that has succeeded.
LEMMA RouteEffect ==
  ASSUME Inv, NEW q \in Callers, RouteMessage(q)
  PROVE  /\ hand[q] \in Pending /\ msgs[hand[q]] \notin {"acked", "gone"}
         /\ QueueOf[hand[q]] = q
         /\ handled' = IF hand[q] \in Routed
                       THEN [handled EXCEPT ![hand[q]] = @ + 1] ELSE handled
         /\ succeeded' = succeeded \/ succeeded' = succeeded \cup {hand[q]}
         /\ hand[q] \notin Routed => succeeded' = succeeded
         /\ hand[q] \in Routed /\ at'[q] = "ack" => hand[q] \in succeeded'
         /\ UNCHANGED <<msgs, hand>>
         /\ \A o \in Callers \ {q} : at'[o] = at[o]
<1>1. at[q] = "route"  BY DEF RouteMessage
<1>2. hand[q] \in Messages /\ msgs[hand[q]] \notin {"acked", "gone"}
  BY <1>1, HeldIsPending
<1>3. QueueOf[hand[q]] = q  BY <1>2 DEF Inv, QTypeOK, Holds
<1>4. hand[q] \in Routed <=> Handler(q) # "none"  BY <1>2, <1>3 DEF Routed
<1>5. handled' = IF Handler(q) = "none" THEN handled
                 ELSE [handled EXCEPT ![hand[q]] = @ + 1]
  BY DEF RouteMessage
<1>6. UNCHANGED <<msgs, hand>> /\ \A o \in Callers \ {q} : at'[o] = at[o]
  BY DEF RouteMessage, Inv, QTypeOK
<1>7. \/ succeeded' = IF Handler(q) = "none" THEN succeeded
                      ELSE succeeded \cup {hand[q]}
      \/ Handler(q) # "none" /\ succeeded' = succeeded /\ at'[q] # "ack"
  BY DEF RouteMessage, Inv, QTypeOK
<1>8. succeeded' = succeeded \/ succeeded' = succeeded \cup {hand[q]}
  BY <1>7
<1>9. hand[q] \notin Routed => succeeded' = succeeded
  BY <1>4, <1>7
<1>10. hand[q] \in Routed /\ at'[q] = "ack" => hand[q] \in succeeded'
  BY <1>4, <1>7
<1>. QED BY <1>2, <1>3, <1>4, <1>5, <1>6, <1>8, <1>9, <1>10 DEF Pending

LEMMA SucceededFirstNext ==
  ASSUME Inv, SucceededFirst, [Next]_vars
  PROVE  SucceededFirst'
<1>0. /\ hand \in [Callers -> Messages \cup {None}]
      /\ msgs \in [Messages -> {"ready", "unacked", "acked", "gone"}]
      /\ at \in [Callers -> {"setup", "receive", "route", "ack", "nack",
                             "reconsume", "sleep"}]
      /\ \A m \in Routed : m \in Messages /\ QueueOf[m] \in Callers
  BY QueueAssumption DEF Inv, QTypeOK, Routed
<1>1. CASE Passive  BY <1>1, PassiveKeeps
<1>2. ASSUME NEW q \in Callers, RouteMessage(q) PROVE SucceededFirst'
  <2>. SUFFICES ASSUME NEW m \in Routed,
                       \/ msgs'[m] \in {"acked", "gone"}
                       \/ at'[QueueOf[m]] = "ack" /\ hand'[QueueOf[m]] = m
                PROVE  m \in succeeded'
    BY DEF SucceededFirst, Routed
  <2>1. CASE m = hand[q]  BY <1>0, <1>2, <2>1, RouteEffect
  <2>2. CASE m # hand[q]
    <3>1. \/ msgs[m] \in {"acked", "gone"}
          \/ at[QueueOf[m]] = "ack" /\ hand[QueueOf[m]] = m
      BY <1>0, <1>2, <2>2, RouteEffect
    <3>2. m \in succeeded  BY <3>1 DEF SucceededFirst
    <3>. QED BY <1>2, <3>2, RouteEffect
  <2>. QED BY <2>1, <2>2
<1>3. ASSUME NEW q \in Callers, Ack(q) PROVE SucceededFirst'
  <2>1. /\ at[q] = "ack" /\ at' = [at EXCEPT ![q] = "receive"]
        /\ hand' = [hand EXCEPT ![q] = None] /\ succeeded' = succeeded
        /\ msgs' = msgs \/ msgs' = [msgs EXCEPT ![hand[q]] = "acked"]
    BY <1>3 DEF Ack
  <2>2. hand[q] \in Messages /\ QueueOf[hand[q]] = q
    BY <2>1, HeldIsPending DEF Inv, QTypeOK, Holds
  <2>. QED BY <1>0, <2>1, <2>2 DEF SucceededFirst, Routed
<1>4. ASSUME NEW m \in Messages, Settle(m) PROVE SucceededFirst'
  BY <1>0, <1>4 DEF Settle, workers, SucceededFirst, Routed
<1>. QED BY <1>1, <1>2, <1>3, <1>4, PassiveSteps

\* What a step is for AtLeastOnce: it gives a pending message that is routed to its
\* handler, removes a pending one (if it is routed, one that has succeeded), or
\* does neither.
Handles(m) ==
  /\ handled' = [handled EXCEPT ![m] = @ + 1]
  /\ succeeded' = succeeded \/ succeeded' = succeeded \cup {m}
  /\ UNCHANGED Pending

Removes(m) ==
  /\ m \in Routed => m \in succeeded
  /\ Pending' = Pending \ {m}
  /\ UNCHANGED <<handled, succeeded>>

LEMMA StepOnMessages ==
  ASSUME Inv, SucceededFirst, [Next]_vars
  PROVE  \/ UNCHANGED <<Pending, handled, succeeded>>
         \/ \E m \in Pending \cap Routed : Handles(m)
         \/ \E m \in Pending : Removes(m)
<1>1. CASE Passive
  BY <1>1 DEF Passive, Pending
<1>2. ASSUME NEW q \in Callers, RouteMessage(q)
      PROVE  \/ UNCHANGED <<Pending, handled, succeeded>>
             \/ \E m \in Pending \cap Routed : Handles(m)
  <2>1. UNCHANGED Pending  BY <1>2, RouteEffect DEF Pending
  <2>2. CASE hand[q] \in Routed
    <3>1. Handles(hand[q])  BY <1>2, <2>1, <2>2, RouteEffect DEF Handles
    <3>. QED BY <1>2, <2>2, <3>1, RouteEffect
  <2>3. CASE hand[q] \notin Routed  BY <1>2, <2>1, <2>3, RouteEffect
  <2>. QED BY <2>2, <2>3
<1>3. ASSUME NEW q \in Callers, Ack(q)
      PROVE  UNCHANGED <<Pending, handled, succeeded>>
  <2>1. /\ at[q] = "ack" /\ UNCHANGED <<handled, succeeded>>
        /\ msgs' = msgs \/ msgs' = [msgs EXCEPT ![hand[q]] = "acked"]
    BY <1>3 DEF Ack
  <2>2. hand[q] \in Messages /\ msgs[hand[q]] # "gone"  BY <2>1, HeldIsPending
  <2>. QED BY <2>1, <2>2 DEF Inv, QTypeOK, Pending
<1>4. ASSUME NEW m \in Messages, Settle(m)
      PROVE  m \in Pending /\ Removes(m)
  <2>1. /\ msgs[m] = "acked" /\ msgs' = [msgs EXCEPT ![m] = "gone"]
        /\ UNCHANGED <<handled, succeeded>>
    BY <1>4 DEF Settle
  <2>2. m \in Pending /\ (m \in Routed => m \in succeeded)
    BY <2>1 DEF SucceededFirst, Pending
  <2>3. Pending' = Pending \ {m}  BY <2>1 DEF Inv, QTypeOK, Pending
  <2>. QED BY <2>1, <2>2, <2>3 DEF Removes
<1>. QED BY <1>1, <1>2, <1>3, <1>4, PassiveSteps

LEMMA InitRefines == Init => Consumption!Init /\ RoutedConsumption!Init /\ SucceededFirst
<1>. SUFFICES ASSUME Init
     PROVE Consumption!Init /\ RoutedConsumption!Init /\ SucceededFirst
  OBVIOUS
<1>1. msgs = [m \in Messages |-> "ready"] /\ handled = [m \in Messages |-> 0]
      /\ succeeded = {} /\ at = [q \in Callers |-> "setup"]
  BY DEF Init
<1>2. Consumption!Init  BY <1>1 DEF Consumption!Init
<1>3. RoutedConsumption!Init  BY <1>1 DEF RoutedConsumption!Init, Routed, Pending
<1>4. SucceededFirst  BY <1>1, QueueAssumption DEF SucceededFirst, Routed
<1>. QED BY <1>2, <1>3, <1>4

LEMMA AlwaysSucceededFirst == Spec => [](Inv /\ SucceededFirst)
<1>1. Inv /\ SucceededFirst /\ [Next]_vars => SucceededFirst'
  BY SucceededFirstNext
<1>. QED BY <1>1, InitRefines, Invariant, PTL DEF Spec

\* Every step is one of AtLeastOnce, restricted to the routed messages, or none.
LEMMA StepRefinesRouted ==
  ASSUME Inv, Inv', SucceededFirst, [Next]_vars
  PROVE  [RoutedConsumption!Next]_<<Pending \cap Routed, [m \in Routed |-> handled[m]],
                                    succeeded \cap Routed>>
<1>. DEFINE Count == [m \in Routed |-> handled[m]]
         Done == \/ RoutedConsumption!Next
                 \/ UNCHANGED <<Pending \cap Routed, Count, succeeded \cap Routed>>
<1>0. handled \in [Messages -> Nat] /\ Routed \subseteq Messages /\ Routed' = Routed
  BY DEF Inv, QTypeOK, Routed
<1>1. ASSUME UNCHANGED <<Pending, handled, succeeded>> PROVE Done
  <2>1. UNCHANGED <<Pending \cap Routed, Count, succeeded \cap Routed>>  BY <1>0, <1>1
  <2>. QED BY <2>1
<1>2. ASSUME NEW m \in Pending \cap Routed, Handles(m) PROVE Done
  <2>1. Count' = [Count EXCEPT ![m] = @ + 1]  BY <1>0, <1>2 DEF Handles
  <2>2. UNCHANGED (Pending \cap Routed)  BY <1>0, <1>2 DEF Handles
  <2>3. CASE succeeded' = succeeded
    <3>1. (succeeded \cap Routed)' = succeeded \cap Routed  BY <1>0, <2>3
    <3>2. RoutedConsumption!Handle(m, FALSE)
      BY <2>1, <2>2, <3>1 DEF RoutedConsumption!Handle
    <3>. QED BY <3>2 DEF RoutedConsumption!Next
  <2>4. CASE succeeded' = succeeded \cup {m}
    <3>1. (succeeded \cap Routed)' = (succeeded \cap Routed) \cup {m}  BY <1>0, <2>4
    <3>2. RoutedConsumption!Handle(m, TRUE)
      BY <2>1, <2>2, <3>1 DEF RoutedConsumption!Handle
    <3>. QED BY <3>2 DEF RoutedConsumption!Next
  <2>. QED BY <1>2, <2>3, <2>4 DEF Handles
<1>3. ASSUME NEW m \in Pending, Removes(m) PROVE Done
  <2>1. Count' = Count  BY <1>0, <1>3 DEF Removes
  <2>2. (succeeded \cap Routed)' = succeeded \cap Routed  BY <1>0, <1>3 DEF Removes
  <2>3. CASE m \in Routed
    <3>1. m \in succeeded \cap Routed  BY <1>3, <2>3 DEF Removes
    <3>2. (Pending \cap Routed)' = (Pending \cap Routed) \ {m}
      BY <1>0, <1>3 DEF Removes
    <3>3. RoutedConsumption!Remove(m)
      BY <1>3, <2>1, <2>2, <2>3, <3>1, <3>2 DEF RoutedConsumption!Remove
    <3>. QED BY <2>3, <3>3 DEF RoutedConsumption!Next
  <2>4. CASE m \notin Routed
    <3>1. (Pending \cap Routed)' = Pending \cap Routed
      BY <1>0, <1>3, <2>4 DEF Removes
    <3>. QED BY <2>1, <2>2, <3>1
  <2>. QED BY <2>3, <2>4
<1>. HIDE DEF Done
<1>4. Done  BY <1>1, <1>2, <1>3, StepOnMessages
<1>. QED BY <1>4 DEF Done

LEMMA StepRefines ==
  ASSUME Inv, Routed = Messages, SucceededFirst, [Next]_vars
  PROVE  [Consumption!Next]_<<Pending, handled, succeeded>>
<1>1. ASSUME NEW m \in Pending, Handles(m) PROVE Consumption!Next
  <2>1. \/ Consumption!Handle(m, TRUE)
        \/ Consumption!Handle(m, FALSE)
    BY <1>1 DEF Handles, Consumption!Handle, Pending
  <2>. QED BY <2>1 DEF Consumption!Next, Pending
<1>2. ASSUME NEW m \in Pending, Removes(m) PROVE Consumption!Next
  <2>1. Consumption!Remove(m)
    BY <1>2 DEF Removes, Consumption!Remove, Pending
  <2>. QED BY <2>1 DEF Consumption!Next, Pending
<1>. QED BY <1>1, <1>2, StepOnMessages

\* Whatever queues there are, and however connections, channels and the process
\* fail: a message of a queue that RouteMessage has a branch for is removed from
\* it only after a handler has had it without an error, and is given to none
\* after that (rabbitmq_pub_sub.go:164-191, 202-232).
THEOREM RoutedMessagesAreHandled == Spec => RoutedConsumption!Spec
<1>1. Inv /\ Inv' /\ SucceededFirst /\ [Next]_vars
        => [RoutedConsumption!Next]_<<Pending \cap Routed, [m \in Routed |-> handled[m]],
                                      succeeded \cap Routed>>
  BY StepRefinesRouted
<1>. QED
  BY <1>1, AlwaysSucceededFirst, InitRefines, PTL DEF Spec, RoutedConsumption!Spec

\* If there is a branch for every queue, a message is removed from its queue only
\* after a handler has succeeded with it, and is given to none after that, whatever
\* fails.
THEOREM ImplementsAtLeastOnce ==
  ASSUME Routed = Messages
  PROVE  Spec => ConsumesAtLeastOnce
<1>1. Inv /\ SucceededFirst /\ [Next]_vars
        => [Consumption!Next]_<<Pending, handled, succeeded>>
  BY StepRefines
<1>2. Pending = {m \in Messages : msgs[m] # "gone"}
  BY DEF Pending
<1>. QED
  BY <1>1, <1>2, AlwaysSucceededFirst, InitRefines, PTL
  DEF Spec, ConsumesAtLeastOnce, Consumption!Spec, Pending

-----------------------------------------------------------------------------
(***************************************************************************)
(* Why every redelivery has a cause.  A message has at most two handlings  *)
(* to come: one that its worker is about to begin, and one that follows    *)
(* from its being in the queue, or on its way back.  With those already    *)
(* done they never exceed what the faults so far account for.              *)
(***************************************************************************)
Begun(m) ==
  LET q == QueueOf[m] IN
  \/ buffer[q] = m
  \/ hand[q] = m /\ at[q] = "route"

Again(m) ==
  LET q == QueueOf[m] IN
  \/ msgs[m] = "ready"
  \/ msgs[m] = "unacked" /\ hand[q] = m /\ at[q] = "nack"

ToCome(m) == (IF Begun(m) THEN 1 ELSE 0) + (IF Again(m) THEN 1 ELSE 0)

Accounted == \A m \in Messages : handled[m] + ToCome(m) <= 1 + lost + troubles

Numbers ==
  /\ lost \in Int /\ troubles \in Int /\ lost' \in Int /\ troubles' \in Int
  /\ \A m \in Messages : handled[m] \in Int

Kept   == lost' + troubles' >= lost + troubles
Raised == lost' + troubles' > lost + troubles

LEMMA CountTypes ==
  ASSUME Inv, Inv'
  PROVE  Numbers
<1>1. lost \in Int  BY RabbitClientAssumption DEF Inv, QTypeOK, ClientTypeOK
<1>2. lost' \in Int  BY RabbitClientAssumption DEF Inv, QTypeOK, ClientTypeOK
<1>. QED BY <1>1, <1>2 DEF Inv, QTypeOK, Numbers

\* A step that handles nothing and brings no message back without a fault.
LEMMA Calm ==
  ASSUME Numbers, Accounted, handled' = handled, Kept,
         \A m \in Messages : /\ Begun(m)' => Begun(m)
                             /\ Again(m)' => Again(m) \/ Raised
  PROVE  Accounted'
<1>. SUFFICES ASSUME NEW m \in Messages
     PROVE handled[m] + ToCome(m)' <= 1 + lost' + troubles'
  BY DEF Accounted
<1>1. PICK l \in Int : lost' = l  BY DEF Numbers
<1>2. PICK t \in Int : troubles' = t  BY DEF Numbers
<1>3. PICK x \in Int : ToCome(m)' = x  BY DEF ToCome
<1>4. PICK y \in Int : ToCome(m) = y  BY DEF ToCome
<1>5. handled[m] + y <= 1 + lost + troubles  BY <1>4 DEF Accounted
<1>6. l + t >= lost + troubles  BY <1>1, <1>2 DEF Kept
<1>7. CASE Again(m)' => Again(m)
  <2>1. x <= y  BY <1>3, <1>4, <1>7 DEF ToCome
  <2>2. handled[m] + x <= 1 + l + t  BY <1>5, <1>6, <2>1 DEF Numbers
  <2>. QED BY <1>1, <1>2, <1>3, <2>2
<1>8. CASE Raised
  <2>1. x <= y + 1  BY <1>3, <1>4 DEF ToCome
  <2>2. l + t > lost + troubles  BY <1>1, <1>2, <1>8 DEF Raised
  <2>3. handled[m] + x <= 1 + l + t  BY <1>5, <2>1, <2>2 DEF Numbers
  <2>. QED BY <1>1, <1>2, <1>3, <2>3
<1>. QED BY <1>7, <1>8

\* Only a lost connection is counted as one.
LEMMA LostIsKept ==
  ASSUME \/ Monitor
         \/ \E q \in Callers : Call(q) \/ Step(q) \/ Return(q)
  PROVE  lost' = lost
<1>1. ASSUME NEW q \in Callers, Call(q) \/ Step(q) \/ Return(q) PROVE lost' = lost
  BY <1>1 DEF Call, Step, Return, Select, CheckConnected, Reconnect, ReadReconnects,
     WriteReconnects, Connect, Refuse, OpenChannel, Declare, faults
<1>2. ASSUME Monitor PROVE lost' = lost
  BY <1>2 DEF Monitor, Watch, Report, Notice, faults
<1>. QED BY <1>1, <1>2

\* The steps that leave the messages and the workers' hands alone.
LEMMA Unmoved ==
  ASSUME Inv, Inv', Accounted,
         UNCHANGED <<hand, msgs, handled, troubles, lost>>,
         \A q \in Callers : buffer'[q] # None => buffer'[q] = buffer[q],
         \A q \in Callers : hand[q] # None => at'[q] = at[q]
  PROVE  Accounted'
<1>1. \A m \in Messages : Begun(m)' => Begun(m)
  BY QueueAssumption DEF Begun, Inv, QTypeOK
<1>2. \A m \in Messages : Again(m)' => Again(m)
  BY QueueAssumption DEF Again, Inv, QTypeOK
<1>3. Numbers  BY CountTypes
<1>4. Kept  BY <1>3 DEF Numbers, Kept
<1>. QED BY <1>1, <1>2, <1>3, <1>4, Calm

\* The steps that requeue, each counted as a fault.
LEMMA Faulty ==
  ASSUME Numbers, Accounted, UNCHANGED <<at, hand, buffer, handled>>, Raised
  PROVE  Accounted'
<1>1. \A m \in Messages : Begun(m)' => Begun(m)  BY DEF Begun
<1>2. Kept
  <2>1. PICK l \in Int : lost' = l  BY DEF Numbers
  <2>2. PICK t \in Int : troubles' = t  BY DEF Numbers
  <2>3. l + t > lost + troubles  BY <2>1, <2>2 DEF Raised
  <2>4. l + t >= lost + troubles  BY <2>3 DEF Numbers
  <2>. QED BY <2>1, <2>2, <2>4 DEF Kept
<1>. QED BY <1>1, <1>2, Calm

LEMMA AccountedNext ==
  ASSUME Inv, Inv', Accounted, [Next]_vars
  PROVE  Accounted'
<1>0. Numbers  BY CountTypes
<1>1. ASSUME NEW q \in Callers, SetupQueue(q) \/ Consume(q) PROVE Accounted'
  BY <1>1, LostIsKept, Unmoved DEF SetupQueue, Consume, workers, broker
<1>2. ASSUME NEW q \in Callers, Reconsume(q) PROVE Accounted'
  <2>1. /\ Call(q) /\ at[q] = "receive" /\ at' = [at EXCEPT ![q] = "reconsume"]
        /\ buffer' = [buffer EXCEPT ![q] = None]
        /\ UNCHANGED <<hand, msgs, handled, troubles>>
    BY <1>2 DEF Reconsume, broker
  <2>2. lost' = lost  BY <2>1, LostIsKept
  <2>. QED BY <2>1, <2>2, Unmoved DEF Inv, QTypeOK
<1>3. ASSUME NEW q \in Callers, Consumed(q) PROVE Accounted'
  <2>1. /\ pc[q] = "ok" /\ at' = [at EXCEPT ![q] = "receive"]
        /\ UNCHANGED <<hand, buffer, msgs, handled, troubles, lost>>
    BY <1>3 DEF Consumed, broker, faults
  <2>. QED BY <2>1, Unmoved DEF Inv, QTypeOK
<1>4. ASSUME NEW q \in Callers, ConsumeFailed(q) PROVE Accounted'
  <2>1. /\ Return(q) /\ at[q] = "reconsume" /\ at' = [at EXCEPT ![q] = "sleep"]
        /\ UNCHANGED <<hand, buffer, msgs, handled, troubles>>
    BY <1>4 DEF ConsumeFailed, broker
  <2>2. lost' = lost  BY <2>1, LostIsKept
  <2>. QED BY <2>1, <2>2, Unmoved DEF Inv, QTypeOK
<1>5. ASSUME NEW q \in Callers, Wake(q) PROVE Accounted'
  <2>1. /\ at[q] = "sleep" /\ at' = [at EXCEPT ![q] = "receive"]
        /\ UNCHANGED <<hand, buffer, msgs, handled, troubles, lost>>
    BY <1>5 DEF Wake, broker, clientVars, faults
  <2>. QED BY <2>1, Unmoved DEF Inv, QTypeOK
<1>6. ASSUME NEW q \in Callers, Receive(q) PROVE Accounted'
  <2>1. /\ at[q] = "receive" /\ at' = [at EXCEPT ![q] = "route"]
        /\ hand' = [hand EXCEPT ![q] = buffer[q]]
        /\ buffer' = [buffer EXCEPT ![q] = None]
        /\ UNCHANGED <<msgs, handled, troubles, lost>>
    BY <1>6 DEF Receive, broker, clientVars, faults
  <2>2. ASSUME NEW m \in Messages, Begun(m)' PROVE Begun(m)
    <3>1. QueueOf[m] \in Callers /\ m # None  BY QueueAssumption
    <3>2. CASE QueueOf[m] = q
      <4>1. buffer'[q] = None /\ hand'[q] = buffer[q]
        BY <2>1 DEF Inv, QTypeOK
      <4>. QED BY <2>2, <3>1, <3>2, <4>1 DEF Begun
    <3>3. CASE QueueOf[m] # q
      <4>1. /\ buffer'[QueueOf[m]] = buffer[QueueOf[m]]
            /\ hand'[QueueOf[m]] = hand[QueueOf[m]]
            /\ at'[QueueOf[m]] = at[QueueOf[m]]
        BY <2>1, <3>1, <3>3 DEF Inv, QTypeOK
      <4>. QED BY <2>2, <4>1 DEF Begun
    <3>. QED BY <3>2, <3>3
  <2>3. \A m \in Messages : Again(m)' => Again(m)
    BY <2>1, QueueAssumption DEF Again, Inv, QTypeOK
  <2>. QED BY <1>0, <2>1, <2>2, <2>3, Calm DEF Numbers, Kept
<1>7. ASSUME NEW q \in Callers, RouteMessage(q) PROVE Accounted'
  <2>1. /\ at[q] = "route" /\ UNCHANGED <<hand, buffer, msgs, lost>>
        /\ handled' = handled \/ handled' = [handled EXCEPT ![hand[q]] = @ + 1]
        /\ \/ at' = [at EXCEPT ![q] = "ack"] /\ troubles' = troubles
           \/ at' = [at EXCEPT ![q] = "nack"] /\ troubles' = troubles + 1
    BY <1>7 DEF RouteMessage, clientVars, faults
  <2>. SUFFICES ASSUME NEW m \in Messages
       PROVE handled'[m] + ToCome(m)' <= 1 + lost + troubles'
    BY <2>1 DEF Accounted
  <2>2. handled[m] + ToCome(m) <= 1 + lost + troubles  BY DEF Accounted
  <2>3. ToCome(m) \in Int /\ ToCome(m)' \in Int  BY DEF ToCome
  <2>4. CASE m = hand[q]
    <3>1. QueueOf[m] = q  BY <2>4 DEF Inv, QTypeOK, Holds
    <3>2. Begun(m) /\ ~Begun(m)'
      BY <2>1, <2>4, <3>1 DEF Begun, Inv, QTypeOK, OneAtATime
    <3>3. Again(m)' => Again(m) \/ at'[q] = "nack"
      BY <2>1, <2>4, <3>1 DEF Again, Inv, QTypeOK
    <3>4. handled'[m] <= handled[m] + 1 /\ handled'[m] \in Int
      BY <1>0, <2>1 DEF Inv, QTypeOK, Numbers
    <3>5. CASE troubles' = troubles /\ at'[q] # "nack"
      <4>1. ToCome(m)' <= ToCome(m) - 1  BY <3>2, <3>3, <3>5 DEF ToCome
      <4>. QED BY <1>0, <2>2, <2>3, <3>4, <3>5, <4>1 DEF Numbers
    <3>6. CASE troubles' = troubles + 1
      <4>1. ToCome(m)' <= ToCome(m)  BY <3>2 DEF ToCome
      <4>. QED BY <1>0, <2>2, <2>3, <3>4, <3>6, <4>1 DEF Numbers
    <3>. QED BY <2>1, <3>5, <3>6 DEF Inv, QTypeOK
  <2>5. CASE m # hand[q]
    <3>1. handled'[m] = handled[m]  BY <2>1, <2>5 DEF Inv, QTypeOK
    <3>2. (Begun(m)' => Begun(m)) /\ (Again(m)' => Again(m))
      BY <2>1, <2>5, QueueAssumption DEF Begun, Again, Inv, QTypeOK
    <3>3. ToCome(m)' <= ToCome(m)  BY <3>2 DEF ToCome
    <3>4. troubles' >= troubles /\ troubles' \in Int  BY <1>0, <2>1 DEF Numbers
    <3>. QED BY <1>0, <2>2, <2>3, <3>1, <3>3, <3>4 DEF Numbers
  <2>. QED BY <2>4, <2>5
<1>8. ASSUME NEW q \in Callers, Ack(q) \/ Nack(q) PROVE Accounted'
  <2>1. /\ at[q] \in {"ack", "nack"} /\ at' = [at EXCEPT ![q] = "receive"]
        /\ hand' = [hand EXCEPT ![q] = None] /\ UNCHANGED <<buffer, handled, troubles, lost>>
        /\ \/ msgs' = msgs
           \/ at[q] = "ack" /\ msgs' = [msgs EXCEPT ![hand[q]] = "acked"]
           \/ /\ at[q] = "nack" /\ chan[q] \in open
              /\ msgs' = [msgs EXCEPT ![hand[q]] = "ready"]
    BY <1>8 DEF Ack, Nack, Live, clientVars, faults
  <2>2. \A m \in Messages : Begun(m)' => Begun(m)
    BY <2>1, QueueAssumption DEF Begun, Inv, QTypeOK
  <2>3. ASSUME NEW m \in Messages, Again(m)' PROVE Again(m)
    <3>1. CASE m # hand[q]
      BY <2>1, <2>3, <3>1, QueueAssumption DEF Again, Inv, QTypeOK
    <3>2. CASE m = hand[q]
      <4>1. QueueOf[m] = q  BY <3>2 DEF Inv, QTypeOK, Holds
      <4>2. msgs[m] \in {"ready", "unacked"}
        BY <3>2 DEF Inv, HeldMessagesAreOutstanding, Holds
      <4>. QED BY <2>1, <2>3, <3>2, <4>1, <4>2, QueueAssumption DEF Again, Inv, QTypeOK
    <3>. QED BY <3>1, <3>2
  <2>. QED BY <1>0, <2>1, <2>2, <2>3, Calm DEF Numbers, Kept
<1>9. ASSUME up, NEW q \in Callers, NEW n \in Messages, Send(q, n) PROVE Accounted'
  <2>1. /\ chan[q] \in open
        /\ \A m \in Messages : QueueOf[m] = q => msgs[m] \notin {"unacked", "acked"}
        /\ msgs[n] = "ready" /\ msgs' = [msgs EXCEPT ![n] = "unacked"] /\ QueueOf[n] = q
        /\ buffer' = [buffer EXCEPT ![q] = n]
        /\ UNCHANGED <<at, hand, handled, troubles, lost>>
    BY <1>9 DEF Send, Live, clientVars, faults
  \* It is in the buffer now, and in no hand: what that held would be unacknowledged.
  <2>2. hand[q] = None
    <3>1. \A m \in Messages : ~Holds(q, m)
      BY <1>9, <2>1 DEF Inv, QTypeOK, HeldMessagesAreOutstanding, Live
    <3>. QED BY <3>1 DEF Holds, Inv, QTypeOK
  <2>. SUFFICES ASSUME NEW m \in Messages
       PROVE handled[m] + ToCome(m)' <= 1 + lost + troubles
    BY <2>1 DEF Accounted
  <2>3. handled[m] + ToCome(m) <= 1 + lost + troubles  BY DEF Accounted
  <2>4. ToCome(m) \in Int /\ ToCome(m)' \in Int  BY DEF ToCome
  <2>5. CASE m = n
    <3>1. Again(m)  BY <2>1, <2>5 DEF Again
    <3>2. ~Again(m)'
      <4>1. msgs'[m] = "unacked" /\ hand'[q] = None /\ m # None
        BY <2>1, <2>2, <2>5, QueueAssumption DEF Inv, QTypeOK
      <4>. QED BY <2>1, <2>5, <4>1 DEF Again
    <3>3. ToCome(m)' <= ToCome(m)  BY <3>1, <3>2 DEF ToCome
    <3>. QED BY <1>0, <2>3, <2>4, <3>3 DEF Numbers
  <2>6. CASE m # n
    <3>1. (Begun(m)' => Begun(m)) /\ (Again(m)' => Again(m))
      BY <2>1, <2>6, QueueAssumption DEF Begun, Again, Inv, QTypeOK
    <3>2. ToCome(m)' <= ToCome(m)  BY <3>1 DEF ToCome
    <3>. QED BY <1>0, <2>3, <2>4, <3>2 DEF Numbers
  <2>. QED BY <2>5, <2>6
<1>10. ASSUME NEW m \in Messages, Settle(m) PROVE Accounted'
  <2>1. /\ msgs' = [msgs EXCEPT ![m] = "gone"]
        /\ UNCHANGED <<at, hand, buffer, handled, troubles, lost>>
    BY <1>10 DEF Settle, workers, clientVars, faults
  <2>2. \A n \in Messages : Begun(n)' => Begun(n)  BY <2>1 DEF Begun
  <2>3. \A n \in Messages : Again(n)' => Again(n)  BY <2>1 DEF Again, Inv, QTypeOK
  <2>. QED BY <1>0, <2>1, <2>2, <2>3, Calm DEF Numbers, Kept
<1>11. ASSUME NEW c \in Conns, LoseConnection(c) PROVE Accounted'
  <2>1. /\ lost' = lost + 1
        /\ UNCHANGED <<at, hand, buffer, handled, troubles>>
    BY <1>11 DEF LoseConnection, Lose, workers
  <2>. QED BY <1>0, <2>1, Faulty DEF Numbers, Raised
<1>12. ASSUME NEW q \in Callers, CloseChannel(q) PROVE Accounted'
  <2>1. /\ troubles' = troubles + 1
        /\ UNCHANGED <<at, hand, buffer, handled, lost>>
    BY <1>12 DEF CloseChannel, workers, faults
  <2>. QED BY <1>0, <2>1, Faulty DEF Numbers, Raised
<1>13. ASSUME Die PROVE Accounted'
  <2>1. /\ troubles' = troubles + 1
        /\ UNCHANGED <<at, hand, buffer, handled, lost>>
    BY <1>13 DEF Die, clientVars, faults
  <2>. QED BY <1>0, <2>1, Faulty DEF Numbers, Raised
<1>14. ASSUME Restart PROVE Accounted'
  <2>1. /\ hand' = [q \in Callers |-> None] /\ buffer' = [q \in Callers |-> None]
        /\ UNCHANGED <<msgs, handled, troubles, lost>>
    BY <1>14 DEF Restart, ClientRestart, broker
  <2>2. \A m \in Messages : ~Begun(m)'  BY <2>1, QueueAssumption DEF Begun
  <2>3. \A m \in Messages : Again(m)' => Again(m)  BY <2>1, QueueAssumption DEF Again
  <2>. QED BY <1>0, <2>1, <2>2, <2>3, Calm DEF Numbers, Kept
<1>15. ASSUME Watching PROVE Accounted'
  <2>1. UNCHANGED <<at, hand, buffer, msgs, handled, troubles, lost>>
    BY <1>15, LostIsKept DEF Watching, workers, broker
  <2>. QED BY <2>1, Unmoved
<1>16. CASE UNCHANGED vars
  <2>1. UNCHANGED <<at, hand, buffer, msgs, handled, troubles, lost>>
    BY <1>16 DEF vars, clientVars, faults, workers, broker
  <2>. QED BY <2>1, Unmoved
<1>. QED
  BY <1>1, <1>2, <1>3, <1>4, <1>5, <1>6, <1>7, <1>8, <1>9, <1>10, <1>11, <1>12, <1>13,
     <1>14, <1>15, <1>16
  DEF Next, Worker, Serving, Settling, Crash, Panic

\* A message is handled once, and once more for each fault at the most: for each
\* connection or channel lost, handler that failed and death of the process.
THEOREM RedeliveriesHaveCauses == Spec => []RedeliveryHasACause
<1>1. Init => Accounted
  <2>. SUFFICES ASSUME Init PROVE Accounted  OBVIOUS
  <2>1. \A m \in Messages : ~Begun(m)
    BY QueueAssumption DEF Init, Begun
  <2>2. \A m \in Messages : ToCome(m) <= 1 /\ ToCome(m) \in Int
    BY <2>1 DEF ToCome
  <2>. QED BY <2>2 DEF Init, ClientInit, Accounted
<1>2. Inv /\ Inv' /\ Accounted /\ [Next]_vars => Accounted'
  BY AccountedNext
<1>3. Inv /\ Accounted => RedeliveryHasACause
  <2>. SUFFICES ASSUME Inv, Accounted, NEW m \in Messages
       PROVE handled[m] <= 1 + lost + troubles
    BY DEF RedeliveryHasACause
  <2>1. lost \in Int  BY RabbitClientAssumption DEF Inv, QTypeOK, ClientTypeOK
  <2>2. troubles \in Int /\ handled[m] \in Int  BY DEF Inv, QTypeOK
  <2>3. PICK y \in {0, 1, 2} : ToCome(m) = y  BY DEF ToCome
  <2>4. handled[m] + y <= 1 + lost + troubles  BY <2>3 DEF Accounted
  <2>. QED BY <2>1, <2>2, <2>3, <2>4
<1>. QED BY <1>1, <1>2, <1>3, Invariant, PTL DEF Spec
=============================================================================
