---------------------------- MODULE RabbitClient ----------------------------
(***************************************************************************)
(* The shared RabbitMQ client of connections/rabbitmq.go: one AMQP         *)
(* connection, used by the goroutines that publish and consume, and        *)
(* replaced by them when they learn that it is gone.                       *)
(*                                                                         *)
(* They learn it in two ways, both from the monitor goroutine that Connect *)
(* starts: an error sent on the unbuffered channel c.err, and the field    *)
(* c.connected, neither of which says which connection it is about.  Only  *)
(* Connect takes c.mu; the fields it writes are read without it.           *)
(***************************************************************************)
EXTENDS Integers, FiniteSets

CONSTANTS
  Callers,      \* goroutines that call Publish or Consume
  Conns,        \* connections; the identity of one nobody refers to is reused
  None,         \* no connection
  Constructor,  \* the function the client was made by
  MaxRetries,   \* maxRetries of NewClientWithConfig (5 in the code)
  Losses,       \* bound: connections lost
  Refusals,     \* bound: dials that the broker refuses
  Rejections    \* bound: declarations that it rejects

(***************************************************************************)
(* InitializeClient makes the client of the service with NewRabbitMQClient,*)
(* which starts no monitor and leaves maxRetries at zero.                  *)
(***************************************************************************)
ASSUME RabbitClientAssumption ==
  /\ IsFiniteSet(Callers) /\ IsFiniteSet(Conns)
  /\ Conns # {} /\ None \notin Conns
  /\ Constructor \in {"NewRabbitMQClient", "NewClient"}
  /\ MaxRetries \in Nat
  /\ Losses \in Nat /\ Refusals \in Nat /\ Rejections \in Nat

VARIABLES
  open,        \* the connections that are open
  current,     \* c.conn
  connected,   \* c.connected
  reconnects,  \* c.reconnects
  starting,    \* how many monitors have yet to read c.conn
  watchers,    \* how many monitors wait for the end of each connection
  reporting,   \* how many have cleared c.connected and have yet to send
  sending,     \* how many monitors wait for a receiver on c.err
  pc,          \* where each caller is
  after,       \* where it goes once it has reconnected
  seen,        \* the value of c.reconnects it increments
  chan,        \* the connection its channel is on
  lost,        \* how many connections have been lost
  refused,     \* how many dials have been refused
  rejected,    \* how many declarations have been rejected
  failures     \* history: dials refused since the last success

shared  == <<open, current, connected, reconnects>>
monitors == <<starting, watchers, reporting, sending>>
callers == <<pc, after, seen, chan>>
faults  == <<lost, refused, rejected, failures>>
clientVars == <<shared, monitors, callers, faults>>

maxRetries == IF Constructor = "NewClient" THEN MaxRetries ELSE 0

ClientTypeOK ==
  /\ open \subseteq Conns
  /\ current \in Conns
  /\ connected \in BOOLEAN
  /\ reconnects \in Nat
  /\ starting \in Nat
  /\ watchers \in [Conns -> Nat]
  /\ reporting \in Nat
  /\ sending \in Nat
  /\ pc \in [Callers -> {"idle", "select", "connected", "reconnect", "backoff",
                         "increment", "dial", "channel", "declare", "ok",
                         "failed", "exhausted"}]
  /\ after \in [Callers -> {"connected", "channel"}]
  /\ seen \in [Callers -> Nat]
  /\ chan \in [Callers -> Conns \cup {None}]
  /\ \A p \in Callers : pc[p] \in {"declare", "ok"} => chan[p] \in Conns
  /\ lost \in 0..Losses
  /\ refused \in 0..Refusals
  /\ rejected \in 0..Rejections
  /\ failures \in Nat

First == CHOOSE c \in Conns : TRUE

\* The constructor has dialled the first connection.
ClientInit ==
  /\ current = First
  /\ open = {First}
  /\ connected = TRUE
  /\ reconnects = 0
  /\ starting = IF Constructor = "NewClient" THEN 1 ELSE 0
  /\ watchers = [c \in Conns |-> 0]
  /\ reporting = 0
  /\ sending = 0
  /\ pc = [p \in Callers |-> "idle"]
  /\ after = [p \in Callers |-> "channel"]
  /\ seen = [p \in Callers |-> 0]
  /\ chan = [p \in Callers |-> None]
  /\ lost = 0
  /\ refused = 0
  /\ rejected = 0
  /\ failures = 0

\* The same, in a process that takes the place of one that died.
ClientRestart ==
  /\ current' = First
  /\ open' = {First}
  /\ connected' = TRUE
  /\ reconnects' = 0
  /\ starting' = IF Constructor = "NewClient" THEN 1 ELSE 0
  /\ watchers' = [c \in Conns |-> 0]
  /\ reporting' = 0
  /\ sending' = 0
  /\ pc' = [p \in Callers |-> "idle"]
  /\ after' = [p \in Callers |-> "channel"]
  /\ seen' = [p \in Callers |-> 0]
  /\ chan' = [p \in Callers |-> None]
  /\ failures' = 0
  /\ UNCHANGED <<lost, refused, rejected>>

Goto(p, label) == pc' = [pc EXCEPT ![p] = label]

-----------------------------------------------------------------------------
\* Publish and Consume begin alike.
Call(p) ==
  /\ pc[p] = "idle"
  /\ Goto(p, "select")
  /\ UNCHANGED <<shared, monitors, after, seen, chan, faults>>

\* select on c.err: it receives from a monitor that is sending, if one is.
Select(p) ==
  /\ pc[p] = "select"
  /\ \/ /\ sending > 0
        /\ sending' = sending - 1
        /\ after' = [after EXCEPT ![p] = "connected"]
        /\ Goto(p, "reconnect")
     \/ /\ sending = 0
        /\ Goto(p, "connected")
        /\ UNCHANGED <<sending, after>>
  /\ UNCHANGED <<shared, starting, watchers, reporting, seen, chan, faults>>

\* if !c.connected, read without the lock.
CheckConnected(p) ==
  /\ pc[p] = "connected"
  /\ Goto(p, IF connected THEN "channel" ELSE "reconnect")
  /\ after' = [after EXCEPT ![p] = "channel"]
  /\ UNCHANGED <<shared, monitors, seen, chan, faults>>

\* Reconnect, up to the sleep.
Reconnect(p) ==
  /\ pc[p] = "reconnect"
  /\ Goto(p, IF reconnects >= maxRetries THEN "exhausted" ELSE "backoff")
  /\ UNCHANGED <<shared, monitors, after, seen, chan, faults>>

\* c.reconnects++ without the lock: two callers may read the same value, and
\* either may write after Connect has reset it.
ReadReconnects(p) ==
  /\ pc[p] = "backoff"
  /\ seen' = [seen EXCEPT ![p] = reconnects]
  /\ Goto(p, "increment")
  /\ UNCHANGED <<shared, monitors, after, chan, faults>>

(***************************************************************************)
(* Each definition whose name ends in Mutant is the next one with a        *)
(* plausible mistake; the specification uses none of them.                 *)
(***************************************************************************)

\* The attempts are counted down, from zero.
WriteReconnectsMutant(p) ==
  /\ pc[p] = "increment"
  /\ reconnects' = seen[p] - 1
  /\ seen' = [seen EXCEPT ![p] = 0]
  /\ Goto(p, "dial")
  /\ UNCHANGED <<open, current, connected, monitors, after, chan, faults>>

WriteReconnects(p) ==
  /\ pc[p] = "increment"
  /\ reconnects' = seen[p] + 1
  /\ seen' = [seen EXCEPT ![p] = 0]
  /\ Goto(p, "dial")
  /\ UNCHANGED <<open, current, connected, monitors, after, chan, faults>>

\* The connections nobody has a reference to.
Fresh == {c \in Conns \ (open \cup {current}) :
            watchers[c] = 0 /\ \A p \in Callers : chan[p] # c}

\* A new connection that no monitor waits for, as NewRabbitMQClient makes it.
ConnectMutant(p) ==
  /\ pc[p] = "dial"
  /\ Fresh # {}
  /\ current' = CHOOSE c \in Fresh : TRUE
  /\ open' = open \cup {current'}
  /\ connected' = TRUE
  /\ reconnects' = 0
  /\ failures' = 0
  /\ Goto(p, after[p])
  /\ UNCHANGED <<monitors, after, seen, chan, lost, refused,
                 rejected>>

\* It closes the connection it replaces, whose monitor then reports a loss.
ConnectClosingMutant(p) ==
  /\ pc[p] = "dial"
  /\ Fresh # {}
  /\ current' = CHOOSE c \in Fresh : TRUE
  /\ open' = (open \ {current}) \cup {current'}
  /\ connected' = TRUE
  /\ reconnects' = 0
  /\ starting' = starting + 1
  /\ failures' = 0
  /\ Goto(p, after[p])
  /\ UNCHANGED <<watchers, reporting, sending, after, seen, chan, lost, refused,
                 rejected>>

(***************************************************************************)
(* Connect.  It replaces c.conn, and closes no connection that is still    *)
(* there; the new monitor has yet to read c.conn when Connect returns.     *)
(***************************************************************************)
Connect(p) ==
  /\ pc[p] = "dial"
  /\ Fresh # {}
  /\ current' = CHOOSE c \in Fresh : TRUE
  /\ open' = open \cup {current'}
  /\ connected' = TRUE
  /\ reconnects' = 0
  /\ starting' = starting + 1
  /\ failures' = 0
  /\ Goto(p, after[p])
  /\ UNCHANGED <<watchers, reporting, sending, after, seen, chan, lost, refused,
                 rejected>>

Refuse(p) ==
  /\ pc[p] = "dial"
  /\ refused < Refusals
  /\ refused' = refused + 1
  /\ failures' = failures + 1
  /\ Goto(p, "failed")
  /\ UNCHANGED <<shared, monitors, after, seen, chan, lost, rejected>>

\* c.conn.Channel(), under the lock.
OpenChannel(p) ==
  /\ pc[p] = "channel"
  /\ chan' = [chan EXCEPT ![p] = current]
  /\ Goto(p, IF current \in open THEN "declare" ELSE "failed")
  /\ UNCHANGED <<shared, monitors, after, seen, faults>>

\* ExchangeDeclare ... PublishWithContext or Consume, on that channel: the
\* broker may reject one of them, and the call fails on a connection that is well.
Declare(p) ==
  /\ pc[p] = "declare"
  /\ \/ /\ Goto(p, IF chan[p] \in open THEN "ok" ELSE "failed")
        /\ UNCHANGED rejected
     \/ /\ chan[p] \in open
        /\ rejected < Rejections
        /\ rejected' = rejected + 1
        /\ Goto(p, "failed")
  /\ UNCHANGED <<shared, monitors, after, seen, chan, lost, refused, failures>>

\* The call returns, and its local variables are gone.
Return(p) ==
  /\ pc[p] \in {"ok", "failed", "exhausted"}
  /\ Goto(p, "idle")
  /\ after' = [after EXCEPT ![p] = "channel"]
  /\ chan' = [chan EXCEPT ![p] = None]
  /\ UNCHANGED <<shared, monitors, seen, faults>>

-----------------------------------------------------------------------------
\* A monitor goroutine evaluates c.conn when it runs, not when it starts.
Watch ==
  /\ starting > 0
  /\ starting' = starting - 1
  /\ watchers' = [watchers EXCEPT ![current] = @ + 1]
  /\ UNCHANGED <<shared, reporting, sending, callers, faults>>

\* The monitor only logs.
NoticeMutant(c) ==
  /\ c \notin open /\ watchers[c] > 0
  /\ watchers' = [watchers EXCEPT ![c] = @ - 1]
  /\ UNCHANGED <<shared, starting, reporting, sending, callers, faults>>

\* NotifyClose fires, and c.connected is cleared.
Notice(c) ==
  /\ c \notin open /\ watchers[c] > 0
  /\ watchers' = [watchers EXCEPT ![c] = @ - 1]
  /\ connected' = FALSE
  /\ reporting' = reporting + 1
  /\ UNCHANGED <<open, current, reconnects, starting, sending, callers, faults>>

\* c.err <- err, which waits for a receiver: until one comes by, the error stays.
Report ==
  /\ reporting > 0
  /\ reporting' = reporting - 1
  /\ sending' = sending + 1
  /\ UNCHANGED <<shared, starting, watchers, callers, faults>>

Monitor == Watch \/ Report \/ \E c \in Conns : Notice(c)

\* A connection breaks.
Lose(c) ==
  /\ c \in open
  /\ lost < Losses
  /\ lost' = lost + 1
  /\ open' = open \ {c}
  /\ UNCHANGED <<current, connected, reconnects, monitors, callers, refused,
                 rejected, failures>>

\* A call on its way.
Step(p) == \/ Select(p) \/ CheckConnected(p) \/ Reconnect(p)
           \/ ReadReconnects(p) \/ WriteReconnects(p)
           \/ Connect(p) \/ Refuse(p) \/ OpenChannel(p) \/ Declare(p)

ClientNext == \/ \E p \in Callers : Call(p) \/ Step(p) \/ Return(p)
        \/ Monitor
        \/ \E c \in Conns : Lose(c)

ClientSpec == ClientInit /\ [][ClientNext]_clientVars

\* Goroutines run on, and a caller that has been served or has failed calls
\* again (processDeliveries does, every five seconds).
ClientFairSpec ==
  /\ ClientSpec
  /\ \A p \in Callers : WF_clientVars(Call(p) \/ Step(p) \/ Return(p))
  /\ WF_clientVars(Monitor)

-----------------------------------------------------------------------------
\* While c.connected says that the current connection is there and it is not,
\* some monitor is about to find out: otherwise no caller would ever reconnect
\* (rabbitmq.go:231-235, 262-277).
LossIsNoticed ==
  connected /\ current \notin open => starting > 0 \/ watchers[current] > 0

\* "max reconnection attempts (%d) reached" (rabbitmq.go:243): the client will not
\* reconnect any more only if that many attempts have failed in a row.  Of
\* two callers, the increment of one that overtakes the reset in the Connect of the
\* other counts an attempt made before it (rabbitmq.go:228, 254).
GivesUpAfterFailures ==
  reconnects >= maxRetries /\ (\A p \in Callers : pc[p] \notin {"increment", "dial"})
    => failures >= maxRetries

\* After a loss, a caller that goes on calling is always served again, although
\* some dials are refused, fewer than maxRetries, and the callers hinder each
\* other (rabbitmq.go:190, "automatic reconnection").
AlwaysServedAgain == \A p \in Callers : []<>(pc[p] = "ok")

\* A stale error on c.err makes a caller replace a connection that is well, and
\* its monitor may send another: but when connections are no longer lost, the
\* reconnections come to an end too (rabbitmq.go:231-235, 262-277).
ReconnectionsEnd == <>[](\A p \in Callers : pc[p] # "dial")
=============================================================================
