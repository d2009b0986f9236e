------------------------- MODULE RabbitClientProofs -------------------------
(***************************************************************************)
(* Theorems about RabbitClient, for any number of callers, connections,    *)
(* losses and refusals: its types, that the loss of the current            *)
(* connection never goes unnoticed by a client that NewClient has made,    *)
(* and that one caller alone does not exhaust the retries too early.       *)
(***************************************************************************)
EXTENDS RabbitClient, TLAPS

(***************************************************************************)
(* Why the loss is noticed: a client that believes in its connection has a *)
(* monitor, whether or not the connection is still there, for a monitor    *)
(* leaves only by clearing the belief.                                     *)
(***************************************************************************)
Monitored == connected => starting > 0 \/ watchers[current] > 0

LEMMA FirstIsAConn == First \in Conns
BY RabbitClientAssumption DEF First

LEMMA FreshIsAConn ==
  ASSUME Fresh # {}
  PROVE  (CHOOSE c \in Fresh : TRUE) \in Conns
BY DEF Fresh

LEMMA ClientInitTypeOK == ClientInit => ClientTypeOK
BY FirstIsAConn, RabbitClientAssumption DEF ClientInit, ClientTypeOK

\* A caller's step keeps the types.
LEMMA StepTypeOK ==
  ASSUME ClientTypeOK, NEW p \in Callers, Call(p) \/ Step(p) \/ Return(p)
  PROVE  ClientTypeOK'
<1>. USE DEF ClientTypeOK, Goto, shared, monitors, callers, faults
<1>1. CASE Call(p)          BY <1>1 DEF Call
<1>2. CASE Select(p)        BY <1>2 DEF Select
<1>3. CASE CheckConnected(p) BY <1>3 DEF CheckConnected
<1>4. CASE Reconnect(p)     BY <1>4 DEF Reconnect
<1>5. CASE ReadReconnects(p) BY <1>5 DEF ReadReconnects
<1>6. CASE WriteReconnects(p) BY <1>6 DEF WriteReconnects
<1>7. CASE Connect(p)
  <2>1. current' \in Conns  BY <1>7, FreshIsAConn DEF Connect
  <2>2. open' \subseteq Conns  BY <1>7, <2>1 DEF Connect
  <2>3. starting' \in Nat  BY <1>7 DEF Connect
  <2>4. pc' \in [Callers -> {"idle", "select", "connected", "reconnect", "backoff",
                            "increment", "dial", "channel", "declare", "ok",
                            "failed", "exhausted"}]
    BY <1>7 DEF Connect
  <2>5. \A o \in Callers : pc'[o] \in {"declare", "ok"} => chan'[o] \in Conns
    BY <1>7 DEF Connect
  <2>. QED BY <1>7, <2>1, <2>2, <2>3, <2>4, <2>5 DEF Connect
<1>8. CASE Refuse(p)        BY <1>8, RabbitClientAssumption DEF Refuse
<1>9. CASE OpenChannel(p)   BY <1>9 DEF OpenChannel
<1>10. CASE Declare(p)      BY <1>10, RabbitClientAssumption DEF Declare
<1>11. CASE Return(p)       BY <1>11 DEF Return
<1>. QED BY <1>1, <1>2, <1>3, <1>4, <1>5, <1>6, <1>7, <1>8, <1>9, <1>10, <1>11 DEF Step

\* So does a monitor's, and a loss.
LEMMA FaultTypeOK ==
  ASSUME ClientTypeOK, Monitor \/ \E c \in Conns : Lose(c)
  PROVE  ClientTypeOK'
<1>. USE DEF ClientTypeOK, shared, monitors, callers, faults
<1>1. CASE Watch            BY <1>1 DEF Watch
<1>2. ASSUME NEW c \in Conns, Notice(c) PROVE ClientTypeOK'
  <2>1. watchers' \in [Conns -> Nat]  BY <1>2 DEF Notice
  <2>2. reporting' = reporting + 1 /\ connected' = FALSE  BY <1>2, Zenon DEF Notice
  <2>3. reporting' \in Nat  BY <2>2
  <2>4. connected' \in BOOLEAN  BY <2>2
  <2>5. UNCHANGED <<open, current, reconnects, starting, sending, callers, faults>>
    BY <1>2 DEF Notice
  <2>. QED BY <2>1, <2>3, <2>4, <2>5
<1>3. ASSUME NEW c \in Conns, Lose(c) PROVE ClientTypeOK'
  BY <1>3, RabbitClientAssumption DEF Lose
<1>4. CASE Report           BY <1>4 DEF Report
<1>. QED BY <1>1, <1>2, <1>3, <1>4 DEF Monitor

LEMMA ClientNextTypeOK == ClientTypeOK /\ [ClientNext]_clientVars => ClientTypeOK'
<1>. SUFFICES ASSUME ClientTypeOK, [ClientNext]_clientVars PROVE ClientTypeOK'  OBVIOUS
<1>1. CASE ClientNext
  BY <1>1, StepTypeOK, FaultTypeOK DEF ClientNext
<1>2. CASE UNCHANGED clientVars
  BY <1>2 DEF ClientTypeOK, clientVars, shared, monitors, callers, faults
<1>. QED BY <1>1, <1>2

\* Every variable of the client keeps its type, whatever fails and whoever calls.
THEOREM ClientTypeCorrect == ClientSpec => []ClientTypeOK
BY ClientInitTypeOK, ClientNextTypeOK, PTL DEF ClientSpec

-----------------------------------------------------------------------------
LEMMA MonitoredStep ==
  ASSUME ClientTypeOK, Monitored, [ClientNext]_clientVars
  PROVE  Monitored'
<1>. USE DEF ClientTypeOK, Monitored, shared, monitors, callers, faults
<1>1. ASSUME NEW p \in Callers, Connect(p) PROVE Monitored'
  BY <1>1 DEF Connect
<1>2. ASSUME NEW p \in Callers, \/ Call(p) \/ Select(p) \/ CheckConnected(p)
                                \/ Reconnect(p) \/ ReadReconnects(p)
                                \/ WriteReconnects(p) \/ Refuse(p)
                                \/ OpenChannel(p) \/ Declare(p) \/ Return(p)
      PROVE  UNCHANGED <<connected, current, starting, watchers>>
  BY <1>2 DEF Call, Select, CheckConnected, Reconnect, ReadReconnects,
     WriteReconnects, Refuse, OpenChannel, Declare, Return
<1>3. CASE Watch  BY <1>3 DEF Watch
<1>4. ASSUME NEW c \in Conns, Notice(c) PROVE Monitored'  BY <1>4 DEF Notice
<1>5. ASSUME NEW c \in Conns, Lose(c) PROVE Monitored'  BY <1>5 DEF Lose
<1>6. CASE UNCHANGED clientVars  BY <1>6 DEF clientVars
<1>7. CASE Report  BY <1>7 DEF Report
<1>. QED BY <1>1, <1>2, <1>3, <1>4, <1>5, <1>6, <1>7 DEF ClientNext, Step, Monitor

\* A client with automatic reconnection is never left with a lost connection that
\* it takes for a live one and that nobody watches.
THEOREM LossesAreNoticed ==
  ASSUME Constructor = "NewClient"
  PROVE  ClientSpec => []LossIsNoticed
<1>1. ClientInit => Monitored
  BY FirstIsAConn DEF ClientInit, Monitored
<1>2. ClientTypeOK /\ Monitored /\ [ClientNext]_clientVars => Monitored'
  BY MonitoredStep
<1>3. Monitored => LossIsNoticed
  BY DEF Monitored, LossIsNoticed
<1>. QED BY <1>1, <1>2, <1>3, ClientTypeCorrect, PTL DEF ClientSpec

-----------------------------------------------------------------------------
(***************************************************************************)
(* Why two callers are needed to exhaust the retries early: with one, the  *)
(* counter is the number of dials refused since the last success, and one  *)
(* more while an attempt is under way.                                     *)
(***************************************************************************)
Counted(p) ==
  /\ reconnects = IF pc[p] = "dial" THEN failures + 1 ELSE failures
  /\ pc[p] = "increment" => seen[p] = reconnects

LEMMA CountedStep ==
  ASSUME NEW p, Callers = {p}, ClientTypeOK, Counted(p), [ClientNext]_clientVars
  PROVE  Counted(p)'
<1>. USE DEF ClientTypeOK, Counted, Goto, shared, monitors, callers, faults
<1>1. CASE Call(p) \/ Return(p)  BY <1>1 DEF Call, Return
<1>2. CASE Select(p)          BY <1>2 DEF Select
<1>3. CASE CheckConnected(p)  BY <1>3 DEF CheckConnected
<1>4. CASE Reconnect(p)       BY <1>4 DEF Reconnect
<1>5. CASE ReadReconnects(p)  BY <1>5 DEF ReadReconnects
<1>6. CASE WriteReconnects(p) BY <1>6 DEF WriteReconnects
<1>7. CASE Connect(p)
  <2>1. reconnects' = 0 /\ failures' = 0  BY <1>7 DEF Connect
  <2>2. after[p] \notin {"dial", "increment"}  OBVIOUS
  <2>3. pc'[p] = after[p]  BY <1>7 DEF Connect
  <2>. QED BY <2>1, <2>2, <2>3
<1>8. CASE Refuse(p)          BY <1>8 DEF Refuse
<1>9. CASE OpenChannel(p)     BY <1>9 DEF OpenChannel
<1>10. CASE Declare(p)        BY <1>10 DEF Declare
<1>11. CASE Watch \/ Report   BY <1>11 DEF Watch, Report
<1>12. ASSUME NEW c \in Conns, Notice(c) \/ Lose(c) PROVE Counted(p)'
  BY <1>12 DEF Notice, Lose
<1>13. CASE UNCHANGED clientVars  BY <1>13 DEF clientVars
<1>. QED
  BY <1>1, <1>2, <1>3, <1>4, <1>5, <1>6, <1>7, <1>8, <1>9, <1>10, <1>11, <1>12, <1>13
  DEF ClientNext, Step, Monitor

\* A client that only one goroutine uses counts its attempts rightly: it gives up
\* only after maxRetries refusals in a row.  What makes it give up earlier is
\* another caller between the read and the write of c.reconnects++, and nothing
\* that the monitors or the broker do (rabbitmq.go:228, 242-254).
THEOREM OneCallerCountsRightly ==
  ASSUME NEW p, Callers = {p}
  PROVE  ClientSpec => []GivesUpAfterFailures
<1>1. ClientInit => Counted(p)
  BY DEF ClientInit, Counted
<1>2. ClientTypeOK /\ Counted(p) /\ [ClientNext]_clientVars => Counted(p)'
  BY CountedStep
<1>3. ClientTypeOK /\ Counted(p) => GivesUpAfterFailures
  BY DEF ClientTypeOK, Counted, GivesUpAfterFailures
<1>. QED BY <1>1, <1>2, <1>3, ClientTypeCorrect, PTL DEF ClientSpec
=============================================================================
