---------------------------- MODULE StartupProofs ----------------------------
(***************************************************************************)
(* Theorems about Startup, for any number of processes, any migration, any *)
(* schema the database may have before it, and whatever fails.             *)
(***************************************************************************)
EXTENDS Startup, TLAPS

(***************************************************************************)
(* Why a clean version is that of a whole schema, and is made once: only   *)
(* the session that holds the lock writes the version and the schema, the  *)
(* one before the other, and what it has made so far is still there.       *)
(***************************************************************************)
SoundSession(p) ==
  /\ session[p] /\ pc[p] = "begin" => version = "none"
  /\ session[p] /\ pc[p] \in {"run", "finish"} => version = "dirty"
  /\ session[p] /\ pc[p] = "run" => Made(done[p]) \subseteq schema
  /\ session[p] /\ pc[p] = "finish" => Complete
  /\ pc[p] \notin {"run", "finish", "unlock"} => done[p] = 0

SoundDatabase ==
  /\ version = "clean" => Complete
  /\ version \in {"absent", "none"} => ~Complete

IInv == TypeOK /\ (\A p \in Procs : SoundSession(p)) /\ SoundDatabase

(***************************************************************************)
(* Why a half schema is being made, when nothing failed: then a process    *)
(* has its session and a session its process, so that a dirty version has  *)
(* a process that runs the migration, and whoever waited for its lock in   *)
(* vain did so because of it.                                              *)
(***************************************************************************)
SoundProcess(p) ==
  /\ session[p] => up[p] /\ pc[p] \notin {"off", "connect"}
  /\ up[p] /\ pc[p] # "connect" => session[p]
  /\ pc[p] \in {"source", "lock", "version", "begin", "run", "finish", "unlock"}
       => version # "absent"
  /\ session[p] /\ pc[p] = "unlock" => Complete

Waited(p) == up[p] /\ pc[p] \in Pending
Went(p)   == up[p] /\ pc[p] \in Started

FaultFree ==
  /\ \A p \in Procs : SoundProcess(p)
  /\ version = "dirty" => BeingMade
  /\ Complete \/ (\A p \in Procs : ~Went(p)) \/ (\E q \in Procs : Waited(q))

HInv == fault \/ FaultFree

-----------------------------------------------------------------------------
LEMMA ScriptTypes ==
  /\ Len(Script) \in Nat
  /\ \A i \in 1..Len(Script) : Script[i] \in Statement
BY StartupAssumption

LEMMA MadeOfObjects == \A n : Made(n) \subseteq Objects
BY DEF Made

LEMMA MadeAtFirst == Made(0) = {}
BY DEF Made

\* What one more statement leaves of what is made, and what it adds.
LEMMA MadeByOneMore ==
  ASSUME NEW n \in Nat, NEW s \in SUBSET Objects, Made(n) \subseteq s
  PROVE  Made(n + 1) \subseteq (s \ Script[n + 1].drops) \cup Script[n + 1].makes
<1> SUFFICES ASSUME NEW o \in Made(n + 1), o \notin Script[n + 1].makes
    PROVE  o \in s /\ o \notin Script[n + 1].drops
  OBVIOUS
<1>1. PICK i \in 1..(n + 1) : /\ o \in Script[i].makes
                             /\ \A j \in (i + 1)..(n + 1) : o \notin Script[j].drops
  BY DEF Made
<1>2. i \in 1..n /\ n + 1 \in (i + 1)..(n + 1)
  BY <1>1
<1>3. \A j \in (i + 1)..n : o \notin Script[j].drops
  BY <1>1
<1>4. o \in Made(n)
  BY <1>1, <1>2, <1>3 DEF Made
<1> QED
  BY <1>1, <1>2, <1>4

-----------------------------------------------------------------------------
LEMMA InitTypeOK == Init => TypeOK
<1> SUFFICES ASSUME Init PROVE TypeOK
  OBVIOUS
<1>1. done \in [Procs -> 0..Len(Script)]
  BY ScriptTypes DEF Init
<1>2. schema \subseteq Objects
  BY StartupAssumption DEF Init
<1>3. \A p \in Procs : lock = p <=> session[p] /\ pc[p] \in Locked
  BY StartupAssumption DEF Init
<1> QED
  BY <1>1, <1>2, <1>3 DEF Init, TypeOK

\* A process that ends keeps the types.
LEMMA ExitTypeOK ==
  ASSUME TypeOK, NEW p \in Procs, Exit(p), fault' \in BOOLEAN
  PROVE  TypeOK'
BY StartupAssumption, ScriptTypes DEF TypeOK, Exit, Goto, Released, Locked

LEMMA AdvanceTypeOK ==
  ASSUME TypeOK, NEW p \in Procs, Advance(p)
  PROVE  TypeOK'
<1> USE StartupAssumption, ScriptTypes
    DEF TypeOK, process, database, Goto, Locked, Pending, Started
<1>1. CASE DbInstance(p)
  <2>0. pc[p] = "connect" /\ UNCHANGED fault
    BY <1>1, Zenon DEF DbInstance
  <2>1. CASE Exit(p)
    BY <2>0, <2>1, ExitTypeOK
  <2>2. CASE session' = [session EXCEPT ![p] = TRUE] /\ Goto(p, "driver")
            /\ UNCHANGED <<up, client, done, database>>
    BY <2>0, <2>2
  <2> QED
    BY <1>1, <2>1, <2>2, Zenon DEF DbInstance
<1>2. CASE Lock(p)
  BY <1>2 DEF Lock
<1>3. CASE LockTimeout(p)
  <2>0. session[p] /\ lock # None /\ UNCHANGED fault
    BY <1>3, Zenon DEF LockTimeout
  <2>1. CASE Exit(p)
    BY <2>0, <2>1, ExitTypeOK
  <2>2. CASE pc[p] = "lock" /\ Goto(p, "redis") /\ UNCHANGED <<process, done, database>>
    BY <2>0, <2>2
  <2> QED
    BY <1>3, <2>1, <2>2, Zenon DEF LockTimeout
<1>4. CASE ensureVersionTable(p)
  <2>0. session[p] /\ pc[p] = "ensure"
    BY <1>4, Zenon DEF ensureVersionTable
  <2>1. CASE Exit(p) /\ fault' = TRUE
    BY <2>1, ExitTypeOK
  <2>2. CASE /\ version' = IF version = "absent" THEN "none" ELSE version
             /\ lock' = None /\ Goto(p, "source")
             /\ UNCHANGED <<process, done, schema, fault>>
    BY <2>0, <2>2
  <2> QED
    BY <1>4, <2>1, <2>2, Zenon DEF ensureVersionTable
<1>5. CASE NewWithDatabaseInstance(p)
  <2>0. pc[p] = "source" /\ fault' \in BOOLEAN
    BY <1>5, Zenon DEF NewWithDatabaseInstance
  <2>1. CASE Exit(p)
    BY <2>0, <2>1, ExitTypeOK
  <2>2. CASE Goto(p, "lock") /\ UNCHANGED <<process, done, database, fault>>
    BY <2>0, <2>2
  <2> QED
    BY <1>5, <2>1, <2>2, Zenon DEF NewWithDatabaseInstance
<1>6. CASE Version(p)
  BY <1>6 DEF Version
<1>7. CASE SetDirty(p)
  BY <1>7 DEF SetDirty
<1>8. CASE RunStatement(p)
  <2>1. done[p] + 1 \in 1..Len(Script)
    BY <1>8 DEF RunStatement
  <2>2. NextStatement(p).makes \subseteq Objects
    BY <2>1 DEF NextStatement, Statement
  <2>3. schema' \subseteq Objects /\ done' \in [Procs -> 0..Len(Script)]
    BY <1>8, <2>1, <2>2 DEF RunStatement
  <2> QED
    BY <1>8, <2>3 DEF RunStatement
<1>9. CASE Ran(p)
  BY <1>9 DEF Ran
<1>10. CASE SetClean(p)
  BY <1>10 DEF SetClean
<1>11. CASE QueryFails(p)
  <2>1. fault' \in BOOLEAN /\ UNCHANGED <<process, done, database>>
    BY <1>11 DEF QueryFails
  <2>2. pc' = [pc EXCEPT ![p] = "unlock"] /\ pc[p] \in {"version", "begin", "run", "finish"}
    BY <1>11 DEF QueryFails
  <2> QED
    BY <2>1, <2>2
<1>12. CASE Unlock(p)
  BY <1>12 DEF Unlock
<1>13. CASE SessionLost(p)
  <2>0. ~session[p] /\ UNCHANGED fault
    BY <1>13, Zenon DEF SessionLost
  <2>1. CASE Exit(p)
    BY <2>0, <2>1, ExitTypeOK
  <2>2. CASE done' = [done EXCEPT ![p] = 0] /\ Goto(p, "redis")
            /\ UNCHANGED <<process, database>>
    BY <2>0, <2>2
  <2> QED
    BY <1>13, <2>1, <2>2, Zenon DEF SessionLost
<1>14. CASE InitializeClient(p)
  <2>0. pc[p] = "client" /\ UNCHANGED fault
    BY <1>14, Zenon DEF InitializeClient
  <2>1. CASE Exit(p)
    BY <2>0, <2>1, ExitTypeOK
  <2>2. CASE client' = [client EXCEPT ![p] = TRUE] /\ Goto(p, "manager")
            /\ UNCHANGED <<up, session, done, database>>
    BY <2>0, <2>2
  <2> QED
    BY <1>14, <2>1, <2>2, Zenon DEF InitializeClient
<1>15. CASE NewQueueManager(p)
  BY <1>15 DEF NewQueueManager
<1>16. CASE Listen(p)
  <2>0. pc[p] = "listen" /\ UNCHANGED fault
    BY <1>16, Zenon DEF Listen
  <2>1. CASE Exit(p)
    BY <2>0, <2>1, ExitTypeOK
  <2>2. CASE Goto(p, "serving") /\ UNCHANGED <<process, done, database>>
    BY <2>0, <2>2
  <2> QED
    BY <1>16, <2>1, <2>2, Zenon DEF Listen
<1>17. CASE InitRedis(p)
  BY <1>17 DEF InitRedis
<1> QED
  BY <1>1, <1>2, <1>3, <1>4, <1>5, <1>6, <1>7, <1>8, <1>9, <1>10, <1>11, <1>12,
     <1>13, <1>14, <1>15, <1>16, <1>17 DEF Advance

\* So do the starts, and whatever ends a process or a session.
LEMMA FaultTypeOK ==
  ASSUME TypeOK, NEW p \in Procs,
         Start(p) \/ ConsumerPanics(p) \/ Crash(p) \/ SessionEnds(p) \/ LoseSession(p)
  PROVE  TypeOK'
<1> USE StartupAssumption, ScriptTypes
    DEF TypeOK, process, database, Goto, Released, Locked, Pending, Started
<1>1. CASE Start(p)
  BY <1>1 DEF Start
<1>2. CASE ConsumerPanics(p)
  BY <1>2, ExitTypeOK DEF ConsumerPanics
<1>3. CASE Crash(p)
  <2>1. CASE session[p]
    BY <1>3, <2>1 DEF Crash
  <2>2. CASE ~session[p]
    <3>1. /\ pc' = [pc EXCEPT ![p] = "off"] /\ done' = [done EXCEPT ![p] = 0]
          /\ up' = [up EXCEPT ![p] = FALSE] /\ client' = [client EXCEPT ![p] = FALSE]
          /\ fault' = TRUE /\ UNCHANGED <<session, lock, version, schema>>
      BY <1>3, <2>2 DEF Crash
    <3>2. \A q \in Procs : lock' = q <=> session'[q] /\ pc'[q] \in Locked
      BY <2>2, <3>1
    <3> QED
      BY <3>1, <3>2
  <2> QED
    BY <2>1, <2>2
<1>4. CASE SessionEnds(p)
  BY <1>4 DEF SessionEnds
<1>5. CASE LoseSession(p)
  BY <1>5 DEF LoseSession
<1> QED
  BY <1>1, <1>2, <1>3, <1>4, <1>5

LEMMA NextTypeOK == TypeOK /\ [Next]_vars => TypeOK'
<1>1. TypeOK /\ Next => TypeOK'
  BY AdvanceTypeOK, FaultTypeOK DEF Next
<1>2. TypeOK /\ UNCHANGED vars => TypeOK'
  BY DEF TypeOK, vars, process, database
<1> QED
  BY <1>1, <1>2

\* Every variable of the start keeps its type, and the lock is the session's that
\* is where a lock is held, of however many processes (routes.go:26-172).
THEOREM TypeCorrect == Spec => []TypeOK
BY InitTypeOK, NextTypeOK, PTL DEF Spec

-----------------------------------------------------------------------------
(***************************************************************************)
(* A step of a process that leaves the database as it is, and begins no    *)
(* migration: all of them but five.                                        *)
(***************************************************************************)
Quiet(p) ==
  /\ UNCHANGED <<version, schema>>
  /\ \A q \in Procs : q # p => /\ session'[q] = session[q]
                               /\ pc'[q] = pc[q] /\ done'[q] = done[q]
  /\ session'[p] /\ pc'[p] = "begin" => version = "none"
  /\ session'[p] /\ pc'[p] \in {"run", "finish"}
       => session[p] /\ pc'[p] = pc[p] /\ done'[p] = done[p]
  /\ pc'[p] \notin {"run", "finish", "unlock"} => done'[p] = 0

LEMMA ExitIsQuiet ==
  ASSUME TypeOK, NEW p \in Procs, Exit(p)
  PROVE  Quiet(p)
BY DEF TypeOK, Exit, Quiet, Goto

LEMMA QuietAdvance ==
  ASSUME IInv, NEW p \in Procs,
         \/ DbInstance(p) \/ Lock(p) \/ LockTimeout(p) \/ NewWithDatabaseInstance(p)
         \/ Version(p) \/ QueryFails(p) \/ Unlock(p) \/ SessionLost(p)
         \/ InitRedis(p) \/ InitializeClient(p) \/ NewQueueManager(p) \/ Listen(p)
  PROVE  Quiet(p)
<1>1. TypeOK /\ SoundSession(p)
  BY DEF IInv
<1>2. CASE Exit(p)
  BY <1>1, <1>2, ExitIsQuiet
<1> USE DEF TypeOK, SoundSession, Quiet, process, database, Goto
<1>3. CASE Lock(p)
  BY <1>1, <1>3 DEF Lock
<1>4. CASE Version(p)
  BY <1>1, <1>4 DEF Version
<1>5. CASE QueryFails(p)
  BY <1>1, <1>5 DEF QueryFails
<1>6. CASE Unlock(p)
  BY <1>1, <1>6 DEF Unlock
<1>7. CASE NewQueueManager(p)
  BY <1>1, <1>7 DEF NewQueueManager
<1>14. CASE InitRedis(p)
  BY <1>1, <1>14 DEF InitRedis
<1>8. CASE DbInstance(p) /\ ~Exit(p)
  <2>1. /\ pc[p] = "connect" /\ session' = [session EXCEPT ![p] = TRUE]
        /\ Goto(p, "driver") /\ UNCHANGED <<done, database>>
    BY <1>8, Zenon DEF DbInstance
  <2> QED
    BY <1>1, <2>1
<1>9. CASE LockTimeout(p) /\ ~Exit(p)
  <2>1. pc[p] = "lock" /\ Goto(p, "redis") /\ UNCHANGED <<process, done, database>>
    BY <1>9, Zenon DEF LockTimeout
  <2> QED
    BY <1>1, <2>1
<1>10. CASE NewWithDatabaseInstance(p) /\ ~Exit(p)
  <2>1. pc[p] = "source" /\ Goto(p, "lock") /\ UNCHANGED <<process, done, database>>
    BY <1>10, Zenon DEF NewWithDatabaseInstance
  <2> QED
    BY <1>1, <2>1
<1>11. CASE SessionLost(p) /\ ~Exit(p)
  <2>1. /\ done' = [done EXCEPT ![p] = 0] /\ Goto(p, "redis")
        /\ UNCHANGED <<process, database>>
    BY <1>11, Zenon DEF SessionLost
  <2> QED
    BY <1>1, <2>1
<1>12. CASE InitializeClient(p) /\ ~Exit(p)
  <2>1. /\ pc[p] = "client" /\ Goto(p, "manager") /\ UNCHANGED <<session, done, database>>
    BY <1>12, Zenon DEF InitializeClient
  <2> QED
    BY <1>1, <2>1
<1>13. CASE Listen(p) /\ ~Exit(p)
  <2>1. pc[p] = "listen" /\ Goto(p, "serving") /\ UNCHANGED <<process, done, database>>
    BY <1>13, Zenon DEF Listen
  <2> QED
    BY <1>1, <2>1
<1> QED
  BY <1>2, <1>3, <1>4, <1>5, <1>6, <1>7, <1>8, <1>9, <1>10, <1>11, <1>12, <1>13, <1>14,
     Zenon

LEMMA QuietFault ==
  ASSUME IInv, NEW p \in Procs,
         Start(p) \/ ConsumerPanics(p) \/ Crash(p) \/ SessionEnds(p) \/ LoseSession(p)
  PROVE  Quiet(p)
<1>1. TypeOK /\ SoundSession(p)
  BY DEF IInv
<1> USE DEF TypeOK, SoundSession, Quiet, process, database, Goto
<1>2. CASE Start(p)
  BY <1>1, <1>2 DEF Start
<1>3. CASE ConsumerPanics(p)
  BY <1>1, <1>3, ExitIsQuiet DEF ConsumerPanics
<1>4. CASE Crash(p)
  <2>1. CASE session[p]
    BY <1>1, <1>4, <2>1 DEF Crash
  <2>2. CASE ~session[p]
    BY <1>1, <1>4, <2>2 DEF Crash
  <2> QED
    BY <2>1, <2>2
<1>5. CASE SessionEnds(p)
  BY <1>1, <1>5 DEF SessionEnds
<1>6. CASE LoseSession(p)
  BY <1>1, <1>6 DEF LoseSession
<1> QED
  BY <1>2, <1>3, <1>4, <1>5, <1>6

LEMMA CompleteIsOfTheSchema == UNCHANGED schema => Complete' = Complete
BY DEF Complete, Whole, Made

LEMMA QuietIsSound ==
  ASSUME IInv, NEW p \in Procs, Quiet(p)
  PROVE  (\A q \in Procs : SoundSession(q)') /\ SoundDatabase'
<1>1. Complete' = Complete /\ version' = version /\ schema' = schema
  BY CompleteIsOfTheSchema DEF Quiet
<1>2. SoundDatabase'
  BY <1>1 DEF IInv, SoundDatabase
<1>3. ASSUME NEW q \in Procs PROVE SoundSession(q)'
  <2>1. SoundSession(q) /\ SoundSession(p)
    BY DEF IInv
  <2>2. CASE q # p
    <3>1. session'[q] = session[q] /\ pc'[q] = pc[q] /\ done'[q] = done[q]
      BY <2>2 DEF Quiet
    <3> QED
      BY <1>1, <2>1, <3>1 DEF SoundSession
  <2>3. CASE q = p
    BY <1>1, <2>1, <2>3 DEF SoundSession, Quiet
  <2> QED
    BY <2>2, <2>3
<1> QED
  BY <1>2, <1>3

-----------------------------------------------------------------------------
(***************************************************************************)
(* The other five, of the session that holds the lock.                     *)
(***************************************************************************)
LEMMA OnlyTheHolder ==
  ASSUME TypeOK, NEW p \in Procs, session[p], pc[p] \in Locked
  PROVE  /\ lock = p
         /\ \A q \in Procs : q # p => ~(session[q] /\ pc[q] \in Locked)
BY DEF TypeOK

LEMMA EnsureIsSound ==
  ASSUME IInv, NEW p \in Procs, ensureVersionTable(p)
  PROVE  (\A q \in Procs : SoundSession(q)') /\ SoundDatabase'
<1>1. CASE Exit(p)
  BY <1>1, ExitIsQuiet, QuietIsSound DEF IInv
<1>2. CASE ~Exit(p)
  <2>1. /\ session[p] /\ pc[p] = "ensure"
        /\ version' = IF version = "absent" THEN "none" ELSE version
        /\ pc' = [pc EXCEPT ![p] = "source"]
        /\ UNCHANGED <<process, done, schema>>
    BY <1>2, Zenon DEF ensureVersionTable, Goto
  <2>2. Complete' = Complete
    BY <2>1, CompleteIsOfTheSchema
  <2>3. SoundDatabase'
    BY <2>1, <2>2 DEF IInv, SoundDatabase
  <2>4. ASSUME NEW q \in Procs PROVE SoundSession(q)'
    <3>1. SoundSession(q) /\ SoundSession(p) /\ TypeOK
      BY DEF IInv
    <3>2. CASE q = p
      BY <2>1, <3>1, <3>2 DEF SoundSession, TypeOK, process
    <3>3. CASE q # p
      <4>1. ~(session[q] /\ pc[q] \in Locked)
        BY <2>1, <3>1, <3>3, OnlyTheHolder DEF Locked
      <4>2. session'[q] = session[q] /\ pc'[q] = pc[q] /\ done'[q] = done[q]
        BY <2>1, <3>1, <3>3 DEF TypeOK, process
      <4> QED
        BY <3>1, <4>1, <4>2 DEF SoundSession, Locked
    <3> QED
      BY <3>2, <3>3
  <2> QED
    BY <2>3, <2>4
<1> QED
  BY <1>1, <1>2

\* A step of the holder, of which it is enough to look at the holder.
LEMMA HolderIsSound ==
  ASSUME IInv, NEW p \in Procs, session[p], pc[p] \in Locked,
         UNCHANGED process, SoundSession(p)',
         \A q \in Procs : q # p => pc'[q] = pc[q] /\ done'[q] = done[q]
  PROVE  \A q \in Procs : SoundSession(q)'
<1> SUFFICES ASSUME NEW q \in Procs, q # p PROVE SoundSession(q)'
  OBVIOUS
<1>1. ~(session[q] /\ pc[q] \in Locked)
  BY OnlyTheHolder DEF IInv
<1>2. session'[q] = session[q] /\ pc'[q] = pc[q] /\ done'[q] = done[q] /\ SoundSession(q)
  BY DEF IInv, process
<1> QED
  BY <1>1, <1>2 DEF SoundSession, Locked

LEMMA SetDirtyIsSound ==
  ASSUME IInv, NEW p \in Procs, SetDirty(p)
  PROVE  (\A q \in Procs : SoundSession(q)') /\ SoundDatabase'
<1>1. /\ session[p] /\ pc[p] = "begin" /\ SoundSession(p) /\ TypeOK
      /\ version' = "dirty" /\ pc' = [pc EXCEPT ![p] = "run"]
      /\ UNCHANGED <<process, done, schema>>
  BY DEF IInv, SetDirty, Goto
<1>2. done'[p] = 0 /\ session'[p] = session[p] /\ pc'[p] = "run"
  BY <1>1 DEF SoundSession, TypeOK, process
<1>3. SoundSession(p)'
  BY <1>1, <1>2, MadeAtFirst DEF SoundSession
<1>4. \A q \in Procs : SoundSession(q)'
  BY <1>1, <1>3, HolderIsSound DEF Locked, TypeOK
<1>5. SoundDatabase'
  BY <1>1 DEF SoundDatabase
<1> QED
  BY <1>4, <1>5

LEMMA RunStatementIsSound ==
  ASSUME IInv, NEW p \in Procs, RunStatement(p)
  PROVE  (\A q \in Procs : SoundSession(q)') /\ SoundDatabase'
<1>1. /\ session[p] /\ pc[p] = "run" /\ SoundSession(p) /\ TypeOK
      /\ done[p] < Len(Script)
      /\ schema' = (schema \ Script[done[p] + 1].drops) \cup Script[done[p] + 1].makes
      /\ done' = [done EXCEPT ![p] = @ + 1]
      /\ UNCHANGED <<process, pc, version>>
  BY DEF IInv, RunStatement, NextStatement
<1>2. done[p] \in Nat /\ schema \in SUBSET Objects
  BY <1>1, ScriptTypes DEF TypeOK
<1>3. Made(done[p] + 1) \subseteq schema'
  BY <1>1, <1>2, MadeByOneMore DEF SoundSession
<1>4. /\ session'[p] /\ pc'[p] = "run" /\ done'[p] = done[p] + 1
      /\ version' = "dirty"
  BY <1>1 DEF TypeOK, SoundSession, process
<1>5. SoundSession(p)'
  BY <1>3, <1>4 DEF SoundSession
<1>6. \A q \in Procs : SoundSession(q)'
  BY <1>1, <1>5, HolderIsSound DEF Locked, TypeOK
<1>7. SoundDatabase'
  BY <1>4 DEF SoundDatabase
<1> QED
  BY <1>6, <1>7

LEMMA RanIsSound ==
  ASSUME IInv, NEW p \in Procs, Ran(p)
  PROVE  (\A q \in Procs : SoundSession(q)') /\ SoundDatabase'
<1>1. /\ session[p] /\ pc[p] = "run" /\ SoundSession(p) /\ TypeOK
      /\ done[p] = Len(Script) /\ pc' = [pc EXCEPT ![p] = "finish"]
      /\ UNCHANGED <<process, done, version, schema>>
  BY DEF IInv, Ran, Goto, database
<1>2. Complete /\ Complete' = Complete
  BY <1>1, CompleteIsOfTheSchema DEF SoundSession, Complete, Whole
<1>3. session'[p] /\ pc'[p] = "finish" /\ version' = "dirty"
  BY <1>1 DEF SoundSession, TypeOK, process
<1>4. SoundSession(p)'
  BY <1>2, <1>3 DEF SoundSession
<1>5. \A q \in Procs : SoundSession(q)'
  BY <1>1, <1>4, HolderIsSound DEF Locked, TypeOK
<1>6. SoundDatabase'
  BY <1>3 DEF SoundDatabase
<1> QED
  BY <1>5, <1>6

LEMMA SetCleanIsSound ==
  ASSUME IInv, NEW p \in Procs, SetClean(p)
  PROVE  (\A q \in Procs : SoundSession(q)') /\ SoundDatabase'
<1>1. /\ session[p] /\ pc[p] = "finish" /\ SoundSession(p) /\ TypeOK
      /\ version' = "clean" /\ pc' = [pc EXCEPT ![p] = "unlock"]
      /\ UNCHANGED <<process, done, schema>>
  BY DEF IInv, SetClean, Goto
<1>2. Complete /\ Complete' = Complete
  BY <1>1, CompleteIsOfTheSchema DEF SoundSession
<1>3. pc'[p] = "unlock"
  BY <1>1 DEF TypeOK
<1>4. SoundSession(p)'
  BY <1>3 DEF SoundSession
<1>5. \A q \in Procs : SoundSession(q)'
  BY <1>1, <1>4, HolderIsSound DEF Locked, TypeOK
<1>6. SoundDatabase'
  BY <1>1, <1>2 DEF SoundDatabase
<1> QED
  BY <1>5, <1>6

-----------------------------------------------------------------------------
LEMMA InitIInv == Init => IInv
<1> SUFFICES ASSUME Init PROVE IInv
  OBVIOUS
<1>1. ~Complete
  BY StartupAssumption DEF Init, Complete
<1>2. SoundDatabase
  BY <1>1 DEF Init, SoundDatabase
<1>3. \A p \in Procs : SoundSession(p)
  BY DEF Init, SoundSession
<1> QED
  BY <1>2, <1>3, InitTypeOK DEF IInv

LEMMA NextIInv == IInv /\ [Next]_vars => IInv'
<1> SUFFICES ASSUME IInv, [Next]_vars PROVE IInv'
  OBVIOUS
<1>1. TypeOK'
  BY NextTypeOK DEF IInv
<1>2. ASSUME NEW p \in Procs, Quiet(p) PROVE IInv'
  BY <1>1, <1>2, QuietIsSound DEF IInv
<1>3. ASSUME NEW p \in Procs, Advance(p) PROVE IInv'
  <2>1. CASE ensureVersionTable(p)
    BY <1>1, <2>1, EnsureIsSound DEF IInv
  <2>2. CASE SetDirty(p)
    BY <1>1, <2>2, SetDirtyIsSound DEF IInv
  <2>3. CASE RunStatement(p)
    BY <1>1, <2>3, RunStatementIsSound DEF IInv
  <2>4. CASE Ran(p)
    BY <1>1, <2>4, RanIsSound DEF IInv
  <2>5. CASE SetClean(p)
    BY <1>1, <2>5, SetCleanIsSound DEF IInv
  <2> QED
    BY <1>2, <1>3, <2>1, <2>2, <2>3, <2>4, <2>5, QuietAdvance DEF Advance
<1>4. CASE UNCHANGED vars
  <2>1. UNCHANGED <<session, pc, done, version, schema>>
    BY <1>4 DEF vars, process, database
  <2>2. Complete' = Complete
    BY <2>1, CompleteIsOfTheSchema
  <2> QED
    BY <1>1, <2>1, <2>2 DEF IInv, SoundSession, SoundDatabase
<1> QED
  BY <1>2, <1>3, <1>4, QuietFault DEF Next

LEMMA Invariant == Spec => []IInv
BY InitIInv, NextIInv, PTL DEF Spec

\* A version that is not dirty is that of a whole schema, whoever dies and whatever
\* breaks while it is made (routes.go:57; migrate.go:739-754).
THEOREM CleanIsComplete == Spec => []CleanMeansComplete
<1>1. IInv => CleanMeansComplete
  BY DEF IInv, SoundDatabase, CleanMeansComplete
<1> QED
  BY <1>1, Invariant, PTL

-----------------------------------------------------------------------------
LEMMA InitMigrates == Init => Migrations!Init
<1> SUFFICES ASSUME Init PROVE Migrations!Init
  OBVIOUS
<1>1. Complete = FALSE
  BY StartupAssumption DEF Init, Complete
<1>2. Stage = "none"
  BY DEF Init, Stage
<1> QED
  BY <1>1, <1>2 DEF Migrations!Init

\* A quiet step leaves the migration where it is, or breaks it off.
LEMMA QuietMigrates ==
  ASSUME TypeOK, NEW p \in Procs, Quiet(p)
  PROVE  [Migrations!Next]_<<Stage, Complete>>
<1>1. version' = version /\ Complete' = Complete
  BY CompleteIsOfTheSchema DEF Quiet
<1>2. BeingMade' => BeingMade
  BY DEF Quiet, BeingMade
<1>3. Stage' = Stage \/ (Stage = "making" /\ Stage' = "broken")
  BY <1>1, <1>2 DEF Stage
<1> QED
  BY <1>1, <1>3 DEF Migrations!Next, Migrations!Break

LEMMA EnsureMigrates ==
  ASSUME IInv, NEW p \in Procs, ensureVersionTable(p)
  PROVE  [Migrations!Next]_<<Stage, Complete>>
<1>1. CASE Exit(p)
  BY <1>1, ExitIsQuiet, QuietMigrates DEF IInv
<1>2. CASE ~Exit(p)
  <2>1. /\ session[p] /\ pc[p] = "ensure"
        /\ version' = IF version = "absent" THEN "none" ELSE version
        /\ pc' = [pc EXCEPT ![p] = "source"] /\ UNCHANGED <<process, schema>>
    BY <1>2, Zenon DEF ensureVersionTable, Goto
  <2>2. Complete' = Complete
    BY <2>1, CompleteIsOfTheSchema
  <2>3. BeingMade' = BeingMade
    BY <2>1 DEF BeingMade, process, IInv, TypeOK
  <2>4. Stage' = Stage
    BY <2>1, <2>3 DEF Stage, IInv, TypeOK
  <2> QED
    BY <2>2, <2>4
<1> QED
  BY <1>1, <1>2

LEMMA HolderMigrates ==
  ASSUME IInv, NEW p \in Procs,
         SetDirty(p) \/ RunStatement(p) \/ Ran(p) \/ SetClean(p)
  PROVE  [Migrations!Next]_<<Stage, Complete>>
<1>1. SoundSession(p) /\ SoundSession(p)' /\ TypeOK /\ TypeOK'
  BY NextIInv DEF IInv, Next, Advance
<1>2. CASE SetDirty(p)
  <2>1. Stage = "none"
    BY <1>1, <1>2 DEF SetDirty, SoundSession, Stage
  <2>2. BeingMade' /\ version' = "dirty"
    BY <1>1, <1>2 DEF SetDirty, BeingMade, Goto, TypeOK, process
  <2>3. Stage' = "making"
    BY <2>2 DEF Stage
  <2>4. Complete' = Complete
    BY <1>2, CompleteIsOfTheSchema DEF SetDirty
  <2> QED
    BY <2>1, <2>3, <2>4 DEF Migrations!Next, Migrations!Begin
<1>3. CASE RunStatement(p) \/ Ran(p)
  <2>1. BeingMade /\ version = "dirty"
    BY <1>1, <1>3 DEF RunStatement, Ran, SoundSession, BeingMade
  <2>2. BeingMade' /\ version' = "dirty"
    BY <1>1, <1>3, <2>1 DEF RunStatement, Ran, BeingMade, Goto, TypeOK, process, database
  <2>3. Stage = "making" /\ Stage' = "making"
    BY <2>1, <2>2 DEF Stage
  <2>4. Complete' \in BOOLEAN
    BY DEF Complete
  <2> QED
    BY <2>3, <2>4 DEF Migrations!Next, Migrations!Make
<1>4. CASE SetClean(p)
  <2>1. BeingMade /\ version = "dirty" /\ Complete
    BY <1>1, <1>4 DEF SetClean, SoundSession, BeingMade
  <2>2. Stage = "making" /\ Stage' = "made"
    BY <1>4, <2>1 DEF Stage, SetClean
  <2>3. Complete' = Complete
    BY <1>4, CompleteIsOfTheSchema DEF SetClean
  <2> QED
    BY <2>1, <2>2, <2>3 DEF Migrations!Next, Migrations!Finish
<1> QED
  BY <1>2, <1>3, <1>4

LEMMA NextMigrates == IInv /\ [Next]_vars => [Migrations!Next]_<<Stage, Complete>>
<1> SUFFICES ASSUME IInv, [Next]_vars PROVE [Migrations!Next]_<<Stage, Complete>>
  OBVIOUS
<1>1. ASSUME NEW p \in Procs, Advance(p) PROVE [Migrations!Next]_<<Stage, Complete>>
  BY <1>1, QuietAdvance, QuietMigrates, EnsureMigrates, HolderMigrates DEF Advance, IInv
<1>2. ASSUME NEW p \in Procs,
             Start(p) \/ ConsumerPanics(p) \/ Crash(p) \/ SessionEnds(p) \/ LoseSession(p)
      PROVE  [Migrations!Next]_<<Stage, Complete>>
  BY <1>2, QuietFault, QuietMigrates DEF IInv
<1>3. CASE UNCHANGED vars
  <2>1. UNCHANGED <<session, pc, version, schema>>
    BY <1>3 DEF vars, process, database
  <2>2. Stage' = Stage /\ Complete' = Complete
    BY <2>1, CompleteIsOfTheSchema DEF Stage, BeingMade
  <2> QED
    BY <2>2
<1> QED
  BY <1>1, <1>2, <1>3 DEF Next

\* The schema is made once at the most, and whole or never, whatever starts, dies
\* and breaks: nothing is done to it after that (routes.go:57).
THEOREM ImplementsMigratesOnce == Spec => MigratesAtMostOnce
BY InitMigrates, NextMigrates, Invariant, PTL
   DEF Spec, MigratesAtMostOnce, Migrations!Spec

-----------------------------------------------------------------------------
(***************************************************************************)
(* What follows is about starts in which nothing fails, other than that    *)
(* the lock is not given in time, or that a server is not there.           *)
(***************************************************************************)
LEMMA InitHInv == Init => HInv
BY DEF Init, HInv, FaultFree, SoundProcess, Went

\* A step of one process that leaves the database as it is.
LEMMA MoveIsFaultFree ==
  ASSUME FaultFree, NEW p \in Procs, UNCHANGED <<version, schema>>, SoundProcess(p)',
         \A q \in Procs : q # p => /\ up'[q] = up[q] /\ pc'[q] = pc[q]
                                   /\ session'[q] = session[q],
         session[p] /\ pc[p] \in {"run", "finish"}
           => session'[p] /\ pc'[p] \in {"run", "finish"},
         \/ Complete \/ Waited(p)'
         \/ \E q \in Procs : q # p /\ Waited(q)
         \/ ~Waited(p) /\ (Went(p)' => Went(p))
  PROVE  FaultFree'
<1>1. Complete' = Complete /\ version' = version
  BY CompleteIsOfTheSchema
<1>2. ASSUME NEW q \in Procs, q # p
      PROVE  SoundProcess(q)' /\ Waited(q)' = Waited(q) /\ Went(q)' = Went(q)
  BY <1>1, <1>2 DEF FaultFree, SoundProcess, Waited, Went
<1>3. BeingMade => BeingMade'
  BY DEF BeingMade
<1>4. Complete' \/ (\A q \in Procs : ~Went(q)') \/ (\E q \in Procs : Waited(q)')
  <2>1. CASE Complete \/ Waited(p)' \/ \E q \in Procs : q # p /\ Waited(q)
    BY <1>1, <1>2, <2>1
  <2>2. CASE ~Waited(p) /\ (Went(p)' => Went(p))
    BY <1>1, <1>2, <2>2 DEF FaultFree
  <2> QED
    BY <2>1, <2>2
<1> QED
  BY <1>1, <1>2, <1>3, <1>4 DEF FaultFree

\* A process that ends had finished its migration, or not begun it.
LEMMA ExitIsFaultFree ==
  ASSUME TypeOK, FaultFree, NEW p \in Procs, Exit(p), pc[p] \notin Pending
  PROVE  FaultFree'
<1>1. /\ up'[p] = FALSE /\ session'[p] = FALSE /\ pc'[p] = "off"
      /\ UNCHANGED <<version, schema>>
      /\ \A q \in Procs : q # p => /\ up'[q] = up[q] /\ pc'[q] = pc[q]
                                   /\ session'[q] = session[q]
  BY DEF TypeOK, Exit, Goto
<1>2. SoundProcess(p)' /\ ~Went(p)' /\ ~Waited(p)
  BY <1>1 DEF SoundProcess, Went, Waited
<1>3. ~(pc[p] \in {"run", "finish"})
  BY DEF Pending
<1> QED
  BY <1>1, <1>2, <1>3, MoveIsFaultFree

\* A step within Init that changes nothing but where the process is.
LEMMA GotoIsFaultFree ==
  ASSUME TypeOK, FaultFree, NEW p \in Procs, NEW label, Goto(p, label),
         label \notin {"off", "connect"},
         UNCHANGED <<up, session, version, schema>>,
         up[p], session[p],
         label \in {"source", "lock", "version", "begin", "run", "finish", "unlock"}
           => version # "absent",
         label = "unlock" => Complete,
         pc[p] \in {"run", "finish"} => label \in {"run", "finish"},
         \/ Complete \/ label \in Pending
         \/ \E q \in Procs : q # p /\ Waited(q)
         \/ pc[p] \notin Pending /\ (label \in Started => pc[p] \in Started)
  PROVE  FaultFree'
<1>1. /\ up'[p] /\ session'[p] /\ pc'[p] = label /\ version' = version
      /\ \A q \in Procs : q # p => /\ up'[q] = up[q] /\ pc'[q] = pc[q]
                                   /\ session'[q] = session[q]
  BY DEF TypeOK, Goto
<1>2. Complete' = Complete
  BY CompleteIsOfTheSchema
<1>3. SoundProcess(p)'
  BY <1>1, <1>2 DEF SoundProcess
<1>4. \/ Complete \/ Waited(p)'
      \/ \E q \in Procs : q # p /\ Waited(q)
      \/ ~Waited(p) /\ (Went(p)' => Went(p))
  BY <1>1 DEF Waited, Went
<1> QED
  BY <1>1, <1>3, <1>4, MoveIsFaultFree

\* The steps of a process that does not hold the lock yet, or any more.
LEMMA UnlockedIsFaultFree ==
  ASSUME IInv, FaultFree, NEW p \in Procs, fault' = FALSE,
         \/ Start(p) \/ DbInstance(p) \/ Lock(p) \/ LockTimeout(p)
         \/ NewWithDatabaseInstance(p) \/ SessionLost(p) \/ InitRedis(p)
         \/ InitializeClient(p) \/ NewQueueManager(p) \/ Listen(p)
         \/ ConsumerPanics(p) \/ SessionEnds(p)
  PROVE  FaultFree'
<1>0. TypeOK /\ SoundProcess(p)
  BY DEF IInv, FaultFree
<1>1. CASE Start(p)
  <2>1. /\ up'[p] /\ ~session'[p] /\ pc'[p] = "connect" /\ ~up[p]
        /\ UNCHANGED <<version, schema>>
        /\ \A q \in Procs : q # p => /\ up'[q] = up[q] /\ pc'[q] = pc[q]
                                     /\ session'[q] = session[q]
    BY <1>0, <1>1 DEF Start, TypeOK, SoundProcess, Goto, database
  <2>2. SoundProcess(p)' /\ ~Waited(p) /\ ~Went(p)' /\ ~session[p]
    BY <1>0, <2>1 DEF SoundProcess, Waited, Went, Started
  <2> QED
    BY <2>1, <2>2, MoveIsFaultFree
<1>2. CASE DbInstance(p)
  <2>0. up[p] /\ pc[p] = "connect"
    BY <1>2, Zenon DEF DbInstance
  <2>1. CASE Exit(p)
    BY <1>0, <2>0, <2>1, ExitIsFaultFree DEF Pending
  <2>2. CASE /\ session' = [session EXCEPT ![p] = TRUE] /\ Goto(p, "driver")
             /\ UNCHANGED <<up, client, done, database>>
    <3>1. /\ up'[p] /\ session'[p] /\ pc'[p] = "driver"
          /\ UNCHANGED <<version, schema>>
          /\ \A q \in Procs : q # p => /\ up'[q] = up[q] /\ pc'[q] = pc[q]
                                       /\ session'[q] = session[q]
      BY <1>0, <2>0, <2>2 DEF TypeOK, Goto, database
    <3>2. SoundProcess(p)' /\ ~Waited(p) /\ ~Went(p)'
      BY <2>0, <3>1 DEF SoundProcess, Waited, Went, Started, Pending
    <3> QED
      BY <2>0, <3>1, <3>2, MoveIsFaultFree
  <2> QED
    BY <1>2, <2>1, <2>2, Zenon DEF DbInstance
<1>3. CASE Lock(p)
  <2>1. /\ session[p] /\ up[p] /\ pc[p] \in {"driver", "lock"}
        /\ UNCHANGED <<up, session, version, schema>>
        /\ \/ pc[p] = "driver" /\ Goto(p, "ensure")
           \/ pc[p] = "lock" /\ Goto(p, "version")
    BY <1>0, <1>3 DEF Lock, SoundProcess, process
  <2>2. CASE pc[p] = "driver" /\ Goto(p, "ensure")
    BY <1>0, <2>1, <2>2, GotoIsFaultFree DEF Pending
  <2>3. CASE pc[p] = "lock" /\ Goto(p, "version")
    BY <1>0, <2>1, <2>3, GotoIsFaultFree DEF Pending, SoundProcess
  <2> QED
    BY <2>1, <2>2, <2>3
<1>4. CASE LockTimeout(p)
  <2>0. up[p] /\ session[p] /\ lock # None
    BY <1>4, Zenon DEF LockTimeout
  <2>1. CASE pc[p] = "driver" /\ Exit(p)
    BY <1>0, <2>1, ExitIsFaultFree DEF Pending
  <2>2. CASE pc[p] = "lock" /\ Goto(p, "redis") /\ UNCHANGED <<process, done, database>>
    <3>1. PICK q \in Procs : lock = q
      BY <1>0, <2>0 DEF TypeOK
    <3>2. session[q] /\ pc[q] \in Locked /\ up[q] /\ SoundProcess(q)
      BY <1>0, <3>1 DEF TypeOK, FaultFree, SoundProcess
    <3>3. Complete \/ (q # p /\ Waited(q))
      BY <2>2, <3>2 DEF SoundProcess, Waited, Locked, Pending
    <3> QED
      BY <1>0, <2>0, <2>2, <3>3, GotoIsFaultFree DEF process, database
  <2> QED
    BY <1>4, <2>1, <2>2, Zenon DEF LockTimeout
<1>5. CASE NewWithDatabaseInstance(p)
  <2>1. up[p] /\ pc[p] = "source" /\ Goto(p, "lock")
        /\ UNCHANGED <<process, done, database>>
    <3>1. ~("files" \in Failures /\ Exit(p) /\ fault' = TRUE)
      OBVIOUS
    <3> QED
      BY <1>5, <3>1, Zenon DEF NewWithDatabaseInstance
  <2>2. session[p]
    BY <1>0, <2>1 DEF SoundProcess
  <2> QED
    BY <1>0, <2>1, <2>2, GotoIsFaultFree DEF Pending, SoundProcess, process, database
<1>6. CASE SessionLost(p)
  <2>1. up[p] /\ ~session[p] /\ pc[p] # "connect"
    BY <1>6 DEF SessionLost
  <2> QED
    BY <1>0, <2>1 DEF SoundProcess
<1>7. CASE InitializeClient(p)
  <2>0. up[p] /\ pc[p] = "client"
    BY <1>7, Zenon DEF InitializeClient
  <2>1. CASE Exit(p)
    BY <1>0, <2>0, <2>1, ExitIsFaultFree DEF Pending
  <2>2. CASE Goto(p, "manager") /\ UNCHANGED <<up, session, done, database>>
    <3>1. session[p]
      BY <1>0, <2>0 DEF SoundProcess
    <3> QED
      BY <1>0, <2>0, <2>2, <3>1, GotoIsFaultFree DEF Pending, Started, database
  <2> QED
    BY <1>7, <2>1, <2>2, Zenon DEF InitializeClient
<1>12. CASE InitRedis(p)
  <2>1. /\ up[p] /\ pc[p] = "redis" /\ session[p] /\ Goto(p, "client")
        /\ UNCHANGED <<process, database>>
    BY <1>0, <1>12 DEF InitRedis, SoundProcess
  <2> QED
    BY <1>0, <2>1, GotoIsFaultFree DEF Pending, Started, process, database
<1>8. CASE NewQueueManager(p)
  <2>1. /\ up[p] /\ pc[p] = "manager" /\ session[p] /\ Goto(p, "listen")
        /\ UNCHANGED <<process, database>>
    BY <1>0, <1>8 DEF NewQueueManager, SoundProcess
  <2> QED
    BY <1>0, <2>1, GotoIsFaultFree DEF Pending, Started, process, database
<1>9. CASE Listen(p)
  <2>0. up[p] /\ pc[p] = "listen"
    BY <1>9, Zenon DEF Listen
  <2>1. CASE Exit(p)
    BY <1>0, <2>0, <2>1, ExitIsFaultFree DEF Pending
  <2>2. CASE Goto(p, "serving") /\ UNCHANGED <<process, done, database>>
    <3>1. session[p]
      BY <1>0, <2>0 DEF SoundProcess
    <3> QED
      BY <1>0, <2>0, <2>2, <3>1, GotoIsFaultFree DEF Pending, Started, process, database
  <2> QED
    BY <1>9, <2>1, <2>2, Zenon DEF Listen
<1>10. CASE ConsumerPanics(p)
  <2>1. pc[p] \in {"listen", "serving"} /\ Exit(p)
    BY <1>10, Zenon DEF ConsumerPanics
  <2> QED
    BY <1>0, <2>1, ExitIsFaultFree DEF Pending
<1>11. CASE SessionEnds(p)
  BY <1>0, <1>11 DEF SessionEnds, SoundProcess
<1> QED
  BY <1>1, <1>2, <1>3, <1>4, <1>5, <1>6, <1>7, <1>8, <1>9, <1>10, <1>11, <1>12

\* The steps of the process that holds the lock.
LEMMA LockedIsFaultFree ==
  ASSUME IInv, FaultFree, StatementsApply, NEW p \in Procs, fault' = FALSE,
         \/ ensureVersionTable(p) \/ Version(p) \/ SetDirty(p) \/ RunStatement(p)
         \/ Ran(p) \/ SetClean(p) \/ QueryFails(p) \/ Unlock(p)
  PROVE  FaultFree'
<1>0. TypeOK /\ SoundProcess(p) /\ SoundSession(p)
  BY DEF IInv, FaultFree
<1>1. ASSUME session[p], pc[p] \in Locked, NEW q \in Procs, q # p
      PROVE  ~(session[q] /\ pc[q] \in Locked)
  BY <1>0, <1>1, OnlyTheHolder
<1>2. CASE ensureVersionTable(p)
  <2>1. /\ up[p] /\ session[p] /\ pc[p] = "ensure"
        /\ version' = IF version = "absent" THEN "none" ELSE version
        /\ Goto(p, "source") /\ UNCHANGED <<process, done, schema>>
    <3>1. ~("sql" \in Failures /\ Exit(p) /\ fault' = TRUE)
      OBVIOUS
    <3> QED
      BY <1>2, <3>1, Zenon DEF ensureVersionTable
  <2>2. Complete' = Complete /\ version' # "absent"
    BY <2>1, CompleteIsOfTheSchema
  <2>3. pc'[p] = "source" /\ up' = up /\ session' = session
        /\ \A q \in Procs : q # p => pc'[q] = pc[q]
    BY <1>0, <2>1 DEF TypeOK, Goto, process
  <2>4. ASSUME NEW q \in Procs PROVE SoundProcess(q)'
    BY <2>1, <2>2, <2>3 DEF FaultFree, SoundProcess
  <2>5. version' = "dirty" => BeingMade'
    BY <2>1, <2>3 DEF FaultFree, BeingMade
  <2>6. Waited(p)'
    BY <2>1, <2>3 DEF Waited, Pending
  <2> QED
    BY <2>4, <2>5, <2>6 DEF FaultFree
<1>3. CASE Version(p)
  <2>1. /\ up[p] /\ session[p] /\ pc[p] = "version" /\ version # "absent"
        /\ UNCHANGED <<up, session, version, schema>>
        /\ \/ version = "none" /\ Goto(p, "begin")
           \/ version # "none" /\ Goto(p, "unlock")
    BY <1>0, <1>3 DEF Version, SoundProcess, process, database
  <2>2. CASE version = "none" /\ Goto(p, "begin")
    BY <1>0, <2>1, <2>2, GotoIsFaultFree DEF Pending
  <2>3. CASE version # "none" /\ Goto(p, "unlock")
    <3>1. ~BeingMade
      BY <1>1, <2>1 DEF BeingMade, Locked
    <3>2. Complete
      BY <1>0, <2>1, <2>3, <3>1 DEF FaultFree, IInv, SoundDatabase, TypeOK
    <3> QED
      BY <1>0, <2>1, <2>3, <3>2, GotoIsFaultFree
  <2> QED
    BY <2>1, <2>2, <2>3
<1>4. CASE SetDirty(p)
  <2>1. /\ up[p] /\ session[p] /\ pc[p] = "begin" /\ version' = "dirty"
        /\ pc'[p] = "run" /\ up' = up /\ session' = session /\ UNCHANGED schema
        /\ \A q \in Procs : q # p => pc'[q] = pc[q]
    BY <1>0, <1>4 DEF SetDirty, TypeOK, Goto, process
  <2>2. Complete' = Complete
    BY <2>1, CompleteIsOfTheSchema
  <2>3. ASSUME NEW q \in Procs PROVE SoundProcess(q)'
    BY <2>1, <2>2 DEF FaultFree, SoundProcess
  <2>4. BeingMade' /\ Waited(p)'
    BY <2>1 DEF BeingMade, Waited, Pending
  <2> QED
    BY <2>3, <2>4 DEF FaultFree
<1>5. CASE RunStatement(p)
  <2>1. /\ up[p] /\ session[p] /\ pc[p] = "run"
        /\ UNCHANGED <<up, session, pc, version>>
    BY <1>0, <1>5 DEF RunStatement, SoundProcess, process
  <2>2. ASSUME NEW q \in Procs PROVE SoundProcess(q)'
    BY <1>1, <2>1 DEF FaultFree, SoundProcess, Locked
  <2>3. BeingMade' /\ Waited(p)'
    BY <2>1 DEF BeingMade, Waited, Pending
  <2> QED
    BY <2>2, <2>3 DEF FaultFree
<1>6. CASE Ran(p)
  <2>1. /\ up[p] /\ session[p] /\ pc[p] = "run" /\ version # "absent" /\ Goto(p, "finish")
        /\ UNCHANGED <<up, session, version, schema>>
    BY <1>0, <1>6 DEF Ran, SoundProcess, process, database
  <2> QED
    BY <1>0, <2>1, GotoIsFaultFree DEF Pending
<1>7. CASE SetClean(p)
  <2>1. /\ up[p] /\ session[p] /\ pc[p] = "finish" /\ version' = "clean" /\ Complete
        /\ pc'[p] = "unlock" /\ up' = up /\ session' = session /\ UNCHANGED schema
        /\ \A q \in Procs : q # p => pc'[q] = pc[q]
    BY <1>0, <1>7 DEF SetClean, TypeOK, Goto, SoundSession, process
  <2>2. Complete'
    BY <2>1, CompleteIsOfTheSchema
  <2>3. ASSUME NEW q \in Procs PROVE SoundProcess(q)'
    BY <2>1, <2>2 DEF FaultFree, SoundProcess
  <2> QED
    BY <2>1, <2>2, <2>3 DEF FaultFree
<1>8. CASE QueryFails(p)
  BY <1>8 DEF QueryFails, StatementsApply
<1>9. CASE Unlock(p)
  <2>1. /\ up[p] /\ session[p] /\ pc[p] = "unlock" /\ Complete /\ Goto(p, "redis")
        /\ UNCHANGED <<up, session, version, schema>>
    BY <1>0, <1>9 DEF Unlock, SoundProcess, process
  <2> QED
    BY <1>0, <2>1, GotoIsFaultFree
<1> QED
  BY <1>2, <1>3, <1>4, <1>5, <1>6, <1>7, <1>8, <1>9

\* Nothing forgets a fault.
LEMMA FaultsStay ==
  ASSUME TypeOK, [Next]_vars, fault
  PROVE  fault'
<1>1. ASSUME NEW p \in Procs, Advance(p) PROVE fault'
  BY <1>1 DEF Advance, DbInstance, Lock, LockTimeout, ensureVersionTable,
     NewWithDatabaseInstance, Version, SetDirty, RunStatement, Ran, SetClean,
     QueryFails, Unlock, SessionLost, InitRedis, InitializeClient,
     NewQueueManager, Listen
<1>2. ASSUME NEW p \in Procs,
             Start(p) \/ ConsumerPanics(p) \/ Crash(p) \/ SessionEnds(p) \/ LoseSession(p)
      PROVE  fault'
  BY <1>2 DEF Start, ConsumerPanics, Crash, SessionEnds, LoseSession
<1> QED
  BY <1>1, <1>2 DEF Next, vars

LEMMA NextHInv == IInv /\ StatementsApply /\ HInv /\ [Next]_vars => HInv'
<1> SUFFICES ASSUME IInv, StatementsApply, HInv, [Next]_vars, ~fault' PROVE FaultFree'
  BY DEF HInv
<1>1. FaultFree /\ fault' = FALSE
  BY FaultsStay, NextTypeOK DEF HInv, IInv, TypeOK
<1>2. ASSUME NEW p \in Procs, Advance(p) \/ Start(p) \/ ConsumerPanics(p) \/ SessionEnds(p)
      PROVE  FaultFree'
  BY <1>1, <1>2, UnlockedIsFaultFree, LockedIsFaultFree DEF Advance
<1>3. ASSUME NEW p \in Procs, Crash(p) \/ LoseSession(p) PROVE FALSE
  BY <1>1, <1>3 DEF Crash, LoseSession
<1>4. CASE UNCHANGED vars
  <2>1. UNCHANGED <<up, session, pc, version, schema>>
    BY <1>4 DEF vars, process, database
  <2>2. Complete' = Complete
    BY <2>1, CompleteIsOfTheSchema
  <2> QED
    BY <1>1, <2>1, <2>2 DEF FaultFree, SoundProcess, BeingMade, Waited, Went
<1> QED
  BY <1>2, <1>3, <1>4 DEF Next

\* A service that came up without the lock, on half a schema, has another process
\* beside it that will complete it, if every statement applies where it is executed
\* and nothing fails (routes.go:57-61).
THEOREM HalfSchemasAreBeingMade == Spec /\ []StatementsApply => []HalfSchemaIsBeingMade
<1>1. IInv /\ HInv => HalfSchemaIsBeingMade
  BY DEF HInv, FaultFree, Waited, Went, HalfSchemaIsBeingMade
<1> QED
  BY <1>1, InitHInv, NextHInv, Invariant, PTL DEF Spec

-----------------------------------------------------------------------------
(***************************************************************************)
(* Why no statement fails: each needs only what the ones before it have    *)
(* made, and must not find only what they have dropped, whatever there was *)
(* before the first; and nobody makes it again in between, for only the    *)
(* session that holds the lock writes the schema.                          *)
(***************************************************************************)
\* What is not there when the first n statements have been executed.
Gone(n) ==
  {o \in Objects : \E i \in 1..n :
     /\ o \in Script[i].drops
     /\ \A j \in i..n : o \notin Script[j].makes}

Ordered ==
  \A n \in 0..(Len(Script) - 1) : /\ Script[n + 1].needs \subseteq Made(n)
                                  /\ Script[n + 1].forbids \subseteq Gone(n)

Cleared(p) == session[p] /\ pc[p] = "run" => Gone(done[p]) \cap schema = {}

AInv == IInv /\ \A p \in Procs : Cleared(p)

LEMMA GoneAtFirst == Gone(0) = {}
BY DEF Gone

LEMMA GoneByOneMore ==
  ASSUME NEW n \in Nat, NEW s, Gone(n) \cap s = {}
  PROVE  Gone(n + 1) \cap ((s \ Script[n + 1].drops) \cup Script[n + 1].makes) = {}
<1> SUFFICES ASSUME NEW o \in Gone(n + 1)
    PROVE  /\ o \notin Script[n + 1].makes
           /\ o \notin s \/ o \in Script[n + 1].drops
  OBVIOUS
<1>1. PICK i \in 1..(n + 1) : /\ o \in Script[i].drops
                             /\ \A j \in i..(n + 1) : o \notin Script[j].makes
  BY DEF Gone
<1>2. o \notin Script[n + 1].makes
  <2>1. n + 1 \in i..(n + 1)
    BY <1>1
  <2> QED
    BY <1>1, <2>1
<1>3. CASE i = n + 1
  BY <1>1, <1>2, <1>3
<1>4. CASE i # n + 1
  <2>1. i \in 1..n /\ \A j \in i..n : j \in i..(n + 1)
    BY <1>1, <1>4
  <2>2. o \in Gone(n)
    BY <1>1, <2>1 DEF Gone
  <2> QED
    BY <1>2, <2>2
<1> QED
  BY <1>3, <1>4

\* A step that leaves the schema, and runs no migration that did not run before.
LEMMA UnchangedIsCleared ==
  ASSUME UNCHANGED schema, NEW q,
         session'[q] /\ pc'[q] = "run"
           => \/ session[q] /\ pc[q] = "run" /\ done'[q] = done[q]
              \/ done'[q] = 0,
         Cleared(q)
  PROVE  Cleared(q)'
BY GoneAtFirst DEF Cleared, Gone

LEMMA QuietIsCleared ==
  ASSUME AInv, NEW p \in Procs, Quiet(p), NEW q \in Procs
  PROVE  Cleared(q)'
<1>1. /\ UNCHANGED schema /\ Cleared(q)
      /\ session'[q] /\ pc'[q] = "run"
           => session[q] /\ pc[q] = "run" /\ done'[q] = done[q]
  BY DEF Quiet, AInv
<1> QED
  BY <1>1, UnchangedIsCleared

LEMMA RunStatementIsCleared ==
  ASSUME AInv, NEW p \in Procs, RunStatement(p), NEW q \in Procs
  PROVE  Cleared(q)'
<1>1. /\ session[p] /\ pc[p] = "run" /\ Cleared(p) /\ TypeOK
      /\ schema' = (schema \ Script[done[p] + 1].drops) \cup Script[done[p] + 1].makes
      /\ done' = [done EXCEPT ![p] = @ + 1] /\ UNCHANGED <<session, pc>>
  BY DEF AInv, IInv, RunStatement, NextStatement, process
<1>2. CASE q = p
  <2>1. PICK n \in Nat : n = done[p] /\ done'[p] = n + 1
    BY <1>1, ScriptTypes DEF TypeOK
  <2>2. Gone(n) \cap schema = {}
    BY <1>1, <2>1 DEF Cleared
  <2>3. Gone(n + 1) \cap schema' = {}
    BY <1>1, <2>1, <2>2, GoneByOneMore
  <2> QED
    BY <1>2, <2>1, <2>3 DEF Cleared, Gone
<1>3. CASE q # p
  <2>1. ~(session[q] /\ pc[q] = "run")
    BY <1>1, <1>3, OnlyTheHolder DEF Locked
  <2> QED
    BY <1>1, <2>1 DEF Cleared
<1> QED
  BY <1>2, <1>3

LEMMA HolderIsCleared ==
  ASSUME AInv, NEW p \in Procs,
         ensureVersionTable(p) \/ SetDirty(p) \/ Ran(p) \/ SetClean(p),
         NEW q \in Procs
  PROVE  Cleared(q)'
<1>1. TypeOK /\ SoundSession(p) /\ Cleared(q)
  BY DEF AInv, IInv
<1>2. CASE Exit(p)
  BY <1>1, <1>2, ExitIsQuiet, QuietIsCleared
<1>3. CASE ensureVersionTable(p) /\ ~Exit(p)
  <2>1. Goto(p, "source") /\ UNCHANGED <<process, done, schema>>
    BY <1>3, Zenon DEF ensureVersionTable
  <2> QED
    BY <1>1, <2>1, UnchangedIsCleared DEF Goto, TypeOK, process
<1>4. CASE SetDirty(p)
  BY <1>1, <1>4, UnchangedIsCleared DEF SetDirty, SoundSession, Goto, TypeOK, process
<1>5. CASE Ran(p)
  BY <1>1, <1>5, UnchangedIsCleared DEF Ran, Goto, TypeOK, process, database
<1>6. CASE SetClean(p)
  BY <1>1, <1>6, UnchangedIsCleared DEF SetClean, Goto, TypeOK, process
<1> QED
  BY <1>2, <1>3, <1>4, <1>5, <1>6, Zenon

LEMMA InitAInv == Init => AInv
BY InitIInv DEF Init, AInv, Cleared

LEMMA NextAInv == AInv /\ [Next]_vars => AInv'
<1> SUFFICES ASSUME AInv, [Next]_vars PROVE AInv'
  OBVIOUS
<1>1. IInv /\ IInv'
  BY NextIInv DEF AInv
<1>2. ASSUME NEW q \in Procs PROVE Cleared(q)'
  <2>1. ASSUME NEW p \in Procs, Advance(p) PROVE Cleared(q)'
    BY <1>1, <2>1, QuietAdvance, QuietIsCleared, RunStatementIsCleared,
       HolderIsCleared DEF Advance
  <2>2. ASSUME NEW p \in Procs,
               Start(p) \/ ConsumerPanics(p) \/ Crash(p) \/ SessionEnds(p) \/ LoseSession(p)
        PROVE  Cleared(q)'
    BY <1>1, <2>2, QuietFault, QuietIsCleared
  <2>3. CASE UNCHANGED vars
    BY <2>3, UnchangedIsCleared DEF vars, process, database, AInv
  <2> QED
    BY <2>1, <2>2, <2>3 DEF Next
<1> QED
  BY <1>1, <1>2 DEF AInv

\* No statement of a migration that is in order fails on what it finds, whatever
\* schema the database has at first, and whoever else starts, migrates or is
\* cut off (000001_initial_schema.up.sql:4-127; the session of a dead process
\* runs on, and keeps the lock for as long).
THEOREM StatementsOfAnOrderedScriptApply ==
  ASSUME Ordered
  PROVE  Spec => []StatementsApply
<1>1. ASSUME AInv, NEW p \in Procs, session[p], pc[p] = "run", done[p] < Len(Script)
      PROVE  Applicable(NextStatement(p))
  <2>1. /\ Made(done[p]) \subseteq schema /\ Gone(done[p]) \cap schema = {}
        /\ done[p] \in 0..(Len(Script) - 1)
    BY <1>1, ScriptTypes DEF AInv, IInv, TypeOK, SoundSession, Cleared
  <2>2. /\ Script[done[p] + 1].needs \subseteq Made(done[p])
        /\ Script[done[p] + 1].forbids \subseteq Gone(done[p])
    BY <2>1 DEF Ordered
  <2> QED
    BY <2>1, <2>2 DEF Applicable, NextStatement
<1>2. AInv => StatementsApply
  BY <1>1 DEF StatementsApply
<1>3. Spec => []AInv
  BY InitAInv, NextAInv, PTL DEF Spec
<1> QED
  BY <1>2, <1>3, PTL
=============================================================================
