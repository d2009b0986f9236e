------------------------------ MODULE Startup ------------------------------
(***************************************************************************)
(* The start of the service, router.Init: connect MySQL, migrate, connect  *)
(* Redis and RabbitMQ, start the consumers, listen.  Several processes may *)
(* start on one database, one after the other died or beside it.           *)
(*                                                                         *)
(* The migrations go through golang-migrate, which keeps them apart with   *)
(* MySQL's GET_LOCK and records in schema_migrations how far they are.     *)
(* The lock belongs to the MySQL session of a process, which may end       *)
(* before the process does, or outlive it: MySQL goes on with what it was  *)
(* sent until it notices that nobody listens.                              *)
(***************************************************************************)
EXTENDS Integers, Sequences, FiniteSets

CONSTANTS
  Procs,     \* processes of the service that may be there at a time
  None,      \* no process
  Objects,   \* what a schema consists of: tables, indexes and rows
  Script,    \* the statements of the migration
  Schemas,   \* the schemas the database may have before its first migration
  Failures   \* what may fail: "crash", "session", "sql", "files"

Statement == [drops : SUBSET Objects, makes : SUBSET Objects,
              needs : SUBSET Objects, forbids : SUBSET Objects]

\* What is left when the first n statements have been executed.
Made(n) ==
  {o \in Objects : \E i \in 1..n :
     /\ o \in Script[i].makes
     /\ \A j \in (i + 1)..n : o \notin Script[j].drops}

Whole == Made(Len(Script))

ASSUME StartupAssumption ==
  /\ None \notin Procs
  /\ Script \in Seq(Statement)
  /\ Schemas \subseteq SUBSET Objects
  /\ \A s \in Schemas : ~(Whole \subseteq s)
  /\ Failures \subseteq {"crash", "session", "sql", "files"}

VARIABLES
  up,       \* whether each process runs
  pc,       \* where it is in Init; when it is dead, where it was
  session,  \* whether its MySQL session, of the migrations, is there
  done,     \* how many statements of the migration that session has executed
  client,   \* singleClient # nil && initialized
  lock,     \* the process whose session holds the advisory lock
  version,  \* schema_migrations: no such table, no row, version 1 dirty or not
  schema,   \* what there is in the database
  fault     \* history: whether a process, a session, a file or a query failed

process  == <<up, session, client>>
database == <<lock, version, schema>>
vars == <<process, pc, done, database, fault>>

\* The places at which the session holds the lock.
Locked == {"ensure", "version", "begin", "run", "finish", "unlock"}

\* Those between the first lock of a process and its last.
Pending == {"ensure", "source", "lock", "version", "begin", "run", "finish"}

\* Those after m.Up().
Started == {"redis", "client", "manager", "listen", "serving"}

Complete == Whole \subseteq schema

TypeOK ==
  /\ up \in [Procs -> BOOLEAN]
  /\ pc \in [Procs -> {"off", "connect", "driver"} \cup Locked \cup Pending \cup Started]
  /\ session \in [Procs -> BOOLEAN]
  /\ done \in [Procs -> 0..Len(Script)]
  /\ client \in [Procs -> BOOLEAN]
  /\ lock \in Procs \cup {None}
  /\ version \in {"absent", "none", "dirty", "clean"}
  /\ schema \subseteq Objects
  /\ fault \in BOOLEAN
  /\ \A p \in Procs : lock = p <=> session[p] /\ pc[p] \in Locked

Init ==
  /\ up = [p \in Procs |-> FALSE]
  /\ pc = [p \in Procs |-> "off"]
  /\ session = [p \in Procs |-> FALSE]
  /\ done = [p \in Procs |-> 0]
  /\ client = [p \in Procs |-> FALSE]
  /\ lock = None
  /\ version = "absent"
  /\ schema \in Schemas
  /\ fault = FALSE

Goto(p, label) == pc' = [pc EXCEPT ![p] = label]

Released(p) == IF lock = p THEN None ELSE lock

-----------------------------------------------------------------------------
\* main: the process is started, for the first time or again.
Start(p) ==
  /\ pc[p] = "off"
  /\ up' = [up EXCEPT ![p] = TRUE]
  /\ Goto(p, "connect")
  /\ UNCHANGED <<session, client, done, database, fault>>

\* log.Fatalf, or a panic that nothing recovers.
Exit(p) ==
  /\ up' = [up EXCEPT ![p] = FALSE]
  /\ session' = [session EXCEPT ![p] = FALSE]
  /\ client' = [client EXCEPT ![p] = FALSE]
  /\ done' = [done EXCEPT ![p] = 0]
  /\ lock' = Released(p)
  /\ Goto(p, "off")
  /\ UNCHANGED <<version, schema>>

\* InitTracer, DbInstance and DbInstanceSlave, which end the process if they
\* fail; WithInstance takes a connection of the pool for the migrations.
DbInstance(p) ==
  /\ up[p] /\ pc[p] = "connect"
  /\ \/ /\ session' = [session EXCEPT ![p] = TRUE]
        /\ Goto(p, "driver")
        /\ UNCHANGED <<up, client, done, database>>
     \/ Exit(p)
  /\ UNCHANGED fault

(***************************************************************************)
(* Each definition whose name ends in Mutant is the next one with a        *)
(* plausible mistake; the specification uses none of them.                 *)
(***************************************************************************)

\* Config.NoLock.
LockMutant(p) ==
  /\ session[p] /\ pc[p] \in {"driver", "lock"}
  /\ lock' = p
  /\ Goto(p, IF pc[p] = "driver" THEN "ensure" ELSE "version")
  /\ UNCHANGED <<process, done, version, schema, fault>>

\* GET_LOCK succeeds, even for a process that has died waiting for it.
Lock(p) ==
  /\ session[p] /\ pc[p] \in {"driver", "lock"}
  /\ lock = None
  /\ lock' = p
  /\ Goto(p, IF pc[p] = "driver" THEN "ensure" ELSE "version")
  /\ UNCHANGED <<process, done, version, schema, fault>>

\* GET_LOCK(?, -1) in WithInstance: it waits without end.
LockTimeoutMutant(p) ==
  /\ up[p] /\ session[p] /\ pc[p] = "lock"
  /\ lock # None
  /\ Goto(p, "redis")
  /\ UNCHANGED <<process, done, database, fault>>

\* After ten seconds it fails: a panic in WithInstance, a line in the log in Up,
\* whose own limit of fifteen seconds is taken never to come first.
LockTimeout(p) ==
  /\ up[p] /\ session[p]
  /\ lock # None
  /\ \/ pc[p] = "driver" /\ Exit(p)
     \/ /\ pc[p] = "lock"
        /\ Goto(p, "redis")
        /\ UNCHANGED <<process, done, database>>
  /\ UNCHANGED fault

\* ensureVersionTable, and its deferred Unlock; Init panics on its error.  Its three
\* queries are one step: nobody reads the version without the lock.
ensureVersionTable(p) ==
  /\ up[p] /\ session[p] /\ pc[p] = "ensure"
  /\ \/ /\ version' = IF version = "absent" THEN "none" ELSE version
        /\ lock' = None
        /\ Goto(p, "source")
        /\ UNCHANGED <<process, done, schema, fault>>
     \/ /\ "sql" \in Failures
        /\ Exit(p)
        /\ fault' = TRUE

\* When the files are not there, m is nil and m.Up() panics.
NewWithDatabaseInstance(p) ==
  /\ up[p] /\ pc[p] = "source"
  /\ \/ /\ Goto(p, "lock")
        /\ UNCHANGED <<process, done, database, fault>>
     \/ /\ "files" \in Failures
        /\ Exit(p)
        /\ fault' = TRUE

-----------------------------------------------------------------------------
(***************************************************************************)
(* m.Up(), with the lock.                                                  *)
(***************************************************************************)

\* A dirty version is migrated again.
VersionMutant(p) ==
  /\ up[p] /\ session[p] /\ pc[p] = "version"
  /\ Goto(p, IF version \in {"none", "dirty"} THEN "begin" ELSE "unlock")
  /\ UNCHANGED <<process, done, database, fault>>

\* ErrDirty and ErrNoChange are errors like any other.
Version(p) ==
  /\ up[p] /\ session[p] /\ pc[p] = "version"
  /\ Goto(p, IF version = "none" THEN "begin" ELSE "unlock")
  /\ UNCHANGED <<process, done, database, fault>>

\* The version is written once, before the migration is run.
SetDirtyMutant(p) ==
  /\ up[p] /\ session[p] /\ pc[p] = "begin"
  /\ version' = "clean"
  /\ Goto(p, "run")
  /\ UNCHANGED <<process, done, lock, schema, fault>>

\* SetVersion(1, true), a transaction.
SetDirty(p) ==
  /\ up[p] /\ session[p] /\ pc[p] = "begin"
  /\ version' = "dirty"
  /\ Goto(p, "run")
  /\ UNCHANGED <<process, done, lock, schema, fault>>

Applicable(s) == s.needs \subseteq schema /\ s.forbids \cap schema = {}

NextStatement(p) == Script[done[p] + 1]

\* One statement of the file, which MySQL was sent as a whole.
RunStatement(p) ==
  /\ session[p] /\ pc[p] = "run"
  /\ done[p] < Len(Script)
  /\ Applicable(NextStatement(p))
  /\ schema' = (schema \ NextStatement(p).drops) \cup NextStatement(p).makes
  /\ done' = [done EXCEPT ![p] = @ + 1]
  /\ UNCHANGED <<process, pc, lock, version, fault>>

Ran(p) ==
  /\ up[p] /\ session[p] /\ pc[p] = "run"
  /\ done[p] = Len(Script)
  /\ Goto(p, "finish")
  /\ UNCHANGED <<process, done, database, fault>>

\* SetVersion(1, false).
SetClean(p) ==
  /\ up[p] /\ session[p] /\ pc[p] = "finish"
  /\ version' = "clean"
  /\ Goto(p, "unlock")
  /\ UNCHANGED <<process, done, lock, schema, fault>>

\* A query of Up is refused: it returns the error, and Init only logs it.
QueryFails(p) ==
  /\ up[p] /\ session[p]
  /\ pc[p] \in {"version", "begin", "run", "finish"}
  /\ LET stuck == pc[p] = "run" /\ done[p] < Len(Script) /\ ~Applicable(NextStatement(p)) IN
       /\ stuck \/ "sql" \in Failures
       /\ fault' = (fault \/ ~stuck)
  /\ Goto(p, "unlock")
  /\ UNCHANGED <<process, done, database>>

Unlock(p) ==
  /\ up[p] /\ session[p] /\ pc[p] = "unlock"
  /\ lock' = None
  /\ done' = [done EXCEPT ![p] = 0]
  /\ Goto(p, "redis")
  /\ UNCHANGED <<process, version, schema, fault>>

-----------------------------------------------------------------------------
\* InitRedis configures a client that connects when it is used: nothing fails.
InitRedis(p) ==
  /\ up[p] /\ pc[p] = "redis"
  /\ Goto(p, "client")
  /\ UNCHANGED <<process, done, database, fault>>

\* A refused dial, or channel, ends the process.
InitializeClient(p) ==
  /\ up[p] /\ pc[p] = "client"
  /\ \/ /\ client' = [client EXCEPT ![p] = TRUE]
        /\ Goto(p, "manager")
        /\ UNCHANGED <<up, session, done, database>>
     \/ Exit(p)
  /\ UNCHANGED fault

\* NewQueueManager takes what GetClient returns; InitializeQueues is started.
NewQueueManager(p) ==
  /\ up[p] /\ pc[p] = "manager"
  /\ client[p]
  /\ Goto(p, "listen")
  /\ UNCHANGED <<process, done, database, fault>>

\* e.Start, which returns an error if the port is taken.
Listen(p) ==
  /\ up[p] /\ pc[p] = "listen"
  /\ \/ /\ Goto(p, "serving")
        /\ UNCHANGED <<process, done, database>>
     \/ Exit(p)
  /\ UNCHANGED fault

\* SetupQueue panics in a goroutine of its own, before or after that.
ConsumerPanics(p) ==
  /\ up[p] /\ pc[p] \in {"listen", "serving"}
  /\ Exit(p)
  /\ UNCHANGED fault

-----------------------------------------------------------------------------
\* The process is killed.  Its session stays for as long as MySQL has not
\* noticed.
Crash(p) ==
  /\ "crash" \in Failures
  /\ up[p]
  /\ up' = [up EXCEPT ![p] = FALSE]
  /\ client' = [client EXCEPT ![p] = FALSE]
  /\ IF session[p] THEN UNCHANGED <<pc, done>>
     ELSE Goto(p, "off") /\ done' = [done EXCEPT ![p] = 0]
  /\ fault' = TRUE
  /\ UNCHANGED <<session, database>>

\* The lock stays with a session that is gone.
SessionEndsMutant(p) ==
  /\ ~up[p] /\ session[p]
  /\ session' = [session EXCEPT ![p] = FALSE]
  /\ done' = [done EXCEPT ![p] = 0]
  /\ Goto(p, "off")
  /\ UNCHANGED <<up, client, database, fault>>

SessionEnds(p) ==
  /\ ~up[p] /\ session[p]
  /\ session' = [session EXCEPT ![p] = FALSE]
  /\ done' = [done EXCEPT ![p] = 0]
  /\ lock' = Released(p)
  /\ Goto(p, "off")
  /\ UNCHANGED <<up, client, version, schema, fault>>

\* The session of a live process breaks, and its lock is gone with it.
LoseSession(p) ==
  /\ "session" \in Failures
  /\ up[p] /\ session[p]
  /\ session' = [session EXCEPT ![p] = FALSE]
  /\ lock' = Released(p)
  /\ fault' = TRUE
  /\ UNCHANGED <<up, client, pc, done, version, schema>>

\* The query that meets it fails: a panic in WithInstance, a line in the log in
\* Up, whose Unlock fails too.
SessionLost(p) ==
  /\ up[p] /\ ~session[p]
  /\ \/ pc[p] \in {"driver", "ensure"} /\ Exit(p)
     \/ /\ pc[p] \in {"lock", "version", "begin", "run", "finish", "unlock"}
        /\ done' = [done EXCEPT ![p] = 0]
        /\ Goto(p, "redis")
        /\ UNCHANGED <<process, database>>
  /\ UNCHANGED fault

\* What the process does by itself.
Advance(p) ==
  \/ DbInstance(p) \/ Lock(p) \/ LockTimeout(p) \/ ensureVersionTable(p)
  \/ NewWithDatabaseInstance(p) \/ Version(p) \/ SetDirty(p) \/ RunStatement(p)
  \/ Ran(p) \/ SetClean(p) \/ QueryFails(p) \/ Unlock(p) \/ SessionLost(p)
  \/ InitRedis(p) \/ InitializeClient(p) \/ NewQueueManager(p) \/ Listen(p)

Next == \E p \in Procs : \/ Start(p) \/ Advance(p) \/ ConsumerPanics(p)
                         \/ Crash(p) \/ SessionEnds(p) \/ LoseSession(p)

Spec == Init /\ [][Next]_vars

\* A process runs on: GET_LOCK waits for ten seconds at the most.  Nothing makes
\* MySQL notice soon that a process is dead, and nobody has to start one.
FairSpec == Spec /\ \A p \in Procs : WF_vars(up[p] /\ Advance(p))

-----------------------------------------------------------------------------
\* A version that is not dirty is that of a whole schema, whoever died while it
\* was made (routes.go:57; migrate.go:739-754): it is what keeps every later
\* start from making it again.
CleanMeansComplete == version = "clean" => Complete

\* No statement of the migration fails on what it finds, be it an empty database,
\* the tables of an earlier one, or what a dead process's session makes of it
\* (000001_initial_schema.up.sql:4-127).
StatementsApply ==
  \A p \in Procs :
    session[p] /\ pc[p] = "run" /\ done[p] < Len(Script)
      => Applicable(NextStatement(p))

\* A service that is up before the schema is complete, for it was not given the
\* lock in time (routes.go:57-61), does not stay so: unless something failed, there
\* is a process that will have completed it.
HalfSchemaIsBeingMade ==
  ~fault /\ ~Complete /\ (\E p \in Procs : up[p] /\ pc[p] \in Started)
    => \E q \in Procs : up[q] /\ pc[q] \in Pending

\* How far the migration is: the version tells, and if it is dirty, whether there
\* still is a session that will go on.
BeingMade == \E p \in Procs : session[p] /\ pc[p] \in {"run", "finish"}

Stage == CASE version \in {"absent", "none"} -> "none"
           [] version = "clean" -> "made"
           [] OTHER -> IF BeingMade THEN "making" ELSE "broken"

\* The schema is made once, and whole or never (routes.go:57).
Migrations == INSTANCE MigratesOnce WITH stage <- Stage, whole <- Complete

MigratesAtMostOnce == Migrations!Spec

\* A start is never stuck, not even behind the lock of a dead process: it ends in a
\* server or in the end of the process (routes.go:26-172).
StartsOrExits ==
  \A p \in Procs : up[p] /\ pc[p] = "connect" ~> ~up[p] \/ pc[p] = "serving"
=============================================================================
