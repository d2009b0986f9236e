----------------------- MODULE SchemaMigrationProofs -----------------------
(***************************************************************************)
(* The migration of the service is in order: of its 21 statements none     *)
(* can fail on what the ones before it leave, on whatever database.        *)
(***************************************************************************)
EXTENDS StartupProofs, SchemaMigration

LEMMA MigrationIs ==
  /\ Len(Migration) = 21
  /\ Migration[1] = Drop("transactions")
  /\ Migration[2] = Drop("ussd_sessions")
  /\ Migration[3] = Drop("audit_logs")
  /\ Migration[4] = Drop("system_config")
  /\ Migration[5] = Drop("ussd_menus")
  /\ Migration[6] = Drop("users")
  /\ Migration[7] = Create("users")
  /\ Migration[8] = Create("transactions")
  /\ Migration[9] = Create("ussd_sessions")
  /\ Migration[10] = Create("audit_logs")
  /\ Migration[11] = Create("system_config")
  /\ Migration[12] = Create("ussd_menus")
  /\ Migration[13] = Add(Index("transactions", "reference_id"))
  /\ Migration[14] = Add(Index("transactions", "sender_id"))
  /\ Migration[15] = Add(Index("transactions", "recipient_id"))
  /\ Migration[16] = Add(Index("ussd_sessions", "session_id"))
  /\ Migration[17] = Add(Index("ussd_sessions", "phone_number"))
  /\ Migration[18] = Add(Index("audit_logs", "user_id"))
  /\ Migration[19] = Add(Index("audit_logs", "entity_type_id"))
  /\ Migration[20] = Insert("users")
  /\ Migration[21] = Insert("system_config")
BY DEF Migration, Drops, Creates, Adds

\* The first six statements, which drop what there is.
LEMMA DropsAre ==
  /\ \A k \in 1..6 : Migration[k].makes = {} /\ Migration[k].needs = {}
  /\ \A k \in 1..5 : Migration[k].forbids = {}
  /\ Migration[6].forbids = {Table(r) : r \in Referring}
  /\ Migration[1].drops = {o \in SchemaObjects : o[2] = "transactions"}
  /\ Migration[2].drops = {o \in SchemaObjects : o[2] = "ussd_sessions"}
  /\ Migration[3].drops = {o \in SchemaObjects : o[2] = "audit_logs"}
  /\ Migration[4].drops = {o \in SchemaObjects : o[2] = "system_config"}
  /\ Migration[5].drops = {o \in SchemaObjects : o[2] = "ussd_menus"}
  /\ Migration[6].drops = {o \in SchemaObjects : o[2] = "users"}
BY MigrationIs DEF Drop

\* The others, which make one object each.
LEMMA MakesAre ==
  /\ Migration[7].makes = {Table("users")}
  /\ Migration[8].makes = {Table("transactions")}
  /\ Migration[9].makes = {Table("ussd_sessions")}
  /\ Migration[10].makes = {Table("audit_logs")}
  /\ Migration[11].makes = {Table("system_config")}
  /\ Migration[12].makes = {Table("ussd_menus")}
  /\ Migration[13].makes = {Index("transactions", "reference_id")}
  /\ Migration[14].makes = {Index("transactions", "sender_id")}
  /\ Migration[15].makes = {Index("transactions", "recipient_id")}
  /\ Migration[16].makes = {Index("ussd_sessions", "session_id")}
  /\ Migration[17].makes = {Index("ussd_sessions", "phone_number")}
  /\ Migration[18].makes = {Index("audit_logs", "user_id")}
  /\ Migration[19].makes = {Index("audit_logs", "entity_type_id")}
  /\ Migration[20].makes = {Row("users")}
  /\ Migration[21].makes = {Row("system_config")}
BY MigrationIs DEF Create, Add, Insert

LEMMA MakersAre ==
  \A k \in 7..21 : /\ Migration[k].drops = {}
                   /\ Migration[k].forbids = Migration[k].makes
<1> SUFFICES ASSUME NEW k \in 7..21
             PROVE  Migration[k].drops = {} /\ Migration[k].forbids = Migration[k].makes
  OBVIOUS
<1>1. \/ \E t \in Tables : Migration[k] = Create(t)
      \/ \E i \in Indexes : Migration[k] = Add(i)
      \/ \E t \in Tables : Migration[k] = Insert(t)
  BY MigrationIs DEF Tables, Indexes
<1>2. \A t : Create(t).drops = {} /\ Create(t).forbids = Create(t).makes
  BY DEF Create
<1>3. \A i : Add(i).drops = {} /\ Add(i).forbids = Add(i).makes
  BY DEF Add
<1>4. \A t : Insert(t).drops = {} /\ Insert(t).forbids = Insert(t).makes
  BY DEF Insert
<1> QED
  BY <1>1, <1>2, <1>3, <1>4

LEMMA NeedsAre ==
  /\ Migration[7].needs = {}
  /\ Migration[8].needs = {Table("users")}
  /\ Migration[9].needs = {}
  /\ Migration[10].needs = {Table("users")}
  /\ Migration[11].needs = {Table("users")}
  /\ Migration[12].needs = {}
  /\ Migration[13].needs = {Table("transactions")}
  /\ Migration[14].needs = {Table("transactions")}
  /\ Migration[15].needs = {Table("transactions")}
  /\ Migration[16].needs = {Table("ussd_sessions")}
  /\ Migration[17].needs = {Table("ussd_sessions")}
  /\ Migration[18].needs = {Table("audit_logs")}
  /\ Migration[19].needs = {Table("audit_logs")}
  /\ Migration[20].needs = {Table("users")}
  /\ Migration[21].needs = {Table("system_config"), Row("users")}
BY MigrationIs DEF Create, Add, Insert, Index, Referring

LEMMA MakesApart ==
  \A j \in 7..21 : \A k \in 7..21 : j # k => Migration[j].makes \cap Migration[k].makes = {}
BY MakesAre DEF Table, Index, Row

\* Every object goes with one of the tables, and all tables are dropped.
LEMMA AllIsDropped ==
  \A o \in SchemaObjects : \E i \in 1..6 : o \in Migration[i].drops
<1> SUFFICES ASSUME NEW o \in SchemaObjects
             PROVE  \E i \in 1..6 : o \in Migration[i].drops
  OBVIOUS
<1>1. o[2] \in Tables
  BY DEF SchemaObjects, Indexes, Tables, Table, Index, Row
<1> QED
  BY <1>1, DropsAre DEF Tables

LEMMA ProductsAreObjects ==
  \A k \in 7..21 : Migration[k].makes \subseteq SchemaObjects
BY MakesAre DEF SchemaObjects, Tables, Indexes

\* What a statement makes is there for all that follow: they drop nothing.
LEMMA MadeFrom ==
  ASSUME Script = Migration, Objects = SchemaObjects,
         NEW k \in 7..21, NEW n \in k..21
  PROVE  Migration[k].makes \subseteq Made(n)
<1> SUFFICES ASSUME NEW o \in Migration[k].makes PROVE o \in Made(n)
  OBVIOUS
<1>1. o \in SchemaObjects /\ k \in 1..n
  BY ProductsAreObjects
<1>2. \A j \in (k + 1)..n : o \notin Script[j].drops
  BY MakersAre
<1> QED
  BY <1>1, <1>2 DEF Made

\* What it makes is not there before: it was dropped, and nobody made it since.
LEMMA GoneUntil ==
  ASSUME Script = Migration, Objects = SchemaObjects, NEW k \in 7..21
  PROVE  Migration[k].makes \subseteq Gone(k - 1)
<1> SUFFICES ASSUME NEW o \in Migration[k].makes PROVE o \in Gone(k - 1)
  OBVIOUS
<1>1. o \in SchemaObjects
  BY ProductsAreObjects
<1>2. PICK i \in 1..6 : o \in Migration[i].drops
  BY <1>1, AllIsDropped
<1>3. ASSUME NEW j \in i..(k - 1) PROVE o \notin Script[j].makes
  <2>1. CASE j \in 1..6
    BY <2>1, DropsAre
  <2>2. CASE j \in 7..21
    BY <2>2, MakesApart
  <2> QED
    BY <2>1, <2>2
<1>4. i \in 1..(k - 1)
  OBVIOUS
<1> QED
  BY <1>1, <1>2, <1>3, <1>4 DEF Gone

\* users is dropped when the tables that refer to it are gone.
LEMMA ReferringIsGone ==
  ASSUME Script = Migration, Objects = SchemaObjects
  PROVE  {Table(r) : r \in Referring} \subseteq Gone(5)
<1> SUFFICES ASSUME NEW r \in Referring PROVE Table(r) \in Gone(5)
  OBVIOUS
<1>1. Table(r) \in SchemaObjects /\ Table(r)[2] = r
  BY DEF Referring, SchemaObjects, Tables, Table
<1>2. PICK i \in {1, 3, 4} : Table(r) \in Migration[i].drops
  BY <1>1, DropsAre DEF Referring
<1>3. \A j \in i..5 : Table(r) \notin Script[j].makes
  BY DropsAre
<1> QED
  BY <1>1, <1>2, <1>3 DEF Gone

\* A statement needs no more than tables and rows that earlier ones make.
LEMMA NeedsAreMade ==
  ASSUME NEW k \in 7..21, NEW o \in Migration[k].needs
  PROVE  \E j \in 7..(k - 1) : o \in Migration[j].makes
BY NeedsAre, MakesAre

\* Every statement of 000001_initial_schema.up.sql needs only what those before
\* it made, and what it must not find they have dropped: the tables go in an
\* order that the foreign keys to users allow, and come back in one (lines 4-127).
THEOREM MigrationIsOrdered ==
  ASSUME Script = Migration, Objects = SchemaObjects
  PROVE  Ordered
<1> SUFFICES ASSUME NEW n \in 0..20
             PROVE  /\ Migration[n + 1].needs \subseteq Made(n)
                    /\ Migration[n + 1].forbids \subseteq Gone(n)
  BY MigrationIs DEF Ordered
<1>1. CASE n \in 0..4
  BY <1>1, DropsAre
<1>2. CASE n = 5
  BY <1>2, DropsAre, ReferringIsGone
<1>3. CASE n \in 6..20
  <2>1. n + 1 \in 7..21 /\ (n + 1) - 1 = n
    BY <1>3
  <2>2. Migration[n + 1].forbids \subseteq Gone(n)
    BY <2>1, GoneUntil, MakersAre
  <2>3. ASSUME NEW o \in Migration[n + 1].needs PROVE o \in Made(n)
    <3>1. PICK j \in 7..n : o \in Migration[j].makes
      BY <2>1, NeedsAreMade
    <3>2. n \in j..21
      BY <2>1
    <3> QED
      BY <3>1, <3>2, <2>1, MadeFrom
  <2> QED
    BY <2>2, <2>3
<1> QED
  BY <1>1, <1>2, <1>3

\* The migration of the service applies to every database that has not had it,
\* however many processes start, die, are cut off or time out meanwhile: none of
\* its statements fails on what it finds; and while nothing has failed, a service
\* that is up on half a schema has another beside it that completes it (sql:4-127,
\* routes.go:57-61).
THEOREM TheMigrationApplies ==
  ASSUME Script = Migration, Objects = SchemaObjects
  PROVE  Spec => [](StatementsApply /\ HalfSchemaIsBeingMade)
<1>1. Spec => []StatementsApply
  BY MigrationIsOrdered, StatementsOfAnOrderedScriptApply
<1>2. Spec /\ []StatementsApply => []HalfSchemaIsBeingMade
  BY HalfSchemasAreBeingMade
<1> QED
  BY <1>1, <1>2, PTL
=============================================================================
