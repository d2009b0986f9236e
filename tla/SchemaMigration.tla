-------------------------- MODULE SchemaMigration --------------------------
(***************************************************************************)
(* The one migration of the service, 000001_initial_schema.up.sql, as the  *)
(* sequence of its statements.  MySQL commits each of them by itself, so   *)
(* that a migration that is cut off leaves what its first statements made. *)
(*                                                                         *)
(* What a statement makes is an object: a table, one of the indexes of a   *)
(* table, or the row that is put into it.  A statement is what it drops,   *)
(* what it makes, what must be there for it, and what must not.            *)
(***************************************************************************)
EXTENDS Sequences

Tables == {"users", "transactions", "ussd_sessions", "audit_logs",
           "system_config", "ussd_menus"}

\* The tables that have a foreign key to users.
Referring == {"transactions", "audit_logs", "system_config"}

Table(t) == <<"table", t>>
Index(t, columns) == <<"index", t, columns>>
Row(t) == <<"row", t>>

Indexes == {Index("transactions", "reference_id"), Index("transactions", "sender_id"),
            Index("transactions", "recipient_id"), Index("ussd_sessions", "session_id"),
            Index("ussd_sessions", "phone_number"), Index("audit_logs", "user_id"),
            Index("audit_logs", "entity_type_id")}

SchemaObjects == {Table(t) : t \in Tables} \cup Indexes
                 \cup {Row("users"), Row("system_config")}

\* A table goes with its indexes and rows, and not while others refer to it.
Drop(t) ==
  [drops |-> {o \in SchemaObjects : o[2] = t}, makes |-> {}, needs |-> {},
   forbids |-> IF t = "users" THEN {Table(r) : r \in Referring} ELSE {}]

Create(t) ==
  [drops |-> {}, makes |-> {Table(t)}, forbids |-> {Table(t)},
   needs |-> IF t \in Referring THEN {Table("users")} ELSE {}]

Add(index) ==
  [drops |-> {}, makes |-> {index}, forbids |-> {index}, needs |-> {Table(index[2])}]

\* The row of system_config refers to the first of users, as updated_by.
Insert(t) ==
  [drops |-> {}, makes |-> {Row(t)}, forbids |-> {Row(t)},
   needs |-> {Table(t)} \cup IF t = "system_config" THEN {Row("users")} ELSE {}]

\* A definition whose name ends in Mutant is the next one with a plausible
\* mistake; no specification uses it.  Here, users is not dropped last.
DropsMutant == <<Drop("users"), Drop("transactions"), Drop("ussd_sessions"),
                 Drop("audit_logs"), Drop("system_config"), Drop("ussd_menus")>>

Drops == <<Drop("transactions"), Drop("ussd_sessions"), Drop("audit_logs"),
           Drop("system_config"), Drop("ussd_menus"), Drop("users")>>

Creates == <<Create("users"), Create("transactions"), Create("ussd_sessions"),
             Create("audit_logs"), Create("system_config"), Create("ussd_menus")>>

Adds == <<Add(Index("transactions", "reference_id")), Add(Index("transactions", "sender_id")),
          Add(Index("transactions", "recipient_id")), Add(Index("ussd_sessions", "session_id")),
          Add(Index("ussd_sessions", "phone_number")), Add(Index("audit_logs", "user_id")),
          Add(Index("audit_logs", "entity_type_id"))>>

Migration == Drops \o Creates \o Adds \o <<Insert("users"), Insert("system_config")>>
=============================================================================
