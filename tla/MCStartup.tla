----------------------------- MODULE MCStartup -----------------------------
(***************************************************************************)
(* Startup with the migration of the service, on a database that is empty, *)
(* has all of its tables from elsewhere, or some of them.                  *)
(***************************************************************************)
EXTENDS Startup, SchemaMigration

MCSchemas == {{}, {Table(t) : t \in Tables}, {Table("users"), Table("audit_logs")}}
=============================================================================
