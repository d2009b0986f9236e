CONSTANTS
  None = None
  Procs = {p1, p2}
  Objects <- SchemaObjects
  Script <- Migration
  Schemas <- MCSchemas
  Failures = {"crash", "session", "sql", "files"}
SPECIFICATION FairSpec
INVARIANTS TypeOK CleanMeansComplete StatementsApply HalfSchemaIsBeingMade
PROPERTIES MigratesAtMostOnce StartsOrExits
