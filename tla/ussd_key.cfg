CONSTANTS
  None = None
  Inputs <- MCFewInputs
  Phones = {p1}
  ShortPhones = {}
  SessionIDs = {s1}
  Ids = {i1}
  Requests = {r1}
  InFlight = 1
  Failures = {}
  Repaired = {"miss"}
SPECIFICATION Spec
INVARIANTS PersistedSessionsAreFound
