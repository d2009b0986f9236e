CONSTANTS
  None = None
  Inputs <- MCFewInputs
  Phones = {p1}
  ShortPhones = {}
  SessionIDs = {s1}
  Ids = {i1}
  Requests = {r1, r2}
  InFlight = 2
  Failures = {"redis", "crash"}
  Repaired = {"miss", "key"}
SPECIFICATION Spec
INVARIANTS StoredSessionsWellFormed NoUnmandatedPayment
PROPERTIES PaysAsAskedAndConfirmed BalanceIsTransient
