CONSTANTS
  None = None
  Inputs <- MCInputs
  Phones = {p1, short}
  ShortPhones = {short}
  SessionIDs = {s1}
  Ids = {i1}
  Requests = {r1}
  InFlight = 1
  Failures = {"redis", "crash"}
  Repaired = {"miss", "key"}
SPECIFICATION FairSpec
INVARIANTS TypeOK StoredSessionsWellFormed PanicOnlyOnShortPhone LedgerSound NoUnmandatedPayment
PROPERTIES PaysAsAskedAndConfirmed BalanceIsTransient EveryRequestAnswered
