CONSTANTS
  None = None
  Callers <- TwoQueues
  Messages <- OneEach
  QueueOf <- FirstOf
  Conns = {c1, c2, c3, c4, c5, c6}
  Constructor = "NewClient"
  MaxRetries = 2
  Losses = 1
  Refusals = 0
  Rejections = 0
  Prefixed = TRUE
  BetSettlements <- WithThePrefix
  Troubles = 1
SPECIFICATION Spec
INVARIANTS
  QTypeOK
  HeldMessagesAreOutstanding
  RedeliveryHasACause
PROPERTIES
  ConsumesAtLeastOnce
CHECK_DEADLOCK FALSE
