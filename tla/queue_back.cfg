CONSTANTS
  None = None
  Callers <- TwoQueues
  Messages <- OneOnly
  QueueOf <- FirstOf
  Conns = {c1, c2, c3, c4, c5, c6}
  Constructor = "NewClient"
  MaxRetries = 3
  Losses = 1
  Refusals = 1
  Rejections = 1
  Prefixed = TRUE
  BetSettlements <- WithThePrefix
  Troubles = 0
SPECIFICATION FairSpec
PROPERTIES
  ConsumesAtLeastOnce
  ConsumersComeBack
  EveryMessageIsConsumed
CHECK_DEADLOCK FALSE
