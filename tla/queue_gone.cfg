CONSTANTS
  None = None
  Callers <- ShippedQueue
  Messages <- OneEach
  QueueOf <- FirstOf
  Conns = {c1, c2}
  Constructor = "NewRabbitMQClient"
  MaxRetries = 3
  Losses = 1
  Refusals = 0
  Rejections = 0
  Prefixed = FALSE
  BetSettlements <- WithThePrefix
  Troubles = 0
SPECIFICATION FairSpec
PROPERTIES
  ConsumersComeBack
CHECK_DEADLOCK FALSE
