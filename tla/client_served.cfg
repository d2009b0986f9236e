CONSTANTS
  None = None
  Callers = {p1, p2}
  Conns = {c1, c2, c3, c4, c5, c6, c7}
  Constructor = "NewClient"
  MaxRetries = 3
  Losses = 1
  Refusals = 1
  Rejections = 1
SPECIFICATION ClientFairSpec
PROPERTIES
  AlwaysServedAgain
  ReconnectionsEnd
