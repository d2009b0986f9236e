CONSTANTS
  None = None
  Callers = {p1, p2}
  Conns = {c1, c2, c3, c4, c5, c6, c7, c8, c9, c10, c11, c12}
  Constructor = "NewClient"
  MaxRetries = 2
  Losses = 2
  Refusals = 0
  Rejections = 0
SPECIFICATION ClientSpec
INVARIANTS
  ClientTypeOK
  LossIsNoticed
SYMMETRY Symmetry
VIEW UpToNames
