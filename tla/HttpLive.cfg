CONSTANTS
  Conns = {c1, c2}
  Nil = Nil
  Workers = {w1, w2}
  NoWork = NoWork
SPECIFICATION FairSpec
CHECK_DEADLOCK FALSE
PROPERTIES
  RequestsAreAnswered
  ShutdownReturns
