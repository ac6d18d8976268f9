CONSTANTS
  Conns = {c1, c2}
  Nil = Nil
  Workers = {w1, w2}
  NoWork = NoWork
SYMMETRY Symmetry
SPECIFICATION Spec
CHECK_DEADLOCK FALSE
INVARIANTS
  ShutdownFinishesAll
