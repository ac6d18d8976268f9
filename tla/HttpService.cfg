CONSTANTS
  Conns = {c1, c2, c3}
  Nil = Nil
  Workers = {w1, w2}
  NoWork = NoWork
SYMMETRY Symmetry
SPECIFICATION Spec
CHECK_DEADLOCK FALSE
INVARIANTS
  NothingLost
  CalledAtMostOnce
  AnsweredWhenGone
  CallbacksHaveWorkers
