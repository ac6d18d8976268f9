CONSTANTS
  Problems = {p1, p2}
  Fetches = {f1, f2}
  NoFetch = NoFetch
  Threads = {t1, t2}
  Io = io
  Conns = {1, 2, 3}
  MaxActiveRequests = 2
  MaxProblemsPerSubmission = 1
  MaxIdsPerStatusQuery = 2
  InitDelay = 1
  MaxDelay = 1
  ScaleNum = 2
  ScaleDen = 1
  Usages <- TwoSlotUsages
  PromptSenders = TRUE
SYMMETRY Symmetry
SPECIFICATION Spec
CHECK_DEADLOCK FALSE
INVARIANTS
  SlotsAccounted
  WorkIsRequested
  QueueServed
  QueueHasWaker
  FetchInOnePlace
