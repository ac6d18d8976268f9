CONSTANTS
  Problems = {p1, p2}
  Fetches = {}
  NoFetch = NoFetch
  Threads = {t1, t2}
  Io = io
  Conns = {1, 2}
  MaxActiveRequests = 1
  MaxProblemsPerSubmission = 1
  MaxIdsPerStatusQuery = 2
  InitDelay = 1
  MaxDelay = 1
  ScaleNum = 2
  ScaleDen = 1
  Usages <- OneSlotUsages
  PromptSenders = TRUE
SYMMETRY Symmetry
SPECIFICATION Spec
CHECK_DEADLOCK FALSE
INVARIANTS
  ProblemInOnePlace
  SubmittedOnceThenPolled
