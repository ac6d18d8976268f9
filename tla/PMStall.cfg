CONSTANTS
  Problems = {p1}
  Fetches = {}
  NoFetch = NoFetch
  Threads = {t1, t2}
  Io = io
  Conns = {1, 2}
  MaxActiveRequests = 1
  MaxProblemsPerSubmission = 1
  MaxIdsPerStatusQuery = 2
  InitDelay = 1
  MaxDelay = 2
  ScaleNum = 2
  ScaleDen = 1
  Usages <- SubmitUsages
  PromptSenders = FALSE
SYMMETRY Symmetry
SPECIFICATION Spec
CHECK_DEADLOCK FALSE
INVARIANTS
  RetryingIsScheduled
