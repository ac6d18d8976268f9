CONSTANTS
  Qubits = {0, 1, 2, 3, 4}
  Couplers <- MCCouplers
  Problems <- MCProblems
  Scale = 60
  NumVariables = 4
  Matrices <- MCMatrices
  NumVars = 4
  Tables <- MCTables
  GivenWeights = {0, 7}
  NumSearched = 3
  ActiveQubits = 2
  Objectives <- MCObjectives
  MaxEvaluations = 26
  ExitThreshold = 0
  MaxSamples = 1
  MinDist = 1
  MinDistThreshold = 0
  FlatThreshold = 1
  Target <- MCTarget
  Graphs <- MCGraphs
  Alpha = 4
  Tries = 1
  MaxNoImprovement = 1
  MaxShuffle = 2
  LocalProblems <- MCLocalProblems
  SolverVars <- MCSolverVars
  ActivePairs <- MCActivePairs
  NumReads = 3
  MaxAnswers = 2
  NoProgressLimit = 1
  NumPerturbedCopies = 1
  IterationLimit = 2
  QpQubits <- MCQubits
  QpCouplers <- MCQpCouplers
  NumQubits = 12
  QpProblems <- MCQpProblems
  QpSpins <- MCQpSpins
  NumRows = 3
  NumCols = 3
  EntryValues = {1, 2}
  SapiCalls = {c1}
  MaxItems = 2
  Fds = {1}
  MaxWaits = 2
  MaxQueue = 2
  MaxCallbacks = 2
  Handles = {h1, h2}
  ParamQubits = 3
  ChainNumbers <- MCChainNumbers
  PlainParams = {"beta"}
  MaxRows = 3
  MaxCols = 3
  MaxSide = 3
SPECIFICATION FindSpec
CHECK_DEADLOCK FALSE
INVARIANT FailureGivesNone
