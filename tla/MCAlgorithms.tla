---------------------------- MODULE MCAlgorithms ----------------------------
(***************************************************************************)
(* The sequential algorithms, the C client's calls and the sockets of the  *)
(* http service, each checked on its own within one run: they share no     *)
(* state, so that a behaviour is one of a single part, and the variables   *)
(* of the others keep the values that Idle gives them.                     *)
(***************************************************************************)
EXTENDS Embedding, FixVariables, Polynomial, QSage, FindEmbedding, LocalSolvers,
        QpCoding, CompressedMatrix, SapiService, CurlSockets, ClientCalls,
        SolverParameters, Chimera, TLC

VARIABLE part       \* the part that runs

algorithmsVars ==
  <<embeddingVars, fixVars, polyVars, qsageVars, findVars, localVars, qpVars, matrixVars,
    sapiVars, socketVars, callsVars, paramVars, chimeraVars, part>>

-----------------------------------------------------------------------------
(* Instances *)

\* A five-qubit graph with two cycles; two and three logical variables.
MCCouplers == {{0, 1}, {1, 2}, {2, 3}, {3, 4}, {0, 3}, {1, 4}}
MCProblems ==
  {[h |-> 0 :> x[1] @@ 1 :> x[2], j |-> <<0, 1>> :> k] :
     x \in {<<-1, 2>>, <<2, -1>>, <<0, 2>>}, k \in {0, 1}}
  \cup
  {[h |-> 0 :> x[1] @@ 1 :> x[2] @@ 2 :> x[3],
    j |-> <<0, 1>> :> k[1] @@ <<0, 2>> :> k[2] @@ <<1, 2>> :> k[3]] :
     x \in {<<2, -1, 0>>, <<-1, 0, 3>>}, k \in {<<1, -1, 0>>, <<1, 1, -1>>}}

\* Every mix of signs on three variables, entries on both sides of the
\* diagonal, and variables that cancel out.
MCMatrices ==
  {<<1, 1>> :> a @@ <<2, 2>> :> b @@ <<3, 3>> :> 1 @@ <<1, 2>> :> c @@ <<3, 2>> :> d @@ <<1, 3>> :> e :
     a \in -1 .. 1, b \in {-1, 1}, c \in {-2, 1}, d \in {-2, -1, 1}, e \in {-2, 0, 1}}
  \cup {<<1, 1>> :> a @@ <<1, 2>> :> c @@ <<2, 1>> :> d : a \in -1 .. 1, c \in {-2, 1}, d \in {-2, -1, 1}}
  \cup {<<1, 1>> :> 1 @@ <<2, 2>> :> 1 @@ <<1, 2>> :> -2 @@ <<3, 3>> :> 0 @@ <<4, 4>> :> 1}

\* The values of polynomials of degree 3 and 4 in four variables.
MCBigTerms == {{0, 1, 2}, {0, 1, 3}, {1, 2, 3}, {0, 1, 2, 3}}
MCPolynomials ==
  {c @@ ({0, 1} :> d @@ {2} :> 1 @@ {3, 1} :> -2) : c \in [MCBigTerms -> -1 .. 1], d \in {0, 3}}
MCTables ==
  {[S \in SUBSET (0 .. 3) |-> MapThenSumSet(LAMBDA T : c[T], {T \in DOMAIN c : T \subseteq S})] :
     c \in MCPolynomials}

\* Objectives with a deceptive second minimum, and with two equal minima.
MCObjective(lows) == [s \in SUBSET (1 .. 3) |-> IF s \in DOMAIN lows THEN lows[s] ELSE 2]
MCObjectives ==
  {MCObjective({1, 2, 3} :> 0 @@ {} :> 1), MCObjective({1} :> 0 @@ {2} :> 0 @@ {2, 3} :> 1)}

\* A square and an edge, and what is embedded in them: a triangle, which needs a
\* chain, a path, an edge with a lone variable and a loop, and two edges.
MCTarget == {{0, 1}, {1, 2}, {2, 3}, {0, 3}, {4, 5}}
MCGraphs == {{{1, 2}, {2, 3}, {1, 3}}, {{1, 2}, {2, 3}}, {{1, 2}, {4}}, {{1, 2}, {3, 4}}}

\* Three variables in a field, with and without frustration.
MCField == <<0, 0>> :> 1 @@ <<1, 1>> :> 1 @@ <<2, 2>> :> 1
MCLocalProblems ==
  {[type |-> t, terms |-> MCField @@ (<<0, 1>> :> -1 @@ <<0, 2>> :> 1 @@ <<2, 1>> :> -2)] :
     t \in {"ising", "qubo"}}
  \cup {[type |-> "qubo", terms |-> <<0, 1>> :> -2 @@ <<2, 2>> :> 3],
        [type |-> "ising", terms |-> <<1, 3>> :> 1]}
MCActivePairs == {{0, 1}, {0, 2}, {1, 2}}
MCSolverVars == 0 .. 3

\* Four variables that all want to be equal, in a field that wants them down:
\* with all of them up no forest of variables can be improved.
MCStuck ==
  {[type |-> "ising",
    terms |-> [p \in {p \in (0 .. 3) \X (0 .. 3) : p[1] <= p[2]} |-> IF p[1] = p[2] THEN 1 ELSE -1]]}

\* A solver whose qubits are not in order; answers of more than one byte a row.
MCQubits == <<4, 0, 1, 2, 3, 5, 7, 8, 9, 10, 6>>
MCQpCouplers == <<<<4, 5>>, <<0, 1>>, <<1, 2>>, <<0, 2>>, <<7, 9>>, <<3, 4>>>>
MCEntry(i, j, v) == [i |-> i, j |-> j, value |-> v]
MCSmall == <<MCEntry(2, 0, 3), MCEntry(0, 0, 1), MCEntry(0, 2, 1), MCEntry(4, 4, -2), MCEntry(5, 4, 7)>>
MCWide ==
  MCSmall \o <<MCEntry(1, 1, 1), MCEntry(3, 3, 0), MCEntry(7, 9, 5), MCEntry(8, 8, -3),
               MCEntry(10, 10, 2), MCEntry(9, 9, 1)>>
MCQpProblems == {<<>>, MCSmall, MCWide, <<MCEntry(0, 5, 1)>>, <<MCEntry(11, 11, 1)>>}
MCQpSpins == {{}, {0, 4, 5, 7, 9}, {0, 1, 2, 3, 10, 4, 8}, {10, 5, 9}}

MCChainNumbers == -1 .. 1

-----------------------------------------------------------------------------
Idle == "idle"

EmbeddingIdle ==
  /\ hs = Idle /\ js = Idle /\ chains = Idle /\ embedStage = Idle
  /\ clean = Idle /\ smear = Idle /\ order = Idle /\ avail = Idle
FixIdle ==
  /\ Q = Idle /\ method = Idle /\ residual = Idle /\ step = Idle /\ removed = Idle /\ fixed = Idle
PolyIdle == f = Idle /\ newTerms = Idle /\ mapping = Idle /\ quadratic = FALSE /\ pw = Idle
QSageIdle ==
  /\ energy = Idle /\ best = Idle /\ bestEnergy = Idle /\ progress = Idle /\ current = Idle
  /\ phaseBest = Idle /\ runBest = Idle /\ tabuList = <<>> /\ tabuTenure = 0
  /\ downFlag = Idle /\ flatCounter = Idle /\ tmpBest = Idle /\ tmpBestEnergy = Idle
  /\ minDistCounter = Idle /\ subset = Idle /\ evaluations = Idle /\ stage = Idle
  /\ reason = Idle /\ least = Idle
FindIdle ==
  /\ graph = Idle /\ found = Idle /\ workingSet = Idle /\ todo = Idle /\ tries = Idle
  /\ place = Idle /\ orderQ = Idle /\ at = Idle /\ emb = Idle /\ bestEmb = Idle
  /\ previous = Idle /\ rounds = Idle /\ notImproved = Idle /\ patience = Idle
  /\ shuffle = Idle /\ edgePath = Idle /\ rootVertex = Idle
LocalIdle ==
  /\ job = Idle /\ energies = Idle /\ solving = Idle /\ late = Idle /\ search = Idle
  /\ noProgress = Idle /\ bestResult = Idle /\ initSolution = Idle /\ iterBestSolution = Idle
  /\ iterBestEnergy = Idle /\ iter = Idle /\ copy = Idle /\ leastFound = Idle /\ answers = Idle
QpIdle ==
  /\ asked = Idle /\ lin = Idle /\ quad = Idle /\ foundSpins = Idle /\ answerEnergy = Idle
  /\ text = Idle /\ damaged = FALSE /\ transfer = Idle /\ solutions = Idle
\* Bound: at most one entry is not 1, in a matrix of at most four.
FewValues ==
  LET others == {k \in DOMAIN values : values[k] # 1}
  IN  others = {} \/ (Cardinality(others) = 1 /\ Len(values) <= 4)

\* The empty matrix, as IsSparseMatrix holds of every behaviour.
MatrixIdle ==
  /\ rowOffsets = [r \in 0 .. NumRows |-> 0] /\ colIndices = <<>> /\ values = <<>>
  /\ currRow = 0 /\ currIndex = 0 /\ iterating = FALSE /\ read = <<>>

ParamIdle ==
  /\ description = [parameters |-> [kind |-> Idle]] /\ params = DefaultParams
  /\ sent = NotSent /\ timing = Idle
ChimeraIdle == size = Idle /\ adjacency = <<>>

AlgorithmsInit ==
  /\ part \in {"embedding", "fix", "polynomial", "qsage", "find", "local", "qp", "matrix", "sapi",
              "sockets", "calls", "parameters", "chimera"}
  /\ IF part = "embedding" THEN EmbeddingInit ELSE EmbeddingIdle
  /\ IF part = "fix" THEN FixInit ELSE FixIdle
  /\ IF part = "polynomial" THEN PolyInit ELSE PolyIdle
  /\ IF part = "qsage" THEN QSageInit ELSE QSageIdle
  /\ IF part = "find" THEN FindInit ELSE FindIdle
  /\ IF part = "local" THEN LocalInit ELSE LocalIdle
  /\ IF part = "qp" THEN QpInit ELSE QpIdle
  /\ IF part = "matrix" THEN MatrixInit /\ FewValues ELSE MatrixIdle
  /\ IF part = "parameters" THEN ParamInit ELSE ParamIdle
  /\ IF part = "chimera" THEN ChimeraInit ELSE ChimeraIdle
  /\ SapiInit /\ SocketsInit /\ CallsInit

\* Bound: nothing is looked up in a matrix while an iterator runs.
MatrixBound == (read' # <<>> => ~iterating) /\ FewValues'

\* Bound: a user with two problems asks nothing but waits for them, and they
\* meet no errors but of the network.
Plain(s) ==
  /\ s.ex \in {"none", "Network"} /\ ~s.cancelled
  /\ s.remote \in {"UNKNOWN", "PENDING", "COMPLETED"} /\ s.kind # "solving"
CallsBound ==
  \/ wait' = NoWait /\ Cardinality({h \in Handles : subs'[h] # NoSub}) <= 1
  \/ gave' = NotGiven /\ \A h \in Handles : told'[h] = NotTold /\ Plain(subs'[h])

\* Bound: chains are set with no other parameter.
ParamsBound ==
  params'.chains.set =>
    [params' EXCEPT !.chains = DefaultParams.chains] = DefaultParams

AlgorithmsNext ==
  /\ \/ part = "embedding" /\ EmbeddingNext
     \/ part # "embedding" /\ UNCHANGED embeddingVars
  /\ \/ part = "fix" /\ FixNext
     \/ part # "fix" /\ UNCHANGED fixVars
  /\ \/ part = "polynomial" /\ PolyNext
     \/ part # "polynomial" /\ UNCHANGED polyVars
  /\ \/ part = "qsage" /\ QSageNext
     \/ part # "qsage" /\ UNCHANGED qsageVars
  /\ \/ part = "find" /\ FindNext
     \/ part # "find" /\ UNCHANGED findVars
  /\ \/ part = "local" /\ LocalNext
     \/ part # "local" /\ UNCHANGED localVars
  /\ \/ part = "qp" /\ QpNext
     \/ part # "qp" /\ UNCHANGED qpVars
  /\ \/ part = "matrix" /\ MatrixNext /\ MatrixBound
     \/ part # "matrix" /\ UNCHANGED matrixVars
  /\ \/ part = "sapi" /\ SapiNext
     \/ part # "sapi" /\ UNCHANGED sapiVars
  /\ \/ part = "sockets" /\ SocketsNext
     \/ part # "sockets" /\ UNCHANGED socketVars
  /\ \/ part = "calls" /\ CallsNext /\ CallsBound
     \/ part # "calls" /\ UNCHANGED callsVars
  /\ \/ part = "parameters" /\ ParamNext /\ ParamsBound
     \/ part # "parameters" /\ UNCHANGED paramVars
  /\ \/ part = "chimera" /\ ChimeraNext
     \/ part # "chimera" /\ UNCHANGED chimeraVars
  /\ UNCHANGED part

\* The search for an embedding alone, and the local heuristic alone.
FindSpec == part = "find" /\ AlgorithmsInit /\ [][AlgorithmsNext]_algorithmsVars
HeuristicSpec == part = "local" /\ AlgorithmsInit /\ [][AlgorithmsNext]_algorithmsVars

AlgorithmsSpec == AlgorithmsInit /\ [][AlgorithmsNext]_algorithmsVars
=============================================================================
