---------------------------- MODULE LocalSolvers ----------------------------
(***************************************************************************)
(* The local solvers (local-solvers/src/orang-solvers.cpp and              *)
(* orang-heuristic.cpp, called by c-client/src/local.cpp): orangOptimize   *)
(* and orangSample hand a problem of small treewidth to the orang library; *)
(* isingHeuristic improves a random solution by exact steps on parts of    *)
(* the problem, and then perturbs copies of the best one.                  *)
(*                                                                         *)
(* The orang library is external: greedyVarOrder picks variables whose     *)
(* graph has no cycle (a local complexity of 2), BucketTree returns the    *)
(* best solutions of these with the other variables as they are.           *)
(*                                                                         *)
(* Energies are four times those of the code, so that the quarters of      *)
(* qubo_to_ising are integers.                                             *)
(***************************************************************************)
EXTENDS Integers, FiniteSets, FiniteSetsExt, Functions, Sequences

CONSTANTS
  LocalProblems,    \* [type, terms]: "ising" or "qubo", and a function on pairs <<i, j>>
  SolverVars,       \* 0 .. num_variables - 1, the active ones of the orang solvers
  ActivePairs,      \* activeVarPairs: sets of two variables
  NumReads, MaxAnswers,
  NoProgressLimit, NumPerturbedCopies, IterationLimit

\* The pairs are of active variables in the structure that the C client gives.
ASSUME LocalAssumption ==
  /\ \A problem \in LocalProblems :
       /\ problem.type \in {"ising", "qubo"}
       /\ IsFiniteSet(DOMAIN problem.terms)
       /\ problem.terms \in [DOMAIN problem.terms -> Int]
       /\ \A p \in DOMAIN problem.terms : p = <<p[1], p[2]>>
  /\ \A pair \in ActivePairs : pair \subseteq SolverVars
  /\ NumReads \in Nat /\ MaxAnswers \in Nat

VARIABLES
  job,              \* the problem
  energies,         \* of every setting: the tables of buildProblem
  solving,          \* "new", "refused", "search", "iterate", "copies", "solved"
  late,             \* the time limit has passed
  search,           \* a local search's result: [energy, solution, exact]
  noProgress,
  bestResult,       \* best
  initSolution, iterBestSolution, iterBestEnergy,
  iter, copy,
  answers,          \* the answers given: [solution, energy, count]
  leastFound        \* least energy of all local searches (no variable of the code)

searchingVars == <<search, noProgress>>
iterationVars == <<bestResult, initSolution, iterBestSolution, iterBestEnergy, iter, copy, leastFound>>
localVars == <<job, energies, solving, late, searchingVars, iterationVars, answers>>

Unused == 3
Unbounded == 1000000      \* infinity

-----------------------------------------------------------------------------
(* Problems and their energies *)

UsedIn(terms) == UNION {{p[1], p[2]} : p \in DOMAIN terms}

\* Assignments of the used variables, as the sets of those that have the
\* second value of their domain, 1 rather than -1 or 0.
Settings == SUBSET UsedIn(job.terms)
Bit(type, ones, i) == IF i \in ones THEN 1 ELSE IF type = "ising" THEN -1 ELSE 0

EnergyOf(type, terms, ones) ==
  SumFunction([p \in DOMAIN terms |-> terms[p] *
    (IF p[1] = p[2] THEN Bit(type, ones, p[1]) ELSE Bit(type, ones, p[1]) * Bit(type, ones, p[2]))])
ProblemEnergy(ones) == 4 * EnergyOf(job.type, job.terms, ones)

\* qubo_to_ising, times four.
IsingTerm(p) ==
  SumFunction([q \in DOMAIN job.terms |->
    IF q[1] = q[2] THEN (IF p = q THEN 2 * job.terms[q] ELSE 0)
    ELSE IF p = q \/ p = <<q[1], q[1]>> \/ p = <<q[2], q[2]>> THEN job.terms[q] ELSE 0])
IsingTerms ==
  IF job.type = "ising" THEN [p \in DOMAIN job.terms |-> 4 * job.terms[p]]
  ELSE [p \in DOMAIN job.terms \cup {<<i, i>> : i \in UsedIn(job.terms)} |-> IsingTerm(p)]

ConversionOffset ==
  SumFunction([p \in DOMAIN job.terms |-> IF p[1] = p[2] THEN 2 * job.terms[p] ELSE job.terms[p]])

\* calculateEnergy
SearchEnergy(ones) == EnergyOf("ising", IsingTerms, ones)

Solution(ones, reported) ==
  [i \in SolverVars \cup UsedIn(job.terms) |-> IF i \in reported THEN Bit(job.type, ones, i) ELSE Unused]

LocalInit ==
  /\ job \in LocalProblems
  /\ energies = [ones \in Settings |-> SearchEnergy(ones)]
  /\ solving = "new"
  /\ late = FALSE
  /\ search = <<>> /\ noProgress = 0
  /\ bestResult = <<>> /\ initSolution = {} /\ iterBestSolution = {} /\ iterBestEnergy = 0
  /\ iter = 0 /\ copy = 0 /\ leastFound = 0
  /\ answers = <<>>

-----------------------------------------------------------------------------
(* orangOptimize and orangSample *)

\* The lists of S by energy, equal ones in any order.
Ascending(S) ==
  {list \in [1 .. Cardinality(S) -> S] :
     \A m, n \in DOMAIN list : m < n => list[m] # list[n] /\ ProblemEnergy(list[m]) <= ProblemEnergy(list[n])}

Smaller(a, b) == IF a < b THEN a ELSE b

\* convertProblem: validateVar, validateVarPair
Permitted ==
  \A p \in DOMAIN job.terms :
    IF p[1] = p[2] THEN p[1] \in SolverVars ELSE {p[1], p[2]} \in ActivePairs

RefuseProblem ==
  /\ solving = "new" /\ ~Permitted
  /\ solving' = "refused"
  /\ UNCHANGED <<job, energies, late, searchingVars, iterationVars, answers>>

\* The n best solutions; with a histogram the first is credited with the reads
\* for which there is no further solution.
Optimize(histogram) ==
  /\ solving = "new" /\ Permitted
  /\ \E S \in kSubset(Smaller(Smaller(NumReads, MaxAnswers), Cardinality(Settings)), Settings) :
       /\ \A a \in S, b \in Settings \ S : ProblemEnergy(a) <= ProblemEnergy(b)
       /\ \E best \in Ascending(S) :
            answers' = [k \in DOMAIN best |->
              [solution |-> Solution(best[k], SolverVars),
               energy |-> ProblemEnergy(best[k]),
               count |-> IF histogram /\ k = 1 THEN NumReads - Cardinality(S) + 1 ELSE 1]]
  /\ solving' = "solved"
  /\ UNCHANGED <<job, energies, late, searchingVars, iterationVars>>

\* Any solutions.  A histogram counts equal ones and keeps those of least energy.
Sample(histogram) ==
  /\ solving = "new" /\ Permitted
  /\ \E reads \in [1 .. NumReads -> Settings] :
       \E kept \in IF histogram THEN Ascending({reads[k] : k \in DOMAIN reads}) ELSE {reads} :
         answers' = [k \in 1 .. Smaller(Len(kept), MaxAnswers) |->
           [solution |-> Solution(kept[k], UsedIn(job.terms)),
            energy |-> ProblemEnergy(kept[k]),
            count |-> IF histogram THEN Cardinality({n \in DOMAIN reads : reads[n] = kept[k]}) ELSE 1]]
  /\ solving' = "solved"
  /\ UNCHANGED <<job, energies, late, searchingVars, iterationVars>>

-----------------------------------------------------------------------------
(* isingHeuristic *)

\* y - x > abs(y) * eps does not hold when one of them is infinite.
NoticeablyLess(x, y) == x # Unbounded /\ y # Unbounded /\ x < y

\* greedyVarOrder: variables of a graph without a cycle.
Coupled(W) == {p \in DOMAIN IsingTerms : p[1] # p[2] /\ {p[1], p[2]} \subseteq W}
VarOrders ==
  {W \in SUBSET UsedIn(job.terms) \ {{}} :
    \A X \in SUBSET W \ {{}} : Cardinality(Coupled(X)) < Cardinality(X)}

StartSearch(ones) ==
  /\ search' = [energy |-> energies[ones], solution |-> ones, exact |-> FALSE]
  /\ noProgress' = 0
  /\ solving' = "search"

StartHeuristic ==
  /\ solving = "new"
  /\ \E ones \in Settings : initSolution' = ones /\ StartSearch(ones)
  /\ iter' = -1
  /\ UNCHANGED <<job, energies, late, bestResult, iterBestSolution, iterBestEnergy, copy, leastFound, answers>>

TimePasses ==
  /\ solving \in {"search", "iterate", "copies"} /\ ~late
  /\ late' = TRUE
  /\ UNCHANGED <<job, energies, solving, searchingVars, iterationVars, answers>>

\* Mutant: an exact solution's energy is that of the search so far.
SearchStep_OldEnergy ==
  /\ solving = "search" /\ ~late /\ noProgress <= NoProgressLimit /\ ~search.exact
  /\ \E W \in VarOrders :
       \E new \in {ones \in Settings : ones \ W = search.solution \ W} :
         /\ \A ones \in {ones \in Settings : ones \ W = new \ W} : energies[new] <= energies[ones]
         /\ \/ W = UsedIn(job.terms)
               /\ search' = [search EXCEPT !.solution = new, !.exact = TRUE]
               /\ UNCHANGED noProgress
            \/ /\ W # UsedIn(job.terms) /\ NoticeablyLess(energies[new], search.energy)
               /\ search' = [search EXCEPT !.energy = energies[new], !.solution = new]
               /\ noProgress' = 0
            \/ /\ W # UsedIn(job.terms) /\ ~NoticeablyLess(energies[new], search.energy)
               /\ noProgress' = noProgress + 1
               /\ UNCHANGED search
  /\ UNCHANGED <<job, energies, solving, late, iterationVars, answers>>

\* One step of localSearch: the best values for some variables.
SearchStep ==
  /\ solving = "search" /\ ~late /\ noProgress <= NoProgressLimit /\ ~search.exact
  /\ \E W \in VarOrders :
       \E new \in {ones \in Settings : ones \ W = search.solution \ W} :
         /\ \A ones \in {ones \in Settings : ones \ W = new \ W} : energies[new] <= energies[ones]
         /\ \/ /\ W = UsedIn(job.terms)
               /\ search' = [energy |-> energies[new], solution |-> new, exact |-> TRUE]
               /\ UNCHANGED noProgress
            \/ /\ W # UsedIn(job.terms) /\ NoticeablyLess(energies[new], search.energy)
               /\ search' = [search EXCEPT !.energy = energies[new], !.solution = new]
               /\ noProgress' = 0
            \/ /\ W # UsedIn(job.terms) /\ ~NoticeablyLess(energies[new], search.energy)
               /\ noProgress' = noProgress + 1
               /\ UNCHANGED search
  /\ UNCHANGED <<job, energies, solving, late, iterationVars, answers>>

SearchOver == solving = "search" /\ (late \/ noProgress > NoProgressLimit \/ search.exact)

FirstSearchEnds ==
  /\ SearchOver /\ iter = -1
  /\ bestResult' = search /\ leastFound' = search.energy
  /\ iterBestSolution' = search.solution /\ iterBestEnergy' = search.energy
  /\ iter' = 0
  /\ solving' = "iterate"
  /\ UNCHANGED <<job, energies, late, searchingVars, initSolution, copy, answers>>

StartIteration ==
  /\ solving = "iterate" /\ iter < IterationLimit /\ ~late /\ ~bestResult.exact
  /\ initSolution' = iterBestSolution /\ iterBestSolution' = initSolution
  /\ iterBestEnergy' = Unbounded
  /\ copy' = 0
  /\ solving' = "copies"
  /\ UNCHANGED <<job, energies, late, searchingVars, bestResult, iter, leastFound, answers>>

CopiesLeft == copy < NumPerturbedCopies /\ ~late /\ ~bestResult.exact

\* Any variables may be flipped.
StartCopy ==
  /\ solving = "copies" /\ CopiesLeft
  /\ \E ones \in Settings : StartSearch(ones)
  /\ UNCHANGED <<job, energies, late, iterationVars, answers>>

CopySearchEnds ==
  /\ SearchOver /\ iter >= 0
  /\ bestResult' = [bestResult EXCEPT !.exact = search.exact]
  /\ IF NoticeablyLess(search.energy, iterBestEnergy)
     THEN /\ iterBestEnergy' = search.energy /\ iterBestSolution' = search.solution
          /\ search' = [search EXCEPT !.solution = iterBestSolution]
     ELSE UNCHANGED <<iterBestEnergy, iterBestSolution, search>>
  /\ leastFound' = Smaller(leastFound, search.energy)
  /\ copy' = copy + 1
  /\ solving' = "copies"
  /\ UNCHANGED <<job, energies, late, noProgress, initSolution, iter, answers>>

EndIteration ==
  /\ solving = "copies" /\ ~CopiesLeft
  /\ IF NoticeablyLess(iterBestEnergy, bestResult.energy)
     THEN bestResult' = [bestResult EXCEPT !.energy = iterBestEnergy, !.solution = iterBestSolution]
     ELSE UNCHANGED bestResult
  /\ iter' = iter + 1
  /\ solving' = "iterate"
  /\ UNCHANGED <<job, energies, late, searchingVars, initSolution, iterBestSolution, iterBestEnergy, copy, leastFound, answers>>

\* convertLocalSearchResult and adjust_answer
HeuristicAnswer ==
  /\ solving = "iterate" /\ (iter = IterationLimit \/ late \/ bestResult.exact)
  /\ answers' =
       <<[solution |-> Solution(bestResult.solution, UsedIn(job.terms)),
          energy |-> bestResult.energy + (IF job.type = "qubo" THEN ConversionOffset ELSE 0),
          count |-> 1]>>
  /\ solving' = "solved"
  /\ UNCHANGED <<job, energies, late, searchingVars, iterationVars>>

LocalNext ==
  \/ \E histogram \in BOOLEAN : Optimize(histogram) \/ Sample(histogram)
  \/ RefuseProblem
  \/ StartHeuristic \/ TimePasses \/ SearchStep \/ FirstSearchEnds
  \/ StartIteration \/ StartCopy \/ CopySearchEnds \/ EndIteration \/ HeuristicAnswer

LocalSpec == LocalInit /\ [][LocalNext]_localVars

-----------------------------------------------------------------------------
(* Properties *)

\* However an answer was found, and through all exchanges of solutions, its
\* energy is that of its solution in the problem given; answers of one call
\* account for no more than the reads asked for (for one of the heuristic, which
\* is not asked for a number), and an exact solution that the first search finds
\* is a minimum.
AnswersTellTheirEnergy ==
  solving = "solved" =>
    /\ \A k \in DOMAIN answers :
         answers[k].energy = ProblemEnergy({i \in UsedIn(job.terms) : answers[k].solution[i] = 1})
    /\ SumFunction([k \in DOMAIN answers |-> answers[k].count]) <= (IF bestResult = <<>> THEN NumReads ELSE 1)
    /\ iter = 0 /\ bestResult # <<>> /\ bestResult.exact =>
         \A ones \in Settings : answers[1].energy <= ProblemEnergy(ones)

\* The iterations explore: the answer is at least as good as any that a local
\* search of a perturbed copy has found.
IterationsHelp ==
  solving = "solved" /\ bestResult # <<>> => bestResult.energy <= leastFound
=============================================================================
