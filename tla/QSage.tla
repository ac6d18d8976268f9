------------------------------- MODULE QSage -------------------------------
(***************************************************************************)
(* The search of sapi_solveQSage (qsage/src/blackbox.cpp): a tabu search   *)
(* for the minimum of a function the caller supplies, helped by samples    *)
(* from a solver.                                                          *)
(*                                                                         *)
(* The search goes in phases (runTabu).  Each iteration evaluates the      *)
(* current state, its neighbours and the samples; it takes the best state  *)
(* if that is the best so far, and otherwise the best one that changes a   *)
(* variable not in the tabu list.  A phase that ends near the best state   *)
(* too often is followed by a restart from a random state.                 *)
(*                                                                         *)
(* A state of the variables is the set of those that are 1 (the others are *)
(* -1).  Energies are integers.  The solver, the model fitted to the       *)
(* energies (generateModel) and the temperature only decide which samples  *)
(* come: any may.  The clock is a timeout that may strike at each check.   *)
(***************************************************************************)
EXTENDS Integers, FiniteSets, FiniteSetsExt, Sequences

CONSTANTS
  NumSearched,        \* numVars, more than the brute force limit (10)
  ActiveQubits,       \* numActiveQubits_
  Objectives,         \* objective functions that are tried
  MaxEvaluations,     \* maxNumStateEvaluations
  ExitThreshold,
  MaxSamples,         \* bound on the samples of one call of the solver
  MinDist, MinDistThreshold, FlatThreshold    \* 5, 10 and 10 in the code

VARIABLES
  energy,             \* the objective function
  best, bestEnergy, progress,      \* the result and its progress table
  current, phaseBest,
  runBest,            \* runTabu's own copy of the best energy
  tabuList, tabuTenure,
  downFlag, flatCounter,
  tmpBest, tmpBestEnergy, minDistCounter,
  subset,             \* the variables the samples of this phase may change
  evaluations,        \* numStateEvaluations
  stage,              \* "phase", "tabu", "phaseEnd", "done", "failed"
  reason,             \* why the last phase ended
  least               \* least energy of all neighbours and samples, and of the
                      \* first state (no variable of the code)

resultVars == <<best, bestEnergy, progress>>
phaseVars == <<current, phaseBest, runBest, downFlag, flatCounter, subset>>
tabuVars == <<tabuList, tabuTenure>>
restartVars == <<tmpBest, tmpBestEnergy, minDistCounter>>
qsageVars == <<energy, resultVars, phaseVars, tabuVars, restartVars, evaluations, stage, reason, least>>

Searched == 1 .. NumSearched
TabuStates == SUBSET Searched

\* solve searches by brute force up to ten variables, so that there are always two.
ASSUME QSageAssumption ==
  /\ NumSearched \in Nat /\ NumSearched >= 2
  /\ MaxEvaluations \in Nat /\ MaxSamples \in Nat
  /\ \A o \in Objectives : o \in [TabuStates -> Int]

Difference(s, t) == (s \ t) \cup (t \ s)
Infinity == 1 + Max(UNION {{o[s] : s \in TabuStates} : o \in Objectives})

\* Mutant: the tenure may be the number of variables.
Tenures_UpToAll == (NumSearched + 2) \div 4 .. NumSearched

\* A quarter to a half of the variables, both rounded half up.
Tenures == (NumSearched + 2) \div 4 .. (NumSearched + 1) \div 2

QSageInit ==
  /\ energy \in Objectives
  /\ best \in TabuStates
  /\ bestEnergy = energy[best]
  /\ progress = <<bestEnergy>>
  /\ current = best /\ phaseBest = best /\ runBest = bestEnergy
  /\ tabuList = <<>> /\ tabuTenure \in Tenures
  /\ downFlag = FALSE /\ flatCounter = 0
  /\ tmpBest = best /\ tmpBestEnergy = bestEnergy /\ minDistCounter = 0
  /\ subset = Searched
  /\ evaluations = 1
  /\ stage = "phase"
  /\ reason = "none"
  /\ least = bestEnergy

StartPhase ==
  /\ stage = "phase" /\ evaluations < MaxEvaluations
  /\ phaseBest' = current
  /\ runBest' = bestEnergy
  /\ downFlag' = FALSE /\ flatCounter' = 0
  /\ subset' \in kSubset(Min({ActiveQubits, NumSearched}), Searched)
  /\ stage' = "tabu"
  /\ UNCHANGED <<energy, resultVars, current, tabuVars, restartVars, evaluations, reason, least>>

\* The objective function or the solver is cancelled.
Interrupted ==
  /\ stage = "tabu"
  /\ evaluations' \in {evaluations, evaluations + 1, evaluations + 1 + NumSearched}
  /\ stage' = "phaseEnd" /\ reason' = "interrupted"
  /\ UNCHANGED <<energy, resultVars, phaseVars, tabuVars, restartVars, least>>

\* Any other exception of theirs, the solver's after its retries, is the call's.
SearchFails ==
  /\ stage \in {"tabu", "phaseEnd"}
  /\ stage' = "failed"
  /\ UNCHANGED <<energy, resultVars, phaseVars, tabuVars, restartVars, evaluations, reason, least>>

Neighbours == {Difference(current, {i}) : i \in Searched}

\* Samples replace the variables of the subset; without drawSample there are none.
Samples ==
  {P \in SUBSET {Difference(current, D) : D \in SUBSET subset} : Cardinality(P) <= MaxSamples}

Lowest(S) == {s \in S : \A t \in S : energy[s] <= energy[t]}

\* The checks at the end of an iteration, in the order of the code.
Continue ==
  \/ stage' = "phaseEnd" /\ reason' = "timeout"
  \/ IF runBest' <= ExitThreshold THEN stage' = "phaseEnd" /\ reason' = "threshold"
     ELSE IF evaluations' >= MaxEvaluations THEN stage' = "phaseEnd" /\ reason' = "evaluations"
     ELSE UNCHANGED <<stage, reason>>

Evaluate(solutions, samples) ==
  /\ evaluations' = evaluations + 1 + NumSearched + Cardinality(samples)
  /\ least' = Min({least} \cup {energy[s] : s \in solutions})

\* An iteration that finds a new best state.
Improve ==
  /\ stage = "tabu"
  /\ \E samples \in Samples :
       LET solutions == Neighbours \cup samples IN
       /\ Evaluate(solutions, samples)
       /\ \E s \in Lowest(solutions) :
            /\ energy[s] < runBest
            /\ runBest' = energy[s]
            /\ phaseBest' = s /\ current' = s
  /\ downFlag' = TRUE
  /\ Continue
  /\ UNCHANGED <<energy, resultVars, flatCounter, subset, tabuVars, restartVars>>

Tabu == {tabuList[i] : i \in DOMAIN tabuList}
Valid(solutions) == {s \in solutions : ~(Difference(s, current) \subseteq Tabu)}

\* The newest entries, as many as the tenure allows.
Trimmed(list) ==
  SubSeq(list, 1 + Max({0, Len(list) - tabuTenure}), Len(list))

\* An iteration that does not.
Move ==
  /\ stage = "tabu"
  /\ \E samples \in Samples :
       LET solutions == Neighbours \cup samples IN
       /\ \A s \in solutions : energy[s] >= runBest
       /\ Evaluate(solutions, samples)
       /\ \E s \in Lowest(Valid(solutions)) :
            /\ current' = s
            /\ downFlag' = (downFlag \/ energy[s] < energy[current])
            /\ flatCounter' = IF energy[s] = energy[current] THEN flatCounter + 1 ELSE 0
            /\ \E i \in Difference(s, current) \ Tabu : tabuList' = Trimmed(Append(tabuList, i))
            /\ IF (energy[s] > energy[current] /\ downFlag') \/ flatCounter' > FlatThreshold
               THEN stage' = "phaseEnd" /\ reason' = "minimum"
               ELSE UNCHANGED runBest /\ Continue
  /\ UNCHANGED <<energy, resultVars, phaseBest, runBest, subset, tabuTenure, restartVars>>

\* Mutant: the state the phase is in, not the best one it has seen.
PhaseResult_Current == current

\* The state runTabu hands back; its energy is computed again.
PhaseResult == phaseBest

\* The rest of the loop of solve, when the phase has improved on the best or not.
UpdateBest ==
  IF energy[PhaseResult] < bestEnergy
  THEN /\ best' = PhaseResult
       /\ bestEnergy' = energy[PhaseResult]
       /\ progress' = Append(progress, bestEnergy')
  ELSE UNCHANGED resultVars

\* After a phase that ended at a minimum the evaluation of its result may still
\* be cancelled, which is remembered; the evaluation is repeated.
LastPhase ==
  /\ stage = "phaseEnd"
  /\ UpdateBest
  /\ stage' = "done"
  /\ UNCHANGED <<energy, phaseVars, tabuVars, restartVars, evaluations, reason, least>>

\* Near the best state once too often: a random state, an empty tabu list.
NextPhase ==
  /\ stage = "phaseEnd" /\ reason = "minimum"
  /\ UpdateBest
  /\ LET lower == energy[phaseBest] < tmpBestEnergy
         near == Cardinality(Difference(current, IF lower THEN phaseBest ELSE tmpBest)) <= MinDist
         counter == (IF energy[phaseBest] < bestEnergy THEN 0 ELSE minDistCounter)
                      + (IF near THEN 1 ELSE 0)
         restart == near /\ counter > MinDistThreshold
     IN  /\ tmpBest' = IF lower THEN phaseBest ELSE tmpBest
         /\ tmpBestEnergy' = IF restart THEN Infinity
                             ELSE IF lower THEN energy[phaseBest] ELSE tmpBestEnergy
         /\ minDistCounter' = IF restart THEN 0 ELSE counter
         /\ IF restart
            THEN current' \in TabuStates /\ tabuList' = <<>> /\ tabuTenure' \in Tenures
            ELSE UNCHANGED <<current, tabuVars>>
  /\ stage' = "phase"
  /\ UNCHANGED <<energy, phaseBest, runBest, downFlag, flatCounter, subset, evaluations, reason, least>>

OutOfEvaluations ==
  /\ stage = "phase" /\ evaluations >= MaxEvaluations
  /\ stage' = "done"
  /\ UNCHANGED <<energy, resultVars, phaseVars, tabuVars, restartVars, evaluations, reason, least>>

QSageNext ==
  StartPhase \/ Interrupted \/ SearchFails \/ Improve \/ Move \/ LastPhase \/ NextPhase \/ OutOfEvaluations

QSageSpec == QSageInit /\ [][QSageNext]_qsageVars

-----------------------------------------------------------------------------
(* Properties *)

\* The iteration takes the first of the valid states without asking whether
\* there is one: the tabu list never covers all variables, in whatever way the
\* phases, the samples and the restarts follow one another.
TabuLeavesAMove ==
  /\ stage = "tabu" => Valid(Neighbours) # {}
  /\ Cardinality(Tabu) = Len(tabuList) /\ Len(tabuList) <= tabuTenure

\* Between phases and at the end the result is consistent and as good as every
\* neighbour and sample the search has compared: however a phase ends, the best
\* it has seen is not lost.  (The state a restart begins from is not compared.)
BestIsKept ==
  stage \in {"phase", "done"} =>
    /\ bestEnergy = energy[best] /\ bestEnergy <= least
    /\ progress[Len(progress)] = bestEnergy
    /\ \A i \in 2 .. Len(progress) : progress[i] < progress[i - 1]
    /\ evaluations < MaxEvaluations + NumSearched + 1 + MaxSamples
=============================================================================
