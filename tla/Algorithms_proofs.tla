-------------------------- MODULE Algorithms_proofs --------------------------
(***************************************************************************)
(* Proofs about the sequential algorithms.                                 *)
(*                                                                         *)
(* QSage, for any number of variables from two on, any objectives and any  *)
(* limits.  TabuLeavesAMove rests on ListInv: the tabu list holds no       *)
(* variable twice and is no longer than a tenure that is less than the     *)
(* number of variables.  A move adds a variable that is not in the list,   *)
(* and trimming takes the oldest away, so that both are kept.  BestIsKept  *)
(* rests on LeastInv, which says where the least energy so far is known at *)
(* each stage: while a phase runs it is runTabu's copy that is no worse,   *)
(* and the state that goes with it is the result's or the one the phase    *)
(* will hand back.                                                         *)
(*                                                                         *)
(* Embedding, for any solver graph and any problems: a chain that is       *)
(* pruned, or smeared over more qubits, stays whole and apart from the     *)
(* others; the shares of a bias, and of a coupling, add up (DealtOut); and *)
(* each value that MinimizeEnergy sets lowers the energy.                  *)
(*                                                                         *)
(* LocalSolvers: a flip changes the energy by what the local field says,   *)
(* so that the energies kept along the search are those of their states.   *)
(*                                                                         *)
(* SolverParameters: the chains made from the list of numbers are its      *)
(* classes, by induction over the list.                                    *)
(*                                                                         *)
(* Polynomial: inclusion and exclusion gives coefficients that add up to   *)
(* the function (CoefficientsAddUp, by induction over the variables, for   *)
(* all functions at once); PolyInv says that a term is 1 when what it has  *)
(* become is, where each ancillary variable is the product of its pair.    *)
(*                                                                         *)
(* FixVariables: the energy of an assignment is half the cut of its true   *)
(* literals in the network, up to a constant, and FlowInv says that a push *)
(* changes all cuts alike.  A set of literals is persistent when setting   *)
(* them raises no energy: what the source reaches at a maximal flow is,    *)
(* and FixInv carries it through one strong component after another.  The  *)
(* reduced function is the sum sorted by the free variables of its terms.  *)
(*                                                                         *)
(* CompressedMatrix, for any numbers of rows and columns: Shape says that  *)
(* the rows' begins ascend, and the columns within a row; each bisection   *)
(* ends where a search of the whole range would (LoopInduction), so that   *)
(* Subscript, Get and the iterator are Put, Lookup, Begin and Advance.     *)
(***************************************************************************)
EXTENDS QSage, Embedding, LocalSolvers, SolverParameters, Polynomial, FixVariables,
        CompressedMatrix, Induction_proofs, SequenceTheorems

-----------------------------------------------------------------------------
(* QSage: the larger of two, and the tabu list                             *)

\* The larger of zero and a number.
LEMMA MaxWithZero ==
  ASSUME NEW n \in Int
  PROVE  Max({0, n}) = IF n > 0 THEN n ELSE 0
<1>1. \E x \in {0, n} : \A y \in {0, n} : x >= y
  OBVIOUS
<1>2. Max({0, n}) \in {0, n} /\ \A y \in {0, n} : Max({0, n}) >= y
  BY <1>1 DEF Max
<1> QED
  BY <1>2

-----------------------------------------------------------------------------
(* The tabu list *)

ListInv ==
  /\ tabuList \in Seq(Searched) /\ Injective(tabuList)
  /\ tabuTenure \in Tenures /\ Len(tabuList) <= tabuTenure

\* The tenure leaves at least one variable out.
LEMMA TenureIs ==
  ASSUME NEW t \in Tenures
  PROVE  t \in Nat /\ t >= 1 /\ t < NumSearched
BY QSageAssumption DEF Tenures

\* A variable that is not in the list can be flipped.
LEMMA SomeMove ==
  ASSUME ListInv, current \in TabuStates
  PROVE  /\ Valid(Neighbours) # {} /\ Cardinality(Tabu) = Len(tabuList)
         /\ Tabu \subseteq Searched
<1>1. Cardinality(Tabu) = Len(tabuList) /\ IsFiniteSet(Tabu)
  BY CountOfList DEF ListInv, Tabu
<1>2. Tabu \subseteq Searched
  BY DEF ListInv, Tabu
<1>3. Cardinality(Searched) = NumSearched
  <2>1. Cardinality(1 .. NumSearched) = IF 1 > NumSearched THEN 0 ELSE NumSearched - 1 + 1
    BY QSageAssumption, FS_Interval
  <2> QED
    BY <2>1, QSageAssumption DEF Searched
<1>4. Len(tabuList) < NumSearched /\ Len(tabuList) \in Nat
  BY TenureIs, QSageAssumption DEF ListInv
<1>5. Tabu # Searched
  BY <1>1, <1>3, <1>4, QSageAssumption
<1>6. PICK i \in Searched : i \notin Tabu
  BY <1>2, <1>5
<1>7. Difference(Difference(current, {i}), current) = {i}
  BY DEF Difference, TabuStates
<1>8. Difference(current, {i}) \in Valid(Neighbours)
  BY <1>6, <1>7 DEF Valid, Neighbours
<1> QED
  BY <1>1, <1>2, <1>8

\* Adding a variable to the list and trimming it.
LEMMA TrimKeeps ==
  ASSUME ListInv, NEW i \in Searched, i \notin Tabu, NEW list,
         list = Trimmed(Append(tabuList, i))
  PROVE  list \in Seq(Searched) /\ Injective(list) /\ Len(list) <= tabuTenure
<1> DEFINE a == Append(tabuList, i)
           n == Len(tabuList)
           k == IF n + 1 - tabuTenure > 0 THEN n + 1 - tabuTenure ELSE 0
<1>0. tabuTenure \in Nat /\ tabuTenure >= 1 /\ n \in Nat /\ n <= tabuTenure
  BY TenureIs DEF ListInv
<1>1. /\ a \in Seq(Searched) /\ Len(a) = n + 1
      /\ \A j \in 1 .. n : a[j] = tabuList[j]
      /\ a[n + 1] = i
  BY DEF ListInv
<1>2. \A j \in 1 .. n : tabuList[j] # i
  BY DEF ListInv, Tabu
<1>3. Injective(a)
  BY <1>0, <1>1, <1>2 DEF ListInv, Injective
<1>4. Max({0, Len(a) - tabuTenure}) = k /\ k \in 0 .. 1
  <2>1. Len(a) - tabuTenure = n + 1 - tabuTenure /\ n + 1 - tabuTenure \in Int
    BY <1>0, <1>1
  <2>2. Max({0, n + 1 - tabuTenure}) = k
    BY <2>1, MaxWithZero
  <2> QED
    BY <1>0, <2>1, <2>2
<1>5. list = SubSeq(a, 1 + k, n + 1)
  BY <1>1, <1>4 DEF Trimmed
<1> HIDE DEF a, n, k
<1>6. /\ list \in Seq(Searched)
      /\ Len(list) = IF 1 + k <= n + 1 THEN n + 1 - (1 + k) + 1 ELSE 0
      /\ \A j \in 1 .. n + 1 - (1 + k) + 1 : list[j] = a[1 + k + j - 1]
  <2>1. \A j \in 1 + k .. n + 1 : a[j] \in Searched
    BY <1>0, <1>1, <1>4
  <2>2. PICK first \in Int, last \in Int : first = 1 + k /\ last = n + 1
    BY <1>0, <1>4
  <2>3. \A j \in first .. last : a[j] \in Searched
    BY <2>1, <2>2
  <2>4. /\ SubSeq(a, first, last) \in Seq(Searched)
        /\ Len(SubSeq(a, first, last)) = IF first <= last THEN last - first + 1 ELSE 0
        /\ \A j \in 1 .. last - first + 1 : SubSeq(a, first, last)[j] = a[first + j - 1]
    BY <2>3, SubSeqProperties
  <2>5. list = SubSeq(a, first, last)
    BY <1>5, <2>2
  <2>6. /\ list \in Seq(Searched)
        /\ Len(list) = IF first <= last THEN last - first + 1 ELSE 0
        /\ \A j \in 1 .. last - first + 1 : list[j] = a[first + j - 1]
    BY <2>4, <2>5
  <2>7. /\ last - first + 1 = n + 1 - (1 + k) + 1
        /\ \A j \in 1 .. last - first + 1 : first + j - 1 = 1 + k + j - 1
    BY <1>0, <1>4, <2>2
  <2> QED
    BY <2>2, <2>6, <2>7
<1>7. Len(list) = n + 1 - k
  BY <1>0, <1>4, <1>6
<1>8. \A j \in 1 .. Len(list) : list[j] = a[k + j] /\ k + j \in 1 .. n + 1
  BY <1>0, <1>4, <1>6, <1>7
<1>9. Injective(list)
  BY <1>0, <1>1, <1>3, <1>4, <1>7, <1>8 DEF Injective
<1>10. Len(list) <= tabuTenure
  BY <1>0, <1>4, <1>7 DEF k
<1> QED
  BY <1>6, <1>9, <1>10

-----------------------------------------------------------------------------
(* The invariant                                                           *)

StatesInv ==
  /\ energy \in [TabuStates -> Int]
  /\ best \in TabuStates /\ current \in TabuStates /\ phaseBest \in TabuStates
  /\ subset \in SUBSET Searched
  /\ bestEnergy = energy[best] /\ runBest \in Int /\ least \in Int

ProgressInv ==
  /\ progress \in Seq(Int) /\ Len(progress) >= 1
  /\ progress[Len(progress)] = bestEnergy
  /\ \A i \in 2 .. Len(progress) : progress[i] < progress[i - 1]

\* Inside a phase the best energy is runBest's, which is the result's or that of
\* the state the phase will hand back.
LeastInv ==
  /\ stage \in {"phase", "done"} => bestEnergy <= least
  /\ stage \in {"tabu", "phaseEnd"} =>
       runBest <= least /\ runBest <= bestEnergy /\ runBest \in {bestEnergy, energy[phaseBest]}

Bound == MaxEvaluations + NumSearched + 1 + MaxSamples
CountInv ==
  /\ stage \in {"phase", "tabu", "phaseEnd", "done", "failed"} /\ evaluations \in Nat
  /\ evaluations < Bound
  /\ stage = "tabu" => evaluations < MaxEvaluations

QSageInv == ListInv /\ StatesInv /\ ProgressInv /\ LeastInv /\ CountInv

\* The invariant holds when the search begins.
LEMMA QSageInitInv == QSageInit => QSageInv
<1> SUFFICES ASSUME QSageInit PROVE QSageInv
  OBVIOUS
<1>1. energy \in [TabuStates -> Int] /\ best \in TabuStates /\ bestEnergy = energy[best]
  BY QSageAssumption DEF QSageInit
<1>2. bestEnergy \in Int
  BY <1>1
<1>3. ListInv
  BY TenureIs DEF QSageInit, ListInv, Injective
<1>4. StatesInv
  BY <1>1, <1>2 DEF QSageInit, StatesInv
<1>5. ProgressInv
  BY <1>2 DEF QSageInit, ProgressInv
<1>6. LeastInv
  BY <1>2 DEF QSageInit, LeastInv
<1>7. CountInv
  BY QSageAssumption DEF QSageInit, CountInv, Bound
<1> QED
  BY <1>3, <1>4, <1>5, <1>6, <1>7 DEF QSageInv

\* The states that an iteration compares.
LEMMA SolutionsAre ==
  ASSUME StatesInv, NEW samples \in Samples
  PROVE  /\ Neighbours \cup samples \subseteq TabuStates
         /\ Cardinality(samples) \in 0 .. MaxSamples
<1>1. \A D \in TabuStates : Difference(current, D) \in TabuStates
  BY DEF StatesInv, TabuStates, Difference
<1>2. Neighbours \subseteq TabuStates
  BY <1>1 DEF Neighbours, TabuStates
<1>3. samples \subseteq TabuStates /\ Cardinality(samples) <= MaxSamples
  <2>1. samples \in SUBSET {Difference(current, D) : D \in SUBSET subset}
    BY DEF Samples
  <2>2. \A D \in SUBSET subset : D \in TabuStates
    BY DEF StatesInv, TabuStates
  <2> QED
    BY <1>1, <2>1, <2>2 DEF Samples
<1>4. IsFiniteSet(TabuStates)
  <2>1. IsFiniteSet(Searched)
    BY QSageAssumption, FS_Interval DEF Searched
  <2> QED
    BY <2>1, FS_SUBSET DEF TabuStates
<1>5. Cardinality(samples) \in Nat
  BY <1>3, <1>4, FS_Subset, FS_CardinalityType
<1> QED
  BY <1>2, <1>3, <1>5, QSageAssumption

\* The least energy so far, once a set of states has been compared.
LEMMA EvaluateIs ==
  ASSUME StatesInv, NEW samples \in Samples, NEW v \in Int, v <= least,
         \A s \in Neighbours \cup samples : v <= energy[s],
         Evaluate(Neighbours \cup samples, samples), evaluations \in Nat
  PROVE  /\ least' \in Int /\ v <= least'
         /\ evaluations' \in Nat
         /\ evaluations' <= evaluations + 1 + NumSearched + MaxSamples
<1> DEFINE E == {least} \cup {energy[s] : s \in Neighbours \cup samples}
<1>1. /\ Neighbours \cup samples \subseteq TabuStates
      /\ Cardinality(samples) \in 0 .. MaxSamples
  BY SolutionsAre
<1>2. E \subseteq Int /\ E # {} /\ \A x \in E : v <= x
  BY <1>1 DEF StatesInv
<1>3. Min(E) \in E
  BY <1>2, MinOfBounded
<1>4. least' = Min(E) /\ evaluations' = evaluations + 1 + NumSearched + Cardinality(samples)
  BY DEF Evaluate
<1> HIDE DEF E
<1>5. least' \in Int /\ v <= least'
  BY <1>2, <1>3, <1>4
<1>6. PICK n \in 0 .. MaxSamples : n = Cardinality(samples)
  BY <1>1
<1>7. evaluations' = evaluations + 1 + NumSearched + n
  BY <1>4, <1>6
<1> QED
  BY <1>5, <1>7, QSageAssumption

\* The checks at the end of an iteration keep the count in its bounds.
LEMMA ContinueKeepsCount ==
  ASSUME CountInv, stage = "tabu", Continue, evaluations' \in Nat,
         evaluations' <= evaluations + 1 + NumSearched + MaxSamples
  PROVE  CountInv' /\ stage' \in {"tabu", "phaseEnd"}
BY QSageAssumption DEF CountInv, Continue, Bound

\* An iteration that finds a new best state keeps it.
LEMMA ImproveKeeps ==
  ASSUME QSageInv, Improve
  PROVE  QSageInv'
<1>1. PICK samples \in Samples :
         /\ Evaluate(Neighbours \cup samples, samples)
         /\ \E s \in Lowest(Neighbours \cup samples) :
              /\ energy[s] < runBest
              /\ runBest' = energy[s]
              /\ phaseBest' = s /\ current' = s
  BY DEF Improve
<1>2. PICK s \in Lowest(Neighbours \cup samples) :
         energy[s] < runBest /\ runBest' = energy[s] /\ phaseBest' = s /\ current' = s
  BY <1>1
<1>3. /\ stage = "tabu" /\ Continue
      /\ UNCHANGED <<energy, best, bestEnergy, progress, subset, tabuList, tabuTenure>>
  BY DEF Improve, resultVars, tabuVars
<1>4. s \in TabuStates /\ energy[s] \in Int
      /\ \A t \in Neighbours \cup samples : energy[s] <= energy[t]
  BY <1>2, SolutionsAre DEF Lowest, QSageInv, StatesInv
<1>5. /\ runBest \in Int /\ least \in Int /\ bestEnergy \in Int
      /\ runBest <= least /\ runBest <= bestEnergy
  BY <1>3 DEF QSageInv, StatesInv, LeastInv
<1>6. energy[s] <= least /\ energy[s] <= bestEnergy
  BY <1>2, <1>4, <1>5
<1>7. /\ least' \in Int /\ energy[s] <= least'
      /\ evaluations' \in Nat
      /\ evaluations' <= evaluations + 1 + NumSearched + MaxSamples
  BY <1>1, <1>4, <1>6, EvaluateIs DEF QSageInv, CountInv
<1>8. CountInv' /\ stage' \in {"tabu", "phaseEnd"}
  BY <1>3, <1>7, ContinueKeepsCount DEF QSageInv
<1>9. ListInv'
  BY <1>3 DEF QSageInv, ListInv, Injective, Tenures
<1>10. StatesInv'
  BY <1>2, <1>3, <1>4, <1>7 DEF QSageInv, StatesInv
<1>11. ProgressInv'
  BY <1>3 DEF QSageInv, ProgressInv
<1>12. LeastInv'
  BY <1>2, <1>3, <1>6, <1>7, <1>8 DEF LeastInv
<1> QED
  BY <1>8, <1>9, <1>10, <1>11, <1>12 DEF QSageInv

\* So does one that takes a state that is not tabu.
LEMMA MoveKeeps ==
  ASSUME QSageInv, Move
  PROVE  QSageInv'
<1>1. PICK samples \in Samples :
         /\ \A s \in Neighbours \cup samples : energy[s] >= runBest
         /\ Evaluate(Neighbours \cup samples, samples)
         /\ \E s \in Lowest(Valid(Neighbours \cup samples)) :
              /\ current' = s
              /\ \E i \in Difference(s, current) \ Tabu :
                   tabuList' = Trimmed(Append(tabuList, i))
              /\ \/ stage' = "phaseEnd"
                 \/ UNCHANGED runBest /\ Continue
  BY DEF Move
<1>2. PICK s \in Lowest(Valid(Neighbours \cup samples)) :
         /\ current' = s
         /\ \E i \in Difference(s, current) \ Tabu : tabuList' = Trimmed(Append(tabuList, i))
  BY <1>1
<1>3. PICK i \in Difference(s, current) \ Tabu : tabuList' = Trimmed(Append(tabuList, i))
  BY <1>2
<1>4. /\ stage = "tabu"
      /\ UNCHANGED <<energy, best, bestEnergy, progress, phaseBest, runBest, subset, tabuTenure>>
  BY DEF Move, resultVars
<1>5. s \in TabuStates /\ i \in Searched
  <2>1. s \in TabuStates
    BY SolutionsAre DEF Lowest, Valid, QSageInv
  <2> QED
    BY <2>1 DEF Difference, TabuStates, QSageInv, StatesInv
<1>6. tabuList' \in Seq(Searched) /\ Injective(tabuList') /\ Len(tabuList') <= tabuTenure
  BY <1>3, <1>5, TrimKeeps DEF QSageInv
<1>7. runBest \in Int /\ runBest <= least /\ evaluations \in Nat
  BY <1>4 DEF QSageInv, StatesInv, LeastInv, CountInv
<1>8. \A t \in Neighbours \cup samples : runBest <= energy[t]
  <2>1. \A t \in Neighbours \cup samples : energy[t] \in Int
    BY SolutionsAre DEF QSageInv, StatesInv
  <2> QED
    BY <1>1, <1>7, <2>1
<1>9. /\ least' \in Int /\ runBest <= least'
      /\ evaluations' \in Nat
      /\ evaluations' <= evaluations + 1 + NumSearched + MaxSamples
  BY <1>1, <1>7, <1>8, EvaluateIs DEF QSageInv
<1>10. CountInv' /\ stage' \in {"tabu", "phaseEnd"}
  <2>1. CASE stage' = "phaseEnd"
    BY <1>4, <1>9, <2>1, QSageAssumption DEF QSageInv, CountInv, Bound
  <2>2. CASE Continue
    BY <1>4, <1>9, <2>2, ContinueKeepsCount DEF QSageInv
  <2> QED
    BY <1>1, <2>1, <2>2
<1>11. ListInv'
  BY <1>4, <1>6 DEF QSageInv, ListInv, Injective, Tenures
<1>12. StatesInv'
  BY <1>2, <1>4, <1>5, <1>9 DEF QSageInv, StatesInv
<1>13. ProgressInv'
  BY <1>4 DEF QSageInv, ProgressInv
<1>14. LeastInv'
  BY <1>4, <1>9, <1>10 DEF QSageInv, LeastInv
<1> QED
  BY <1>10, <1>11, <1>12, <1>13, <1>14 DEF QSageInv

\* The rest of solve's loop: the result takes over what the phase has found.
LEMMA UpdateKeeps ==
  ASSUME QSageInv, stage = "phaseEnd", UpdateBest, energy' = energy
  PROVE  /\ best' \in TabuStates /\ bestEnergy' = energy[best'] /\ bestEnergy' <= least
         /\ ProgressInv'
<1>1. /\ energy \in [TabuStates -> Int] /\ best \in TabuStates /\ phaseBest \in TabuStates
      /\ bestEnergy = energy[best] /\ bestEnergy \in Int /\ energy[phaseBest] \in Int
      /\ runBest \in Int /\ least \in Int
      /\ runBest <= least /\ runBest <= bestEnergy /\ runBest \in {bestEnergy, energy[phaseBest]}
  BY DEF QSageInv, StatesInv, LeastInv
<1>2. CASE energy[phaseBest] < bestEnergy
  <2>1. /\ best' = phaseBest /\ bestEnergy' = energy[phaseBest]
        /\ progress' = Append(progress, energy[phaseBest])
    BY <1>2 DEF UpdateBest, PhaseResult
  <2> DEFINE n == Len(progress)
  <2>2. /\ progress' \in Seq(Int) /\ Len(progress') = n + 1 /\ n \in Nat /\ n >= 1
        /\ progress'[n + 1] = energy[phaseBest]
        /\ \A i \in 1 .. n : progress'[i] = progress[i]
        /\ progress[n] = bestEnergy
    BY <1>1, <2>1 DEF QSageInv, ProgressInv
  <2>3. ASSUME NEW i \in 2 .. Len(progress') PROVE progress'[i] < progress'[i - 1]
    <3>1. CASE i = n + 1
      <4>1. i - 1 = n /\ n \in 1 .. n
        BY <2>2, <3>1
      <4> QED
        BY <1>2, <2>2, <3>1, <4>1
    <3>2. CASE i # n + 1
      <4>1. i \in 2 .. n /\ i \in 1 .. n /\ i - 1 \in 1 .. n
        BY <2>2, <3>2
      <4> QED
        BY <2>2, <4>1 DEF QSageInv, ProgressInv
    <3> QED
      BY <3>1, <3>2
  <2>4. ProgressInv'
    BY <2>1, <2>2, <2>3 DEF ProgressInv
  <2> QED
    BY <1>1, <1>2, <2>1, <2>4
<1>3. CASE ~ (energy[phaseBest] < bestEnergy)
  <2>1. UNCHANGED <<best, bestEnergy, progress>>
    BY <1>3 DEF UpdateBest, PhaseResult, resultVars
  <2>2. ProgressInv'
    BY <2>1 DEF QSageInv, ProgressInv
  <2> QED
    BY <1>1, <1>3, <2>1, <2>2
<1> QED
  BY <1>2, <1>3

\* So does the end of a phase, restart or not.
LEMMA PhaseEndKeeps ==
  ASSUME QSageInv, LastPhase \/ NextPhase
  PROVE  QSageInv'
<1>1. /\ stage = "phaseEnd" /\ UpdateBest /\ stage' \in {"phase", "done"}
      /\ UNCHANGED <<energy, phaseBest, runBest, subset, evaluations, least>>
      /\ \/ UNCHANGED <<current, tabuList, tabuTenure>>
         \/ current' \in TabuStates /\ tabuList' = <<>> /\ tabuTenure' \in Tenures
  BY DEF LastPhase, NextPhase, phaseVars, tabuVars
<1>2. /\ best' \in TabuStates /\ bestEnergy' = energy[best'] /\ bestEnergy' <= least
      /\ ProgressInv'
  BY <1>1, UpdateKeeps
<1>3. ListInv'
  <2>1. CASE UNCHANGED <<current, tabuList, tabuTenure>>
    BY <2>1 DEF QSageInv, ListInv, Injective, Tenures
  <2>2. CASE current' \in TabuStates /\ tabuList' = <<>> /\ tabuTenure' \in Tenures
    BY <2>2, TenureIs DEF ListInv, Injective, Tenures
  <2> QED
    BY <1>1, <2>1, <2>2
<1>4. StatesInv'
  BY <1>1, <1>2 DEF QSageInv, StatesInv
<1>5. LeastInv'
  BY <1>1, <1>2 DEF LeastInv
<1>6. CountInv'
  BY <1>1 DEF QSageInv, CountInv, Bound
<1> QED
  BY <1>2, <1>3, <1>4, <1>5, <1>6 DEF QSageInv

\* So does the beginning of a phase, and an end that leaves no result.
LEMMA StartKeeps ==
  ASSUME QSageInv, StartPhase \/ Interrupted \/ SearchFails \/ OutOfEvaluations
  PROVE  QSageInv'
<1>0. UNCHANGED <<energy, best, bestEnergy, progress, current, tabuList, tabuTenure, least>>
  BY DEF StartPhase, Interrupted, SearchFails, OutOfEvaluations, resultVars, phaseVars, tabuVars
<1>1. ListInv' /\ ProgressInv'
  BY <1>0 DEF QSageInv, ListInv, ProgressInv, Injective, Tenures
<1>2. CASE StartPhase
  <2>1. /\ stage = "phase" /\ evaluations < MaxEvaluations /\ phaseBest' = current
        /\ runBest' = bestEnergy /\ stage' = "tabu" /\ evaluations' = evaluations
        /\ subset' \in SUBSET Searched
    BY <1>2 DEF StartPhase, kSubset
  <2>2. bestEnergy \in Int
    BY DEF QSageInv, StatesInv
  <2> QED
    BY <1>0, <1>1, <2>1, <2>2 DEF QSageInv, StatesInv, LeastInv, CountInv, Bound
<1>3. CASE Interrupted
  <2>1. /\ stage = "tabu" /\ stage' = "phaseEnd"
        /\ evaluations' \in {evaluations, evaluations + 1, evaluations + 1 + NumSearched}
        /\ UNCHANGED <<phaseBest, runBest, subset>>
    BY <1>3 DEF Interrupted, phaseVars
  <2>2. CountInv'
    BY <2>1, QSageAssumption DEF QSageInv, CountInv, Bound
  <2> QED
    BY <1>0, <1>1, <2>1, <2>2 DEF QSageInv, StatesInv, LeastInv
<1>4. CASE OutOfEvaluations
  <2>1. stage = "phase" /\ stage' = "done" /\ UNCHANGED <<phaseBest, runBest, subset, evaluations>>
    BY <1>4 DEF OutOfEvaluations, phaseVars
  <2> QED
    BY <1>0, <1>1, <2>1 DEF QSageInv, StatesInv, LeastInv, CountInv, Bound
<1>5. CASE SearchFails
  <2>1. stage' = "failed" /\ UNCHANGED <<phaseBest, runBest, subset, evaluations>>
    BY <1>5 DEF SearchFails, phaseVars
  <2> QED
    BY <1>0, <1>1, <2>1 DEF QSageInv, StatesInv, LeastInv, CountInv, Bound
<1> QED
  BY <1>2, <1>3, <1>4, <1>5

\* The invariant, for every step of the search.
LEMMA QSageInvHolds == QSageSpec => []QSageInv
<1>1. QSageInv /\ [QSageNext]_qsageVars => QSageInv'
  <2> SUFFICES ASSUME QSageInv, [QSageNext]_qsageVars PROVE QSageInv'
    OBVIOUS
  <2>1. CASE UNCHANGED qsageVars
    BY <2>1 DEF qsageVars, resultVars, phaseVars, tabuVars, QSageInv, ListInv, StatesInv,
               ProgressInv, LeastInv, CountInv, Bound, Injective, Tenures
  <2> QED
    BY <2>1, StartKeeps, ImproveKeeps, MoveKeeps, PhaseEndKeeps DEF QSageNext
<1> QED
  BY <1>1, QSageInitInv, PTL DEF QSageSpec

(***************************************************************************)
(* The iteration that takes the first state not made tabu finds one, for   *)
(* any number of variables above one and whatever is sampled.              *)
(***************************************************************************)
THEOREM MoveSafe == QSageSpec => []TabuLeavesAMove
<1>1. QSageInv => TabuLeavesAMove
  BY SomeMove DEF QSageInv, StatesInv, ListInv, TabuLeavesAMove
<1> QED
  BY <1>1, QSageInvHolds, PTL

(***************************************************************************)
(* What the search returns is as good as every neighbour and sample it has *)
(* compared, however its phases end, for any objective and any limits.     *)
(***************************************************************************)
THEOREM BestSafe == QSageSpec => []BestIsKept
<1>1. QSageInv => BestIsKept
  BY DEF QSageInv, StatesInv, ProgressInv, LeastInv, CountInv, Bound, BestIsKept
<1> QED
  BY <1>1, QSageInvHolds, PTL

-----------------------------------------------------------------------------
(* Embedding *)

\* One member more.
LEMMA OneMore ==
  ASSUME NEW S, IsFiniteSet(S), NEW x, x \notin S
  PROVE  IsFiniteSet(S \cup {x}) /\ Cardinality(S \cup {x}) = Cardinality(S) + 1
BY FS_AddElement

-----------------------------------------------------------------------------
(* Chains                                                                  *)

\* No part of a chain is cut off from the rest.
OnePiece(C) ==
  \A X \in SUBSET C : X # {} /\ X # C => \E p \in X, q \in C \ X : Adjacent(p, q)

\* A coupler joins two different qubits, and either way.
LEMMA CouplerFacts ==
  /\ \A p, q : Adjacent(p, q) => Adjacent(q, p) /\ p # q /\ p \in Qubits /\ q \in Qubits
  /\ \A p, q : Adjacent(p, q) => p \in UNION Couplers /\ q \in UNION Couplers
<1>1. ASSUME NEW p, NEW q, Adjacent(p, q)
      PROVE  Adjacent(q, p) /\ p # q /\ p \in Qubits /\ q \in Qubits
  <2>1. PICK x, y \in Qubits : x # y /\ {p, q} = {x, y}
    BY <1>1, EmbeddingAssumption DEF Adjacent
  <2>2. {p, q} = {q, p}
    OBVIOUS
  <2> QED
    BY <1>1, <2>1, <2>2 DEF Adjacent
<1>2. \A p, q : p \in {p, q} /\ q \in {p, q}
  OBVIOUS
<1>3. \A p, q : Adjacent(p, q) => p \in UNION Couplers /\ q \in UNION Couplers
  BY <1>2 DEF Adjacent
<1> QED
  BY <1>1, <1>3

Spread(C, seen) == seen \cup {q \in C : \E p \in seen : Adjacent(p, q)}

\* What the breadth first search of areConnected has seen after each round.
LEMMA SearchIs ==
  ASSUME NEW C \in SUBSET Qubits, C # {}
  PROVE  /\ IsFiniteSet(C) /\ Cardinality(C) \in Nat /\ Min(C) \in C
         /\ \E r \in [0 .. Cardinality(C) -> SUBSET C] :
              /\ r[0] = {Min(C)}
              /\ \A n \in 1 .. Cardinality(C) : r[n] = Spread(C, r[n - 1])
              /\ AreConnected(C) <=> r[Cardinality(C)] = C
<1> DEFINE N == Cardinality(C)
           D == SUBSET C
           F == [s \in D |-> Spread(C, s)]
           IsReach(r) == r = [n \in 0 .. N |-> IF n = 0 THEN {Min(C)} ELSE Spread(C, r[n - 1])]
           reach == CHOOSE r : IsReach(r)
<1>1. IsFiniteSet(C) /\ N \in Nat
  BY EmbeddingAssumption, FS_Subset, FS_CardinalityType
<1>2. Min(C) \in C
  <2>1. C \subseteq Int /\ \A x \in C : 0 <= x
    BY EmbeddingAssumption
  <2>2. 0 \in Int
    OBVIOUS
  <2> QED
    BY <2>1, <2>2, MinOfBounded
<1>3. F \in [D -> D] /\ {Min(C)} \in D
  BY <1>2 DEF Spread
<1>4. PICK g \in [0 .. N -> D] : g[0] = {Min(C)} /\ \A n \in 1 .. N : g[n] = F[g[n - 1]]
  <2> HIDE DEF D, F, N
  <2>1. \E g : Repeats(N, D, {Min(C)}, F, g)
    BY <1>1, <1>3, Repeated
  <2> QED
    BY <2>1 DEF Repeats
<1>5. \A n \in 0 .. N : g[n] = IF n = 0 THEN {Min(C)} ELSE Spread(C, g[n - 1])
  <2> TAKE n \in 0 .. N
  <2>1. CASE n = 0
    BY <2>1, <1>4
  <2>2. CASE n # 0
    <3>1. n \in 1 .. N /\ n - 1 \in 0 .. N
      BY <2>2, <1>1
    <3>2. g[n] = F[g[n - 1]] /\ g[n - 1] \in D
      BY <3>1, <1>4
    <3> QED
      BY <3>2, <2>2
  <2> QED
    BY <2>1, <2>2
<1>6. IsReach(g)
  <2> DEFINE h == [n \in 0 .. N |-> IF n = 0 THEN {Min(C)} ELSE Spread(C, g[n - 1])]
  <2>1. \A n \in 0 .. N : g[n] = h[n]
    BY <1>5
  <2>2. DOMAIN h = 0 .. N /\ DOMAIN g = 0 .. N /\ h = [n \in 0 .. N |-> h[n]] /\ g = [n \in 0 .. N |-> g[n]]
    BY <1>4
  <2> QED
    BY <2>1, <2>2
<1>7. IsReach(reach)
  BY <1>6
<1>8. AreConnected(C) <=> reach[N] = C
  BY DEF AreConnected, Spread
<1> HIDE DEF reach, N
<1>9. DOMAIN reach = 0 .. N /\ \A n \in 0 .. N : reach[n] = IF n = 0 THEN {Min(C)} ELSE Spread(C, reach[n - 1])
  BY <1>7
<1>10. \A n \in 0 .. N : reach[n] \in SUBSET C
  <2> DEFINE A == {n \in Nat : n <= N => reach[n] \in SUBSET C}
  <2>1. 0 \in A
    BY <1>1, <1>2, <1>9
  <2>2. ASSUME NEW n \in Nat, n \in A PROVE n + 1 \in A
    <3> SUFFICES ASSUME n + 1 <= N PROVE reach[n + 1] \in SUBSET C
      OBVIOUS
    <3>1. n + 1 \in 0 .. N /\ (n + 1) - 1 = n /\ n <= N /\ n + 1 # 0
      BY <1>1
    <3>2. reach[n + 1] = Spread(C, reach[n])
      BY <3>1, <1>9
    <3>3. reach[n] \in SUBSET C
      BY <2>2, <3>1
    <3> QED
      BY <3>2, <3>3 DEF Spread
  <2>3. Nat \subseteq A
    <3> HIDE DEF A
    <3> QED
      BY <2>1, <2>2, InductiveSet
  <2> QED
    BY <2>3
<1>11. reach \in [0 .. N -> SUBSET C]
  BY <1>7, <1>10
<1>12. reach[0] = {Min(C)} /\ \A n \in 1 .. N : reach[n] = Spread(C, reach[n - 1])
  BY <1>1, <1>9
<1> QED
  BY <1>1, <1>2, <1>8, <1>11, <1>12 DEF N

\* The search tells the truth.
LEMMA ConnectedIs ==
  ASSUME NEW C \in SUBSET Qubits, C # {}
  PROVE  AreConnected(C) <=> OnePiece(C)
<1> DEFINE N == Cardinality(C)
<1>1. IsFiniteSet(C) /\ N \in Nat /\ Min(C) \in C
  BY SearchIs
<1>2. PICK r \in [0 .. N -> SUBSET C] :
        /\ r[0] = {Min(C)}
        /\ \A n \in 1 .. N : r[n] = Spread(C, r[n - 1])
        /\ AreConnected(C) <=> r[N] = C
  BY SearchIs
<1> HIDE DEF N
<1>3. ASSUME OnePiece(C) PROVE r[N] = C
  <2> DEFINE A == {n \in Nat : n <= N => r[n] = C \/ Cardinality(r[n]) >= n + 1}
  <2>1. 0 \in A
    <3>1. Cardinality(r[0]) = 1
      BY <1>2, FS_Singleton
    <3> QED
      BY <3>1
  <2>2. ASSUME NEW n \in Nat, n \in A PROVE n + 1 \in A
    <3> SUFFICES ASSUME n + 1 <= N PROVE r[n + 1] = C \/ Cardinality(r[n + 1]) >= (n + 1) + 1
      OBVIOUS
    <3>1. n + 1 \in 1 .. N /\ (n + 1) - 1 = n /\ n <= N /\ n \in 0 .. N /\ n + 1 \in 0 .. N
      BY <1>1
    <3>2. r[n + 1] = Spread(C, r[n]) /\ r[n] \in SUBSET C /\ r[n + 1] \in SUBSET C
      BY <3>1, <1>2
    <3>3. CASE r[n] = C
      BY <3>2, <3>3 DEF Spread
    <3>4. CASE r[n] # C
      <4>1. Cardinality(r[n]) >= n + 1 /\ IsFiniteSet(r[n]) /\ IsFiniteSet(r[n + 1])
        BY <2>2, <3>1, <3>2, <3>4, <1>1, FS_Subset
      <4>2. r[n] # {}
        BY <4>1, FS_EmptySet
      <4>3. PICK p \in r[n], q \in C \ r[n] : Adjacent(p, q)
        BY <1>3, <3>2, <3>4, <4>2 DEF OnePiece
      <4>4. r[n] \cup {q} \in SUBSET r[n + 1]
        BY <3>2, <4>3 DEF Spread
      <4>5. Cardinality(r[n] \cup {q}) = Cardinality(r[n]) + 1
        <5>1. q \notin r[n] /\ IsFiniteSet(r[n])
          BY <4>1, <4>3
        <5> QED
          BY <5>1, OneMore
      <4>6. Cardinality(r[n] \cup {q}) <= Cardinality(r[n + 1])
        BY <4>1, <4>4, FS_Subset
      <4>7. Cardinality(r[n]) \in Nat /\ Cardinality(r[n + 1]) \in Nat
        BY <4>1, FS_CardinalityType
      <4> QED
        BY <4>1, <4>5, <4>6, <4>7
    <3> QED
      BY <3>3, <3>4
  <2>3. Nat \subseteq A
    <3> HIDE DEF A
    <3> QED
      BY <2>1, <2>2, InductiveSet
  <2>4. r[N] = C \/ Cardinality(r[N]) >= N + 1
    BY <1>1, <2>3
  <2>5. r[N] \in SUBSET C
    BY <1>1, <1>2
  <2>6. Cardinality(r[N]) <= N /\ Cardinality(r[N]) \in Nat
    BY <2>5, <1>1, FS_Subset, FS_CardinalityType DEF N
  <2> QED
    BY <1>1, <2>4, <2>6
<1>4. ASSUME r[N] = C, NEW X \in SUBSET C, X # {}, X # C,
             \A p \in X, q \in C \ X : ~Adjacent(p, q)
      PROVE  FALSE
  <2> DEFINE Y == IF Min(C) \in X THEN X ELSE C \ X
             A == {n \in Nat : n <= N => r[n] \in SUBSET Y}
  <2>1. Min(C) \in Y /\ Y # C /\ Y \in SUBSET C
    BY <1>1, <1>4
  <2>2. \A p \in Y, q \in C : Adjacent(p, q) => q \in Y
    BY <1>4, CouplerFacts
  <2>3. 0 \in A
    BY <1>2, <2>1
  <2>4. ASSUME NEW n \in Nat, n \in A PROVE n + 1 \in A
    <3> SUFFICES ASSUME n + 1 <= N PROVE r[n + 1] \in SUBSET Y
      OBVIOUS
    <3>1. n + 1 \in 1 .. N /\ (n + 1) - 1 = n /\ n <= N
      BY <1>1
    <3>2. r[n + 1] = Spread(C, r[n]) /\ r[n] \in SUBSET Y
      BY <3>1, <1>2, <2>4
    <3> HIDE DEF Y
    <3> QED
      BY <3>2, <2>2 DEF Spread
  <2>5. Nat \subseteq A
    <3> HIDE DEF A
    <3> QED
      BY <2>3, <2>4, InductiveSet
  <2>6. r[N] \in SUBSET Y
    BY <1>1, <2>5
  <2> QED
    BY <1>4, <2>1, <2>6
<1> QED
  BY <1>2, <1>3, <1>4 DEF OnePiece

\* A chain of one qubit is connected.
LEMMA OneQubit ==
  ASSUME NEW q
  PROVE  OnePiece({q})
BY DEF OnePiece

\* A leaf may be cut off ...
LEMMA CutLeaf ==
  ASSUME NEW C, OnePiece(C), NEW q \in C, NEW p \in C, {x \in C : Adjacent(x, q)} = {p}
  PROVE  C \ {q} # {} /\ OnePiece(C \ {q})
<1>1. Adjacent(p, q) /\ p # q /\ \A x \in C : Adjacent(x, q) \/ Adjacent(q, x) => x = p
  BY CouplerFacts
<1>2. ASSUME NEW X \in SUBSET (C \ {q}), X # {}, X # C \ {q}
      PROVE  \E a \in X, b \in (C \ {q}) \ X : Adjacent(a, b)
  <2>1. CASE p \in X
    <3>1. X \cup {q} \in SUBSET C /\ X \cup {q} # {} /\ X \cup {q} # C
      BY <1>2
    <3>2. PICK a \in X \cup {q}, b \in C \ (X \cup {q}) : Adjacent(a, b)
      BY <3>1 DEF OnePiece
    <3> QED
      BY <2>1, <3>2, <1>1
  <2>2. CASE p \notin X
    <3>1. X \in SUBSET C /\ X # C
      BY <1>2
    <3>2. PICK a \in X, b \in C \ X : Adjacent(a, b)
      BY <1>2, <3>1 DEF OnePiece
    <3> QED
      BY <2>2, <3>2, <1>1
  <2> QED
    BY <2>1, <2>2
<1> QED
  BY <1>1, <1>2 DEF OnePiece

\* ... and a neighbour may be added.
LEMMA AddNeighbour ==
  ASSUME NEW C, OnePiece(C), NEW q, NEW p \in C, Adjacent(p, q)
  PROVE  OnePiece(C \cup {q})
<1>1. Adjacent(q, p)
  BY CouplerFacts
<1>2. ASSUME NEW X \in SUBSET (C \cup {q}), X # {}, X # C \cup {q}
      PROVE  \E a \in X, b \in (C \cup {q}) \ X : Adjacent(a, b)
  <2>1. CASE X \cap C = {}
    BY <1>1, <1>2, <2>1
  <2>2. CASE X \cap C = C
    BY <1>2, <2>2
  <2>3. CASE X \cap C # {} /\ X \cap C # C
    BY <2>3 DEF OnePiece
  <2> QED
    BY <2>1, <2>2, <2>3
<1> QED
  BY <1>2 DEF OnePiece

-----------------------------------------------------------------------------
(* What the call keeps *)

ProblemGiven ==
  /\ IsFiniteSet(Vars) /\ Vars \subseteq Nat /\ hs \in [Vars -> Int]
  /\ js \in [DOMAIN js -> Int]
  /\ \A e \in DOMAIN js : \E u, v \in Vars : u < v /\ e = <<u, v>>

ChainsApart ==
  /\ chains \in [Vars -> SUBSET Qubits]
  /\ \A u, v \in Vars : u # v => chains[u] \cap chains[v] = {}

ChainsWhole ==
  \A v \in Vars : chains[v] # {} /\ chains[v] \subseteq UNION Couplers /\ OnePiece(chains[v])

AvailFree ==
  /\ order \in Seq(Vars)
  /\ avail \cap Taken = {} /\ avail \subseteq Qubits
  /\ avail # {} => /\ embedStage = "smearing" /\ order # <<>>
                   /\ \A q \in avail : \E p \in chains[Head(order)] : Adjacent(p, q)

Laid ==
  /\ embedStage \in {"given", "cleaning", "smearing", "embedded", "refused"}
  /\ embedStage # "refused" =>
       ProblemGiven /\ ChainsApart /\ ChainsWhole /\ ValidateEmbEdges(chains, js) /\ AvailFree

\* The pairs of CouplersOf, one by one.
LEMMA CouplersOfIs ==
  ASSUME NEW emb, NEW e, NEW c
  PROVE  c \in CouplersOf(emb, e) <=>
           /\ c = <<c[1], c[2]>> /\ c[1] \in emb[e[1]] /\ c[2] \in emb[e[2]] /\ Adjacent(c[1], c[2])
BY DEF CouplersOf

\* Nothing is laid at the start.
LEMMA LaidInit == EmbeddingInit => Laid
<1> SUFFICES ASSUME EmbeddingInit PROVE Laid
  OBVIOUS
<1>1. PICK problem \in Problems, of \in [Qubits -> -1 .. Max({Cardinality(DOMAIN p.h) : p \in Problems})] :
        LET emb == DecodeEmbeddings(of)
            ok == /\ DOMAIN problem.h \subseteq DOMAIN emb
                  /\ ValidateEmbVars(emb) /\ ValidateEmbEdges(emb, NonZero(problem.j))
        IN  /\ hs = IF ok THEN Padded(problem.h, emb) ELSE <<>>
            /\ js = IF ok THEN NonZero(problem.j) ELSE <<>>
            /\ chains = IF ok THEN emb ELSE <<>>
            /\ embedStage = IF ok THEN "given" ELSE "refused"
            /\ order = <<>>
            /\ avail = {}
  BY DEF EmbeddingInit
<1> DEFINE emb == DecodeEmbeddings(of)
           ok == /\ DOMAIN problem.h \subseteq DOMAIN emb
                 /\ ValidateEmbVars(emb) /\ ValidateEmbEdges(emb, NonZero(problem.j))
<1>2. CASE ~ok
  BY <1>1, <1>2 DEF Laid
<1>3. CASE ok
  <2>1. hs = Padded(problem.h, emb) /\ js = NonZero(problem.j) /\ chains = emb /\ embedStage = "given" /\ order = <<>> /\ avail = {}
    BY <1>1, <1>3
  <2>2. problem.h \in [0 .. Cardinality(DOMAIN problem.h) - 1 -> Int] /\ IsFiniteSet(DOMAIN problem.h)
    BY EmbeddingAssumption
  <2>3. /\ problem.j \in [DOMAIN problem.j -> Int]
        /\ \A e \in DOMAIN problem.j : \E u, v \in DOMAIN problem.h : u < v /\ e = <<u, v>>
    BY EmbeddingAssumption
  <2>4. \A v \in DOMAIN emb : emb[v] = {q \in Qubits : of[q] = v}
    BY DEF DecodeEmbeddings
  <2>5. DOMAIN emb = Vars /\ emb = [v \in Vars |-> emb[v]] /\ DOMAIN problem.h \subseteq Vars
    BY <1>3, <2>1 DEF Vars, Padded, DecodeEmbeddings
  <2>6. Vars \subseteq Nat /\ hs \in [Vars -> Int] /\ IsFiniteSet(Vars)
    <3> DEFINE U == {of[q] : q \in Qubits}
    <3>1. Vars \subseteq Nat
      <4> DEFINE m == Max({of[q] : q \in Qubits})
      <4>1. Vars = 0 .. m
        BY <2>5 DEF DecodeEmbeddings
      <4> HIDE DEF m
      <4> QED
        BY <4>1
    <3>2. hs \in [Vars -> Int]
      <4>1. hs = [v \in Vars |-> IF v \in DOMAIN problem.h THEN problem.h[v] ELSE 0]
        BY <2>1, <2>5 DEF Padded
      <4>2. \A v \in DOMAIN problem.h : problem.h[v] \in Int
        BY <2>2
      <4> QED
        BY <4>1, <4>2
    <3>3. Vars \subseteq U
      BY <1>3, <2>4, <2>5 DEF ValidateEmbVars
    <3>4. IsFiniteSet(U)
      <4>1. IsFiniteSet(Qubits)
        BY EmbeddingAssumption
      <4> QED
        BY <4>1, ImageFinite
    <3> HIDE DEF U
    <3> QED
      BY <3>1, <3>2, <3>3, <3>4, FS_Subset
  <2>7. js \in [DOMAIN js -> Int] /\ DOMAIN js \subseteq DOMAIN problem.j
    BY <2>1, <2>3 DEF NonZero
  <2>8. ProblemGiven
    <3>1. \A e \in DOMAIN js : \E u, v \in Vars : u < v /\ e = <<u, v>>
      BY <2>3, <2>5, <2>7
    <3> QED
      BY <2>1, <2>6, <2>7, <3>1 DEF ProblemGiven, NonZero
  <2> HIDE DEF emb
  <2>9. ChainsApart
    BY <2>1, <2>4, <2>5 DEF ChainsApart
  <2>10. ChainsWhole
    BY <1>3, <2>1, <2>5, <2>9, ConnectedIs DEF ValidateEmbVars, ChainsWhole, ChainsApart
  <2>11. AvailFree
    BY <2>1 DEF AvailFree
  <2> QED
    BY <1>3, <2>1, <2>8, <2>9, <2>10, <2>11 DEF Laid
<1> QED
  BY <1>2, <1>3

\* Each step lays the problem out as Laid says.
LEMMA LaidNext == Laid /\ [EmbeddingNext]_embeddingVars => Laid'
<1> SUFFICES ASSUME Laid, [EmbeddingNext]_embeddingVars PROVE Laid'
  OBVIOUS
<1>1. CASE UNCHANGED embeddingVars
  BY <1>1 DEF embeddingVars, Laid, ProblemGiven, ChainsApart, ChainsWhole, ValidateEmbEdges, CouplersOf,
     AvailFree, Vars, Taken
<1>2. CASE StartCleaning
  <2>1. UNCHANGED <<hs, js, order, avail>> /\ embedStage = "given" /\ embedStage' = "cleaning"
    BY <1>2 DEF StartCleaning
  <2>2. /\ chains \in [Vars -> SUBSET Qubits] /\ ChainsApart /\ ChainsWhole /\ ProblemGiven
        /\ ValidateEmbEdges(chains, js) /\ AvailFree
    BY <2>1 DEF Laid, ChainsApart
  <2>3. \A v \in Vars : Min(chains[v]) \in chains[v]
    BY <2>2, SearchIs DEF ChainsWhole
  <2>4. chains' = [v \in Vars |-> IF v \in UsedVars THEN chains[v] ELSE {Min(chains[v])}]
    BY <1>2 DEF StartCleaning
  <2>5. \A v \in Vars : chains'[v] = chains[v] \/ chains'[v] = {Min(chains[v])}
    BY <2>4
  <2>6. ProblemGiven' /\ Vars' = Vars
    BY <2>1, <2>2 DEF ProblemGiven, Vars
  <2>7. \A v \in Vars : chains'[v] \subseteq chains[v]
    BY <2>3, <2>5
  <2>8. ChainsApart'
    <3>1. chains' \in [Vars -> SUBSET Qubits]
      BY <2>2, <2>4, <2>7
    <3>2. \A u, v \in Vars : u # v => chains[u] \cap chains[v] = {}
      BY <2>2 DEF ChainsApart
    <3> QED
      BY <2>6, <2>7, <3>1, <3>2 DEF ChainsApart
  <2>9. ChainsWhole'
    BY <2>2, <2>3, <2>5, <2>6, OneQubit DEF ChainsWhole
  <2>10. ValidateEmbEdges(chains, js)'
    <3> SUFFICES ASSUME NEW e \in DOMAIN js PROVE CouplersOf(chains', e) # {}
      BY <2>1 DEF ValidateEmbEdges
    <3>1. PICK u \in Vars, v \in Vars : e = <<u, v>>
      BY <2>2 DEF ProblemGiven
    <3>2. u \in UsedVars /\ v \in UsedVars
      BY <3>1 DEF UsedVars
    <3>3. chains'[e[1]] = chains[e[1]] /\ chains'[e[2]] = chains[e[2]]
      BY <2>4, <3>1, <3>2
    <3> QED
      BY <2>2, <3>3 DEF ValidateEmbEdges, CouplersOf
  <2>11. AvailFree'
    <3>1. Taken' \subseteq Taken
      BY <2>6, <2>7 DEF Taken
    <3>2. avail = {}
      BY <2>1, <2>2 DEF AvailFree
    <3> QED
      BY <2>1, <2>2, <2>6, <3>1 DEF AvailFree
  <2> QED
    BY <2>1, <2>6, <2>8, <2>9, <2>10, <2>11 DEF Laid
<1>3. ASSUME NEW v \in Vars, NEW q \in Qubits, PruneLeaf(v, q) PROVE Laid'
  <2>1. UNCHANGED <<hs, js, embedStage, order, avail>> /\ embedStage = "cleaning"
    BY <1>3 DEF PruneLeaf
  <2>2. /\ chains \in [Vars -> SUBSET Qubits] /\ ChainsApart /\ ChainsWhole /\ ProblemGiven
        /\ ValidateEmbEdges(chains, js) /\ AvailFree
    BY <2>1 DEF Laid, ChainsApart
  <2>3. chains' = [chains EXCEPT ![v] = @ \ {q}]
    BY <1>3 DEF PruneLeaf
  <2>4. chains'[v] = chains[v] \ {q} /\ \A u \in Vars : u # v => chains'[u] = chains[u]
    BY <2>2, <2>3
  <2>5. ProblemGiven' /\ Vars' = Vars
    BY <2>1, <2>2 DEF ProblemGiven, Vars
  <2>6. ChainsApart'
    BY <2>2, <2>3, <2>4, <2>5 DEF ChainsApart
  <2>7. q \in chains[v] /\ q \notin InterchainVars
    BY <1>3 DEF PruneLeaf, Prunable
  <2>8. PICK p \in chains[v] : {x \in chains[v] : Adjacent(x, q)} = {p}
    <3> DEFINE N == {x \in chains[v] : Adjacent(x, q)}
    <3>1. Cardinality(N) = 1 /\ IsFiniteSet(N)
      BY <1>3, <2>2, EmbeddingAssumption, FS_Subset DEF PruneLeaf, Prunable
    <3>2. \E p : N = {p}
      <4> HIDE DEF N
      <4> QED
        BY <3>1, FS_Singleton
    <3> QED
      BY <3>2
  <2>9. chains'[v] # {} /\ OnePiece(chains'[v])
    BY <2>2, <2>4, <2>7, <2>8, CutLeaf DEF ChainsWhole
  <2>10. ChainsWhole'
    BY <2>2, <2>4, <2>5, <2>9 DEF ChainsWhole
  <2>11. ValidateEmbEdges(chains, js)'
    <3> SUFFICES ASSUME NEW e \in DOMAIN js PROVE CouplersOf(chains', e) # {}
      BY <2>1 DEF ValidateEmbEdges
    <3>1. PICK c \in CouplersOf(chains, e) : TRUE
      BY <2>2 DEF ValidateEmbEdges
    <3>2. c[1] \in InterchainVars /\ c[2] \in InterchainVars
      BY DEF InterchainVars
    <3>3. e[1] \in Vars /\ e[2] \in Vars
      BY <2>2 DEF ProblemGiven
    <3>4. c = <<c[1], c[2]>> /\ c[1] \in chains'[e[1]] /\ c[2] \in chains'[e[2]] /\ Adjacent(c[1], c[2])
      BY <2>4, <2>7, <3>2, <3>3, CouplersOfIs
    <3> QED
      BY <3>4, CouplersOfIs
  <2>12. AvailFree'
    BY <2>1, <2>2, <2>5, <2>4 DEF AvailFree, Taken
  <2> QED
    BY <2>1, <2>5, <2>6, <2>10, <2>11, <2>12 DEF Laid
<1>4. CASE StartSmearing
  <2>1. UNCHANGED <<hs, js, chains, avail>> /\ embedStage \in {"given", "cleaning"} /\ embedStage' = "smearing"
    BY <1>4 DEF StartSmearing
  <2>2. /\ chains \in [Vars -> SUBSET Qubits] /\ ChainsApart /\ ChainsWhole /\ ProblemGiven
        /\ ValidateEmbEdges(chains, js) /\ AvailFree
    BY <2>1 DEF Laid, ChainsApart
  <2>3. order' \in Seq(Vars)
    <3> DEFINE below == {v \in Vars : hs[v] # 0 /\ Less(HScale(v), JScale)}
    <3>1. CASE order' = <<>>
      BY <3>1
    <3>2. CASE order' \in SmearOrders
      <4>1. order' \in [1 .. Cardinality(below) -> below]
        BY <3>2 DEF SmearOrders
      <4>2. IsFiniteSet(below) /\ Cardinality(below) \in Nat /\ below \subseteq Vars
        BY <2>2, FS_Subset, FS_CardinalityType DEF ProblemGiven
      <4> HIDE DEF below
      <4> QED
        BY <4>1, <4>2
    <3> QED
      BY <1>4, <3>1, <3>2 DEF StartSmearing
  <2>4. Vars' = Vars /\ Taken' = Taken /\ avail = {}
    BY <2>1, <2>2 DEF Vars, Taken, AvailFree
  <2> QED
    BY <2>1, <2>2, <2>3, <2>4 DEF Laid, ProblemGiven, ChainsApart, ChainsWhole, ValidateEmbEdges, CouplersOf,
       AvailFree
<1>5. ASSUME NEW q \in Qubits, Grow(q) PROVE Laid'
  <2> DEFINE v == Head(order)
  <2>1. UNCHANGED <<hs, js, embedStage, order>> /\ embedStage = "smearing" /\ order # <<>>
    BY <1>5 DEF Grow
  <2>2. /\ chains \in [Vars -> SUBSET Qubits] /\ ChainsApart /\ ChainsWhole /\ ProblemGiven
        /\ ValidateEmbEdges(chains, js) /\ AvailFree
    BY <2>1 DEF Laid, ChainsApart
  <2>3. v \in Vars
    BY <2>1, <2>2 DEF AvailFree
  <2>4. chains' = [chains EXCEPT ![v] = @ \cup {q}] /\ q \in Available(v) /\ avail' = Available(v) \ {q}
    BY <1>5 DEF Grow
  <2>5. Available(v) \subseteq Qubits /\ Available(v) \cap Taken = {}
    BY <2>2 DEF Available, AvailFree
  <2>6. \A x \in Available(v) : \E p \in chains[v] : Adjacent(p, x)
    BY <2>2 DEF Available, AvailFree
  <2> HIDE DEF v
  <2>7. chains'[v] = chains[v] \cup {q} /\ \A u \in Vars : u # v => chains'[u] = chains[u]
    BY <2>2, <2>3, <2>4
  <2>8. ProblemGiven' /\ Vars' = Vars
    BY <2>1, <2>2 DEF ProblemGiven, Vars
  <2>9. \A u \in Vars : q \notin chains[u]
    BY <2>4, <2>5 DEF Taken
  <2>10. ChainsApart'
    <3>1. chains' \in [Vars -> SUBSET Qubits]
      BY <2>2, <2>4
    <3>2. \A u, w \in Vars : u # w => chains[u] \cap chains[w] = {}
      BY <2>2 DEF ChainsApart
    <3>3. ASSUME NEW u \in Vars, NEW w \in Vars, u # w PROVE chains'[u] \cap chains'[w] = {}
      <4>1. chains[u] \cap chains[w] = {} /\ q \notin chains[u] /\ q \notin chains[w]
        BY <3>2, <3>3, <2>9
      <4>2. chains'[u] = chains[u] \/ (u = v /\ chains'[u] = chains[u] \cup {q})
        BY <2>7
      <4>3. chains'[w] = chains[w] \/ (w = v /\ chains'[w] = chains[w] \cup {q})
        BY <2>7
      <4> QED
        BY <3>3, <4>1, <4>2, <4>3
    <3> QED
      BY <2>8, <3>1, <3>3 DEF ChainsApart
  <2>11. OnePiece(chains'[v]) /\ chains'[v] \subseteq UNION Couplers
    <3>1. PICK p \in chains[v] : Adjacent(p, q)
      BY <2>4, <2>6
    <3>2. OnePiece(chains[v]) /\ chains[v] \subseteq UNION Couplers
      BY <2>2, <2>3 DEF ChainsWhole
    <3>3. q \in UNION Couplers
      BY <3>1, CouplerFacts
    <3> QED
      BY <2>7, <3>1, <3>2, <3>3, AddNeighbour
  <2>12. ChainsWhole'
    BY <2>2, <2>3, <2>7, <2>8, <2>11 DEF ChainsWhole
  <2>13. \A u \in Vars : chains[u] \subseteq chains'[u]
    BY <2>7
  <2>14. ValidateEmbEdges(chains, js)'
    <3> SUFFICES ASSUME NEW e \in DOMAIN js PROVE CouplersOf(chains', e) # {}
      BY <2>1 DEF ValidateEmbEdges
    <3>1. PICK c \in CouplersOf(chains, e) : TRUE
      BY <2>2 DEF ValidateEmbEdges
    <3>2. e[1] \in Vars /\ e[2] \in Vars
      BY <2>2 DEF ProblemGiven
    <3>3. c = <<c[1], c[2]>> /\ c[1] \in chains'[e[1]] /\ c[2] \in chains'[e[2]] /\ Adjacent(c[1], c[2])
      BY <2>13, <3>2, CouplersOfIs
    <3> QED
      BY <3>3, CouplersOfIs
  <2>15. AvailFree'
    <3>1. \A x \in Taken' : x \in Taken \/ x = q
      BY <2>7, <2>8 DEF Taken
    <3>2. avail' \cap Taken' = {} /\ avail' \subseteq Qubits
      BY <2>4, <2>5, <3>1
    <3>3. \A x \in avail' : \E p \in chains'[v] : Adjacent(p, x)
      BY <2>4, <2>6, <2>7
    <3>4. order \in Seq(Vars)
      BY <2>2 DEF AvailFree
    <3> QED
      BY <2>1, <2>8, <3>2, <3>3, <3>4 DEF AvailFree, v
  <2> QED
    BY <2>1, <2>8, <2>10, <2>12, <2>14, <2>15 DEF Laid
<1>6. CASE NextToSmear
  <2>1. UNCHANGED <<hs, js, chains, embedStage>> /\ embedStage = "smearing" /\ order # <<>>
        /\ order' = Tail(order) /\ avail' = {}
    BY <1>6 DEF NextToSmear
  <2>2. /\ ChainsApart /\ ChainsWhole /\ ProblemGiven
        /\ ValidateEmbEdges(chains, js) /\ AvailFree
    BY <2>1 DEF Laid
  <2>3. Vars' = Vars /\ Taken' = Taken /\ Tail(order) \in Seq(Vars)
    BY <2>1, <2>2 DEF Vars, Taken, AvailFree
  <2> QED
    BY <2>1, <2>2, <2>3 DEF Laid, ProblemGiven, ChainsApart, ChainsWhole, ValidateEmbEdges, CouplersOf,
       AvailFree
<1>7. CASE Embed
  <2>1. /\ UNCHANGED <<hs, js, chains, order, avail>> /\ embedStage' = "embedded"
        /\ embedStage \in {"given", "cleaning"} \/ (embedStage = "smearing" /\ order = <<>>)
    <3>1. UNCHANGED <<hs, js, chains, order, avail>> /\ embedStage' = "embedded"
      BY <1>7 DEF Embed
    <3>2. embedStage \in {"given", "cleaning"} \/ (embedStage = "smearing" /\ order = <<>>)
      BY <1>7, ZenonT(30) DEF Embed
    <3> QED
      BY <3>1, <3>2
  <2>2. /\ ChainsApart /\ ChainsWhole /\ ProblemGiven
        /\ ValidateEmbEdges(chains, js) /\ AvailFree
    BY <2>1 DEF Laid
  <2>3. Vars' = Vars /\ Taken' = Taken /\ avail = {}
    BY <2>1, <2>2 DEF Vars, Taken, AvailFree
  <2> QED
    BY <2>1, <2>2, <2>3 DEF Laid, ProblemGiven, ChainsApart, ChainsWhole, ValidateEmbEdges, CouplersOf,
       AvailFree
<1> QED
  BY <1>1, <1>2, <1>3, <1>4, <1>5, <1>6, <1>7 DEF EmbeddingNext

-----------------------------------------------------------------------------
(* Energies *)

\* The shares of a value that is divided add up to it.
LEMMA ShareIs ==
  ASSUME NEW n \in Nat, n # 0, n <= Cardinality(Qubits) \/ n <= Cardinality(Couplers),
         Cardinality(Qubits) \in Nat, Cardinality(Couplers) \in Nat
  PROVE  (Scale \div n) \in Int /\ n * (Scale \div n) = Scale
<1>1. Scale % n = 0 /\ Scale \in Int
  BY EmbeddingAssumption
<1>2. \A a \in Int : a % n = 0 => (a \div n) \in Int /\ n * (a \div n) = a
  OBVIOUS
<1> QED
  BY <1>1, <1>2

\* The solver has finitely many qubits and couplers.
LEMMA FiniteGraph ==
  /\ IsFiniteSet(Qubits) /\ Cardinality(Qubits) \in Nat
  /\ IsFiniteSet(Couplers) /\ Cardinality(Couplers) \in Nat
<1>1. IsFiniteSet(Qubits) /\ Couplers \subseteq SUBSET Qubits
  BY EmbeddingAssumption
<1>2. IsFiniteSet(SUBSET Qubits)
  BY <1>1, FS_SUBSET
<1> QED
  BY <1>1, <1>2, FS_Subset, FS_CardinalityType

\* No coupler is counted twice.
LEMMA CouplersOfFinite ==
  ASSUME ProblemGiven, ChainsApart, NEW e \in DOMAIN js
  PROVE  /\ CouplersOf(chains, e) \subseteq Taken \X Taken
         /\ IsFiniteSet(CouplersOf(chains, e))
         /\ Cardinality(CouplersOf(chains, e)) <= Cardinality(Couplers)
<1>1. PICK u \in Vars, v \in Vars : u < v /\ e = <<u, v>>
  BY DEF ProblemGiven
<1>2. u # v
  <2>1. u \in Int /\ v \in Int
    BY DEF ProblemGiven
  <2> QED
    BY <1>1, <2>1
<1>3. chains[u] \cap chains[v] = {}
  BY <1>2 DEF ChainsApart
<1> DEFINE C == CouplersOf(chains, e)
           fn == [c \in C |-> {c[1], c[2]}]
<1>4. \A c \in C : c = <<c[1], c[2]>> /\ c[1] \in chains[u] /\ c[2] \in chains[v] /\ {c[1], c[2]} \in Couplers
  BY <1>1 DEF CouplersOf, Adjacent
<1>5. C \subseteq Taken \X Taken
  <2>1. \A c \in C : c = <<c[1], c[2]>> /\ c[1] \in Taken /\ c[2] \in Taken
    BY <1>4 DEF Taken
  <2> HIDE DEF C
  <2> QED
    BY <2>1
<1>6. fn \in Injection(C, Couplers)
  <2>1. fn \in [C -> Couplers]
    BY <1>4
  <2>2. ASSUME NEW c \in C, NEW d \in C, fn[c] = fn[d] PROVE c = d
    <3>1. {c[1], c[2]} = {d[1], d[2]}
      BY <2>2
    <3>2. c[1] = d[1] /\ c[2] = d[2]
      BY <1>3, <1>4, <3>1
    <3> QED
      BY <1>4, <3>2
  <2> HIDE DEF fn
  <2> QED
    BY <2>1, <2>2 DEF Injection, IsInjective
<1>7. IsFiniteSet(C) /\ Cardinality(C) <= Cardinality(Couplers)
  <2> HIDE DEF C, fn
  <2> QED
    BY <1>6, FiniteGraph, FS_Injection
<1> QED
  BY <1>5, <1>7

\* The chains hold finitely many qubits.
LEMMA TakenFinite ==
  ASSUME ChainsApart
  PROVE  Taken \subseteq Qubits /\ IsFiniteSet(Taken) /\ IsFiniteSet(Taken \X Taken)
<1>1. Taken \subseteq Qubits
  BY DEF Taken, ChainsApart
<1> QED
  BY <1>1, FiniteGraph, FS_Subset, FS_Product

\* The fields of the qubits of a chain are the field of its variable.
LEMMA FieldsKept ==
  ASSUME ProblemGiven, ChainsApart, ChainsWhole, NEW s \in [Vars -> Int], NEW m,
         \A v \in Vars : \A q \in chains[v] : m[q] = s[v]
  PROVE  SumFunction([q \in Taken |-> EmbeddedH(q) * m[q]]) = Scale * SumFunction([v \in Vars |-> hs[v] * s[v]])
<1> DEFINE share == [v \in Vars |-> Scale \div Cardinality(chains[v])]
           part == [q \in Taken |-> [v \in {v \in Vars : q \in chains[v]} |-> (Scale \div Cardinality(chains[v])) * hs[v]]]
           per == [q \in Taken |-> EmbeddedH(q) * m[q]]
           all == [v \in Vars |-> hs[v] * s[v]]
<1>1. IsFiniteSet(Vars) /\ IsFiniteSet(Taken) /\ Scale \in Int
  BY TakenFinite, EmbeddingAssumption DEF ProblemGiven
<1>2. ASSUME NEW v \in Vars
      PROVE  /\ chains[v] \in SUBSET Taken /\ share[v] \in Int /\ hs[v] \in Int /\ s[v] \in Int
             /\ Cardinality(chains[v]) * share[v] = Scale
  <2>1. chains[v] \subseteq Qubits /\ chains[v] # {} /\ chains[v] \subseteq Taken
    BY DEF ChainsApart, ChainsWhole, Taken
  <2>2. Cardinality(chains[v]) \in Nat /\ Cardinality(chains[v]) # 0 /\ Cardinality(chains[v]) <= Cardinality(Qubits)
    BY <2>1, FiniteGraph, FS_Subset, FS_EmptySet, FS_CardinalityType
  <2>3. (Scale \div Cardinality(chains[v])) \in Int /\ Cardinality(chains[v]) * (Scale \div Cardinality(chains[v])) = Scale
    BY <2>2, FiniteGraph, ShareIs
  <2> QED
    BY <2>1, <2>3 DEF ProblemGiven
<1>3. \A q \in Taken : m[q] \in Int
  BY DEF Taken
<1>4. \A v \in Vars : \A q \in chains[v] : m[q] = s[v] /\ part[q][v] = share[v] * hs[v]
  BY DEF Taken
<1>5. ASSUME NEW q \in Taken PROVE per[q] = SumFunctionOnSet(part[q], {v \in Vars : q \in chains[v]}) * m[q]
  <2>1. DOMAIN part[q] = {v \in Vars : q \in chains[v]}
    OBVIOUS
  <2>2. EmbeddedH(q) = SumFunction(part[q])
    BY DEF EmbeddedH
  <2> HIDE DEF part
  <2> QED
    BY <2>1, <2>2 DEF SumFunction
<1>6. \A v \in Vars : all[v] = hs[v] * s[v]
  OBVIOUS
<1>7. DOMAIN per = Taken /\ DOMAIN all = Vars
  OBVIOUS
<1> HIDE DEF share, part, per, all
<1>8. Dealt(Vars, Taken, Scale, chains, share, hs, s, m, part, per, all)
  BY <1>2, <1>3, <1>4, <1>5, <1>6 DEF Dealt
<1>10. SumFunctionOnSet(per, Taken) = Scale * SumFunctionOnSet(all, Vars)
  BY <1>1, <1>8, DealtOut
<1>9. SumFunction(per) = Scale * SumFunction(all)
  BY <1>7, <1>10 DEF SumFunction
<1> QED
  BY <1>9 DEF per, all

\* The couplings of the couplers between two chains are the coupling of their
\* variables.
LEMMA CouplingsKept ==
  ASSUME ProblemGiven, ChainsApart, ChainsWhole, ValidateEmbEdges(chains, js), IsFiniteSet(DOMAIN js),
         NEW s \in [Vars -> Int], NEW m, \A v \in Vars : \A q \in chains[v] : m[q] = s[v]
  PROVE  SumFunction([c \in Taken \X Taken |-> EmbeddedJ(c[1], c[2]) * m[c[1]] * m[c[2]]])
           = Scale * SumFunction([e \in DOMAIN js |-> js[e] * s[e[1]] * s[e[2]]])
<1> DEFINE P == Taken \X Taken
           on == [e \in DOMAIN js |-> CouplersOf(chains, e)]
           share == [e \in DOMAIN js |-> Scale \div Cardinality(CouplersOf(chains, e))]
           t == [e \in DOMAIN js |-> s[e[1]] * s[e[2]]]
           w == [c \in P |-> m[c[1]] * m[c[2]]]
           here(c) == {e \in DOMAIN js : c \in CouplersOf(chains, e)}
           part == [c \in P |-> [e \in here(c) |-> (Scale \div Cardinality(CouplersOf(chains, e))) * js[e]]]
           per == [c \in P |-> EmbeddedJ(c[1], c[2]) * m[c[1]] * m[c[2]]]
           all == [e \in DOMAIN js |-> js[e] * s[e[1]] * s[e[2]]]
<1>1. IsFiniteSet(DOMAIN js) /\ IsFiniteSet(P) /\ Scale \in Int
  BY TakenFinite, EmbeddingAssumption
<1>2. ASSUME NEW e \in DOMAIN js
      PROVE  /\ on[e] = CouplersOf(chains, e)
             /\ on[e] \in SUBSET P /\ share[e] \in Int /\ js[e] \in Int
             /\ s[e[1]] \in Int /\ s[e[2]] \in Int /\ t[e] \in Int
             /\ e[1] \in Vars /\ e[2] \in Vars
             /\ Cardinality(on[e]) * share[e] = Scale
  <2>1. CouplersOf(chains, e) # {} /\ CouplersOf(chains, e) \subseteq P
    BY CouplersOfFinite DEF ValidateEmbEdges
  <2>2. /\ Cardinality(CouplersOf(chains, e)) \in Nat /\ Cardinality(CouplersOf(chains, e)) # 0
        /\ Cardinality(CouplersOf(chains, e)) <= Cardinality(Couplers)
    BY <2>1, CouplersOfFinite, FS_EmptySet, FS_CardinalityType
  <2>3. /\ (Scale \div Cardinality(CouplersOf(chains, e))) \in Int
        /\ Cardinality(CouplersOf(chains, e)) * (Scale \div Cardinality(CouplersOf(chains, e))) = Scale
    BY <2>2, FiniteGraph, ShareIs
  <2>4. e[1] \in Vars /\ e[2] \in Vars /\ js[e] \in Int
    BY DEF ProblemGiven
  <2>5. s[e[1]] \in Int /\ s[e[2]] \in Int
    BY <2>4
  <2>6. t[e] \in Int
    BY <2>5
  <2>7. on[e] = CouplersOf(chains, e) /\ share[e] = Scale \div Cardinality(CouplersOf(chains, e))
    OBVIOUS
  <2> HIDE DEF on, share, t, P
  <2> QED
    BY <2>1, <2>3, <2>4, <2>5, <2>6, <2>7
<1>3. \A q \in Taken : m[q] \in Int
  BY DEF Taken
<1>4. \A c \in P : w[c] = m[c[1]] * m[c[2]] /\ w[c] \in Int /\ m[c[1]] \in Int /\ m[c[2]] \in Int
  BY <1>3
<1>5. ASSUME NEW e \in DOMAIN js, NEW c \in on[e] PROVE w[c] = t[e] /\ part[c][e] = share[e] * js[e]
  <2>1. c \in CouplersOf(chains, e) /\ c \in P
    BY <1>2
  <2>2. c[1] \in chains[e[1]] /\ c[2] \in chains[e[2]]
    BY <2>1, CouplersOfIs
  <2>3. m[c[1]] = s[e[1]] /\ m[c[2]] = s[e[2]]
    BY <1>2, <2>2
  <2>4. w[c] = t[e]
    BY <2>1, <2>3
  <2>5. part[c][e] = share[e] * js[e]
    BY <2>1
  <2> QED
    BY <2>4, <2>5
<1>6. ASSUME NEW c \in P PROVE per[c] = SumFunctionOnSet(part[c], {e \in DOMAIN js : c \in on[e]}) * w[c]
  <2> DEFINE pc == part[c]
  <2>1. {e \in DOMAIN js : c \in on[e]} = here(c)
    OBVIOUS
  <2>2. pc = [e \in here(c) |-> (Scale \div Cardinality(CouplersOf(chains, e))) * js[e]]
    OBVIOUS
  <2>3. DOMAIN pc = here(c) /\ \A e \in here(c) : pc[e] \in Int
    <3>1. \A e \in here(c) : pc[e] = share[e] * js[e]
      OBVIOUS
    <3>2. \A e \in here(c) : share[e] \in Int /\ js[e] \in Int
      BY <1>2
    <3> QED
      BY <2>2, <3>1, <3>2
  <2>4. c = <<c[1], c[2]>>
    OBVIOUS
  <2>5. EmbeddedJ(c[1], c[2]) = SumFunction(pc)
    BY <2>2, <2>4 DEF EmbeddedJ
  <2>6. IsFiniteSet(here(c))
    BY <1>1, FS_Subset
  <2>7. per[c] = EmbeddedJ(c[1], c[2]) * m[c[1]] * m[c[2]]
    OBVIOUS
  <2>8. m[c[1]] \in Int /\ m[c[2]] \in Int /\ w[c] = m[c[1]] * m[c[2]]
    BY <1>4
  <2> HIDE DEF pc, here, per, w
  <2>9. SumFunctionOnSet(pc, here(c)) \in Int
    BY <2>3, <2>6, SumType DEF Whole
  <2>10. EmbeddedJ(c[1], c[2]) = SumFunctionOnSet(pc, here(c))
    BY <2>3, <2>5 DEF SumFunction
  <2>11. \A x, y, z \in Int : x * y * z = x * (y * z)
    OBVIOUS
  <2>12. per[c] = SumFunctionOnSet(pc, here(c)) * w[c]
    BY <2>7, <2>8, <2>9, <2>10, <2>11
  <2> QED
    BY <2>1, <2>12 DEF pc
<1>7. ASSUME NEW e \in DOMAIN js PROVE all[e] = js[e] * t[e]
  <2>1. all[e] = js[e] * s[e[1]] * s[e[2]] /\ t[e] = s[e[1]] * s[e[2]]
    OBVIOUS
  <2>2. \A x, y, z \in Int : x * y * z = x * (y * z)
    OBVIOUS
  <2> QED
    BY <1>2, <2>1, <2>2
<1>8. DOMAIN per = P /\ DOMAIN all = DOMAIN js
  OBVIOUS
<1> HIDE DEF P, on, share, t, w, part, per, all
<1>9. Dealt(DOMAIN js, P, Scale, on, share, js, t, w, part, per, all)
  BY <1>2, <1>4, <1>5, <1>6, <1>7 DEF Dealt
<1>10. SumFunctionOnSet(per, P) = Scale * SumFunctionOnSet(all, DOMAIN js)
  BY <1>1, <1>9, DealtOut
<1>11. SumFunction(per) = Scale * SumFunction(all)
  BY <1>8, <1>10 DEF SumFunction
<1> QED
  BY <1>11 DEF per, all, P

\* A problem has finitely many couplings.
LEMMA CouplingsFinite ==
  ASSUME ProblemGiven
  PROVE  IsFiniteSet(DOMAIN js)
<1>1. IsFiniteSet(Vars \X Vars)
  BY FS_Product DEF ProblemGiven
<1>2. DOMAIN js \subseteq Vars \X Vars
  BY DEF ProblemGiven
<1> QED
  BY <1>1, <1>2, FS_Subset

\* What has been laid out so is worth what the problem is.
LEMMA LaidKeepsProblem == Laid => EmbeddingKeepsProblem
<1> SUFFICES ASSUME Laid, embedStage = "embedded"
             PROVE  /\ ValidateEmbVars(chains) /\ ValidateEmbEdges(chains, js)
                    /\ \A u, v \in Vars : u # v => chains[u] \cap chains[v] = {}
                    /\ \A s \in Spins(Vars) :
                         EmbeddedEnergy([q \in Taken |-> s[CHOOSE v \in Vars : q \in chains[v]]]) = Scale * Energy(s)
  BY DEF EmbeddingKeepsProblem
<1>1. ProblemGiven /\ ChainsApart /\ ChainsWhole /\ ValidateEmbEdges(chains, js)
  BY DEF Laid
<1>2. ValidateEmbVars(chains)
  <2>1. DOMAIN chains = Vars /\ \A v \in Vars : chains[v] \in SUBSET Qubits
    BY <1>1 DEF ChainsApart
  <2> QED
    BY <1>1, <2>1, ConnectedIs DEF ChainsWhole, ValidateEmbVars
<1>3. ASSUME NEW s \in Spins(Vars)
      PROVE  EmbeddedEnergy([q \in Taken |-> s[CHOOSE v \in Vars : q \in chains[v]]]) = Scale * Energy(s)
  <2> DEFINE m == [q \in Taken |-> s[CHOOSE v \in Vars : q \in chains[v]]]
             fn == SumFunction([v \in Vars |-> hs[v] * s[v]])
             g == SumFunction([e \in DOMAIN js |-> js[e] * s[e[1]] * s[e[2]]])
  <2>1. s \in [Vars -> Int]
    BY DEF Spins
  <2>2. \A v \in Vars : \A q \in chains[v] : m[q] = s[v]
    <3> TAKE v \in Vars
    <3> TAKE q \in chains[v]
    <3>1. \A u \in Vars : q \in chains[u] => u = v
      BY <1>1 DEF ChainsApart
    <3>2. (CHOOSE u \in Vars : q \in chains[u]) = v
      BY <3>1
    <3> QED
      BY <3>2 DEF Taken
  <2> HIDE DEF m
  <2>3. SumFunction([q \in Taken |-> EmbeddedH(q) * m[q]]) = Scale * fn
    BY <1>1, <2>1, <2>2, FieldsKept
  <2>4. SumFunction([c \in Taken \X Taken |-> EmbeddedJ(c[1], c[2]) * m[c[1]] * m[c[2]]]) = Scale * g
    BY <1>1, <2>1, <2>2, CouplingsFinite, CouplingsKept
  <2>5. fn \in Int
    <3> DEFINE x == [v \in Vars |-> hs[v] * s[v]]
    <3>1. \A v \in Vars : x[v] \in Int
      <4>1. \A v \in Vars : hs[v] \in Int /\ s[v] \in Int
        BY <1>1, <2>1 DEF ProblemGiven
      <4> QED
        BY <4>1
    <3>2. DOMAIN x = Vars /\ IsFiniteSet(Vars)
      BY <1>1 DEF ProblemGiven
    <3> HIDE DEF x
    <3>3. SumFunctionOnSet(x, Vars) \in Int
      BY <3>1, <3>2, SumType DEF Whole
    <3> QED
      BY <3>2, <3>3 DEF SumFunction, x
  <2>6. g \in Int
    <3> DEFINE x == [e \in DOMAIN js |-> js[e] * s[e[1]] * s[e[2]]]
    <3>1. \A e \in DOMAIN js : x[e] \in Int
      <4>1. \A e \in DOMAIN js : js[e] \in Int /\ s[e[1]] \in Int /\ s[e[2]] \in Int
        BY <1>1, <2>1 DEF ProblemGiven
      <4> QED
        BY <4>1
    <3>2. DOMAIN x = DOMAIN js /\ IsFiniteSet(DOMAIN js)
      BY <1>1, CouplingsFinite
    <3> HIDE DEF x
    <3>3. SumFunctionOnSet(x, DOMAIN js) \in Int
      BY <3>1, <3>2, SumType DEF Whole
    <3> QED
      BY <3>2, <3>3 DEF SumFunction, x
  <2>7. EmbeddedEnergy(m) = Scale * fn + Scale * g
    BY <2>3, <2>4 DEF EmbeddedEnergy
  <2>8. Energy(s) = fn + g
    BY DEF Energy
  <2> HIDE DEF fn, g
  <2>9. \A k, x, y \in Int : k * x + k * y = k * (x + y)
    OBVIOUS
  <2>10. EmbeddedEnergy(m) = Scale * Energy(s)
    BY <2>5, <2>6, <2>7, <2>8, <2>9, EmbeddingAssumption
  <2> QED
    BY <2>10 DEF m
<1>4. \A u, v \in Vars : u # v => chains[u] \cap chains[v] = {}
  BY <1>1 DEF ChainsApart
<1> QED
  BY <1>1, <1>2, <1>3, <1>4

\* Along every run of embed_problem, for any solver graph and any problem, the
\* chains are connected, apart from each other and coupled wherever the problem
\* couples their variables.
THEOREM EmbeddingLaid == EmbeddingSpec => []Laid
<1>1. EmbeddingInit => Laid
  BY LaidInit
<1>2. Laid /\ [EmbeddingNext]_embeddingVars => Laid'
  BY LaidNext
<1> QED
  BY <1>1, <1>2, PTL DEF EmbeddingSpec

\* Whatever cleaning and smearing do to the chains, a sample in which no chain
\* is broken has the energy of the logical problem.
THEOREM KeepsProblem == EmbeddingSpec => []EmbeddingKeepsProblem
BY EmbeddingLaid, LaidKeepsProblem, PTL

-----------------------------------------------------------------------------
(* Reading an answer back *)

FieldTerms(a) == [v \in Vars |-> hs[v] * a[v]]
CouplingTerms(a) == [e \in DOMAIN js |-> js[e] * a[e[1]] * a[e[2]]]

\* The energy is the sum of its two parts, and a number.
LEMMA EnergyIs ==
  ASSUME ProblemGiven, NEW a \in [Vars -> Int]
  PROVE  /\ Energy(a) = SumFunctionOnSet(FieldTerms(a), Vars) + SumFunctionOnSet(CouplingTerms(a), DOMAIN js)
         /\ Whole(FieldTerms(a), Vars) /\ Whole(CouplingTerms(a), DOMAIN js)
         /\ SumFunctionOnSet(FieldTerms(a), Vars) \in Int
         /\ SumFunctionOnSet(CouplingTerms(a), DOMAIN js) \in Int
         /\ Energy(a) \in Int
<1>1. IsFiniteSet(Vars) /\ IsFiniteSet(DOMAIN js)
  BY CouplingsFinite DEF ProblemGiven
<1>2. Whole(FieldTerms(a), Vars)
  <2>1. \A v \in Vars : hs[v] \in Int /\ a[v] \in Int
    BY DEF ProblemGiven
  <2>2. \A v \in Vars : hs[v] * a[v] \in Int
    BY <2>1
  <2> QED
    BY <2>2 DEF FieldTerms, Whole
<1>3. Whole(CouplingTerms(a), DOMAIN js)
  <2>1. \A e \in DOMAIN js : js[e] \in Int /\ a[e[1]] \in Int /\ a[e[2]] \in Int
    BY DEF ProblemGiven
  <2>2. \A e \in DOMAIN js : js[e] * a[e[1]] * a[e[2]] \in Int
    BY <2>1
  <2> QED
    BY <2>2 DEF CouplingTerms, Whole
<1>4. DOMAIN FieldTerms(a) = Vars /\ DOMAIN CouplingTerms(a) = DOMAIN js
  BY DEF FieldTerms, CouplingTerms
<1>5. Energy(a) = SumFunction(FieldTerms(a)) + SumFunction(CouplingTerms(a))
  BY DEF Energy, FieldTerms, CouplingTerms
<1>6. Energy(a) = SumFunctionOnSet(FieldTerms(a), Vars) + SumFunctionOnSet(CouplingTerms(a), DOMAIN js)
  BY <1>4, <1>5 DEF SumFunction
<1>7. SumFunctionOnSet(FieldTerms(a), Vars) \in Int /\ SumFunctionOnSet(CouplingTerms(a), DOMAIN js) \in Int
  BY <1>1, <1>2, <1>3, SumType
<1> QED
  BY <1>2, <1>3, <1>6, <1>7

Touching(v) == {e \in DOMAIN js : v \in {e[1], e[2]}}
OtherEnd(e, v) == IF e[1] = v THEN e[2] ELSE e[1]
Pull(a, v) == [e \in Touching(v) |-> js[e] * a[OtherEnd(e, v)]]

\* So is the local field.
LEMMA LocalFieldIs ==
  ASSUME ProblemGiven, NEW a \in [Vars -> Int], NEW v \in Vars
  PROVE  /\ LocalField(a, v) = hs[v] + SumFunctionOnSet(Pull(a, v), Touching(v))
         /\ IsFiniteSet(Touching(v)) /\ Whole(Pull(a, v), Touching(v))
         /\ SumFunctionOnSet(Pull(a, v), Touching(v)) \in Int
         /\ LocalField(a, v) \in Int
<1>1. IsFiniteSet(Touching(v))
  BY CouplingsFinite, FS_Subset DEF Touching
<1>2. Whole(Pull(a, v), Touching(v))
  <2>1. \A e \in Touching(v) : js[e] \in Int /\ a[OtherEnd(e, v)] \in Int
    BY DEF ProblemGiven, Touching, OtherEnd
  <2>2. \A e \in Touching(v) : js[e] * a[OtherEnd(e, v)] \in Int
    BY <2>1
  <2> QED
    BY <2>2 DEF Pull, Whole
<1>3. SumFunctionOnSet(Pull(a, v), Touching(v)) \in Int
  BY <1>1, <1>2, SumType
<1>4. LocalField(a, v) = hs[v] + SumFunction(Pull(a, v))
  BY DEF LocalField, Pull, Touching, OtherEnd
<1>5. DOMAIN Pull(a, v) = Touching(v)
  BY DEF Pull
<1>6. LocalField(a, v) = hs[v] + SumFunctionOnSet(Pull(a, v), Touching(v))
  BY <1>4, <1>5 DEF SumFunction
<1>7. hs[v] \in Int
  BY DEF ProblemGiven
<1> QED
  BY <1>1, <1>2, <1>3, <1>6, <1>7

\* Setting a variable changes the energy by what its local field says.
LEMMA EnergyStep ==
  ASSUME ProblemGiven, NEW a \in [Vars -> Int], NEW v \in Vars, a[v] = 0, NEW x \in Int
  PROVE  Energy([a EXCEPT ![v] = x]) = Energy(a) + x * LocalField(a, v)
<1> DEFINE b == [a EXCEPT ![v] = x]
           fa == FieldTerms(a)  fb == FieldTerms(b)
           ca == CouplingTerms(a)  cb == CouplingTerms(b)
           pull == Pull(a, v)
           push == [e \in DOMAIN js |-> IF e \in Touching(v) THEN x * pull[e] ELSE 0]
           rest == Vars \ {v}
<1>1. b \in [Vars -> Int] /\ b[v] = x /\ \A u \in Vars : u # v => b[u] = a[u]
  OBVIOUS
<1>2. IsFiniteSet(Vars) /\ IsFiniteSet(DOMAIN js) /\ IsFiniteSet(rest) /\ rest \in SUBSET Vars
  BY CouplingsFinite, FS_Subset DEF ProblemGiven
<1> HIDE DEF b
<1>3. SumFunctionOnSet(fb, Vars) = SumFunctionOnSet(fa, Vars) + x * hs[v]
  <2>1. Whole(fa, Vars) /\ Whole(fb, Vars)
    BY <1>1, EnergyIs
  <2>2. fa[v] = hs[v] * 0 /\ fb[v] = hs[v] * x /\ hs[v] \in Int
    BY <1>1 DEF FieldTerms, ProblemGiven
  <2>3. \A u \in rest : fb[u] = fa[u]
    BY <1>1 DEF FieldTerms
  <2>4. Whole(fa, rest) /\ Whole(fb, rest)
    BY <2>1 DEF Whole
  <2> HIDE DEF fa, fb
  <2>5. SumFunctionOnSet(fa, Vars) = fa[v] + SumFunctionOnSet(fa, rest)
    BY <1>2, <2>1, SumOrder
  <2>6. SumFunctionOnSet(fb, Vars) = fb[v] + SumFunctionOnSet(fb, rest)
    BY <1>2, <2>1, SumOrder
  <2>7. SumFunctionOnSet(fb, rest) = SumFunctionOnSet(fa, rest)
    BY <1>2, <2>3, <2>4, SumEqual
  <2>8. SumFunctionOnSet(fa, rest) \in Int
    BY <1>2, <2>4, SumType
  <2>9. fa[v] = 0 /\ fb[v] = x * hs[v]
    BY <2>2
  <2> QED
    BY <2>2, <2>5, <2>6, <2>7, <2>8, <2>9
<1>4. SumFunctionOnSet(cb, DOMAIN js) = SumFunctionOnSet(ca, DOMAIN js) + x * SumFunctionOnSet(pull, Touching(v))
  <2>1. Whole(ca, DOMAIN js) /\ Whole(cb, DOMAIN js)
    BY <1>1, EnergyIs
  <2>2. IsFiniteSet(Touching(v)) /\ Whole(pull, Touching(v)) /\ SumFunctionOnSet(pull, Touching(v)) \in Int
    BY LocalFieldIs
  <2>3. Touching(v) \in SUBSET DOMAIN js
    BY DEF Touching
  <2>4. ASSUME NEW e \in DOMAIN js PROVE push[e] \in Int /\ cb[e] = ca[e] + push[e]
    <3>1. PICK p \in Vars, q \in Vars : p < q /\ e = <<p, q>>
      BY DEF ProblemGiven
    <3>2. p # q /\ e[1] = p /\ e[2] = q
      <4>1. p \in Int /\ q \in Int
        BY DEF ProblemGiven
      <4> QED
        BY <3>1, <4>1
    <3>3. js[e] \in Int /\ a[p] \in Int /\ a[q] \in Int /\ b[p] \in Int /\ b[q] \in Int
      BY <1>1 DEF ProblemGiven
    <3>4. ca[e] = js[e] * a[p] * a[q] /\ cb[e] = js[e] * b[p] * b[q]
      BY <3>2 DEF CouplingTerms
    <3>5. CASE p # v /\ q # v
      <4>1. cb[e] = ca[e]
        BY <1>1, <3>4, <3>5
      <4>2. push[e] = 0
        BY <3>2, <3>5 DEF Touching
      <4>3. ca[e] \in Int
        BY <2>1 DEF Whole
      <4> HIDE DEF ca, cb, push
      <4> QED
        BY <4>1, <4>2, <4>3
    <3>6. CASE p = v
      <4>1. push[e] = x * (js[e] * a[q])
        BY <3>2, <3>6 DEF Touching, Pull, OtherEnd
      <4>2. ca[e] = js[e] * 0 * a[q] /\ cb[e] = js[e] * x * a[q]
        BY <1>1, <3>2, <3>4, <3>6
      <4>3. \A j, z \in Int : j * 0 * z = 0 /\ j * x * z = x * (j * z) /\ x * (j * z) \in Int
        OBVIOUS
      <4> HIDE DEF ca, cb, push
      <4>4. ca[e] = 0 /\ cb[e] = push[e] /\ push[e] \in Int
        BY <3>3, <4>1, <4>2, <4>3
      <4> QED
        BY <4>4
    <3>7. CASE q = v
      <4>1. push[e] = x * (js[e] * a[p])
        BY <3>2, <3>7 DEF Touching, Pull, OtherEnd
      <4>2. ca[e] = js[e] * a[p] * 0 /\ cb[e] = js[e] * a[p] * x
        BY <1>1, <3>2, <3>4, <3>7
      <4>3. \A j, z \in Int : j * z * 0 = 0 /\ j * z * x = x * (j * z) /\ x * (j * z) \in Int
        OBVIOUS
      <4> HIDE DEF ca, cb, push
      <4>4. ca[e] = 0 /\ cb[e] = push[e] /\ push[e] \in Int
        BY <3>3, <4>1, <4>2, <4>3
      <4> QED
        BY <4>4
    <3> QED
      BY <3>5, <3>6, <3>7
  <2>5. \A e \in Touching(v) : push[e] = x * pull[e]
    BY <2>3
  <2>6. \A e \in DOMAIN js \ Touching(v) : push[e] = 0
    OBVIOUS
  <2> HIDE DEF ca, cb, push, pull
  <2>7. Whole(push, DOMAIN js) /\ Whole(push, Touching(v))
    BY <2>3, <2>4 DEF Whole
  <2>8. SumFunctionOnSet(cb, DOMAIN js) = SumFunctionOnSet(ca, DOMAIN js) + SumFunctionOnSet(push, DOMAIN js)
    BY <1>2, <2>1, <2>4, <2>7, SumPlus
  <2>9. SumFunctionOnSet(push, DOMAIN js) = SumFunctionOnSet(push, Touching(v))
    BY <1>2, <2>3, <2>6, <2>7, SumSupport
  <2>10. SumFunctionOnSet(push, Touching(v)) = x * SumFunctionOnSet(pull, Touching(v))
    BY <2>2, <2>5, SumTimes
  <2> QED
    BY <2>8, <2>9, <2>10
<1>5. Energy(b) = SumFunctionOnSet(fb, Vars) + SumFunctionOnSet(cb, DOMAIN js)
  BY <1>1, EnergyIs
<1>6. /\ Energy(a) = SumFunctionOnSet(fa, Vars) + SumFunctionOnSet(ca, DOMAIN js)
      /\ SumFunctionOnSet(fa, Vars) \in Int /\ SumFunctionOnSet(ca, DOMAIN js) \in Int
  BY EnergyIs
<1>7. /\ LocalField(a, v) = hs[v] + SumFunctionOnSet(pull, Touching(v))
      /\ SumFunctionOnSet(pull, Touching(v)) \in Int /\ hs[v] \in Int
  BY LocalFieldIs DEF ProblemGiven
<1> HIDE DEF fa, fb, ca, cb, pull
<1>8. \A fn, c, h, k \in Int : (fn + x * h) + (c + x * k) = (fn + c) + x * (h + k)
  OBVIOUS
<1>9. Energy(b) = Energy(a) + x * LocalField(a, v)
  BY <1>3, <1>4, <1>5, <1>6, <1>7, <1>8
<1> QED
  BY <1>9 DEF b

StartOf(sample) == [v \in Vars |-> IF Intact(sample, v) THEN sample[Min(chains[v])] ELSE 0]
FieldSize(a, v) == LocalField(a, v) * Sign(LocalField(a, v))
Broken(a) == {v \in Vars : a[v] = 0}
LargestOf(a) == CHOOSE v \in Broken(a) : \A u \in Broken(a) : FieldSize(a, u) <= FieldSize(a, v)
Against(a, v) == IF LocalField(a, v) > 0 THEN -1 ELSE 1
SetNext(a) ==
  IF \A v \in Vars : a[v] # 0 THEN a
  ELSE [a EXCEPT ![LargestOf(a)] = Against(a, LargestOf(a))]
Answers == [Vars -> {-1, 0, 1}]

\* One round: a broken chain is set, against its field.
LEMMA SetNextIs ==
  ASSUME ProblemGiven, NEW a \in Answers
  PROVE  /\ SetNext(a) \in Answers
         /\ Energy(SetNext(a)) <= Energy(a)
         /\ \A v \in Vars : a[v] # 0 => SetNext(a)[v] = a[v]
<1>1. a \in [Vars -> Int]
  BY DEF Answers
<1>2. CASE \A v \in Vars : a[v] # 0
  <2>1. SetNext(a) = a
    BY <1>2 DEF SetNext
  <2>2. Energy(a) \in Int
    BY <1>1, EnergyIs
  <2> QED
    BY <2>1, <2>2
<1>3. CASE ~ \A v \in Vars : a[v] # 0
  <2> DEFINE sizes == [v \in Vars |-> FieldSize(a, v)]
             w == LargestOf(a)
             x == Against(a, w)
  <2>1. Broken(a) # {} /\ Broken(a) \subseteq Vars /\ IsFiniteSet(Broken(a))
    BY <1>3, FS_Subset DEF Broken, ProblemGiven
  <2>2. \A v \in Broken(a) : sizes[v] \in Int
    <3>1. ASSUME NEW v \in Vars PROVE sizes[v] \in Int
      <4>1. LocalField(a, v) \in Int
        BY <1>1, LocalFieldIs
      <4> QED
        BY <4>1 DEF FieldSize, Sign
    <3> QED
      BY <2>1, <3>1
  <2>3. \A v \in Broken(a) : sizes[v] = FieldSize(a, v)
    BY <2>1
  <2> HIDE DEF sizes
  <2>4. \E v \in Broken(a) : \A u \in Broken(a) : sizes[u] <= sizes[v]
    BY <2>1, <2>2, LargestExists
  <2>5. w \in Broken(a)
    BY <2>3, <2>4 DEF LargestOf
  <2>6. w \in Vars /\ a[w] = 0
    BY <2>5 DEF Broken
  <2>7. LocalField(a, w) \in Int
    BY <1>1, <2>6, LocalFieldIs
  <2>8. x \in {-1, 1} /\ x * LocalField(a, w) <= 0
    BY <2>7 DEF Against
  <2>9. SetNext(a) = [a EXCEPT ![w] = x]
    BY <1>3 DEF SetNext
  <2> HIDE DEF w, x
  <2>10. Energy(SetNext(a)) = Energy(a) + x * LocalField(a, w)
    <3>1. x \in Int
      BY <2>8
    <3>2. Energy([a EXCEPT ![w] = x]) = Energy(a) + x * LocalField(a, w)
      BY <1>1, <2>6, <3>1, EnergyStep
    <3> QED
      BY <2>9, <3>2
  <2>11. Energy(a) \in Int /\ x * LocalField(a, w) \in Int
    BY <1>1, <2>7, <2>8, EnergyIs
  <2>12. Energy(SetNext(a)) <= Energy(a)
    BY <2>8, <2>10, <2>11
  <2>13. SetNext(a) \in Answers
    BY <2>6, <2>8, <2>9 DEF Answers
  <2>14. \A v \in Vars : a[v] # 0 => SetNext(a)[v] = a[v]
    BY <2>6, <2>9 DEF Answers
  <2> QED
    BY <2>12, <2>13, <2>14
<1> QED
  BY <1>2, <1>3

\* The spins that MinimizeEnergy starts from: those of the chains that agree.
LEMMA StartIs ==
  ASSUME ProblemGiven, ChainsApart, ChainsWhole, NEW sample \in Spins(Taken)
  PROVE  /\ StartOf(sample) \in Answers
         /\ \A v \in Vars : /\ chains[v] \in SUBSET Taken /\ IsFiniteSet(chains[v])
                            /\ Min(chains[v]) \in chains[v]
                            /\ sample[Min(chains[v])] \in {-1, 1}
         /\ \A v \in Vars : Intact(sample, v) =>
              /\ StartOf(sample)[v] = sample[Min(chains[v])]
              /\ \A q \in chains[v] : sample[q] = StartOf(sample)[v]
<1>1. ASSUME NEW v \in Vars
      PROVE  /\ chains[v] \in SUBSET Taken /\ IsFiniteSet(chains[v])
             /\ Min(chains[v]) \in chains[v]
             /\ sample[Min(chains[v])] \in {-1, 1}
  <2>1. chains[v] \in SUBSET Qubits /\ chains[v] # {} /\ chains[v] \in SUBSET Taken
    BY DEF ChainsApart, ChainsWhole, Taken
  <2>2. Min(chains[v]) \in chains[v] /\ IsFiniteSet(chains[v])
    BY <2>1, SearchIs
  <2> QED
    BY <2>1, <2>2 DEF Spins
<1>2. StartOf(sample) \in Answers
  BY <1>1 DEF StartOf, Answers
<1>3. ASSUME NEW v \in Vars, Intact(sample, v)
      PROVE  /\ StartOf(sample)[v] = sample[Min(chains[v])]
             /\ \A q \in chains[v] : sample[q] = StartOf(sample)[v]
  <2>1. StartOf(sample)[v] = sample[Min(chains[v])]
    BY <1>3 DEF StartOf
  <2>2. \A q \in chains[v] : sample[q] = sample[Min(chains[v])]
    BY <1>1, <1>3 DEF Intact
  <2> QED
    BY <2>1, <2>2
<1> QED
  BY <1>1, <1>2, <1>3

\* Minimizing the energy sets the broken chains and leaves the others alone.
LEMMA MinimizeIs ==
  ASSUME ProblemGiven, ChainsApart, ChainsWhole, NEW sample \in Spins(Taken)
  PROVE  /\ Energy(MinimizeEnergy(sample)) <= Energy(StartOf(sample))
         /\ \A v \in Vars : StartOf(sample)[v] # 0 => MinimizeEnergy(sample)[v] = StartOf(sample)[v]
<1> DEFINE N == Cardinality(Vars)
           start == StartOf(sample)
           F == [a \in Answers |-> SetNext(a)]
           IsAfter(r) == r = [n \in 0 .. N |-> IF n = 0 THEN start ELSE SetNext(r[n - 1])]
           after == CHOOSE r : IsAfter(r)
<1>1. N \in Nat
  BY FS_CardinalityType DEF ProblemGiven
<1>2. start \in Answers
  BY StartIs
<1>3. F \in [Answers -> Answers]
  BY SetNextIs
<1>4. PICK g : Repeats(N, Answers, start, F, g)
  <2> HIDE DEF F, N, start
  <2> QED
    BY <1>1, <1>2, <1>3, Repeated
<1>5. g \in [0 .. N -> Answers] /\ g[0] = start /\ \A n \in 1 .. N : g[n] = F[g[n - 1]]
  BY <1>4 DEF Repeats
<1>6. \A n \in 0 .. N : g[n] = IF n = 0 THEN start ELSE SetNext(g[n - 1])
  <2> TAKE n \in 0 .. N
  <2>1. CASE n = 0
    BY <2>1, <1>5
  <2>2. CASE n # 0
    <3>1. n \in 1 .. N /\ n - 1 \in 0 .. N
      BY <2>2, <1>1
    <3>2. g[n] = F[g[n - 1]] /\ g[n - 1] \in Answers
      BY <3>1, <1>5
    <3> QED
      BY <3>2, <2>2
  <2> QED
    BY <2>1, <2>2
<1>7. IsAfter(g)
  <2> DEFINE h == [n \in 0 .. N |-> IF n = 0 THEN start ELSE SetNext(g[n - 1])]
  <2>1. \A n \in 0 .. N : g[n] = h[n]
    BY <1>6
  <2>2. DOMAIN h = 0 .. N /\ DOMAIN g = 0 .. N /\ h = [n \in 0 .. N |-> h[n]] /\ g = [n \in 0 .. N |-> g[n]]
    BY <1>5
  <2> QED
    BY <2>1, <2>2
<1>8. IsAfter(after)
  BY <1>7
<1>9. MinimizeEnergy(sample) = after[N]
  BY DEF MinimizeEnergy, StartOf, SetNext, LargestOf, Broken, FieldSize, Against
<1> HIDE DEF after, N
<1>10. \A n \in 0 .. N : after[n] = IF n = 0 THEN start ELSE SetNext(after[n - 1])
  BY <1>8
<1> HIDE DEF start
<1> DEFINE Good(a) == /\ a \in Answers /\ Energy(a) <= Energy(start)
                      /\ \A v \in Vars : start[v] # 0 => a[v] = start[v]
           A == {n \in Nat : n <= N => Good(after[n])}
<1>11. Energy(start) \in Int
  <2>1. start \in [Vars -> Int]
    BY <1>2 DEF Answers
  <2> QED
    BY <2>1, EnergyIs
<1>12. 0 \in A
  <2>1. after[0] = start
    BY <1>1, <1>10
  <2>2. Good(start)
    BY <1>2, <1>11
  <2> QED
    BY <2>1, <2>2
<1>13. ASSUME NEW n \in Nat, n \in A PROVE n + 1 \in A
  <2> SUFFICES ASSUME n + 1 <= N PROVE Good(after[n + 1])
    OBVIOUS
  <2>1. n + 1 \in 0 .. N /\ (n + 1) - 1 = n /\ n <= N /\ n + 1 # 0
    BY <1>1
  <2> DEFINE a == after[n]
  <2>2. after[n + 1] = SetNext(a)
    BY <2>1, <1>10
  <2>3. Good(a)
    BY <1>13, <2>1
  <2> HIDE DEF a
  <2>4. SetNext(a) \in Answers /\ Energy(SetNext(a)) <= Energy(a) /\ \A v \in Vars : a[v] # 0 => SetNext(a)[v] = a[v]
    BY <2>3, SetNextIs
  <2>5. Energy(a) \in Int /\ Energy(SetNext(a)) \in Int
    <3>1. \A b \in Answers : b \in [Vars -> Int]
      BY DEF Answers
    <3> QED
      BY <3>1, <2>3, <2>4, EnergyIs
  <2>6. Good(SetNext(a))
    BY <1>11, <2>3, <2>4, <2>5
  <2> QED
    BY <2>2, <2>6
<1>14. Nat \subseteq A
  <2> HIDE DEF A
  <2> QED
    BY <1>12, <1>13, InductiveSet
<1>15. Good(after[N])
  BY <1>1, <1>14
<1> QED
  BY <1>9, <1>15 DEF start

\* On an intact chain the vote is unanimous, and there is nothing to weigh.
LEMMA VoteIs ==
  ASSUME ProblemGiven, ChainsApart, ChainsWhole, NEW sample \in Spins(Taken), NEW v \in Vars, Intact(sample, v)
  PROVE  Vote(sample, v) = {StartOf(sample)[v]} /\ WeightedRandom(sample, v) = {StartOf(sample)[v]}
<1> DEFINE t == StartOf(sample)[v]
           C == chains[v]
           ones == {q \in C : sample[q] = 1}
<1>1. /\ IsFiniteSet(C) /\ C # {} /\ t \in {-1, 1}
      /\ \A q \in C : sample[q] = t
  BY StartIs
<1>2. Cardinality(C) \in Nat /\ Cardinality(C) # 0
  <2> HIDE DEF C
  <2> QED
    BY <1>1, FS_EmptySet, FS_CardinalityType
<1>3. Ones(sample, v) = Cardinality(ones)
  BY DEF Ones
<1> HIDE DEF t
<1>4. CASE t = 1
  <2>1. ones = C
    BY <1>1, <1>4
  <2>2. Ones(sample, v) = Cardinality(C)
    BY <1>3, <2>1
  <2> HIDE DEF C, ones
  <2>3. Vote(sample, v) = {1}
    BY <1>2, <2>2 DEF Vote, C
  <2>4. WeightedRandom(sample, v) = {1}
    BY <1>2, <2>2 DEF WeightedRandom, C
  <2> QED
    BY <1>4, <2>3, <2>4 DEF t
<1>5. CASE t = -1
  <2>1. ones = {}
    BY <1>1, <1>5
  <2>2. Ones(sample, v) = 0
    BY <1>3, <2>1, FS_EmptySet
  <2> HIDE DEF C, ones
  <2>3. Vote(sample, v) = {-1}
    BY <1>2, <2>2 DEF Vote, C
  <2>4. WeightedRandom(sample, v) = {-1}
    BY <1>2, <2>2 DEF WeightedRandom, C
  <2> QED
    BY <1>5, <2>3, <2>4 DEF t
<1> QED
  BY <1>1, <1>4, <1>5

\* What unembed_answer makes of an answer, where the problem is so laid out.
LEMMA LaidRepairs == Laid => UnembeddingRepairs
<1> SUFFICES ASSUME Laid, embedStage = "embedded", NEW sample \in Spins(Taken)
             PROVE  /\ Energy(MinimizeEnergy(sample)) <= Energy(StartOf(sample))
                    /\ \A v \in Vars : Intact(sample, v) =>
                         /\ MinimizeEnergy(sample)[v] = StartOf(sample)[v]
                         /\ Vote(sample, v) = {StartOf(sample)[v]} /\ WeightedRandom(sample, v) = {StartOf(sample)[v]}
                         /\ \A a \in Discard(sample) : a[v] = StartOf(sample)[v]
  BY DEF UnembeddingRepairs, StartOf
<1>1. ProblemGiven /\ ChainsApart /\ ChainsWhole
  BY DEF Laid
<1>2. Energy(MinimizeEnergy(sample)) <= Energy(StartOf(sample))
  BY <1>1, MinimizeIs
<1>3. ASSUME NEW v \in Vars, Intact(sample, v)
      PROVE  /\ MinimizeEnergy(sample)[v] = StartOf(sample)[v]
             /\ Vote(sample, v) = {StartOf(sample)[v]} /\ WeightedRandom(sample, v) = {StartOf(sample)[v]}
             /\ \A a \in Discard(sample) : a[v] = StartOf(sample)[v]
  <2>1. StartOf(sample)[v] = sample[Min(chains[v])] /\ StartOf(sample)[v] # 0
    <3>1. StartOf(sample)[v] = sample[Min(chains[v])] /\ sample[Min(chains[v])] \in {-1, 1}
      BY <1>1, <1>3, StartIs
    <3> QED
      BY <3>1
  <2>2. MinimizeEnergy(sample)[v] = StartOf(sample)[v]
    BY <1>1, <2>1, MinimizeIs
  <2>3. \A a \in Discard(sample) : a[v] = StartOf(sample)[v]
    BY <2>1 DEF Discard
  <2> QED
    BY <1>1, <1>3, <2>2, <2>3, VoteIs
<1> QED
  BY <1>2, <1>3

\* Every way of reading an answer back agrees with the sample on intact
\* chains, and minimizing the energy never raises it.
THEOREM Repairs == EmbeddingSpec => []UnembeddingRepairs
BY EmbeddingLaid, LaidRepairs, PTL

-----------------------------------------------------------------------------
(* The local solvers *)

\* Solutions.
JobOK == job \in LocalProblems

\* A problem that was submitted.
LEMMA JobIs ==
  ASSUME JobOK
  PROVE  /\ job.type \in {"ising", "qubo"} /\ IsFiniteSet(DOMAIN job.terms)
         /\ \A p \in DOMAIN job.terms : job.terms[p] \in Int /\ p = <<p[1], p[2]>>
         /\ \A p \in DOMAIN job.terms : p[1] \in UsedIn(job.terms) /\ p[2] \in UsedIn(job.terms)
<1>1. job.type \in {"ising", "qubo"} /\ IsFiniteSet(DOMAIN job.terms)
  BY LocalAssumption DEF JobOK
<1>2. /\ job.terms \in [DOMAIN job.terms -> Int]
      /\ \A p \in DOMAIN job.terms : p = <<p[1], p[2]>>
  BY LocalAssumption DEF JobOK
<1>3. \A p \in DOMAIN job.terms : p[1] \in UsedIn(job.terms) /\ p[2] \in UsedIn(job.terms)
  <2> TAKE p \in DOMAIN job.terms
  <2>1. {p[1], p[2]} \in {{q[1], q[2]} : q \in DOMAIN job.terms}
    OBVIOUS
  <2> QED
    BY <2>1 DEF UsedIn
<1> QED
  BY <1>1, <1>2, <1>3

\* A solution shows which variables have their second value.
LEMMA SolutionShows ==
  ASSUME JobOK, NEW ones \in Settings, NEW reported, UsedIn(job.terms) \subseteq reported
  PROVE  {i \in UsedIn(job.terms) : Solution(ones, reported)[i] = 1} = ones
<1>1. \A i \in UsedIn(job.terms) : Solution(ones, reported)[i] = Bit(job.type, ones, i)
  BY DEF Solution
<1>2. \A i : Bit(job.type, ones, i) = 1 <=> i \in ones
  BY DEF Bit
<1> QED
  BY <1>1, <1>2 DEF Settings

BitsOf(type, ones, p) ==
  IF p[1] = p[2] THEN Bit(type, ones, p[1]) ELSE Bit(type, ones, p[1]) * Bit(type, ones, p[2])
EnergyTerms(type, terms, ones) == [p \in DOMAIN terms |-> terms[p] * BitsOf(type, ones, p)]

\* Bits and products of bits are numbers.
LEMMA BitsAre ==
  ASSUME NEW type, NEW ones
  PROVE  /\ \A i : Bit(type, ones, i) \in Int
         /\ \A p : BitsOf(type, ones, p) \in Int
<1>1. \A i : Bit(type, ones, i) \in Int
  BY DEF Bit
<1>2. \A x, y \in Int : x * y \in Int
  OBVIOUS
<1> QED
  BY <1>1, <1>2 DEF BitsOf

\* The energy of a state is a sum over the terms.
LEMMA EnergyOfIs ==
  ASSUME NEW type, NEW terms, IsFiniteSet(DOMAIN terms), \A p \in DOMAIN terms : terms[p] \in Int, NEW ones
  PROVE  /\ EnergyOf(type, terms, ones) = SumFunctionOnSet(EnergyTerms(type, terms, ones), DOMAIN terms)
         /\ Whole(EnergyTerms(type, terms, ones), DOMAIN terms)
         /\ EnergyOf(type, terms, ones) \in Int
<1>1. EnergyOf(type, terms, ones) = SumFunction(EnergyTerms(type, terms, ones))
  BY DEF EnergyOf, EnergyTerms, BitsOf
<1>2. DOMAIN EnergyTerms(type, terms, ones) = DOMAIN terms
  BY DEF EnergyTerms
<1>3. EnergyOf(type, terms, ones) = SumFunctionOnSet(EnergyTerms(type, terms, ones), DOMAIN terms)
  BY <1>1, <1>2 DEF SumFunction
<1>4. Whole(EnergyTerms(type, terms, ones), DOMAIN terms)
  <2>1. \A x, y \in Int : x * y \in Int
    OBVIOUS
  <2>2. \A p \in DOMAIN terms : terms[p] * BitsOf(type, ones, p) \in Int
    BY <2>1, BitsAre
  <2> QED
    BY <2>2 DEF EnergyTerms, Whole
<1> QED
  BY <1>3, <1>4, SumType

\* The conversion to Ising form, a product of bits at a time.
Converted(q, p) ==
  IF q[1] = q[2] THEN (IF p = q THEN 2 * job.terms[q] ELSE 0)
  ELSE IF p = q \/ p = <<q[1], q[1]>> \/ p = <<q[2], q[2]>> THEN job.terms[q] ELSE 0
OffsetOf(q) == IF q[1] = q[2] THEN 2 * job.terms[q] ELSE job.terms[q]
Spin(ones, p) == BitsOf("ising", ones, p)

\* A problem uses finitely many variables.
LEMMA UsedFinite ==
  ASSUME JobOK
  PROVE  IsFiniteSet(UsedIn(job.terms)) /\ IsFiniteSet(DOMAIN IsingTerms)
<1>1. IsFiniteSet({{p[1], p[2]} : p \in DOMAIN job.terms})
  <2> DEFINE fn == [p \in DOMAIN job.terms |-> {p[1], p[2]}]
  <2>1. {{p[1], p[2]} : p \in DOMAIN job.terms} = {fn[p] : p \in DOMAIN job.terms}
    OBVIOUS
  <2> HIDE DEF fn
  <2>2. IsFiniteSet({fn[p] : p \in DOMAIN job.terms})
    BY JobIs, ImageFinite
  <2> QED
    BY <2>1, <2>2
<1>2. \A e \in {{p[1], p[2]} : p \in DOMAIN job.terms} : IsFiniteSet(e)
  <2>1. \A x, y : IsFiniteSet({x, y})
    <3> TAKE x, y
    <3>1. IsFiniteSet({x})
      BY FS_Singleton
    <3>2. IsFiniteSet({x} \cup {y})
      BY <3>1, FS_AddElement
    <3>3. {x} \cup {y} = {x, y}
      OBVIOUS
    <3> QED
      BY <3>2, <3>3
  <2> QED
    BY <2>1
<1>3. IsFiniteSet(UsedIn(job.terms))
  BY <1>1, <1>2, FS_UNION DEF UsedIn
<1>4. IsFiniteSet({<<i, i>> : i \in UsedIn(job.terms)})
  <2> DEFINE fn == [i \in UsedIn(job.terms) |-> <<i, i>>]
  <2>1. {<<i, i>> : i \in UsedIn(job.terms)} = {fn[i] : i \in UsedIn(job.terms)}
    OBVIOUS
  <2> HIDE DEF fn
  <2> QED
    BY <1>3, <2>1, ImageFinite
<1>5. IsFiniteSet(DOMAIN job.terms \cup {<<i, i>> : i \in UsedIn(job.terms)})
  BY <1>4, JobIs, FS_Union
<1> QED
  BY <1>3, <1>5, JobIs DEF IsingTerms

\* A product of spins, whatever it is spread over: what a term of the problem
\* comes to after the conversion.
LEMMA ConvertedTerm ==
  ASSUME JobOK, NEW ones, NEW P, IsFiniteSet(P), DOMAIN job.terms \cup {<<i, i>> : i \in UsedIn(job.terms)} = P,
         NEW q \in DOMAIN job.terms, NEW row, \A p \in P : row[p] = Converted(q, p) * Spin(ones, p)
  PROVE  SumFunctionOnSet(row, P) + OffsetOf(q) = 4 * (job.terms[q] * BitsOf("qubo", ones, q))
<1> DEFINE t == job.terms[q]
           a == <<q[1], q[1]>>
           b == <<q[2], q[2]>>
           s(i) == Bit("ising", ones, i)
           u(i) == Bit("qubo", ones, i)
<1>1. t \in Int /\ q = <<q[1], q[2]>> /\ q \in P /\ a \in P /\ b \in P
  BY JobIs
<1>2. /\ s(q[1]) \in Int /\ s(q[2]) \in Int /\ u(q[1]) \in {0, 1} /\ u(q[2]) \in {0, 1}
      /\ s(q[1]) = 2 * u(q[1]) - 1 /\ s(q[2]) = 2 * u(q[2]) - 1
  BY DEF Bit
<1>3. CASE q[1] = q[2]
  <2>1. row[q] = 2 * t * s(q[1])
    BY <1>1, <1>3 DEF Converted, Spin, BitsOf
  <2>2. \A p \in P \ {q} : row[p] = 0
    <3>1. \A p \in P \ {q} : row[p] = 0 * Spin(ones, p) /\ Spin(ones, p) \in Int
      BY <1>3, BitsAre DEF Converted, Spin
    <3> QED
      BY <3>1
  <2>3. row[q] \in Int
    BY <1>1, <1>2, <2>1
  <2>4. SumFunctionOnSet(row, {q}) = row[q]
    BY <2>3, SumOne
  <2>5. SumFunctionOnSet(row, P) = SumFunctionOnSet(row, {q})
    <3>1. {q} \in SUBSET P /\ Whole(row, {q})
      BY <1>1, <2>3 DEF Whole
    <3> QED
      BY <2>2, <3>1, SumSupport
  <2>6. OffsetOf(q) = 2 * t /\ BitsOf("qubo", ones, q) = u(q[1])
    BY <1>3 DEF OffsetOf, BitsOf
  <2>7. \A x \in Int : x = 0 \/ x = 1 => 2 * t * (2 * x - 1) + 2 * t = 4 * (t * x)
    BY <1>1
  <2> HIDE DEF t, s, u
  <2> QED
    BY <1>2, <2>1, <2>4, <2>5, <2>6, <2>7 DEF t
<1>4. CASE q[1] # q[2]
  <2>1. q # a /\ q # b /\ a # b
    BY <1>1, <1>4
  <2>2. row[q] = t * (s(q[1]) * s(q[2])) /\ row[a] = t * s(q[1]) /\ row[b] = t * s(q[2])
    <3>1. Converted(q, q) = t /\ Converted(q, a) = t /\ Converted(q, b) = t
      BY <1>4 DEF Converted
    <3>2. Spin(ones, q) = s(q[1]) * s(q[2]) /\ Spin(ones, a) = s(q[1]) /\ Spin(ones, b) = s(q[2])
      BY <1>4 DEF Spin, BitsOf
    <3> QED
      BY <1>1, <3>1, <3>2
  <2>3. row[q] \in Int /\ row[a] \in Int /\ row[b] \in Int
    BY <1>1, <1>2, <2>2
  <2>4. \A p \in P \ {q, a, b} : row[p] = 0
    <3>1. \A p \in P \ {q, a, b} : row[p] = 0 * Spin(ones, p) /\ Spin(ones, p) \in Int
      BY <1>4, BitsAre DEF Converted, Spin
    <3> QED
      BY <3>1
  <2> HIDE DEF a, b
  <2>5. SumFunctionOnSet(row, {q, a, b}) = row[q] + row[a] + row[b]
    <3>1. SumFunctionOnSet(row, {q}) = row[q] /\ IsFiniteSet({q})
      BY <2>3, SumOne, FS_Singleton
    <3>2. SumFunctionOnSet(row, {q} \cup {a}) = SumFunctionOnSet(row, {q}) + row[a]
      BY <2>1, <2>3, <3>1, SumAdd DEF Whole
    <3>3. IsFiniteSet({q} \cup {a})
      BY <3>1, FS_AddElement
    <3>4. SumFunctionOnSet(row, ({q} \cup {a}) \cup {b}) = SumFunctionOnSet(row, {q} \cup {a}) + row[b]
      BY <2>1, <2>3, <3>3, SumAdd DEF Whole
    <3>5. ({q} \cup {a}) \cup {b} = {q, a, b}
      OBVIOUS
    <3> QED
      BY <3>1, <3>2, <3>4, <3>5
  <2>6. SumFunctionOnSet(row, P) = SumFunctionOnSet(row, {q, a, b})
    <3>1. {q, a, b} \in SUBSET P /\ Whole(row, {q, a, b})
      BY <1>1, <2>3 DEF Whole
    <3> QED
      BY <2>4, <3>1, SumSupport
  <2>7. OffsetOf(q) = t /\ BitsOf("qubo", ones, q) = u(q[1]) * u(q[2])
    BY <1>4 DEF OffsetOf, BitsOf
  <2>8. \A x, y \in {0, 1} :
          (t * ((2 * x - 1) * (2 * y - 1)) + t * (2 * x - 1) + t * (2 * y - 1)) + t = 4 * (t * (x * y))
    BY <1>1
  <2> HIDE DEF t, s, u
  <2> QED
    BY <1>2, <2>2, <2>5, <2>6, <2>7, <2>8 DEF t
<1> QED
  BY <1>3, <1>4

\* A problem keeps its energies when it is converted.
LEMMA ConversionKeeps ==
  ASSUME JobOK, NEW ones \in Settings
  PROVE  /\ SearchEnergy(ones) \in Int /\ ProblemEnergy(ones) \in Int
         /\ SearchEnergy(ones) + (IF job.type = "qubo" THEN ConversionOffset ELSE 0) = ProblemEnergy(ones)
         /\ job.type = "qubo" => ConversionOffset \in Int
<1> DEFINE D == DOMAIN job.terms
           plain == EnergyTerms(job.type, job.terms, ones)
<1>1. IsFiniteSet(D) /\ \A p \in D : job.terms[p] \in Int
  BY JobIs
<1>2. /\ EnergyOf(job.type, job.terms, ones) = SumFunctionOnSet(plain, D)
      /\ Whole(plain, D) /\ EnergyOf(job.type, job.terms, ones) \in Int
  BY <1>1, EnergyOfIs
<1>3. \A p \in D : plain[p] = job.terms[p] * BitsOf(job.type, ones, p)
  BY DEF EnergyTerms
<1>4. ProblemEnergy(ones) = 4 * SumFunctionOnSet(plain, D) /\ ProblemEnergy(ones) \in Int
  BY <1>2 DEF ProblemEnergy
<1>5. CASE job.type = "ising"
  <2> DEFINE terms == IsingTerms
             quadruple == EnergyTerms("ising", terms, ones)
  <2>1. DOMAIN terms = D /\ \A p \in D : terms[p] = 4 * job.terms[p]
    BY <1>5 DEF IsingTerms
  <2>2. \A p \in D : quadruple[p] = 4 * plain[p]
    <3>1. \A p \in D : quadruple[p] = (4 * job.terms[p]) * BitsOf("ising", ones, p)
      BY <2>1 DEF EnergyTerms
    <3>2. \A p \in D : plain[p] = job.terms[p] * BitsOf("ising", ones, p)
      BY <1>3, <1>5
    <3>3. \A x, y \in Int : (4 * x) * y = 4 * (x * y)
      OBVIOUS
    <3> HIDE DEF quadruple, plain
    <3> QED
      BY <1>1, <3>1, <3>2, <3>3, BitsAre
  <2>3. \A p \in DOMAIN terms : terms[p] \in Int
    BY <1>1, <2>1
  <2>4. IsFiniteSet(DOMAIN terms)
    BY <1>1, <2>1
  <2>5. SearchEnergy(ones) = SumFunctionOnSet(quadruple, DOMAIN terms) /\ SearchEnergy(ones) \in Int
    <3>1. SearchEnergy(ones) = EnergyOf("ising", terms, ones)
      BY DEF SearchEnergy
    <3> HIDE DEF terms
    <3> QED
      BY <2>3, <2>4, <3>1, EnergyOfIs
  <2> HIDE DEF quadruple, plain, terms
  <2>6. SumFunctionOnSet(quadruple, D) = 4 * SumFunctionOnSet(plain, D)
    BY <1>1, <1>2, <2>2, SumTimes
  <2>7. SearchEnergy(ones) = ProblemEnergy(ones)
    BY <1>4, <2>1, <2>5, <2>6
  <2> QED
    BY <1>4, <1>5, <2>5, <2>7
<1>6. CASE job.type = "qubo"
  <2> DEFINE P == D \cup {<<i, i>> : i \in UsedIn(job.terms)}
             terms == IsingTerms
             fn == [q \in D |-> [p \in P |-> Converted(q, p) * Spin(ones, p)]]
             g == [p \in P |-> [q \in D |-> Converted(q, p) * Spin(ones, p)]]
             rows == [q \in D |-> SumFunctionOnSet(fn[q], P)]
             cols == EnergyTerms("ising", terms, ones)
             conv == [p \in P |-> [q \in D |-> Converted(q, p)]]
             offsets == [q \in D |-> OffsetOf(q)]
             both == [q \in D |-> rows[q] + offsets[q]]
  <2>1. DOMAIN terms = P /\ \A p \in P : terms[p] = SumFunction(conv[p])
    BY <1>6 DEF IsingTerms, IsingTerm, Converted
  <2>2. IsFiniteSet(P)
    BY <2>1, UsedFinite
  <2>3. \A q \in D : \A p \in P : Converted(q, p) \in Int /\ Spin(ones, p) \in Int
    BY <1>1, BitsAre DEF Converted, Spin
  <2>4. ASSUME NEW p \in P PROVE terms[p] = SumFunctionOnSet(conv[p], D) /\ terms[p] \in Int
    <3> DEFINE cp == conv[p]
    <3>1. DOMAIN cp = D /\ \A q \in D : cp[q] \in Int
      BY <2>3
    <3>2. terms[p] = SumFunction(cp)
      BY <2>1
    <3> HIDE DEF cp, terms
    <3>3. SumFunctionOnSet(cp, D) \in Int
      BY <1>1, <3>1, SumType DEF Whole
    <3> QED
      BY <3>1, <3>2, <3>3 DEF SumFunction, cp
  <2>5. \A q \in D : rows[q] = SumFunctionOnSet(fn[q], P)
    OBVIOUS
  <2>6. \A q \in D : \A p \in P : fn[q][p] \in Int /\ g[p][q] = fn[q][p] /\ fn[q][p] = Converted(q, p) * Spin(ones, p)
    <3>1. \A x, y \in Int : x * y \in Int
      OBVIOUS
    <3> QED
      BY <2>3, <3>1
  <2>7. ASSUME NEW p \in P PROVE cols[p] = SumFunctionOnSet(g[p], D)
    <3> DEFINE cp == conv[p]  gp == g[p]  s == Spin(ones, p)
    <3>1. s \in Int /\ \A q \in D : cp[q] \in Int /\ gp[q] = s * cp[q]
      <4>1. \A x, y \in Int : x * y = y * x
        OBVIOUS
      <4>2. s \in Int /\ \A q \in D : cp[q] = Converted(q, p) /\ gp[q] = Converted(q, p) * s
        BY BitsAre DEF Spin
      <4> HIDE DEF s, cp, gp
      <4> QED
        BY <2>3, <4>1, <4>2
    <3>2. cols[p] = terms[p] * s
      BY <2>1 DEF EnergyTerms, Spin
    <3>3. terms[p] = SumFunctionOnSet(cp, D) /\ terms[p] \in Int
      BY <2>4
    <3> HIDE DEF s, cp, gp, cols, terms
    <3>4. SumFunctionOnSet(gp, D) = s * SumFunctionOnSet(cp, D)
      BY <1>1, <3>1, SumTimes DEF Whole
    <3>5. cols[p] = SumFunctionOnSet(gp, D)
      <4>1. \A x, y \in Int : x * y = y * x
        OBVIOUS
      <4> QED
        BY <3>1, <3>2, <3>3, <3>4, <4>1
    <3> QED
      BY <3>5 DEF gp
  <2>8. SearchEnergy(ones) = SumFunctionOnSet(cols, P) /\ SearchEnergy(ones) \in Int
    <3>1. SearchEnergy(ones) = EnergyOf("ising", terms, ones)
      BY DEF SearchEnergy
    <3>2. IsFiniteSet(DOMAIN terms) /\ \A p \in DOMAIN terms : terms[p] \in Int
      BY <2>1, <2>2, <2>4
    <3> HIDE DEF terms
    <3>3. SearchEnergy(ones) = SumFunctionOnSet(cols, DOMAIN terms) /\ SearchEnergy(ones) \in Int
      BY <3>1, <3>2, EnergyOfIs
    <3> QED
      BY <2>1, <3>3
  <2>9. \A q \in D : offsets[q] = OffsetOf(q) /\ offsets[q] \in Int
    BY <1>1 DEF OffsetOf
  <2>10. \A q \in D : rows[q] + offsets[q] = 4 * plain[q]
    <3> TAKE q \in D
    <3> DEFINE fq == fn[q]
    <3>1. \A p \in P : fq[p] = Converted(q, p) * Spin(ones, p)
      BY <2>6
    <3>2. rows[q] = SumFunctionOnSet(fq, P)
      OBVIOUS
    <3> HIDE DEF fq, rows, offsets, plain
    <3>3. SumFunctionOnSet(fq, P) + OffsetOf(q) = 4 * (job.terms[q] * BitsOf("qubo", ones, q))
      BY <2>2, <3>1, ConvertedTerm
    <3> QED
      BY <1>3, <1>6, <2>9, <3>2, <3>3
  <2>11. ConversionOffset = SumFunction(offsets) /\ DOMAIN offsets = D
    BY DEF ConversionOffset, OffsetOf
  <2>12. \A q \in D : both[q] = rows[q] + offsets[q] /\ both[q] = 4 * plain[q]
    BY <2>10
  <2> HIDE DEF P, fn, g, rows, cols, conv, offsets, both, plain
  <2>13. SumFunctionOnSet(rows, D) = SumFunctionOnSet(cols, P)
    <3>1. Table(D, P, fn, g, rows, cols)
      BY <2>5, <2>6, <2>7 DEF Table
    <3> QED
      BY <1>1, <2>2, <3>1, SumExchange
  <2>14. ConversionOffset = SumFunctionOnSet(offsets, D) /\ ConversionOffset \in Int
    BY <1>1, <2>9, <2>11, SumType DEF SumFunction, Whole
  <2>15. \A q \in D : rows[q] \in Int
    <3> TAKE q \in D
    <3> DEFINE fq == fn[q]
    <3>1. \A p \in P : fq[p] \in Int
      BY <2>6
    <3>2. rows[q] = SumFunctionOnSet(fq, P)
      BY <2>5
    <3> HIDE DEF fq
    <3> QED
      BY <2>2, <3>1, <3>2, SumType DEF Whole
  <2>16. SumFunctionOnSet(both, D) = SumFunctionOnSet(rows, D) + SumFunctionOnSet(offsets, D)
    BY <1>1, <2>9, <2>12, <2>15, SumPlus DEF Whole
  <2>17. SumFunctionOnSet(both, D) = 4 * SumFunctionOnSet(plain, D)
    BY <1>1, <1>2, <2>12, SumTimes
  <2>18. SearchEnergy(ones) + ConversionOffset = ProblemEnergy(ones)
    BY <1>4, <2>8, <2>13, <2>14, <2>16, <2>17
  <2> QED
    BY <1>4, <1>6, <2>8, <2>14, <2>18
<1> QED
  BY <1>5, <1>6, JobIs

\* Things are counted at most once when they are counted by what they are.
Counted(S, R, kinds, things, counts) ==
  /\ IsFiniteSet(S) /\ IsFiniteSet(R)
  /\ \A j, k \in S : j # k => kinds[j] # kinds[k]
  /\ \A k \in S : counts[k] = Cardinality({n \in R : things[n] = kinds[k]})

\* The counts of a histogram are no more than the reads.
LEMMA CountedOnce ==
  ASSUME NEW S, NEW R, NEW kinds, NEW things, NEW counts, Counted(S, R, kinds, things, counts)
  PROVE  SumFunctionOnSet(counts, S) <= Cardinality(R)
<1>. USE DEF Counted
<1> DEFINE one(k, n) == IF things[n] = kinds[k] THEN 1 ELSE 0
           fn == [k \in S |-> [n \in R |-> one(k, n)]]
           g == [n \in R |-> [k \in S |-> one(k, n)]]
           rows == [k \in S |-> SumFunctionOnSet(fn[k], R)]
           cols == [n \in R |-> SumFunctionOnSet(g[n], S)]
           ones == [n \in R |-> 1]
<1>1. \A k \in S : \A n \in R : fn[k][n] \in Int /\ g[n][k] = fn[k][n]
  OBVIOUS
<1>2. \A k \in S : \A n \in R : fn[k][n] = one(k, n) /\ g[n][k] = one(k, n)
  OBVIOUS
<1>3. (\A k \in S : rows[k] = SumFunctionOnSet(fn[k], R)) /\ \A n \in R : cols[n] = SumFunctionOnSet(g[n], S)
  OBVIOUS
<1>4. \A n \in R : ones[n] = 1
  OBVIOUS
<1> HIDE DEF fn, g, rows, cols, ones
<1>5. SumFunctionOnSet(rows, S) = SumFunctionOnSet(cols, R)
  <2>1. Table(S, R, fn, g, rows, cols)
    BY <1>1, <1>3 DEF Table
  <2> QED
    BY <2>1, SumExchange
<1>6. ASSUME NEW k \in S PROVE rows[k] = counts[k] /\ rows[k] \in Int
  <2> DEFINE here == {n \in R : things[n] = kinds[k]}
             fk == fn[k]
  <2>1. here \in SUBSET R /\ IsFiniteSet(here)
    BY FS_Subset
  <2>2. (\A n \in here : fk[n] = 1) /\ \A n \in R \ here : fk[n] = 0
    BY <1>2
  <2>3. counts[k] = Cardinality(here) /\ rows[k] = SumFunctionOnSet(fk, R)
    BY <1>3
  <2> HIDE DEF here, fk
  <2>4. SumFunctionOnSet(fk, R) = SumFunctionOnSet(fk, here)
    BY <2>1, <2>2, SumSupport DEF Whole
  <2>5. SumFunctionOnSet(fk, here) = Cardinality(here) * 1
    BY <2>1, <2>2, SumConstant
  <2>6. Cardinality(here) \in Nat
    BY <2>1, FS_CardinalityType
  <2> QED
    BY <2>3, <2>4, <2>5, <2>6
<1>7. ASSUME NEW n \in R PROVE cols[n] \in Int /\ cols[n] <= 1
  <2> DEFINE here == {k \in S : things[n] = kinds[k]}
             gn == g[n]
  <2>1. here \in SUBSET S /\ IsFiniteSet(here)
    BY FS_Subset
  <2>2. (\A k \in here : gn[k] = 1) /\ \A k \in S \ here : gn[k] = 0
    BY <1>2
  <2>3. \A j, k \in here : j = k
    OBVIOUS
  <2>4. cols[n] = SumFunctionOnSet(gn, S)
    BY <1>3
  <2> HIDE DEF here, gn
  <2>5. SumFunctionOnSet(gn, S) = SumFunctionOnSet(gn, here)
    BY <2>1, <2>2, SumSupport DEF Whole
  <2>6. CASE here = {}
    BY <2>4, <2>5, <2>6, SumEmpty
  <2>7. CASE here # {}
    <3>1. PICK k \in here : here = {k}
      BY <2>3, <2>7
    <3>2. SumFunctionOnSet(gn, {k}) = gn[k]
      BY <2>2, SumOne
    <3> QED
      BY <2>2, <2>4, <2>5, <3>1, <3>2
  <2> QED
    BY <2>6, <2>7
<1>8. SumFunctionOnSet(counts, S) = SumFunctionOnSet(rows, S)
  BY <1>6, SumEqual DEF Whole
<1>9. SumFunctionOnSet(cols, R) <= SumFunctionOnSet(ones, R)
  BY <1>4, <1>7, SumAtMost DEF Whole
<1>10. SumFunctionOnSet(ones, R) = Cardinality(R) * 1
  BY <1>4, SumConstant
<1>11. Cardinality(R) \in Nat
  BY FS_CardinalityType
<1> QED
  BY <1>5, <1>8, <1>9, <1>10, <1>11

\* There are n numbers up to n.
LEMMA UpTo ==
  ASSUME NEW n \in Nat
  PROVE  IsFiniteSet(1 .. n) /\ Cardinality(1 .. n) = n
<1>1. IsFiniteSet(1 .. n) /\ Cardinality(1 .. n) = IF 1 > n THEN 0 ELSE n - 1 + 1
  BY FS_Interval
<1> QED
  BY <1>1

\* One answer takes all reads that have none of their own.
LEMMA ReadsCredited ==
  ASSUME NEW n \in Nat, n <= NumReads, NEW histogram \in BOOLEAN, NEW counts,
         \A k \in 1 .. n : counts[k] = IF histogram /\ k = 1 THEN NumReads - n + 1 ELSE 1
  PROVE  SumFunctionOnSet(counts, 1 .. n) <= NumReads
<1>1. IsFiniteSet(1 .. n) /\ Cardinality(1 .. n) = n /\ NumReads \in Nat
  BY UpTo, LocalAssumption
<1>2. CASE n = 0
  <2>1. 1 .. n = {}
    BY <1>2
  <2> QED
    BY <1>1, <2>1, SumEmpty
<1>3. CASE n # 0
  <2> DEFINE S == 1 .. n  R == S \ {1}
  <2>1. 1 \in S /\ IsFiniteSet(R)
    BY <1>1, <1>3, FS_Subset
  <2>2. Cardinality(R) = n - 1
    BY <1>1, <2>1, FS_RemoveElement
  <2>3. \A k \in R : counts[k] = 1
    OBVIOUS
  <2>4. counts[1] = (IF histogram THEN NumReads - n + 1 ELSE 1) /\ \A k \in S : counts[k] \in Int
    BY <1>1, <2>1
  <2> HIDE DEF S, R
  <2>5. SumFunctionOnSet(counts, S) = counts[1] + SumFunctionOnSet(counts, S \ {1})
    BY <1>1, <2>1, <2>4, SumOrder DEF Whole, S
  <2>6. SumFunctionOnSet(counts, R) = n - 1
    <3>1. SumFunctionOnSet(counts, R) = Cardinality(R) * 1
      BY <2>1, <2>3, SumConstant
    <3> QED
      BY <2>2, <3>1
  <2>7. SumFunctionOnSet(counts, S) = counts[1] + (n - 1)
    BY <2>5, <2>6 DEF R
  <2> QED
    BY <1>1, <2>4, <2>7 DEF S
<1> QED
  BY <1>2, <1>3

-----------------------------------------------------------------------------
(* The solvers                                                             *)

IsResult(r) == r = [energy |-> r.energy, solution |-> r.solution, exact |-> r.exact]
Energetic(r) == r.solution \in Settings /\ r.energy = energies[r.solution]
Minimal(r) == \A ones \in Settings : r.energy <= energies[ones]

\* The results of searches and iterations have the energies of their solutions.
SearchesTell ==
  /\ solving \in {"new", "refused", "search", "iterate", "copies", "solved"}
  /\ iter \in Int /\ iter >= -1
  /\ solving = "new" => iter = 0 /\ bestResult = <<>>
  /\ solving = "search" =>
       /\ IsResult(search)
       /\ Energetic(search) /\ search.exact \in BOOLEAN
       /\ search.exact => Minimal(search)
       /\ initSolution \in Settings
  /\ solving \in {"iterate", "copies"} => iter >= 0
  /\ solving \in {"iterate", "copies"} \/ (solving = "search" /\ iter >= 0) =>
       /\ IsResult(bestResult)
       /\ Energetic(bestResult) /\ bestResult.exact \in BOOLEAN
       /\ initSolution \in Settings /\ iterBestSolution \in Settings
       /\ iterBestEnergy # Unbounded => iterBestEnergy = energies[iterBestSolution]
  /\ solving = "iterate" /\ iter = 0 /\ bestResult.exact => Minimal(bestResult)

LocalInv ==
  /\ JobOK
  /\ energies = [ones \in Settings |-> SearchEnergy(ones)]
  /\ SearchesTell
  /\ AnswersTellTheirEnergy

\* Nothing has been answered at the start.
LEMMA LocalInitInv == LocalInit => LocalInv
BY DEF LocalInit, LocalInv, JobOK, SearchesTell, AnswersTellTheirEnergy

\* Nothing changes the problem or its tables.
LEMMA SameProblem ==
  ASSUME LocalInv, UNCHANGED <<job, energies>>
  PROVE  /\ JobOK' /\ Settings' = Settings
         /\ (energies = [ones \in Settings |-> SearchEnergy(ones)])'
         /\ \A ones : ProblemEnergy(ones)' = ProblemEnergy(ones)
<1>1. \A ones : ProblemEnergy(ones)' = ProblemEnergy(ones)
  BY DEF ProblemEnergy
<1>2. JobOK' /\ Settings' = Settings
  BY DEF LocalInv, JobOK, Settings
<1>3. \A ones : SearchEnergy(ones)' = SearchEnergy(ones)
  BY DEF SearchEnergy, IsingTerms, IsingTerm
<1> QED
  BY <1>1, <1>2, <1>3 DEF LocalInv

\* The answers of one of the exact solvers.
Answered(n, list, reported, counts) ==
  /\ n \in Nat /\ list \in [1 .. n -> Settings] /\ counts \in [1 .. n -> Int]
  /\ UsedIn(job.terms) \subseteq reported
  /\ answers' = [k \in 1 .. n |-> [solution |-> Solution(list[k], reported),
                                   energy |-> ProblemEnergy(list[k]), count |-> counts[k]]]

\* Answers made of states and their energies tell their energies.
LEMMA ExactAnswers ==
  ASSUME JobOK, NEW n, NEW list, NEW reported, NEW counts, Answered(n, list, reported, counts),
         SumFunctionOnSet(counts, 1 .. n) <= NumReads,
         UNCHANGED <<job, bestResult>>, bestResult = <<>>
  PROVE  AnswersTellTheirEnergy'
<1> USE DEF Answered
<1>1. ASSUME NEW k \in DOMAIN answers'
      PROVE  answers'[k].energy = ProblemEnergy({i \in UsedIn(job.terms) : answers'[k].solution[i] = 1})
  <2>1. k \in 1 .. n
    BY <1>1
  <2>2. answers'[k].energy = ProblemEnergy(list[k]) /\ answers'[k].solution = Solution(list[k], reported)
    BY <2>1
  <2>3. {i \in UsedIn(job.terms) : Solution(list[k], reported)[i] = 1} = list[k]
    BY <2>1, SolutionShows
  <2> QED
    BY <2>2, <2>3
<1>2. SumFunction([k \in DOMAIN answers' |-> answers'[k].count]) <= NumReads
  <2> DEFINE c == [k \in DOMAIN answers' |-> answers'[k].count]
  <2>1. DOMAIN c = 1 .. n /\ \A k \in 1 .. n : c[k] = counts[k]
    OBVIOUS
  <2> HIDE DEF c
  <2>2. SumFunctionOnSet(c, 1 .. n) = SumFunctionOnSet(counts, 1 .. n)
    BY <2>1, UpTo, SumEqual DEF Whole
  <2>3. SumFunction(c) = SumFunctionOnSet(counts, 1 .. n)
    BY <2>1, <2>2 DEF SumFunction
  <2>4. SumFunction(c) <= NumReads
    BY <2>3
  <2> QED
    BY <2>4 DEF c
<1>3. UsedIn(job.terms)' = UsedIn(job.terms) /\ \A ones : ProblemEnergy(ones)' = ProblemEnergy(ones)
  BY DEF UsedIn, ProblemEnergy
<1> QED
  BY <1>1, <1>2, <1>3 DEF AnswersTellTheirEnergy

\* A problem that is permitted uses the solver's variables only.
LEMMA PermittedUsed ==
  ASSUME JobOK, Permitted
  PROVE  UsedIn(job.terms) \subseteq SolverVars
<1>1. ASSUME NEW p \in DOMAIN job.terms PROVE p[1] \in SolverVars /\ p[2] \in SolverVars
  <2>1. CASE p[1] = p[2]
    BY <2>1 DEF Permitted
  <2>2. CASE p[1] # p[2]
    BY <2>2, LocalAssumption DEF Permitted
  <2> QED
    BY <2>1, <2>2
<1> QED
  BY <1>1 DEF UsedIn

\* The least states, in order, each with its energy.
LEMMA OptimizeKeeps ==
  ASSUME LocalInv, NEW histogram \in BOOLEAN, Optimize(histogram)
  PROVE  LocalInv'
<1>1. PICK S \in kSubset(Smaller(Smaller(NumReads, MaxAnswers), Cardinality(Settings)), Settings) :
        \E listing \in Ascending(S) :
          answers' = [k \in DOMAIN listing |->
            [solution |-> Solution(listing[k], SolverVars),
             energy |-> ProblemEnergy(listing[k]),
             count |-> IF histogram /\ k = 1 THEN NumReads - Cardinality(S) + 1 ELSE 1]]
  BY DEF Optimize
<1>2. PICK listing \in Ascending(S) :
        answers' = [k \in DOMAIN listing |->
          [solution |-> Solution(listing[k], SolverVars),
           energy |-> ProblemEnergy(listing[k]),
           count |-> IF histogram /\ k = 1 THEN NumReads - Cardinality(S) + 1 ELSE 1]]
  BY <1>1
<1> DEFINE n == Cardinality(S)
           counts == [k \in 1 .. n |-> IF histogram /\ k = 1 THEN NumReads - n + 1 ELSE 1]
<1>3. S \subseteq Settings /\ IsFiniteSet(Settings) /\ n = Smaller(Smaller(NumReads, MaxAnswers), Cardinality(Settings))
  <2>1. IsFiniteSet(Settings)
    BY UsedFinite, FS_SUBSET DEF Settings, LocalInv
  <2> QED
    BY <2>1 DEF kSubset
<1>4. n \in Nat /\ n <= NumReads
  <2>1. Cardinality(Settings) \in Nat /\ NumReads \in Nat /\ MaxAnswers \in Nat
    BY <1>3, FS_CardinalityType, LocalAssumption
  <2> HIDE DEF n
  <2> QED
    BY <1>3, <2>1 DEF Smaller
<1>5. listing \in [1 .. n -> Settings] /\ DOMAIN listing = 1 .. n
  BY <1>3 DEF Ascending
<1>6. /\ solving = "new" /\ Permitted /\ solving' = "solved"
      /\ UNCHANGED <<job, energies, late, search, noProgress, bestResult, initSolution, iterBestSolution,
                     iterBestEnergy, iter, copy, leastFound>>
  BY DEF Optimize, searchingVars, iterationVars
<1>7. answers' = [k \in 1 .. n |-> [solution |-> Solution(listing[k], SolverVars),
                                    energy |-> ProblemEnergy(listing[k]), count |-> counts[k]]]
  BY <1>2, <1>5
<1>8. counts \in [1 .. n -> Int] /\ \A k \in 1 .. n : counts[k] = IF histogram /\ k = 1 THEN NumReads - n + 1 ELSE 1
  BY <1>4, LocalAssumption
<1> HIDE DEF n, counts
<1>9. SumFunctionOnSet(counts, 1 .. n) <= NumReads
  BY <1>4, <1>8, ReadsCredited
<1>10. bestResult = <<>> /\ iter = 0
  BY <1>6 DEF LocalInv, SearchesTell
<1>11. AnswersTellTheirEnergy'
  <2>1. JobOK
    BY DEF LocalInv
  <2>2. Answered(n, listing, SolverVars, counts)
    BY <1>4, <1>5, <1>6, <1>7, <1>8, <2>1, PermittedUsed DEF Answered
  <2> QED
    BY <1>6, <1>9, <1>10, <2>1, <2>2, ExactAnswers
<1>12. SearchesTell'
  BY <1>6, <1>10 DEF SearchesTell
<1> QED
  BY <1>6, <1>11, <1>12, SameProblem DEF LocalInv

\* Sampled states, one by one or counted.
LEMMA SampleKeeps ==
  ASSUME LocalInv, NEW histogram \in BOOLEAN, Sample(histogram)
  PROVE  LocalInv'
<1>1. PICK reads \in [1 .. NumReads -> Settings] :
        \E kept \in IF histogram THEN Ascending({reads[k] : k \in DOMAIN reads}) ELSE {reads} :
          answers' = [k \in 1 .. Smaller(Len(kept), MaxAnswers) |->
            [solution |-> Solution(kept[k], UsedIn(job.terms)),
             energy |-> ProblemEnergy(kept[k]),
             count |-> IF histogram THEN Cardinality({n \in DOMAIN reads : reads[n] = kept[k]}) ELSE 1]]
  BY DEF Sample
<1>2. PICK kept \in IF histogram THEN Ascending({reads[k] : k \in DOMAIN reads}) ELSE {reads} :
        answers' = [k \in 1 .. Smaller(Len(kept), MaxAnswers) |->
          [solution |-> Solution(kept[k], UsedIn(job.terms)),
           energy |-> ProblemEnergy(kept[k]),
           count |-> IF histogram THEN Cardinality({n \in DOMAIN reads : reads[n] = kept[k]}) ELSE 1]]
  BY <1>1
<1> DEFINE R == 1 .. NumReads
           of == {reads[k] : k \in DOMAIN reads}
           n == Smaller(Len(kept), MaxAnswers)
           counts == [k \in 1 .. n |-> IF histogram THEN Cardinality({i \in R : reads[i] = kept[k]}) ELSE 1]
           list == [k \in 1 .. n |-> kept[k]]
<1>3. NumReads \in Nat /\ MaxAnswers \in Nat /\ IsFiniteSet(R) /\ Cardinality(R) = NumReads /\ DOMAIN reads = R
  BY UpTo, LocalAssumption
<1>4. of \subseteq Settings /\ IsFiniteSet(of) /\ Cardinality(of) \in Nat
  <2>1. of \subseteq Settings
    OBVIOUS
  <2>2. IsFiniteSet({reads[k] : k \in R})
    BY <1>3, ImageFinite
  <2> QED
    BY <1>3, <2>1, <2>2, FS_CardinalityType
<1>5. /\ kept \in Seq(Settings)
      /\ histogram => \A j, k \in 1 .. Len(kept) : j # k => kept[j] # kept[k]
      /\ ~histogram => Len(kept) = NumReads
  <2>1. CASE histogram
    <3> HIDE DEF of
    <3>1. kept \in [1 .. Cardinality(of) -> of]
      BY <1>2, <2>1 DEF Ascending, of
    <3>2. Len(kept) = Cardinality(of) /\ kept \in Seq(Settings) /\ DOMAIN kept = 1 .. Len(kept)
      BY <1>4, <3>1
    <3>3. \A j, k \in 1 .. Len(kept) : j < k => kept[j] # kept[k]
      BY <1>2, <2>1, <3>2 DEF Ascending, of
    <3>4. \A j, k \in 1 .. Len(kept) : j # k => j < k \/ k < j
      BY <3>2
    <3> QED
      BY <2>1, <3>2, <3>3, <3>4
  <2>2. CASE ~histogram
    BY <1>2, <1>3, <2>2
  <2> QED
    BY <2>1, <2>2
<1>6. n \in Nat /\ n <= Len(kept) /\ 1 .. n \subseteq 1 .. Len(kept) /\ Len(kept) \in Nat
  BY <1>3, <1>5 DEF Smaller
<1>7. list \in [1 .. n -> Settings]
  BY <1>5, <1>6
<1>8. ASSUME NEW k \in 1 .. n PROVE counts[k] \in Int
  <2> DEFINE here == {i \in R : reads[i] = kept[k]}
  <2>1. IsFiniteSet(here)
    BY <1>3, FS_Subset
  <2> HIDE DEF here
  <2>2. Cardinality(here) \in Nat
    BY <2>1, FS_CardinalityType
  <2> QED
    BY <2>2 DEF here
<1>9. counts \in [1 .. n -> Int]
  BY <1>8
<1>10. answers' = [k \in 1 .. n |-> [solution |-> Solution(list[k], UsedIn(job.terms)),
                                     energy |-> ProblemEnergy(list[k]), count |-> counts[k]]]
  BY <1>2, <1>3
<1>11. SumFunctionOnSet(counts, 1 .. n) <= NumReads
  <2>1. IsFiniteSet(1 .. n) /\ Cardinality(1 .. n) = n
    BY <1>6, UpTo
  <2>2. CASE histogram
    <3>1. \A k \in 1 .. n : counts[k] = Cardinality({i \in R : reads[i] = kept[k]})
      BY <2>2
    <3>2. \A j, k \in 1 .. n : j # k => kept[j] # kept[k]
      BY <1>5, <1>6, <2>2
    <3>3. Counted(1 .. n, R, kept, reads, counts)
      <4> HIDE DEF counts, n, R
      <4> QED
        BY <1>3, <2>1, <3>1, <3>2 DEF Counted
    <3> HIDE DEF counts, n, R
    <3>4. SumFunctionOnSet(counts, 1 .. n) <= Cardinality(R)
      BY <3>3, CountedOnce
    <3> QED
      BY <1>3, <3>4
  <2>3. CASE ~histogram
    <3>1. \A k \in 1 .. n : counts[k] = 1
      BY <2>3
    <3>2. n <= NumReads
      BY <1>3, <1>5, <1>6, <2>3
    <3> DEFINE S == 1 .. n
    <3>4. IsFiniteSet(S) /\ (\A k \in S : counts[k] = 1) /\ 1 \in Int
      BY <2>1, <3>1
    <3> HIDE DEF counts, n, S
    <3>5. SumFunctionOnSet(counts, S) = Cardinality(S) * 1
      BY <3>4, SumConstant
    <3>3. SumFunctionOnSet(counts, 1 .. n) = Cardinality(1 .. n) * 1
      BY <3>5 DEF S
    <3> QED
      BY <1>3, <1>6, <2>1, <3>2, <3>3
  <2> QED
    BY <2>2, <2>3
<1>12. /\ solving = "new" /\ solving' = "solved"
       /\ UNCHANGED <<job, energies, late, search, noProgress, bestResult, initSolution, iterBestSolution,
                      iterBestEnergy, iter, copy, leastFound>>
  BY DEF Sample, searchingVars, iterationVars
<1> HIDE DEF counts, n, list
<1>13. bestResult = <<>> /\ iter = 0
  BY <1>12 DEF LocalInv, SearchesTell
<1>14. AnswersTellTheirEnergy'
  <2>1. JobOK
    BY DEF LocalInv
  <2>2. Answered(n, list, UsedIn(job.terms), counts)
    BY <1>6, <1>7, <1>9, <1>10 DEF Answered
  <2> QED
    BY <1>11, <1>12, <1>13, <2>1, <2>2, ExactAnswers
<1>15. SearchesTell'
  BY <1>12, <1>13 DEF SearchesTell
<1> QED
  BY <1>12, <1>14, <1>15, SameProblem DEF LocalInv

\* Steps that leave the answers alone, before there are any.
LEMMA NoAnswersYet ==
  ASSUME LocalInv, solving' # "solved"
  PROVE  AnswersTellTheirEnergy'
BY DEF AnswersTellTheirEnergy

\* A problem that is refused has no answer.
LEMMA RefuseProblemKeeps ==
  ASSUME LocalInv, RefuseProblem
  PROVE  LocalInv'
<1>1. solving = "new" /\ solving' = "refused" /\ UNCHANGED <<job, energies, iter>>
  BY DEF RefuseProblem, iterationVars
<1>2. SearchesTell'
  BY <1>1 DEF LocalInv, SearchesTell
<1> QED
  BY <1>1, <1>2, NoAnswersYet, SameProblem DEF LocalInv

\* A search begins with any solution and its energy.
LEMMA StartSearchTells ==
  ASSUME LocalInv, NEW ones \in Settings, StartSearch(ones), UNCHANGED <<job, energies>>
  PROVE  /\ IsResult(search)'
         /\ Energetic(search)' /\ search'.exact \in BOOLEAN /\ ~search'.exact
         /\ solving' = "search"
BY SameProblem DEF StartSearch, Energetic, IsResult

\* A search starts from some state with the energy of that state.
LEMMA StartHeuristicKeeps ==
  ASSUME LocalInv, StartHeuristic
  PROVE  LocalInv'
<1>1. PICK ones \in Settings : initSolution' = ones /\ StartSearch(ones)
  BY DEF StartHeuristic
<1>2. UNCHANGED <<job, energies>> /\ iter' = -1
  BY DEF StartHeuristic
<1>3. Settings' = Settings
  BY <1>2, SameProblem
<1>6. /\ IsResult(search)'
      /\ Energetic(search)' /\ search'.exact \in BOOLEAN /\ ~search'.exact
      /\ solving' = "search"
  BY <1>1, <1>2, StartSearchTells
<1>4. SearchesTell'
  BY <1>1, <1>2, <1>3, <1>6 DEF SearchesTell
<1>5. solving' # "solved"
  BY <1>1 DEF StartSearch
<1> QED
  BY <1>2, <1>4, <1>5, NoAnswersYet, SameProblem DEF LocalInv

\* Time changes no energy.
LEMMA TimePassesKeeps ==
  ASSUME LocalInv, TimePasses
  PROVE  LocalInv'
<1>1. solving' # "solved"
      /\ UNCHANGED <<job, energies, solving, search, noProgress, bestResult, initSolution, iterBestSolution,
                     iterBestEnergy, iter, copy>>
  BY DEF TimePasses, searchingVars, iterationVars
<1>2. Settings' = Settings
  BY <1>1, SameProblem
<1>3. SearchesTell'
  BY <1>1, <1>2 DEF LocalInv, SearchesTell, Energetic, Minimal
<1> QED
  BY <1>1, <1>3, NoAnswersYet, SameProblem DEF LocalInv

\* The listing values of all variables are a minimum.
LEMMA SearchStepKeeps ==
  ASSUME LocalInv, SearchStep
  PROVE  LocalInv'
<1>1. /\ solving = "search" /\ ~search.exact
      /\ UNCHANGED <<job, energies, solving, late, bestResult, initSolution, iterBestSolution,
                     iterBestEnergy, iter, copy>>
  BY DEF SearchStep, iterationVars
<1>2. PICK W \in VarOrders : \E new \in Settings :
        /\ \A ones \in {ones \in Settings : ones \ W = new \ W} : energies[new] <= energies[ones]
        /\ \/ /\ W = UsedIn(job.terms)
              /\ search' = [energy |-> energies[new], solution |-> new, exact |-> TRUE]
           \/ search' = [search EXCEPT !.energy = energies[new], !.solution = new]
           \/ UNCHANGED search
  BY DEF SearchStep
<1>. PICK new \in Settings :
        /\ \A ones \in {ones \in Settings : ones \ W = new \ W} : energies[new] <= energies[ones]
        /\ \/ /\ W = UsedIn(job.terms)
              /\ search' = [energy |-> energies[new], solution |-> new, exact |-> TRUE]
           \/ search' = [search EXCEPT !.energy = energies[new], !.solution = new]
           \/ UNCHANGED search
  BY <1>2
<1>3. Settings' = Settings
  BY <1>1, SameProblem
<1>4. /\ IsResult(search)
      /\ Energetic(search)
  BY <1>1 DEF LocalInv, SearchesTell
<1>5. /\ IsResult(search)'
      /\ Energetic(search)' /\ search'.exact \in BOOLEAN
      /\ search'.exact => Minimal(search)'
  <2>1. CASE W = UsedIn(job.terms) /\ search' = [energy |-> energies[new], solution |-> new, exact |-> TRUE]
    <3>1. \A ones \in Settings : ones \ W = {} /\ new \ W = {}
      BY <2>1 DEF Settings
    <3>2. \A ones \in Settings : energies[new] <= energies[ones]
      BY <1>2, <3>1
    <3> QED
      BY <1>1, <1>3, <2>1, <3>2 DEF Energetic, Minimal, IsResult
  <2>2. CASE search' = [search EXCEPT !.energy = energies[new], !.solution = new]
    <3>1. search' = [energy |-> energies[new], solution |-> new, exact |-> FALSE]
      BY <1>1, <1>4, <2>2 DEF LocalInv, SearchesTell, IsResult
    <3> QED
      BY <1>1, <1>3, <3>1 DEF Energetic, IsResult
  <2>3. CASE UNCHANGED search
    <3>1. search' = search /\ search.exact = FALSE
      BY <1>1, <2>3 DEF LocalInv, SearchesTell
    <3> QED
      BY <1>1, <1>3, <1>4, <3>1 DEF Energetic
  <2> QED
    BY <1>2, <2>1, <2>2, <2>3
<1>6. SearchesTell'
  BY <1>1, <1>3, <1>5 DEF LocalInv, SearchesTell, Energetic
<1> QED
  BY <1>1, <1>6, NoAnswersYet, SameProblem DEF LocalInv

\* The best state so far is taken with its energy.
LEMMA FirstSearchEndsKeeps ==
  ASSUME LocalInv, FirstSearchEnds
  PROVE  LocalInv'
<1>1. /\ solving = "search" /\ solving' = "iterate" /\ iter' = 0 /\ bestResult' = search
      /\ iterBestSolution' = search.solution /\ iterBestEnergy' = search.energy
      /\ UNCHANGED <<job, energies, search, initSolution>>
  BY DEF FirstSearchEnds, SearchOver, searchingVars
<1>2. Settings' = Settings
  BY <1>1, SameProblem
<1>3. /\ IsResult(search)
      /\ Energetic(search) /\ search.exact \in BOOLEAN /\ (search.exact => Minimal(search))
      /\ initSolution \in Settings
  BY <1>1 DEF LocalInv, SearchesTell
<1>4. Energetic(bestResult)' /\ (bestResult'.exact => Minimal(bestResult)')
  BY <1>1, <1>2, <1>3 DEF Energetic, Minimal
<1>5. iterBestSolution' \in Settings /\ iterBestEnergy' = energies[iterBestSolution']
  BY <1>1, <1>3 DEF Energetic
<1>6. SearchesTell'
  BY <1>1, <1>2, <1>3, <1>4, <1>5 DEF SearchesTell
<1> QED
  BY <1>1, <1>6, NoAnswersYet, SameProblem DEF LocalInv

\* What all steps of the iterations rely on.
LEMMA Iterating ==
  ASSUME LocalInv, solving \in {"iterate", "copies"} \/ (solving = "search" /\ iter >= 0)
  PROVE  /\ IsResult(bestResult)
         /\ Energetic(bestResult) /\ bestResult.exact \in BOOLEAN
         /\ initSolution \in Settings /\ iterBestSolution \in Settings
         /\ iterBestEnergy # Unbounded => iterBestEnergy = energies[iterBestSolution]
         /\ iter \in Int /\ iter >= 0
BY DEF LocalInv, SearchesTell

\* Another state to start from, with its energy.
LEMMA StartIterationKeeps ==
  ASSUME LocalInv, StartIteration
  PROVE  LocalInv'
<1>1. /\ solving = "iterate" /\ solving' = "copies"
      /\ initSolution' = iterBestSolution /\ iterBestSolution' = initSolution /\ iterBestEnergy' = Unbounded
      /\ UNCHANGED <<job, energies, bestResult, iter>>
  BY DEF StartIteration
<1>2. Settings' = Settings
  BY <1>1, SameProblem
<1>4. Energetic(bestResult)'
  BY <1>1, <1>2, Iterating DEF Energetic
<1>3. SearchesTell'
  BY <1>1, <1>2, <1>4, Iterating DEF SearchesTell
<1> QED
  BY <1>1, <1>3, NoAnswersYet, SameProblem DEF LocalInv

\* A copy of the search starts from its own state.
LEMMA StartCopyKeeps ==
  ASSUME LocalInv, StartCopy
  PROVE  LocalInv'
<1>1. PICK ones \in Settings : StartSearch(ones)
  BY DEF StartCopy
<1>2. /\ solving = "copies"
      /\ UNCHANGED <<job, energies, bestResult, initSolution, iterBestSolution, iterBestEnergy, iter>>
  BY DEF StartCopy, iterationVars
<1>3. Settings' = Settings
  BY <1>2, SameProblem
<1>4. /\ IsResult(search)'
      /\ Energetic(search)' /\ search'.exact \in BOOLEAN /\ ~search'.exact
      /\ solving' = "search"
  BY <1>1, <1>2, StartSearchTells
<1>6. Energetic(bestResult)'
  BY <1>2, <1>3, Iterating DEF Energetic
<1>7. /\ iter \in Int /\ iter >= 0
      /\ IsResult(bestResult)
      /\ bestResult.exact \in BOOLEAN /\ initSolution \in Settings /\ iterBestSolution \in Settings
      /\ iterBestEnergy # Unbounded => iterBestEnergy = energies[iterBestSolution]
  BY <1>2, Iterating
<1>5. SearchesTell'
  BY <1>2, <1>3, <1>4, <1>6, <1>7 DEF SearchesTell
<1> QED
  BY <1>2, <1>4, <1>5, NoAnswersYet, SameProblem DEF LocalInv

\* The better of the two is kept with its energy.
LEMMA CopySearchEndsKeeps ==
  ASSUME LocalInv, CopySearchEnds
  PROVE  LocalInv'
<1>1. /\ solving = "search" /\ iter >= 0 /\ solving' = "copies"
      /\ bestResult' = [bestResult EXCEPT !.exact = search.exact]
      /\ UNCHANGED <<job, energies, initSolution, iter>>
  BY DEF CopySearchEnds, SearchOver
<1>2. Settings' = Settings
  BY <1>1, SameProblem
<1>3. /\ IsResult(search)
      /\ Energetic(search) /\ search.exact \in BOOLEAN
  BY <1>1 DEF LocalInv, SearchesTell
<1>4. \/ /\ iterBestEnergy' = search.energy /\ iterBestSolution' = search.solution
         /\ search' = [search EXCEPT !.solution = iterBestSolution]
      \/ UNCHANGED <<iterBestEnergy, iterBestSolution, search>>
  BY DEF CopySearchEnds
<1>6. iterBestSolution' \in Settings /\ (iterBestEnergy' # Unbounded => iterBestEnergy' = energies[iterBestSolution'])
  BY <1>1, <1>3, <1>4, Iterating DEF Energetic
<1>7. bestResult' = [energy |-> bestResult.energy, solution |-> bestResult.solution, exact |-> search.exact]
  BY <1>1, Iterating DEF IsResult
<1>8. /\ IsResult(bestResult)'
      /\ Energetic(bestResult)' /\ bestResult'.exact \in BOOLEAN
  BY <1>1, <1>2, <1>3, <1>7, Iterating DEF Energetic, IsResult
<1>9. SearchesTell'
  BY <1>1, <1>2, <1>6, <1>8, Iterating DEF SearchesTell
<1> QED
  BY <1>1, <1>9, NoAnswersYet, SameProblem DEF LocalInv

\* The best of all becomes the one answer.
LEMMA EndIterationKeeps ==
  ASSUME LocalInv, EndIteration
  PROVE  LocalInv'
<1>1. /\ solving = "copies" /\ solving' = "iterate" /\ iter' = iter + 1
      /\ UNCHANGED <<job, energies, initSolution, iterBestSolution, iterBestEnergy>>
      /\ \/ /\ iterBestEnergy # Unbounded
            /\ bestResult' = [bestResult EXCEPT !.energy = iterBestEnergy, !.solution = iterBestSolution]
         \/ UNCHANGED bestResult
  BY DEF EndIteration, NoticeablyLess
<1>2. Settings' = Settings
  BY <1>1, SameProblem
<1>3. /\ IsResult(bestResult)'
      /\ Energetic(bestResult)' /\ bestResult'.exact \in BOOLEAN
  <2>1. CASE /\ iterBestEnergy # Unbounded
             /\ bestResult' = [bestResult EXCEPT !.energy = iterBestEnergy, !.solution = iterBestSolution]
    <3>1. bestResult' = [energy |-> iterBestEnergy, solution |-> iterBestSolution, exact |-> bestResult.exact]
      BY <1>1, <2>1, Iterating DEF IsResult
    <3> QED
      BY <1>1, <1>2, <2>1, <3>1, Iterating DEF Energetic, IsResult
  <2>2. CASE UNCHANGED bestResult
    BY <1>1, <1>2, <2>2, Iterating DEF Energetic
  <2> QED
    BY <1>1, <2>1, <2>2
<1>4. SearchesTell'
  BY <1>1, <1>2, <1>3, Iterating DEF SearchesTell
<1> QED
  BY <1>1, <1>4, NoAnswersYet, SameProblem DEF LocalInv

\* The answer's energy is that in the problem given: convertLocalSearchResult
\* adds what the conversion took off.
LEMMA HeuristicAnswerKeeps ==
  ASSUME LocalInv, HeuristicAnswer
  PROVE  LocalInv'
<1> DEFINE listing == bestResult.solution
           given == IF job.type = "qubo" THEN ConversionOffset ELSE 0
           used == UsedIn(job.terms)
<1>1. /\ solving = "iterate" /\ solving' = "solved"
      /\ UNCHANGED <<job, energies, bestResult, iter>>
      /\ answers' = <<[solution |-> Solution(listing, used), energy |-> bestResult.energy + given, count |-> 1]>>
  BY DEF HeuristicAnswer, iterationVars
<1>2. JobOK /\ energies = [ones \in Settings |-> SearchEnergy(ones)]
  BY DEF LocalInv
<1>3. listing \in Settings /\ bestResult.energy = SearchEnergy(listing) /\ bestResult # <<>>
  BY <1>1, <1>2, Iterating DEF Energetic, IsResult
<1>4. \A ones \in Settings : SearchEnergy(ones) \in Int /\ SearchEnergy(ones) + given = ProblemEnergy(ones)
  BY <1>2, ConversionKeeps
<1>5. DOMAIN answers' = {1} /\ answers'[1].energy = ProblemEnergy(listing)
      /\ answers'[1].solution = Solution(listing, used) /\ answers'[1].count = 1
  BY <1>1, <1>3, <1>4
<1>6. {i \in used : Solution(listing, used)[i] = 1} = listing
  BY <1>2, <1>3, SolutionShows
<1>7. SumFunction([k \in DOMAIN answers' |-> answers'[k].count]) = 1
  <2> DEFINE c == [k \in DOMAIN answers' |-> answers'[k].count]
  <2>1. DOMAIN c = {1} /\ c[1] = 1
    BY <1>5
  <2> HIDE DEF c
  <2>2. SumFunctionOnSet(c, {1}) = 1
    BY <2>1, SumOne
  <2>3. SumFunction(c) = 1
    BY <2>1, <2>2 DEF SumFunction
  <2> QED
    BY <2>3 DEF c
<1>8. iter = 0 /\ bestResult.exact => \A ones \in Settings : ProblemEnergy(listing) <= ProblemEnergy(ones)
  <2> SUFFICES ASSUME iter = 0, bestResult.exact, NEW ones \in Settings
               PROVE  ProblemEnergy(listing) <= ProblemEnergy(ones)
    OBVIOUS
  <2>1. bestResult.energy <= energies[ones]
    BY <1>1 DEF LocalInv, SearchesTell, Minimal
  <2>2. SearchEnergy(listing) <= SearchEnergy(ones)
    BY <1>2, <1>3, <2>1
  <2>3. given \in Int
    <3>1. job.type = "qubo" => ConversionOffset \in Int
      BY <1>2, <1>3, ConversionKeeps
    <3> QED
      BY <3>1
  <2> HIDE DEF given, listing
  <2> QED
    BY <1>3, <1>4, <2>2, <2>3
<1>9. Settings' = Settings /\ used' = used /\ \A ones : ProblemEnergy(ones)' = ProblemEnergy(ones)
  BY <1>1, SameProblem DEF UsedIn
<1> HIDE DEF listing, given, used
<1>10. AnswersTellTheirEnergy'
  <2>1. \A k \in DOMAIN answers' :
          answers'[k].energy = ProblemEnergy({i \in used : answers'[k].solution[i] = 1})
    BY <1>5, <1>6
  <2>2. iter' = 0 /\ bestResult'.exact => \A ones \in Settings : answers'[1].energy <= ProblemEnergy(ones)
    BY <1>1, <1>5, <1>8
  <2> QED
    BY <1>1, <1>3, <1>7, <1>9, <2>1, <2>2 DEF AnswersTellTheirEnergy, used
<1>11. SearchesTell'
  BY <1>1, Iterating DEF SearchesTell
<1> QED
  BY <1>1, <1>10, <1>11, SameProblem DEF LocalInv

\* Every step keeps LocalInv.
LEMMA LocalNextInv ==
  ASSUME LocalInv, [LocalNext]_localVars
  PROVE  LocalInv'
<1>1. CASE \E histogram \in BOOLEAN : Optimize(histogram) \/ Sample(histogram)
  BY <1>1, OptimizeKeeps, SampleKeeps
<1>2. CASE RefuseProblem
  BY <1>2, RefuseProblemKeeps
<1>3. CASE StartHeuristic
  BY <1>3, StartHeuristicKeeps
<1>4. CASE TimePasses
  BY <1>4, TimePassesKeeps
<1>5. CASE SearchStep
  BY <1>5, SearchStepKeeps
<1>6. CASE FirstSearchEnds
  BY <1>6, FirstSearchEndsKeeps
<1>7. CASE StartIteration
  BY <1>7, StartIterationKeeps
<1>8. CASE StartCopy
  BY <1>8, StartCopyKeeps
<1>9. CASE CopySearchEnds
  BY <1>9, CopySearchEndsKeeps
<1>10. CASE EndIteration
  BY <1>10, EndIterationKeeps
<1>11. CASE HeuristicAnswer
  BY <1>11, HeuristicAnswerKeeps
<1>12. CASE UNCHANGED localVars
  <2>1. UNCHANGED <<job, energies, solving, search, bestResult, initSolution, iterBestSolution, iterBestEnergy, iter, answers>>
    BY <1>12 DEF localVars, searchingVars, iterationVars
  <2>2. Settings' = Settings /\ UsedIn(job.terms)' = UsedIn(job.terms) /\ \A ones : ProblemEnergy(ones)' = ProblemEnergy(ones)
    BY <2>1, SameProblem DEF UsedIn
  <2>3. SearchesTell'
    BY <2>1, <2>2 DEF LocalInv, SearchesTell, Energetic, Minimal
  <2>4. AnswersTellTheirEnergy'
    BY <2>1, <2>2 DEF LocalInv, AnswersTellTheirEnergy
  <2> QED
    BY <2>1, <2>3, <2>4, SameProblem DEF LocalInv
<1> QED
  BY <1>1, <1>2, <1>3, <1>4, <1>5, <1>6, <1>7, <1>8, <1>9, <1>10, <1>11, <1>12 DEF LocalNext

\* Whichever solver is asked, with a histogram or without, and through all
\* iterations, exchanges of solutions and the conversion to Ising form, an
\* answer's energy is that of its solution in the problem given, the answers
\* count no more reads than asked for, and an exact first search's is a minimum.
THEOREM EnergiesTold == LocalSpec => []AnswersTellTheirEnergy
<1>1. LocalInit => LocalInv
  BY LocalInitInv
<1>2. LocalInv /\ [LocalNext]_localVars => LocalInv'
  BY LocalNextInv
<1>3. LocalInv => AnswersTellTheirEnergy
  BY DEF LocalInv
<1> QED
  BY <1>1, <1>2, <1>3, PTL DEF LocalSpec

-----------------------------------------------------------------------------
(* Solver parameters                                                       *)

\* One qubit more in the chains.
AddTo(numbers, lists, i) ==
  IF ~InChain(numbers[i]) THEN lists
  ELSE LET same == {k \in DOMAIN lists : numbers[lists[k][1]] = numbers[i]} IN
       IF same = {} THEN Append(lists, <<i>>)
       ELSE LET k == CHOOSE k \in same : TRUE IN [lists EXCEPT ![k] = Append(@, i)]

\* A chain of the first n qubits holds all that have its number.
IsChain(numbers, n, c) ==
  /\ c # <<>>
  /\ \A a, b \in DOMAIN c : c[a] = c[b] => a = b
  /\ ToSet(c) = {i \in 1 .. n : numbers[i] = numbers[c[1]]}
  /\ numbers[c[1]] >= 0

ChainsUpTo(numbers, n, lists) ==
  /\ lists \in Seq(Seq(1 .. Len(numbers)))
  /\ \A k \in DOMAIN lists : IsChain(numbers, n, lists[k])
  /\ \A j, k \in DOMAIN lists : numbers[lists[j][1]] = numbers[lists[k][1]] => j = k
  /\ \A i \in 1 .. n : numbers[i] >= 0 => \E k \in DOMAIN lists : numbers[lists[k][1]] = numbers[i]

\* A qubit that is in no chain yet.
LEMMA SameChain ==
  ASSUME NEW numbers, NEW n \in Nat, NEW c, IsChain(numbers, n, c), numbers[c[1]] # numbers[n + 1]
  PROVE  IsChain(numbers, n + 1, c)
<1>1. {i \in 1 .. n + 1 : numbers[i] = numbers[c[1]]} = {i \in 1 .. n : numbers[i] = numbers[c[1]]}
  <2>1. 1 .. n + 1 = (1 .. n) \cup {n + 1}
    OBVIOUS
  <2> QED
    BY <2>1
<1> QED
  BY <1>1 DEF IsChain

\* A qubit whose number is new is a chain by itself.
LEMMA NewChain ==
  ASSUME NEW numbers, NEW n \in Nat, NEW i, i = n + 1, numbers[i] >= 0, \A j \in 1 .. n : numbers[j] # numbers[i]
  PROVE  IsChain(numbers, i, <<i>>)
<1>1. ToSet(<<i>>) = {i}
  BY DEF ToSet
<1>2. {j \in 1 .. i : numbers[j] = numbers[i]} = {i}
  <2>1. 1 .. i = (1 .. n) \cup {i}
    OBVIOUS
  <2> QED
    BY <2>1
<1> QED
  BY <1>1, <1>2 DEF IsChain

\* A qubit whose number is that of a chain makes it longer.
LEMMA LongerChain ==
  ASSUME NEW numbers, NEW n \in Nat, NEW i, i = n + 1, NEW S, NEW c \in Seq(S), i \in S,
         IsChain(numbers, n, c), numbers[c[1]] = numbers[i]
  PROVE  IsChain(numbers, i, Append(c, i)) /\ Append(c, i) \in Seq(S) /\ Append(c, i)[1] = c[1]
<1> DEFINE d == Append(c, i)
           m == Len(c)
<1>1. /\ m \in Nat /\ DOMAIN c = 1 .. m /\ DOMAIN d = 1 .. m + 1 /\ d[m + 1] = i /\ d \in Seq(S)
      /\ \A k \in 1 .. m : d[k] = c[k]
  BY AppendIs
<1> HIDE DEF d, m
<1>2. m > 0 /\ d[1] = c[1] /\ d # <<>>
  <2>1. m > 0
    BY <1>1 DEF IsChain, m
  <2>2. d # <<>>
    BY <1>1
  <2> QED
    BY <1>1, <2>1, <2>2
<1>3. ToSet(c) = {j \in 1 .. n : numbers[j] = numbers[i]}
  BY DEF IsChain
<1>4. ToSet(d) = ToSet(c) \cup {i}
  <2>1. 1 .. m + 1 = (1 .. m) \cup {m + 1}
    BY <1>1
  <2>2. ToSet(d) = {d[k] : k \in 1 .. m} \cup {d[m + 1]}
    BY <1>1, <2>1 DEF ToSet
  <2> QED
    BY <1>1, <2>2 DEF ToSet
<1>5. 1 .. i = (1 .. n) \cup {i} /\ i \notin 1 .. n
  OBVIOUS
<1>6. {j \in 1 .. i : numbers[j] = numbers[i]} = {j \in 1 .. n : numbers[j] = numbers[i]} \cup {i}
  BY <1>5
<1>7. \A k \in 1 .. m : c[k] # i
  BY <1>1, <1>3, <1>5 DEF ToSet
<1>8. \A a, b \in 1 .. m + 1 : d[a] = d[b] => a = b
  <2> SUFFICES ASSUME NEW a \in 1 .. m + 1, NEW b \in 1 .. m + 1, d[a] = d[b] PROVE a = b
    OBVIOUS
  <2>1. CASE a \in 1 .. m /\ b \in 1 .. m
    BY <1>1, <2>1 DEF IsChain
  <2>2. CASE a = m + 1 /\ b \in 1 .. m
    BY <1>1, <1>7, <2>2
  <2>3. CASE a \in 1 .. m /\ b = m + 1
    BY <1>1, <1>7, <2>3
  <2> QED
    BY <1>1, <2>1, <2>2, <2>3
<1>9. numbers[d[1]] = numbers[i] /\ numbers[d[1]] >= 0
  BY <1>2 DEF IsChain
<1>10. IsChain(numbers, i, d)
  BY <1>1, <1>2, <1>3, <1>4, <1>6, <1>8, <1>9 DEF IsChain
<1> QED
  BY <1>1, <1>2, <1>10 DEF d

\* One qubit more keeps the chains the classes of what has been read.
LEMMA AddToChains ==
  ASSUME NEW numbers \in Seq(Int), NEW n \in Nat, NEW i, i = n + 1, i <= Len(numbers), NEW lists,
         ChainsUpTo(numbers, n, lists)
  PROVE  ChainsUpTo(numbers, i, AddTo(numbers, lists, i))
<1> DEFINE L == 1 .. Len(numbers)
           new == AddTo(numbers, lists, i)
           same == {k \in DOMAIN lists : numbers[lists[k][1]] = numbers[i]}
           m == Len(lists)
<1>1. /\ i \in L /\ numbers[i] \in Int /\ lists \in Seq(Seq(L))
      /\ 1 .. i = (1 .. n) \cup {i} /\ m \in Nat /\ DOMAIN lists = 1 .. m
  BY DEF ChainsUpTo
<1> HIDE DEF L, new, m
<1>5. /\ \A k \in 1 .. m : IsChain(numbers, n, lists[k])
      /\ \A j, k \in 1 .. m : numbers[lists[j][1]] = numbers[lists[k][1]] => j = k
      /\ \A j \in 1 .. n : numbers[j] >= 0 => \E k \in 1 .. m : numbers[lists[k][1]] = numbers[j]
  BY <1>1 DEF ChainsUpTo
<1>2. CASE ~InChain(numbers[i])
  <2>1. new = lists /\ ~(numbers[i] >= 0)
    BY <1>2 DEF AddTo, InChain, new
  <2>2. \A k \in DOMAIN lists : numbers[lists[k][1]] # numbers[i]
    BY <2>1 DEF ChainsUpTo, IsChain
  <2>3. \A k \in DOMAIN lists : IsChain(numbers, i, lists[k])
    BY <2>2, SameChain DEF ChainsUpTo
  <2>4. ChainsUpTo(numbers, i, lists)
    BY <1>1, <2>1, <2>3 DEF ChainsUpTo
  <2> QED
    BY <2>1, <2>4 DEF new
<1>3. CASE InChain(numbers[i]) /\ same = {}
  <2>1. new = Append(lists, <<i>>) /\ numbers[i] >= 0
    BY <1>3 DEF AddTo, InChain, new
  <2>2. <<i>> \in Seq(L) /\ <<i>>[1] = i
    BY <1>1
  <2>3. /\ new \in Seq(Seq(L)) /\ DOMAIN new = 1 .. m + 1
        /\ new[m + 1] = <<i>> /\ \A k \in 1 .. m : new[k] = lists[k]
    <3> DEFINE e == <<i>>  T == Seq(L)
    <3>1. e \in T
      BY <2>2
    <3>2. new = Append(lists, e)
      BY <2>1
    <3> HIDE DEF e, T, m
    <3>3. Append(lists, e) \in Seq(T) /\ DOMAIN Append(lists, e) = 1 .. Len(lists) + 1
          /\ Append(lists, e)[Len(lists) + 1] = e
          /\ \A k \in 1 .. Len(lists) : Append(lists, e)[k] = lists[k]
      BY <1>1, <3>1, AppendIs DEF T
    <3> QED
      BY <3>2, <3>3 DEF e, T, m
  <2>4. \A k \in 1 .. m : numbers[lists[k][1]] # numbers[i]
    BY <1>1, <1>3
  <2>5. \A j \in 1 .. n : numbers[j] # numbers[i]
    BY <1>5, <2>1, <2>4
  <2>6. \A k \in 1 .. m : IsChain(numbers, i, new[k])
    BY <1>1, <2>3, <2>4, SameChain DEF ChainsUpTo
  <2>7. IsChain(numbers, i, new[m + 1])
    BY <2>1, <2>3, <2>5, NewChain
  <2>8. 1 .. m + 1 = (1 .. m) \cup {m + 1}
    BY <1>1
  <2>9. numbers[new[m + 1][1]] = numbers[i] /\ \A k \in 1 .. m : new[k] = lists[k]
    BY <2>2, <2>3
  <2>10. \A k \in DOMAIN new : IsChain(numbers, i, new[k])
    BY <2>3, <2>6, <2>7, <2>8
  <2>11. \A j, k \in DOMAIN new : numbers[new[j][1]] = numbers[new[k][1]] => j = k
    <3>1. \A j, k \in 1 .. m : numbers[new[j][1]] = numbers[new[k][1]] => j = k
      <4> SUFFICES ASSUME NEW j \in 1 .. m, NEW k \in 1 .. m, numbers[new[j][1]] = numbers[new[k][1]]
                   PROVE  j = k
        OBVIOUS
      <4>1. new[j] = lists[j] /\ new[k] = lists[k]
        BY <2>9
      <4> QED
        BY <1>5, <4>1
    <3>2. \A k \in 1 .. m : numbers[new[k][1]] # numbers[new[m + 1][1]]
      BY <2>4, <2>9
    <3> SUFFICES ASSUME NEW j \in 1 .. m + 1, NEW k \in 1 .. m + 1, numbers[new[j][1]] = numbers[new[k][1]]
                 PROVE  j = k
      BY <2>3
    <3>3. CASE j = m + 1 \/ k = m + 1
      BY <2>8, <3>2, <3>3
    <3>4. CASE j \in 1 .. m /\ k \in 1 .. m
      BY <3>1, <3>4
    <3> QED
      BY <2>8, <3>3, <3>4
  <2>12. \A j \in 1 .. i : numbers[j] >= 0 => \E k \in DOMAIN new : numbers[new[k][1]] = numbers[j]
    <3>1. ASSUME NEW j \in 1 .. n, numbers[j] >= 0
          PROVE  \E k \in DOMAIN new : numbers[new[k][1]] = numbers[j]
      <4>1. PICK k \in 1 .. m : numbers[lists[k][1]] = numbers[j]
        BY <1>1, <3>1 DEF ChainsUpTo
      <4> QED
        BY <2>3, <2>8, <2>9, <4>1
    <3>2. \E k \in DOMAIN new : numbers[new[k][1]] = numbers[i]
      BY <2>3, <2>8, <2>9
    <3> QED
      BY <1>1, <3>1, <3>2
  <2>13. ChainsUpTo(numbers, i, new)
    BY <2>3, <2>10, <2>11, <2>12 DEF ChainsUpTo, L
  <2> QED
    BY <2>13 DEF new
<1>4. CASE InChain(numbers[i]) /\ same # {}
  <2>1. PICK c \in same : new = [lists EXCEPT ![c] = Append(@, i)]
    BY <1>4 DEF AddTo, new
  <2> DEFINE old == lists[c]
             longer == Append(old, i)
  <2>2. c \in 1 .. m /\ old \in Seq(L) /\ numbers[old[1]] = numbers[i] /\ IsChain(numbers, n, old)
    BY <1>1 DEF ChainsUpTo
  <2>3. /\ new[c] = longer /\ DOMAIN new = 1 .. m
        /\ \A k \in (1 .. m) \ {c} : new[k] = lists[k]
    BY <1>1, <2>1, <2>2
  <2>4. IsChain(numbers, i, longer) /\ longer \in Seq(L) /\ longer[1] = old[1]
    <3>1. i \in L /\ old \in Seq(L) /\ numbers[old[1]] = numbers[i] /\ IsChain(numbers, n, old)
      BY <1>1, <2>2
    <3> HIDE DEF old, longer
    <3>2. IsChain(numbers, i, Append(old, i)) /\ Append(old, i) \in Seq(L) /\ Append(old, i)[1] = old[1]
      BY <3>1, LongerChain
    <3> QED
      BY <3>2 DEF longer
  <2> HIDE DEF longer
  <2>5. new \in Seq(Seq(L))
    <3>2. new \in [1 .. m -> Seq(L)]
      <4>1. new = [k \in 1 .. m |-> IF k = c THEN longer ELSE lists[k]]
        BY <1>1, <2>1 DEF longer
      <4>2. \A k \in 1 .. m : (IF k = c THEN longer ELSE lists[k]) \in Seq(L)
        BY <1>1, <2>4
      <4> QED
        BY <4>1, <4>2
    <3> DEFINE T == Seq(L)
    <3> HIDE DEF T
    <3>3. new \in [1 .. m -> T]
      BY <3>2 DEF T
    <3>4. new \in Seq(T)
      BY <1>1, <3>3, AsSeq
    <3> QED
      BY <3>4 DEF T
  <2>6. \A k \in 1 .. m : new[k][1] = lists[k][1]
    BY <2>3, <2>4
  <2>7. \A k \in 1 .. m : IsChain(numbers, i, new[k])
    <3> TAKE k \in 1 .. m
    <3>1. CASE k = c
      BY <2>3, <2>4, <3>1
    <3>2. CASE k # c
      <4>1. numbers[lists[k][1]] # numbers[i]
        BY <1>1, <2>2, <3>2 DEF ChainsUpTo
      <4>2. IsChain(numbers, n, lists[k])
        BY <1>1 DEF ChainsUpTo
      <4>3. IsChain(numbers, i, lists[k])
        BY <4>1, <4>2, SameChain
      <4> QED
        BY <2>3, <3>2, <4>3
    <3> QED
      BY <3>1, <3>2
  <2>8. \A j, k \in 1 .. m : numbers[new[j][1]] = numbers[new[k][1]] => j = k
    <3> SUFFICES ASSUME NEW j \in 1 .. m, NEW k \in 1 .. m, numbers[new[j][1]] = numbers[new[k][1]]
                 PROVE  j = k
      OBVIOUS
    <3>1. new[j][1] = lists[j][1] /\ new[k][1] = lists[k][1]
      BY <2>6
    <3> QED
      BY <1>5, <3>1
  <2>9. \A j \in 1 .. i : numbers[j] >= 0 => \E k \in 1 .. m : numbers[new[k][1]] = numbers[j]
    <3>1. \A j \in 1 .. n : numbers[j] >= 0 => \E k \in 1 .. m : numbers[new[k][1]] = numbers[j]
      <4> TAKE j \in 1 .. n
      <4> HAVE numbers[j] >= 0
      <4>1. PICK k \in 1 .. m : numbers[lists[k][1]] = numbers[j]
        BY <1>5
      <4> QED
        BY <2>6, <4>1
    <3>2. numbers[new[c][1]] = numbers[i]
      BY <2>2, <2>6
    <3> QED
      BY <1>1, <2>2, <3>1, <3>2
  <2>10. ChainsUpTo(numbers, i, new)
    BY <2>3, <2>5, <2>7, <2>8, <2>9 DEF ChainsUpTo, L
  <2> QED
    BY <2>10 DEF new
<1> QED
  BY <1>2, <1>3, <1>4

Made(numbers, g) ==
  g = [i \in 0 .. Len(numbers) |-> IF i = 0 THEN <<>> ELSE AddTo(numbers, g[i - 1], i)]

\* Some function makes the chains of one qubit after another.
LEMMA ChainsMade ==
  ASSUME NEW numbers \in Seq(Int)
  PROVE  \E g : Made(numbers, g)
<1> DEFINE N == Len(numbers)
           D == Seq(Seq(1 .. N))
           F == [i \in 1 .. N |-> [c \in D |-> IF AddTo(numbers, c, i) \in D THEN AddTo(numbers, c, i) ELSE <<>>]]
<1>1. N \in Nat /\ <<>> \in D
  OBVIOUS
<1>2. F \in [1 .. N -> [D -> D]]
  <2> HIDE DEF D, N
  <2> QED
    BY <1>1
<1>3. \A i \in 1 .. N : \A c \in D : AddTo(numbers, c, i) \in D => F[i][c] = AddTo(numbers, c, i)
  <2> HIDE DEF D, N
  <2> QED
    OBVIOUS
<1> HIDE DEF F
<1>4. PICK g : Rounds(N, D, <<>>, F, g)
  <2> HIDE DEF D, N
  <2> QED
    BY <1>1, <1>2, Iterates
<1>5. g \in [0 .. N -> D] /\ g[0] = <<>> /\ \A i \in 1 .. N : g[i] = F[i][g[i - 1]]
  BY <1>4 DEF Rounds
<1> DEFINE A == {n \in Nat : n <= N => ChainsUpTo(numbers, n, g[n])}
<1>6. ASSUME NEW n \in Nat, n + 1 <= N, ChainsUpTo(numbers, n, g[n])
      PROVE  g[n + 1] = AddTo(numbers, g[n], n + 1) /\ ChainsUpTo(numbers, n + 1, g[n + 1])
  <2>1. ChainsUpTo(numbers, n + 1, AddTo(numbers, g[n], n + 1))
    BY <1>6, AddToChains
  <2>2. AddTo(numbers, g[n], n + 1) \in D
    BY <2>1 DEF ChainsUpTo
  <2>3. n + 1 \in 1 .. N /\ n \in 0 .. N /\ (n + 1) - 1 = n
    BY <1>1, <1>6
  <2> HIDE DEF D, N
  <2>4. g[n] \in D /\ g[n + 1] = F[n + 1][g[n]]
    BY <1>5, <2>3
  <2> QED
    BY <1>3, <2>1, <2>2, <2>3, <2>4
<1>7. 0 \in A
  <2>1. <<>> \in D /\ DOMAIN <<>> = {} /\ 1 .. 0 = {}
    OBVIOUS
  <2>2. ChainsUpTo(numbers, 0, <<>>)
    BY <2>1 DEF ChainsUpTo
  <2> QED
    BY <1>5, <2>2
<1>8. ASSUME NEW n \in Nat, n \in A PROVE n + 1 \in A
  <2>1. n + 1 <= N => n <= N
    BY <1>1
  <2> QED
    BY <1>6, <1>8, <2>1
<1>9. Nat \subseteq A
  <2> HIDE DEF A
  <2> QED
    BY <1>7, <1>8, InductiveSet
<1>10. \A i \in 1 .. N : g[i] = AddTo(numbers, g[i - 1], i)
  <2> TAKE i \in 1 .. N
  <2>1. i - 1 \in Nat /\ (i - 1) + 1 = i /\ i - 1 <= N /\ i <= N
    BY <1>1
  <2>2. ChainsUpTo(numbers, i - 1, g[i - 1])
    BY <1>9, <2>1
  <2>3. g[(i - 1) + 1] = AddTo(numbers, g[i - 1], (i - 1) + 1)
    BY <1>6, <2>1, <2>2
  <2> QED
    BY <2>1, <2>3
<1>11. g = [i \in 0 .. N |-> IF i = 0 THEN <<>> ELSE AddTo(numbers, g[i - 1], i)]
  <2>1. \A i \in 0 .. N : i = 0 \/ i \in 1 .. N
    BY <1>1
  <2>2. g = [i \in 0 .. N |-> g[i]]
    BY <1>5
  <2>3. \A i \in 0 .. N : g[i] = IF i = 0 THEN <<>> ELSE AddTo(numbers, g[i - 1], i)
    BY <1>5, <1>10, <2>1
  <2> HIDE DEF N
  <2> QED
    BY <2>2, <2>3
<1>12. Made(numbers, g)
  BY <1>11 DEF Made
<1> QED
  BY <1>12

\* The chains are those of all qubits.
LEMMA ChainsAre ==
  ASSUME NEW numbers \in Seq(Int)
  PROVE  ChainsUpTo(numbers, Len(numbers), ChainsOf(numbers))
<1> DEFINE N == Len(numbers)
           g == CHOOSE fn : Made(numbers, fn)
<1>1. N \in Nat
  OBVIOUS
<1>2. ChainsOf(numbers) = g[N]
  BY DEF ChainsOf, AddTo, Made
<1>3. Made(numbers, g)
  BY ChainsMade
<1> HIDE DEF g
<1>4. \A i \in 0 .. N : g[i] = IF i = 0 THEN <<>> ELSE AddTo(numbers, g[i - 1], i)
  BY <1>3 DEF Made
<1> DEFINE A == {n \in Nat : n <= N => ChainsUpTo(numbers, n, g[n])}
<1>5. 0 \in A
  <2>1. <<>> \in Seq(Seq(1 .. N)) /\ DOMAIN <<>> = {} /\ 1 .. 0 = {}
    OBVIOUS
  <2>2. ChainsUpTo(numbers, 0, <<>>)
    BY <2>1 DEF ChainsUpTo
  <2>3. g[0] = <<>>
    BY <1>1, <1>4
  <2> QED
    BY <2>2, <2>3
<1>6. ASSUME NEW n \in Nat, n \in A PROVE n + 1 \in A
  <2> SUFFICES ASSUME n + 1 <= N PROVE ChainsUpTo(numbers, n + 1, g[n + 1])
    OBVIOUS
  <2>1. n <= N /\ n + 1 \in 0 .. N /\ n + 1 # 0 /\ (n + 1) - 1 = n
    BY <1>1
  <2>2. g[n + 1] = AddTo(numbers, g[n], n + 1)
    BY <1>4, <2>1
  <2>3. ChainsUpTo(numbers, n, g[n])
    BY <1>6, <2>1
  <2> QED
    BY <2>2, <2>3, AddToChains
<1>7. Nat \subseteq A
  <2> HIDE DEF A
  <2> QED
    BY <1>5, <1>6, InductiveSet
<1> QED
  BY <1>1, <1>2, <1>7

-----------------------------------------------------------------------------
(* What is sent                                                            *)

\* The chains sent are as the user's numbers have them.
LEMMA ChainsAsAsked ==
  ASSUME NEW numbers \in Seq(Int), NEW lists, lists = ChainsOf(numbers)
  PROVE  /\ {ToSet(lists[k]) : k \in DOMAIN lists}
              = {{i \in DOMAIN numbers : numbers[i] = n} : n \in {m \in ToSet(numbers) : m >= 0}}
         /\ \A k \in DOMAIN lists : Len(lists[k]) = Cardinality(ToSet(lists[k]))
<1> DEFINE N == Len(numbers)
           num(k) == numbers[lists[k][1]]
           class(n) == {i \in DOMAIN numbers : numbers[i] = n}
<1>1. ChainsUpTo(numbers, N, lists) /\ DOMAIN numbers = 1 .. N /\ N \in Nat
  BY ChainsAre
<1>2. ASSUME NEW k \in DOMAIN lists
      PROVE  ToSet(lists[k]) = class(num(k)) /\ num(k) >= 0 /\ num(k) \in ToSet(numbers)
             /\ Len(lists[k]) = Cardinality(ToSet(lists[k]))
  <2> DEFINE c == lists[k]
             M == Len(c)
  <2>1. IsChain(numbers, N, c)
    BY <1>1 DEF ChainsUpTo
  <2>2. c \in Seq(1 .. N)
    <3>1. lists \in Seq(Seq(1 .. N))
      BY <1>1 DEF ChainsUpTo
    <3> QED
      BY <3>1
  <2> HIDE DEF c
  <2>3. M \in Nat /\ DOMAIN c = 1 .. M /\ c \in [1 .. M -> 1 .. N]
    BY <2>2
  <2>4. 1 \in 1 .. M
    BY <2>2, <2>3, <2>1 DEF IsChain
  <2>5. c[1] \in DOMAIN numbers
    BY <1>1, <2>3, <2>4
  <2>6. M = Cardinality(ToSet(c))
    <3> HIDE DEF M
    <3>1. c \in Bijection(1 .. M, ToSet(c))
      <4>1. c \in [1 .. M -> ToSet(c)]
        BY <2>3 DEF ToSet
      <4>2. \A y \in ToSet(c) : \E x \in 1 .. M : c[x] = y
        BY <2>3 DEF ToSet
      <4>3. \A x, y \in 1 .. M : c[x] = c[y] => x = y
        BY <2>1, <2>3 DEF IsChain
      <4> QED
        BY <4>1, <4>2, <4>3 DEF Bijection, Injection, Surjection, IsInjective
    <3>2. IsFiniteSet(1 .. M) /\ Cardinality(1 .. M) = M
      <4>1. IsFiniteSet(1 .. M) /\ Cardinality(1 .. M) = IF 1 > M THEN 0 ELSE M - 1 + 1
        BY <2>3, FS_Interval
      <4> QED
        BY <2>3, <4>1
    <3> DEFINE S == 1 .. M  T == ToSet(c)
    <3> HIDE DEF S, T
    <3>3. c \in Bijection(S, T) /\ IsFiniteSet(S)
      BY <3>1, <3>2 DEF S, T
    <3>4. Cardinality(T) = Cardinality(S)
      BY <3>3, FS_Bijection DEF ExistsBijection
    <3> QED
      BY <3>2, <3>4 DEF S, T
  <2> QED
    BY <1>1, <2>1, <2>5, <2>6 DEF IsChain, ToSet, c
<1>3. ASSUME NEW n \in ToSet(numbers), n >= 0
      PROVE  \E k \in DOMAIN lists : ToSet(lists[k]) = class(n)
  <2>1. PICK i \in 1 .. N : numbers[i] = n
    BY <1>1, <1>3 DEF ToSet
  <2>2. PICK k \in DOMAIN lists : num(k) = n
    BY <1>1, <1>3, <2>1 DEF ChainsUpTo
  <2> HIDE DEF class, num
  <2> QED
    BY <1>2, <2>2
<1>4. {ToSet(lists[k]) : k \in DOMAIN lists} = {class(n) : n \in {m \in ToSet(numbers) : m >= 0}}
  <2> HIDE DEF class, num
  <2> QED
    BY <1>2, <1>3
<1> QED
  BY <1>2, <1>4

IsParams(p) ==
  p \in [kind : ParamKinds, type : {"ising", "other"}, problem : {"fits", "foreign"},
         mode : {"default", "histogram", "invalid"}, postprocess : {"default", "sampling", "invalid"},
         plain : SUBSET PlainParams, reverse : BOOLEAN,
         chains : [set : BOOLEAN, numbers : Seq(Int)]]

\* Nothing is sent, or what the submission makes of the parameters, which stay.
ParamInv ==
  /\ IsParams(params)
  /\ sent.request = Refused \/ (sent # NotSent /\ sent = RemoteSubmit(description, params))

\* The default parameters are parameters.
LEMMA DefaultIs ==
  IsParams(DefaultParams)
<1>1. <<>> \in Seq(Int)
  OBVIOUS
<1> QED
  BY <1>1 DEF IsParams, DefaultParams, ParamKinds

\* So are those that a user may set.
LEMMA AskableIs ==
  ASSUME NEW a \in Askable
  PROVE  IsParams(a)
<1> DEFINE d == DefaultParams
<1>1. IsParams(d)
  BY DefaultIs
<1> HIDE DEF d
<1>2. ASSUME NEW kind \in ParamKinds, NEW mode \in {"histogram", "invalid"}
      PROVE  IsParams([d EXCEPT !.kind = kind]) /\ IsParams([d EXCEPT !.kind = kind, !.mode = mode])
  BY <1>1 DEF IsParams
<1>3. ASSUME NEW p \in {"sampling", "invalid"} PROVE IsParams([d EXCEPT !.postprocess = p])
  BY <1>1 DEF IsParams
<1>4. IsParams([d EXCEPT !.type = "other"]) /\ IsParams([d EXCEPT !.problem = "foreign"])
  BY <1>1 DEF IsParams
<1>5. \/ \E kind \in ParamKinds : a = [d EXCEPT !.kind = kind]
      \/ \E kind \in ParamKinds : a = [d EXCEPT !.kind = kind, !.mode = "histogram"]
      \/ \E kind \in ParamKinds : a = [d EXCEPT !.kind = kind, !.mode = "invalid"]
      \/ \E p \in {"sampling", "invalid"} : a = [d EXCEPT !.postprocess = p]
      \/ a = [d EXCEPT !.type = "other"] \/ a = [d EXCEPT !.problem = "foreign"]
  BY Zenon DEF Askable, d
<1> QED
  BY <1>2, <1>3, <1>4, <1>5

\* Nothing has been sent at the start.
LEMMA ParamInitInv == ParamInit => ParamInv
BY AskableIs DEF ParamInit, ParamInv, NotSent

\* Every step sends what it was asked to.
LEMMA ParamNextInv ==
  ASSUME ParamInv, [ParamNext]_paramVars
  PROVE  ParamInv'
<1>1. CASE \E p \in PlainParams : SetPlain(p)
  <2>1. PICK p \in PlainParams : SetPlain(p)
    BY <1>1
  <2>2. IsParams(params)'
    BY <2>1 DEF SetPlain, ParamInv, IsParams
  <2> QED
    BY <2>1, <2>2 DEF SetPlain, ParamInv, NotSent
<1>2. CASE SetReverse
  <2>1. IsParams(params)'
    BY <1>2 DEF SetReverse, ParamInv, IsParams
  <2> QED
    BY <1>2, <2>1 DEF SetReverse, ParamInv, NotSent
<1>3. CASE \E n \in 0 .. ParamQubits : \E numbers \in [1 .. n -> ChainNumbers] : SetChains(numbers)
  <2>1. PICK n \in 0 .. ParamQubits : \E numbers \in [1 .. n -> ChainNumbers] : SetChains(numbers)
    BY <1>3
  <2>2. PICK numbers \in [1 .. n -> ChainNumbers] : SetChains(numbers)
    BY <2>1
  <2>3. numbers \in Seq(Int)
    <3>1. n \in Nat
      BY <2>1, ParamAssumption
    <3>2. \A k \in 1 .. n : numbers[k] \in Int
      BY ParamAssumption
    <3>3. numbers \in [1 .. n -> Int]
      BY <3>2
    <3> QED
      BY <3>1, <3>3, AsSeq
  <2>4. IsParams(params)'
    BY <2>2, <2>3 DEF SetChains, ParamInv, IsParams
  <2> QED
    BY <2>2, <2>4 DEF SetChains, ParamInv, NotSent
<1>4. CASE SubmitRemote
  <2>1. UNCHANGED <<description, params>> /\ sent' = RemoteSubmit(description, params)
    BY <1>4 DEF SubmitRemote
  <2>2. RemoteSubmit(description, params) # NotSent
    BY DEF RemoteSubmit, NotSent
  <2>3. RemoteSubmit(description, params)' = RemoteSubmit(description, params)
    BY <2>1 DEF RemoteSubmit
  <2> QED
    BY <2>1, <2>2, <2>3 DEF ParamInv, IsParams, NotSent
<1>5. CASE \E solver \in ParamKinds \ {"quantum"} : SubmitLocal(solver)
  BY <1>5 DEF SubmitLocal, LocalSubmit, ParamInv, IsParams
<1>6. CASE UNCHANGED <<description, params, sent>>
  BY <1>6 DEF ParamInv, IsParams, RemoteSubmit
<1> QED
  BY <1>1, <1>2, <1>3, <1>4, <1>5, <1>6 DEF ParamNext, paramVars, AnswerArrives

\* A request that is so made says what was asked for.
LEMMA AskedFromInv ==
  ASSUME ParamInv
  PROVE  RequestIsAsAsked
<1> DEFINE ns == params.chains.numbers
<1>1. CASE sent.request = Refused
  BY <1>1 DEF RequestIsAsAsked, Refused
<1>2. CASE sent.request # Refused
  <2>1. sent = RemoteSubmit(description, params)
    BY <1>2 DEF ParamInv
  <2>2. /\ Validated(description, NamesOf(params))
        /\ sent.request = [names |-> NamesOf(params),
                           chains |-> IF params.chains.set THEN ChainsOf(ns) ELSE <<>>]
    BY <1>2, <2>1 DEF RemoteSubmit
  <2>3. ns \in Seq(Int)
    BY DEF ParamInv, IsParams
  <2>4. sent.request.names = NamesOf(params) /\ (params.chains.set => sent.request.chains = ChainsOf(ns))
    BY <2>2
  <2> DEFINE cs == sent.request.chains
  <2>5. params.chains.set =>
          /\ {ToSet(cs[k]) : k \in DOMAIN cs}
               = {{i \in DOMAIN ns : ns[i] = n} : n \in {m \in ToSet(ns) : m >= 0}}
          /\ \A k \in DOMAIN cs : Len(cs[k]) = Cardinality(ToSet(cs[k]))
    <3> HIDE DEF cs, ns
    <3>1. params.chains.set => cs = ChainsOf(ns)
      BY <2>4 DEF cs
    <3> QED
      BY <2>3, <3>1, ChainsAsAsked
  <2>6. HasNames(description) => sent.request.names \subseteq ListedNames(description)
    BY <2>2, <2>4 DEF Validated
  <2> QED
    BY <2>5, <2>6 DEF RequestIsAsAsked
<1> QED
  BY <1>1, <1>2

\* Whatever the solver's description and the user's parameters are, a request
\* names no parameter that is not listed, and quantumParametersToJson sends the
\* classes of the qubits with the same number as the chains, each qubit once.
THEOREM AsAsked == ParamSpec => []RequestIsAsAsked
<1>1. ParamInit => ParamInv
  BY ParamInitInv
<1>2. ParamInv /\ [ParamNext]_paramVars => ParamInv'
  BY ParamNextInv
<1>3. ParamInv => RequestIsAsAsked
  BY AskedFromInv
<1> QED
  BY <1>1, <1>2, <1>3, PTL DEF ParamSpec

-----------------------------------------------------------------------------
(* The polynomial of a function of 0/1 variables *)

\* The coefficient that the function g gives the product of the variables in T.
CoefficientOf(g, T) == SumFunction([U \in SUBSET T |-> Parity(T \ U) * g[U]])

\* The sign changes with each member.
LEMMA ParityIs ==
  ASSUME NEW S, IsFiniteSet(S)
  PROVE  /\ Parity(S) \in Int
         /\ \A x : x \notin S => Parity(S \cup {x}) = -Parity(S)
<1>1. Cardinality(S) \in Nat
  BY FS_CardinalityType
<1>2. ASSUME NEW x, x \notin S PROVE Parity(S \cup {x}) = -Parity(S)
  <2>1. Cardinality(S \cup {x}) = Cardinality(S) + 1
    BY <1>2, FS_AddElement
  <2>2. \A n \in Nat : (n + 1) % 2 = 0 <=> n % 2 # 0
    OBVIOUS
  <2>3. Cardinality(S \cup {x}) % 2 = 0 <=> Cardinality(S) % 2 # 0
    BY <1>1, <2>1, <2>2
  <2> QED
    BY <2>3 DEF Parity
<1> QED
  BY <1>2 DEF Parity

\* What one more variable does to the coefficients.
Raised(S, x, g, gx) ==
  /\ x \notin S
  /\ \A T \in SUBSET (S \cup {x}) : g[T] \in Int
  /\ gx = [T \in SUBSET S |-> g[T \cup {x}]]

\* The coefficients with x and without add up to those of the function with x at 1.
LEMMA CoefficientStep ==
  ASSUME NEW S, IsFiniteSet(S), NEW x, NEW g, NEW gx, Raised(S, x, g, gx)
  PROVE  /\ CoefficientOf(g, S) \in Int /\ CoefficientOf(g, S \cup {x}) \in Int
         /\ CoefficientOf(g, S) + CoefficientOf(g, S \cup {x}) = CoefficientOf(gx, S)
<1> USE DEF Raised
<1> DEFINE a == [U \in SUBSET S |-> Parity(S \ U) * g[U]]
           b == [U \in SUBSET (S \cup {x}) |-> Parity((S \cup {x}) \ U) * g[U]]
           c == [U \in SUBSET S |-> Parity(S \ U) * gx[U]]
           k == [U \in SUBSET S |-> b[U] + b[U \cup {x}]]
<1>1. /\ CoefficientOf(g, S) = SumFunctionOnSet(a, SUBSET S)
      /\ CoefficientOf(g, S \cup {x}) = SumFunctionOnSet(b, SUBSET (S \cup {x}))
      /\ CoefficientOf(gx, S) = SumFunctionOnSet(c, SUBSET S)
  BY DEF CoefficientOf, SumFunction
<1>2. IsFiniteSet(S \cup {x})
  BY FS_AddElement
<1>3. IsFiniteSet(SUBSET S) /\ IsFiniteSet(SUBSET (S \cup {x}))
  BY <1>2, FS_SUBSET
<1>4. \A U \in SUBSET (S \cup {x}) : b[U] = Parity((S \cup {x}) \ U) * g[U] /\ b[U] \in Int
  <2> SUFFICES ASSUME NEW U \in SUBSET (S \cup {x}) PROVE b[U] \in Int
    OBVIOUS
  <2>1. IsFiniteSet((S \cup {x}) \ U)
    BY <1>2, FS_Subset
  <2>2. Parity((S \cup {x}) \ U) \in Int
    BY <2>1, ParityIs
  <2> QED
    BY <2>2
<1>5. \A U \in SUBSET S : a[U] = Parity(S \ U) * g[U] /\ c[U] = Parity(S \ U) * g[U \cup {x}]
  OBVIOUS
<1>6. \A U \in SUBSET S : /\ k[U] = b[U] + b[U \cup {x}] /\ a[U] \in Int /\ k[U] \in Int
                         /\ c[U] = a[U] + k[U]
  <2> SUFFICES ASSUME NEW U \in SUBSET S
               PROVE  /\ k[U] = b[U] + b[U \cup {x}] /\ a[U] \in Int /\ k[U] \in Int
                      /\ c[U] = a[U] + k[U]
    OBVIOUS
  <2>1. IsFiniteSet(S \ U) /\ x \notin S \ U
    BY FS_Subset
  <2>2. Parity(S \ U) \in Int /\ Parity((S \ U) \cup {x}) = -Parity(S \ U)
    BY <2>1, ParityIs
  <2>3. (S \cup {x}) \ U = (S \ U) \cup {x} /\ (S \cup {x}) \ (U \cup {x}) = S \ U
    OBVIOUS
  <2>4. U \in SUBSET (S \cup {x}) /\ U \cup {x} \in SUBSET (S \cup {x})
    OBVIOUS
  <2>5. g[U] \in Int /\ g[U \cup {x}] \in Int
    BY <2>4
  <2>6. b[U] = (-Parity(S \ U)) * g[U] /\ b[U \cup {x}] = Parity(S \ U) * g[U \cup {x}]
    BY <1>4, <2>2, <2>3, <2>4
  <2>7. k[U] = b[U] + b[U \cup {x}]
    OBVIOUS
  <2> HIDE DEF a, b, c, k
  <2>8. \A p, q, r \in Int : p * q + ((-p) * q + p * r) = p * r /\ (-p) * q + p * r \in Int /\ p * q \in Int
    OBVIOUS
  <2>9. a[U] = Parity(S \ U) * g[U] /\ c[U] = Parity(S \ U) * g[U \cup {x}]
    BY <1>5
  <2> DEFINE p == Parity(S \ U)
             q == g[U]
             r == g[U \cup {x}]
  <2>10. p \in Int /\ q \in Int /\ r \in Int
    BY <2>2, <2>5
  <2>11. k[U] = (-p) * q + p * r /\ a[U] = p * q /\ c[U] = p * r
    BY <2>6, <2>7, <2>9
  <2> HIDE DEF p, q, r
  <2> QED
    BY <2>7, <2>8, <2>10, <2>11
<1> HIDE DEF a, b, c, k
<1>7. Whole(a, SUBSET S) /\ Whole(k, SUBSET S) /\ Whole(b, SUBSET (S \cup {x}))
  BY <1>4, <1>6 DEF Whole
<1>8. SumFunctionOnSet(b, SUBSET (S \cup {x})) = SumFunctionOnSet(k, SUBSET S)
  <2>1. Beside(S, x, b, k)
    BY <1>6, <1>7 DEF Beside
  <2> QED
    BY <2>1, SumSubsets
<1>9. SumFunctionOnSet(c, SUBSET S) = SumFunctionOnSet(a, SUBSET S) + SumFunctionOnSet(k, SUBSET S)
  <2> DEFINE P == SUBSET S
  <2>1. IsFiniteSet(P) /\ Whole(a, P) /\ Whole(k, P) /\ \A U \in P : c[U] = a[U] + k[U]
    BY <1>3, <1>6, <1>7
  <2> HIDE DEF P
  <2>2. SumFunctionOnSet(c, P) = SumFunctionOnSet(a, P) + SumFunctionOnSet(k, P)
    BY <2>1, SumPlus
  <2> QED
    BY <2>2 DEF P
<1>10. SumFunctionOnSet(a, SUBSET S) \in Int /\ SumFunctionOnSet(b, SUBSET (S \cup {x})) \in Int
  BY <1>3, <1>7, SumType
<1> QED
  BY <1>1, <1>8, <1>9, <1>10

\* The coefficients of a function add up to it: those of the terms of which all
\* variables are 1.
LEMMA CoefficientsAddUp ==
  ASSUME NEW S, IsFiniteSet(S), NEW g, \A U \in SUBSET S : g[U] \in Int
  PROVE  SumFunctionOnSet([T \in SUBSET S |-> CoefficientOf(g, T)], SUBSET S) = g[S]
<1> DEFINE coefs(T, h) == [U \in SUBSET T |-> CoefficientOf(h, U)]
           A == {T \in SUBSET S : \A h : (\A U \in SUBSET T : h[U] \in Int) =>
                   SumFunctionOnSet(coefs(T, h), SUBSET T) = h[T]}
<1>1. {} \in A
  <2> SUFFICES ASSUME NEW h, \A U \in SUBSET {} : h[U] \in Int
               PROVE  SumFunctionOnSet(coefs({}, h), SUBSET {}) = h[{}]
    OBVIOUS
  <2> DEFINE a == [U \in SUBSET {} |-> Parity({} \ U) * h[U]]
             b == coefs({}, h)
  <2>1. SUBSET {} = {{}} /\ h[{}] \in Int
    OBVIOUS
  <2>2. a[{}] = Parity({}) * h[{}] /\ b[{}] = CoefficientOf(h, {})
    OBVIOUS
  <2>3. Parity({}) = 1
    <3>1. Cardinality({}) = 0
      BY FS_EmptySet
    <3> QED
      BY <3>1 DEF Parity
  <2>4. CoefficientOf(h, {}) = SumFunctionOnSet(a, {{}})
    BY <2>1 DEF CoefficientOf, SumFunction
  <2> HIDE DEF a, b
  <2>5. a[{}] = h[{}]
    BY <2>1, <2>2, <2>3
  <2>6. SumFunctionOnSet(a, {{}}) = h[{}]
    BY <2>1, <2>5, SumOne
  <2>7. SumFunctionOnSet(b, {{}}) = h[{}]
    BY <2>1, <2>2, <2>4, <2>6, SumOne
  <2> QED
    BY <2>1, <2>7 DEF b
<1>2. ASSUME NEW T \in SUBSET S, NEW x \in S \ T, T \in A PROVE T \cup {x} \in A
  <2> SUFFICES ASSUME NEW h, \A U \in SUBSET (T \cup {x}) : h[U] \in Int
               PROVE  SumFunctionOnSet(coefs(T \cup {x}, h), SUBSET (T \cup {x})) = h[T \cup {x}]
    OBVIOUS
  <2> DEFINE hx == [U \in SUBSET T |-> h[U \cup {x}]]
             b == coefs(T \cup {x}, h)
             k == coefs(T, hx)
  <2>1. IsFiniteSet(T) /\ x \notin T
    BY FS_Subset
  <2>2. SumFunctionOnSet(k, SUBSET T) = hx[T]
    <3>1. \A U \in SUBSET T : hx[U] \in Int
      OBVIOUS
    <3> HIDE DEF hx
    <3> QED
      BY <1>2, <3>1
  <2>3. hx[T] = h[T \cup {x}]
    OBVIOUS
  <2>4. \A U \in SUBSET T : /\ CoefficientOf(h, U) \in Int /\ CoefficientOf(h, U \cup {x}) \in Int
                          /\ CoefficientOf(h, U) + CoefficientOf(h, U \cup {x}) = CoefficientOf(hx, U)
    <3> SUFFICES ASSUME NEW U \in SUBSET T
                 PROVE  /\ CoefficientOf(h, U) \in Int /\ CoefficientOf(h, U \cup {x}) \in Int
                        /\ CoefficientOf(h, U) + CoefficientOf(h, U \cup {x}) = CoefficientOf(hx, U)
      OBVIOUS
    <3> DEFINE hu == [V \in SUBSET U |-> h[V \cup {x}]]
               p == [V \in SUBSET U |-> Parity(U \ V) * hu[V]]
               q == [V \in SUBSET U |-> Parity(U \ V) * hx[V]]
    <3>1. IsFiniteSet(U) /\ x \notin U /\ \A V \in SUBSET (U \cup {x}) : h[V] \in Int
      BY <2>1, FS_Subset
    <3>2. p = q
      OBVIOUS
    <3>3. CoefficientOf(hu, U) = CoefficientOf(hx, U)
      BY <3>2 DEF CoefficientOf
    <3>e. hu = [V \in SUBSET U |-> h[V \cup {x}]]
      OBVIOUS
    <3> HIDE DEF hu, hx, p, q
    <3>4. /\ CoefficientOf(h, U) \in Int /\ CoefficientOf(h, U \cup {x}) \in Int
          /\ CoefficientOf(h, U) + CoefficientOf(h, U \cup {x}) = CoefficientOf(hu, U)
      <4>1. Raised(U, x, h, hu)
        BY <3>1, <3>e DEF Raised
      <4> QED
        BY <3>1, <4>1, CoefficientStep
    <3> QED
      BY <3>3, <3>4
  <2>5. /\ \A U \in SUBSET (T \cup {x}) : b[U] = CoefficientOf(h, U)
        /\ \A U \in SUBSET T : k[U] = CoefficientOf(hx, U)
    OBVIOUS
  <2> HIDE DEF b, k, hx
  <2>6. \A U \in SUBSET T : /\ b[U] \in Int /\ b[U \cup {x}] \in Int /\ k[U] = b[U] + b[U \cup {x}]
    <3>1. \A U \in SUBSET T : U \in SUBSET (T \cup {x}) /\ U \cup {x} \in SUBSET (T \cup {x})
      OBVIOUS
    <3> QED
      BY <2>4, <2>5, <3>1
  <2>7. \A U \in SUBSET (T \cup {x}) : b[U] \in Int
    <3> SUFFICES ASSUME NEW U \in SUBSET (T \cup {x}) PROVE b[U] \in Int
      OBVIOUS
    <3>1. U \in SUBSET T \/ (U \ {x} \in SUBSET T /\ (U \ {x}) \cup {x} = U)
      OBVIOUS
    <3> QED
      BY <2>6, <3>1
  <2>8. SumFunctionOnSet(b, SUBSET (T \cup {x})) = SumFunctionOnSet(k, SUBSET T)
    <3>1. Whole(b, SUBSET (T \cup {x}))
      BY <2>7 DEF Whole
    <3>2. Beside(T, x, b, k)
      BY <2>1, <2>6, <3>1 DEF Beside
    <3> QED
      BY <2>1, <3>2, SumSubsets
  <2> QED
    BY <2>2, <2>3, <2>8 DEF b
<1>3. S \in A
  <2> HIDE DEF A
  <2> QED
    BY <1>1, <1>2, InductiveFamily
<1> QED
  BY <1>3

-----------------------------------------------------------------------------
(* Reducing the degree *)

\* What the loop keeps: an ancillary variable is none of the function's, and
\* where each is the product it stands for a term is 1 when what it has become is.
PolyInv ==
  /\ f \in Tables /\ pw \in Nat
  /\ Terms = {S \in SUBSET Originals : Coefficient(S) # 0}
  /\ mapping \in Seq(Nat \X Nat \X Nat)
  /\ MaxVar \in Nat /\ \A v \in UNION Terms : v <= MaxVar
  /\ Ancillas \cap UNION Terms = {}
  /\ \A ones : Consistent(ones) => \A S \in Terms : newTerms[S] \subseteq ones <=> S \subseteq ones

\* A finite set of numbers has its Max.
LEMMA MaxIs ==
  ASSUME NEW S, S \in SUBSET Int, IsFiniteSet(S), S # {}
  PROVE  Max(S) \in S /\ \A y \in S : y <= Max(S)
<1> DEFINE e == [x \in S |-> x]
<1>1. \A x \in S : e[x] = x /\ e[x] \in Int
  OBVIOUS
<1> HIDE DEF e
<1>2. \E x \in S : \A y \in S : e[y] <= e[x]
  BY <1>1, LargestExists
<1>3. \E x \in S : \A y \in S : x >= y
  BY <1>1, <1>2
<1>4. Max(S) \in S /\ \A y \in S : Max(S) >= y
  BY <1>3 DEF Max
<1> QED
  BY <1>4

\* There are finitely many variables.
LEMMA OriginalsFinite ==
  IsFiniteSet(Originals) /\ IsFiniteSet(SUBSET Originals) /\ Originals \subseteq Nat
<1>1. IsFiniteSet(Originals)
  BY PolyAssumption, FS_Interval DEF Originals
<1>2. IsFiniteSet(SUBSET Originals)
  BY <1>1, FS_SUBSET
<1>3. Originals \subseteq Nat
  BY PolyAssumption DEF Originals
<1> QED
  BY <1>1, <1>2, <1>3

\* At the start there is no ancillary variable.
LEMMA PolyStart ==
  ASSUME PolyInit
  PROVE  PolyInv
<1> USE DEF PolyInit
<1>1. f \in Tables /\ mapping = <<>> /\ Terms = {S \in SUBSET Originals : Coefficient(S) # 0}
  BY DEF Terms
<1>2. \A S \in Terms : newTerms[S] = S
  BY DEF Terms
<1>3. UNION Terms \subseteq Originals
  BY <1>1
<1>4. MaxVar \in Nat /\ \A v \in UNION Terms : v <= MaxVar
  <2> DEFINE U == UNION Terms
             V == {0} \cup U
  <2>1. U \in SUBSET Nat /\ IsFiniteSet(U)
    BY <1>3, OriginalsFinite, FS_Subset
  <2>2. MaxVar = Max(V)
    BY <1>1 DEF MaxVar
  <2> HIDE DEF U
  <2>3. V \in SUBSET Nat /\ V \in SUBSET Int /\ V # {} /\ \A v \in U : v \in V
    BY <2>1
  <2>4. IsFiniteSet(V)
    <3>1. IsFiniteSet(U \cup {0})
      BY <2>1, FS_AddElement
    <3>2. V = U \cup {0}
      OBVIOUS
    <3> QED
      BY <3>1, <3>2
  <2> HIDE DEF V
  <2>5. Max(V) \in V /\ \A v \in V : v <= Max(V)
    BY <2>3, <2>4, MaxIs
  <2>6. MaxVar \in Nat /\ \A v \in U : v <= MaxVar
    BY <2>2, <2>3, <2>5
  <2> QED
    BY <2>6 DEF U
<1>5. Ancillas = {}
  BY <1>1 DEF Ancillas
<1>6. mapping \in Seq(Nat \X Nat \X Nat)
  BY <1>1
<1> QED
  BY <1>1, <1>2, <1>4, <1>5, <1>6 DEF PolyInv

\* The coefficients are those of the function given.
LEMMA SameCoefficients ==
  ASSUME f' = f
  PROVE  \A S : Coefficient(S)' = Coefficient(S)
BY DEF Coefficient

\* The new ancillary variable is the next number after the largest.
LEMMA ReduceDegreeStep ==
  ASSUME PolyInv, ReduceDegree
  PROVE  PolyInv'
<1>1. PICK x \in 0 .. MaxVar, y \in 0 .. MaxVar :
        /\ newTerms' = Replace(x, y, MaxVar + 1)
        /\ mapping' = Append(mapping, <<MaxVar + 1, x, y>>)
        /\ f' = f /\ pw' = pw
  BY DEF ReduceDegree
<1> DEFINE a == MaxVar + 1
<1>2. MaxVar \in Nat /\ mapping \in Seq(Nat \X Nat \X Nat) /\ <<a, x, y>> \in Nat \X Nat \X Nat
  BY DEF PolyInv
<1>3. /\ mapping' \in Seq(Nat \X Nat \X Nat) /\ Len(mapping) \in Nat
      /\ DOMAIN mapping = 1 .. Len(mapping) /\ DOMAIN mapping' = 1 .. Len(mapping) + 1
      /\ Len(mapping') = Len(mapping) + 1
      /\ mapping'[Len(mapping) + 1] = <<a, x, y>>
      /\ \A k \in 1 .. Len(mapping) : mapping'[k] = mapping[k] /\ k \in 1 .. Len(mapping) + 1
      /\ Len(mapping) + 1 \in 1 .. Len(mapping) + 1
      /\ \A k \in 1 .. Len(mapping) + 1 : k \in 1 .. Len(mapping) \/ k = Len(mapping) + 1
  <2> DEFINE N == Nat \X Nat \X Nat
             e == <<a, x, y>>
  <2>1. mapping \in Seq(N) /\ e \in N /\ mapping' = Append(mapping, e)
    BY <1>1, <1>2
  <2> HIDE DEF N, e
  <2>2. /\ Append(mapping, e) \in Seq(N) /\ Len(mapping) \in Nat
        /\ DOMAIN mapping = 1 .. Len(mapping) /\ DOMAIN Append(mapping, e) = 1 .. Len(mapping) + 1
        /\ Len(Append(mapping, e)) = Len(mapping) + 1
        /\ Append(mapping, e)[Len(mapping) + 1] = e
        /\ \A k \in 1 .. Len(mapping) : Append(mapping, e)[k] = mapping[k]
    BY <2>1
  <2>3. /\ \A k \in 1 .. Len(mapping) : k \in 1 .. Len(mapping) + 1
        /\ Len(mapping) + 1 \in 1 .. Len(mapping) + 1
        /\ \A k \in 1 .. Len(mapping) + 1 : k \in 1 .. Len(mapping) \/ k = Len(mapping) + 1
    BY <2>2
  <2>4. e = <<a, x, y>> /\ mapping' \in Seq(Nat \X Nat \X Nat)
    BY <2>1, <2>2 DEF N, e
  <2> QED
    BY <2>1, <2>2, <2>3, <2>4
<1>4. Terms' = Terms
  BY <1>1 DEF Terms, Replace
<1>5. MaxVar' = a
  <2>1. mapping' # <<>>
    BY <1>3
  <2>2. MaxVar' = mapping'[Len(mapping')][1]
    BY <2>1 DEF MaxVar
  <2> QED
    BY <1>3, <2>2
<1>6. Ancillas' = Ancillas \cup {a}
  <2> DEFINE n == Len(mapping)
             old == [k \in 1 .. n |-> mapping[k][1]]
             new == [k \in 1 .. n + 1 |-> mapping'[k][1]]
  <2>1. Ancillas' = {new[k] : k \in 1 .. n + 1}
    BY <1>3 DEF Ancillas
  <2>2. Ancillas = {old[k] : k \in 1 .. n}
    BY <1>3 DEF Ancillas
  <2>3. \A k \in 1 .. n : new[k] = old[k]
    BY <1>3
  <2>4. new[n + 1] = a
    BY <1>3
  <2>5. /\ \A k \in 1 .. n : k \in 1 .. n + 1
        /\ n + 1 \in 1 .. n + 1
        /\ \A k \in 1 .. n + 1 : k \in 1 .. n \/ k = n + 1
    BY <1>3
  <2> HIDE DEF a, n, old, new
  <2> QED
    BY <2>1, <2>2, <2>3, <2>4, <2>5
<1>7. ASSUME NEW ones, Consistent(ones)' PROVE \A S \in Terms : newTerms'[S] \subseteq ones <=> S \subseteq ones
  <2> DEFINE Product(m) == m[1] \in ones <=> {m[2], m[3]} \subseteq ones
  <2>1. \A k \in 1 .. Len(mapping) + 1 : Product(mapping'[k])
    BY <1>3, <1>7 DEF Consistent
  <2>2. Consistent(ones)
    <3>1. \A k \in 1 .. Len(mapping) : Product(mapping[k])
      <4> HIDE DEF Product
      <4> QED
        BY <1>3, <2>1
    <3> QED
      BY <1>3, <3>1 DEF Consistent
  <2>3. a \in ones <=> {x, y} \subseteq ones
    <3>1. Product(<<a, x, y>>)
      <4> HIDE DEF Product, a
      <4> QED
        BY <1>3, <2>1
    <3> HIDE DEF a
    <3> QED
      BY <3>1
  <2> SUFFICES ASSUME NEW S \in Terms PROVE newTerms'[S] \subseteq ones <=> S \subseteq ones
    OBVIOUS
  <2>4. newTerms[S] \subseteq ones <=> S \subseteq ones
    BY <2>2 DEF PolyInv
  <2>5. CASE S \in PairBelongsTo(x, y)
    <3>1. (newTerms')[S] = (newTerms[S] \ {x, y}) \cup {a}
      BY <1>1, <2>5 DEF Replace
    <3>2. {x, y} \subseteq newTerms[S]
      BY <2>5 DEF PairBelongsTo
    <3> HIDE DEF a
    <3> QED
      BY <2>3, <2>4, <3>1, <3>2
  <2>6. CASE S \notin PairBelongsTo(x, y)
    BY <1>1, <2>4, <2>6 DEF Replace
  <2> QED
    BY <2>5, <2>6
<1>8. \A v \in UNION Terms : v \in Nat /\ v <= MaxVar /\ v # a /\ v <= a
  <2>1. UNION Terms \subseteq Nat
    <3>1. UNION Terms \subseteq Originals
      BY DEF PolyInv
    <3> QED
      BY <3>1, OriginalsFinite
  <2>2. \A v \in UNION Terms : v \in Nat /\ v <= MaxVar
    BY <2>1 DEF PolyInv
  <2> SUFFICES ASSUME NEW v \in UNION Terms PROVE v \in Nat /\ v <= MaxVar /\ v # a /\ v <= a
    OBVIOUS
  <2>3. v \in Nat /\ v <= MaxVar
    BY <2>2
  <2> QED
    BY <1>2, <2>3
<1>9. (\A S : Coefficient(S)' = Coefficient(S)) /\ f' \in Tables /\ pw' \in Nat
  BY <1>1, SameCoefficients DEF PolyInv
<1>10. Ancillas' \cap (UNION Terms)' = {}
  BY <1>4, <1>6, <1>8 DEF PolyInv
<1>11. (Terms = {S \in SUBSET Originals : Coefficient(S) # 0})'
  BY <1>4, <1>9 DEF PolyInv
<1>12. MaxVar' \in Nat /\ \A v \in UNION Terms' : v <= MaxVar'
  BY <1>2, <1>4, <1>5, <1>8
<1>13. (\A ones : Consistent(ones) => \A S \in Terms : newTerms[S] \subseteq ones <=> S \subseteq ones)'
  BY <1>4, <1>7
<1> HIDE DEF a
<1> QED
  BY <1>3, <1>9, <1>10, <1>11, <1>12, <1>13 DEF PolyInv

-----------------------------------------------------------------------------
(* What the result is worth *)

\* Coefficient is CoefficientOf for the function given.
LEMMA CoefficientIs ==
  ASSUME f \in Tables, NEW S \in SUBSET Originals
  PROVE  Coefficient(S) = CoefficientOf(f, S) /\ Coefficient(S) \in Int
<1> DEFINE c == [T \in SUBSET S |-> Parity(S \ T) * f[T]]
<1>1. Coefficient(S) = CoefficientOf(f, S) /\ Coefficient(S) = SumFunctionOnSet(c, SUBSET S)
  BY DEF Coefficient, CoefficientOf, SumFunction
<1>2. IsFiniteSet(S) /\ IsFiniteSet(SUBSET S)
  BY OriginalsFinite, FS_Subset, FS_SUBSET
<1>3. \A T \in SUBSET S : c[T] \in Int
  <2> SUFFICES ASSUME NEW T \in SUBSET S PROVE c[T] \in Int
    OBVIOUS
  <2>1. IsFiniteSet(S \ T)
    BY <1>2, FS_Subset
  <2>2. Parity(S \ T) \in Int
    BY <2>1, ParityIs
  <2>3. T \in SUBSET Originals
    OBVIOUS
  <2>4. f[T] \in Int
    BY <2>3, PolyAssumption
  <2>5. c[T] = Parity(S \ T) * f[T]
    OBVIOUS
  <2> HIDE DEF c
  <2>6. \A m, n \in Int : m * n \in Int
    OBVIOUS
  <2> QED
    BY <2>2, <2>4, <2>5, <2>6
<1> HIDE DEF c
<1>4. SumFunctionOnSet(c, SUBSET S) \in Int
  <2>1. Whole(c, SUBSET S)
    BY <1>3 DEF Whole
  <2> QED
    BY <1>2, <2>1, SumType
<1> QED
  BY <1>1, <1>4

\* The terms are those with a coefficient.
LEMMA TermsAre ==
  ASSUME PolyInv
  PROVE  /\ f \in Tables /\ IsFiniteSet(Terms) /\ Terms \in SUBSET SUBSET Originals
         /\ \A S \in Terms : Coefficient(S) \in Int
         /\ \A S \in SUBSET Originals : S \notin Terms => Coefficient(S) = 0
<1>1. f \in Tables /\ Terms = {S \in SUBSET Originals : Coefficient(S) # 0}
  BY DEF PolyInv
<1>2. Terms \in SUBSET SUBSET Originals
  BY <1>1
<1>3. IsFiniteSet(Terms)
  BY <1>2, OriginalsFinite, FS_Subset
<1>4. \A S \in Terms : Coefficient(S) \in Int
  BY <1>1, <1>2, CoefficientIs
<1> QED
  BY <1>1, <1>2, <1>3, <1>4

\* The terms that are 1 add up to the function.
TermsWithin(O) == [S \in Terms |-> IF S \subseteq O THEN Coefficient(S) ELSE 0]
\* They add up to the function, whatever the variables in O.
LEMMA TermsAddUp ==
  ASSUME PolyInv, NEW O \in SUBSET Originals
  PROVE  SumFunctionOnSet(TermsWithin(O), Terms) = f[O] /\ f[O] \in Int
<1> DEFINE c == [T \in SUBSET O |-> CoefficientOf(f, T)]
           w == TermsWithin(O)
           R == {S \in Terms : S \subseteq O}
<1>1. IsFiniteSet(O) /\ IsFiniteSet(SUBSET O)
  BY OriginalsFinite, FS_Subset, FS_SUBSET
<1>2. \A U \in SUBSET O : f[U] \in Int
  BY TermsAre, PolyAssumption
<1>3. SumFunctionOnSet(c, SUBSET O) = f[O]
  BY <1>1, <1>2, CoefficientsAddUp
<1>4. R \in SUBSET Terms /\ R \in SUBSET SUBSET O
  OBVIOUS
<1>5. \A S \in SUBSET O : c[S] = Coefficient(S)
  <2> SUFFICES ASSUME NEW S \in SUBSET O PROVE CoefficientOf(f, S) = Coefficient(S)
    OBVIOUS
  <2>1. S \in SUBSET Originals
    OBVIOUS
  <2> QED
    BY <2>1, TermsAre, CoefficientIs
<1>6. /\ \A S \in R : w[S] = Coefficient(S)
      /\ \A S \in Terms \ R : w[S] = 0
  BY DEF TermsWithin
<1>7. \A S \in SUBSET O : S \in R \/ S \notin Terms
  OBVIOUS
<1> HIDE DEF c, w, R
<1>8. \A S \in (SUBSET O) \ R : c[S] = 0
  <2> SUFFICES ASSUME NEW S \in SUBSET O, S \notin R PROVE c[S] = 0
    OBVIOUS
  <2>1. S \in SUBSET Originals /\ S \notin Terms
    BY <1>7
  <2>2. Coefficient(S) = 0
    BY <2>1, TermsAre
  <2> QED
    BY <1>5, <2>2
<1>9. \A S \in R : c[S] = w[S] /\ w[S] \in Int
  BY <1>4, <1>5, <1>6, TermsAre
<1>10. IsFiniteSet(R) /\ Whole(c, R) /\ Whole(w, R)
  <2>1. IsFiniteSet(R)
    BY <1>4, TermsAre, FS_Subset
  <2> QED
    BY <1>9, <2>1 DEF Whole
<1>11. SumFunctionOnSet(w, Terms) = SumFunctionOnSet(w, R)
  BY <1>4, <1>6, <1>10, TermsAre, SumSupport
<1>12. SumFunctionOnSet(c, SUBSET O) = SumFunctionOnSet(c, R)
  BY <1>1, <1>4, <1>8, <1>10, SumSupport
<1>13. SumFunctionOnSet(c, R) = SumFunctionOnSet(w, R)
  BY <1>9, <1>10, SumEqual
<1> QED
  BY <1>2, <1>3, <1>11, <1>12, <1>13 DEF w

\* Terms that have become equal count once each.
NewWithin(ones) == [S \in Terms |-> IF newTerms[S] \subseteq ones THEN Coefficient(S) ELSE 0]
\* So that what they have become adds up to what they are worth now.
LEMMA ReducedAddUp ==
  ASSUME PolyInv, NEW ones
  PROVE  /\ SumFunction([T \in NewTerms |-> IF T \subseteq ones THEN Reduced(T) ELSE 0])
              = SumFunctionOnSet(NewWithin(ones), Terms)
         /\ Whole(NewWithin(ones), Terms)
<1> DEFINE w == NewWithin(ones)
           per == [T \in NewTerms |-> IF T \subseteq ones THEN Reduced(T) ELSE 0]
<1>1. \A S \in Terms : w[S] = (IF newTerms[S] \subseteq ones THEN Coefficient(S) ELSE 0) /\ w[S] \in Int
  BY TermsAre DEF NewWithin
<1>2. SumFunction(per) = SumFunctionOnSet(per, NewTerms)
  BY DEF SumFunction
<1>3. \A T \in NewTerms : per[T] = (IF T \subseteq ones THEN Reduced(T) ELSE 0)
  OBVIOUS
<1> HIDE DEF w, per
<1>4. \A T \in NewTerms : per[T] = SumFunctionOnSet(w, {S \in Terms : newTerms[S] = T})
  <2> SUFFICES ASSUME NEW T \in NewTerms PROVE per[T] = SumFunctionOnSet(w, {S \in Terms : newTerms[S] = T})
    OBVIOUS
  <2> DEFINE R == {S \in Terms : newTerms[S] = T}
             c == [S \in {S \in Terms : newTerms[S] = T} |-> Coefficient(S)]
  <2>1. R \in SUBSET Terms
    OBVIOUS
  <2>2. Reduced(T) = SumFunctionOnSet(c, R)
    BY DEF Reduced, SumFunction
  <2>3. \A S \in R : c[S] = Coefficient(S) /\ newTerms[S] = T
    OBVIOUS
  <2> HIDE DEF R, c
  <2>4. IsFiniteSet(R)
    BY <2>1, TermsAre, FS_Subset
  <2>5. CASE T \subseteq ones
    <3>1. \A S \in R : c[S] = w[S] /\ c[S] \in Int
      BY <1>1, <2>1, <2>3, <2>5
    <3>2. Whole(c, R)
      BY <3>1 DEF Whole
    <3>3. SumFunctionOnSet(c, R) = SumFunctionOnSet(w, R)
      BY <2>4, <3>1, <3>2, SumEqual
    <3> QED
      BY <1>3, <2>2, <2>5, <3>3 DEF R
  <2>6. CASE ~ (T \subseteq ones)
    <3>1. \A S \in R : w[S] = 0
      BY <1>1, <2>1, <2>3, <2>6
    <3>2. SumFunctionOnSet(w, R) = 0
      BY <2>4, <3>1, SumZero
    <3> QED
      BY <1>3, <2>6, <3>2 DEF R
  <2> QED
    BY <2>5, <2>6
<1>5. Whole(w, Terms)
  BY <1>1 DEF Whole
<1>6. Grouped(Terms, newTerms, NewTerms, w, per)
  BY <1>4 DEF Grouped, NewTerms
<1>7. SumFunctionOnSet(per, NewTerms) = SumFunctionOnSet(w, Terms)
  BY <1>5, <1>6, TermsAre, SumGrouped
<1> QED
  BY <1>2, <1>5, <1>7 DEF w, per

\* The penalty weight is a number, and not negative.
LEMMA WeightIs ==
  ASSUME PolyInv
  PROVE  DefaultWeight \in Nat
<1> DEFINE P == {T \in NewTerms : Cardinality(T) = 2}
           e == [T \in P |-> Abs(Reduced(T))]
           U == {Abs(Reduced(T)) : T \in P}
           V == {0} \cup U
<1>1. IsFiniteSet(U)
  <2>1. IsFiniteSet(NewTerms)
    BY TermsAre, ImageFinite DEF NewTerms
  <2>2. IsFiniteSet(P)
    BY <2>1, FS_Subset
  <2>3. U = {e[T] : T \in P}
    OBVIOUS
  <2> HIDE DEF P, e
  <2> QED
    BY <2>2, <2>3, ImageFinite
<1>2. U \in SUBSET Int
  <2>1. \A T \in NewTerms : Reduced(T) \in Int
    <3> SUFFICES ASSUME NEW T \in NewTerms PROVE Reduced(T) \in Int
      OBVIOUS
    <3> DEFINE R == {S \in Terms : newTerms[S] = T}
               c == [S \in {S \in Terms : newTerms[S] = T} |-> Coefficient(S)]
    <3>1. Reduced(T) = SumFunctionOnSet(c, R)
      BY DEF Reduced, SumFunction
    <3>2. \A S \in R : c[S] \in Int
      BY TermsAre
    <3>3. R \in SUBSET Terms
      OBVIOUS
    <3> HIDE DEF R, c
    <3>4. IsFiniteSet(R) /\ Whole(c, R)
      BY <3>2, <3>3, TermsAre, FS_Subset DEF Whole
    <3> QED
      BY <3>1, <3>4, SumType
  <2>2. \A n \in Int : Abs(n) \in Int
    BY DEF Abs
  <2> QED
    BY <2>1, <2>2
<1>3. LargestPair = Max(V)
  BY DEF LargestPair
<1> HIDE DEF U
<1>4. IsFiniteSet(V)
  <2>1. IsFiniteSet(U \cup {0})
    BY <1>1, FS_AddElement
  <2>2. V = U \cup {0}
    OBVIOUS
  <2> QED
    BY <2>1, <2>2
<1>5. V \in SUBSET Int /\ V # {} /\ 0 \in V
  BY <1>2
<1> HIDE DEF V
<1>6. LargestPair \in Int /\ 0 <= LargestPair
  BY <1>3, <1>4, <1>5, MaxIs
<1> QED
  BY <1>6 DEF DefaultWeight

\* Every step keeps PolyInv.
LEMMA PolyStep ==
  ASSUME PolyInv, [PolyNext]_polyVars
  PROVE  PolyInv'
<1>1. CASE ReduceDegree
  BY <1>1, ReduceDegreeStep
<1>2. CASE (UNCHANGED <<f, newTerms, mapping>>) /\ (MakeQuadratic \/ pw' = pw)
  <2>1. f' = f /\ newTerms' = newTerms /\ mapping' = mapping
    BY <1>2
  <2>2. Terms' = Terms /\ Ancillas' = Ancillas
    BY <2>1 DEF Terms, Ancillas
  <2>3. MaxVar' = MaxVar
    BY <2>1, <2>2 DEF MaxVar
  <2>4. \A S : Coefficient(S)' = Coefficient(S)
    BY <2>1, SameCoefficients
  <2>5. \A ones : Consistent(ones)' <=> Consistent(ones)
    BY <2>1 DEF Consistent
  <2>6. pw' \in Nat
    BY <1>2, WeightIs, PolyAssumption DEF MakeQuadratic, PolyInv
  <2> QED
    BY <2>1, <2>2, <2>3, <2>4, <2>5, <2>6 DEF PolyInv
<1> QED
  BY <1>1, <1>2 DEF PolyNext, MakeQuadratic, polyVars

\* A replacement costs nothing where its ancillary variable is the product of
\* its pair, and the weight at least where it is not.
LEMMA PenaltyIs ==
  ASSUME PolyInv, NEW m, NEW ones
  PROVE  /\ Penalty(m, ones) \in Int /\ Penalty(m, ones) >= 0
         /\ (m[1] \in ones <=> {m[2], m[3]} \subseteq ones) => Penalty(m, ones) = 0
         /\ ~ (m[1] \in ones <=> {m[2], m[3]} \subseteq ones) => Penalty(m, ones) >= pw
<1> DEFINE bit(x) == IF x \in ones THEN 1 ELSE 0
           a == bit(m[1])
           x == bit(m[2])
           y == bit(m[3])
           w == pw
<1>1. Penalty(m, ones) = w * (3 * a + x * y - 2 * a * x - 2 * a * y)
  BY DEF Penalty
<1>2. w \in Nat
  BY DEF PolyInv
<1>3. /\ a \in {0, 1} /\ x \in {0, 1} /\ y \in {0, 1}
      /\ m[1] \in ones <=> a = 1
      /\ {m[2], m[3]} \subseteq ones <=> x = 1 /\ y = 1
  OBVIOUS
<1> HIDE DEF a, x, y, w
<1>4. /\ (a = 1 <=> x = 1 /\ y = 1) => 3 * a + x * y - 2 * a * x - 2 * a * y = 0
      /\ ~ (a = 1 <=> x = 1 /\ y = 1) => 3 * a + x * y - 2 * a * x - 2 * a * y \in {1, 3}
  BY <1>3
<1>5. w * 0 = 0 /\ w * 1 = w /\ w * 3 >= w /\ w * 3 \in Int /\ w >= 0
  BY <1>2
<1> QED
  BY <1>1, <1>2, <1>3, <1>4, <1>5 DEF w

\* The penalties together.
Penalties(ones) == [k \in DOMAIN mapping |-> Penalty(mapping[k], ones)]
\* They come to nothing, or to the weight at least.
LEMMA PenaltiesAre ==
  ASSUME PolyInv, NEW ones
  PROVE  /\ Consistent(ones) => SumFunction(Penalties(ones)) = 0
         /\ ~ Consistent(ones) => SumFunction(Penalties(ones)) \in Int
                                /\ SumFunction(Penalties(ones)) >= pw
<1> DEFINE D == DOMAIN mapping
           p == Penalties(ones)
<1>1. IsFiniteSet(D)
  <2>1. D = 1 .. Len(mapping) /\ Len(mapping) \in Nat
    BY DEF PolyInv
  <2> QED
    BY <2>1, FS_Interval
<1>2. SumFunction(p) = SumFunctionOnSet(p, D)
  BY DEF SumFunction, Penalties
<1>3. \A k \in D : p[k] = Penalty(mapping[k], ones)
  BY DEF Penalties
<1> HIDE DEF p, D
<1>4. \A k \in D : p[k] \in Int /\ p[k] >= 0
  BY <1>3, PenaltyIs
<1>5. Whole(p, D)
  BY <1>4 DEF Whole
<1>6. ASSUME Consistent(ones) PROVE SumFunctionOnSet(p, D) = 0
  <2>1. \A k \in D : p[k] = 0
    BY <1>3, <1>6, PenaltyIs DEF Consistent, D
  <2> QED
    BY <1>1, <2>1, SumZero
<1>7. ASSUME ~ Consistent(ones) PROVE SumFunctionOnSet(p, D) \in Int /\ SumFunctionOnSet(p, D) >= pw
  <2>1. PICK k \in D : ~ (mapping[k][1] \in ones <=> {mapping[k][2], mapping[k][3]} \subseteq ones)
    BY <1>7 DEF Consistent, D
  <2>2. p[k] >= pw
    BY <1>3, <2>1, PenaltyIs
  <2>3. SumFunctionOnSet(p, D) = p[k] + SumFunctionOnSet(p, D \ {k})
    BY <1>1, <1>5, SumOrder
  <2> DEFINE E == D \ {k}
             zero == [j \in E |-> 0]
  <2>4. IsFiniteSet(E) /\ Whole(p, E)
    BY <1>1, <1>5, FS_Subset DEF Whole
  <2>5. \A j \in E : zero[j] = 0 /\ zero[j] \in Int /\ zero[j] <= p[j]
    BY <1>4
  <2>r. SumFunctionOnSet(p, D) = p[k] + SumFunctionOnSet(p, E)
    BY <2>3
  <2> HIDE DEF E, zero
  <2>6. Whole(zero, E)
    BY <2>5 DEF Whole
  <2>7. SumFunctionOnSet(zero, E) <= SumFunctionOnSet(p, E)
    BY <2>4, <2>5, <2>6, SumAtMost
  <2>8. SumFunctionOnSet(zero, E) = 0
    BY <2>4, <2>5, SumZero
  <2>9. SumFunctionOnSet(p, E) \in Int
    BY <2>4, SumType
  <2> QED
    BY <1>4, <2>2, <2>r, <2>7, <2>8, <2>9 DEF PolyInv
<1> QED
  BY <1>2, <1>6, <1>7 DEF p

\* A replaced term is worth its coefficient more, or less, than it should be.
LEMMA ReplacedAtMost ==
  ASSUME PolyInv, NEW S \in SUBSET (Originals \ Ancillas), NEW A \in SUBSET Ancillas
  PROVE  /\ ReplacedWeight \in Int
         /\ f[S] <= SumFunctionOnSet(NewWithin(S \cup A), Terms) + ReplacedWeight
<1> DEFINE ones == S \cup A
           t == TermsWithin(S)
           n == NewWithin(ones)
           r == [T \in Terms |-> IF newTerms[T] = T THEN 0 ELSE Abs(Coefficient(T))]
           u == [T \in Terms |-> n[T] + r[T]]
<1>1. \A T \in Terms : /\ t[T] = (IF T \subseteq S THEN Coefficient(T) ELSE 0)
                       /\ n[T] = (IF newTerms[T] \subseteq ones THEN Coefficient(T) ELSE 0)
                       /\ r[T] = (IF newTerms[T] = T THEN 0 ELSE Abs(Coefficient(T)))
                       /\ u[T] = n[T] + r[T]
  BY DEF TermsWithin, NewWithin
<1>2. ReplacedWeight = SumFunctionOnSet(r, Terms)
  BY DEF ReplacedWeight, SumFunction
<1>3. \A T \in Terms : T \subseteq S <=> T \subseteq ones
  <2>1. \A T \in Terms : T \cap Ancillas = {}
    BY DEF PolyInv
  <2> QED
    BY <2>1
<1> HIDE DEF ones, t, n, r, u
<1>4. \A T \in Terms : t[T] \in Int /\ n[T] \in Int /\ r[T] \in Int /\ u[T] \in Int /\ t[T] <= u[T]
  <2> SUFFICES ASSUME NEW T \in Terms
               PROVE  t[T] \in Int /\ n[T] \in Int /\ r[T] \in Int /\ u[T] \in Int /\ t[T] <= u[T]
    OBVIOUS
  <2>1. Coefficient(T) \in Int
    BY TermsAre
  <2>2. Abs(Coefficient(T)) \in Nat /\ Abs(Coefficient(T)) >= Coefficient(T) /\ Abs(Coefficient(T)) + Coefficient(T) >= 0
    BY <2>1 DEF Abs
  <2>3. CASE newTerms[T] = T
    <3>1. newTerms[T] \subseteq ones <=> T \subseteq S
      BY <1>3, <2>3
    <3>2. t[T] = n[T] /\ t[T] \in Int /\ r[T] = 0 /\ u[T] = n[T] + r[T]
      BY <1>1, <2>1, <2>3, <3>1
    <3> QED
      BY <3>2
  <2>4. CASE newTerms[T] # T
    BY <1>1, <2>1, <2>2, <2>4
  <2> QED
    BY <2>3, <2>4
<1>5. Whole(t, Terms) /\ Whole(n, Terms) /\ Whole(r, Terms) /\ Whole(u, Terms)
  BY <1>4 DEF Whole
<1>6. SumFunctionOnSet(u, Terms) = SumFunctionOnSet(n, Terms) + SumFunctionOnSet(r, Terms)
  BY <1>1, <1>5, TermsAre, SumPlus
<1>7. SumFunctionOnSet(t, Terms) <= SumFunctionOnSet(u, Terms)
  BY <1>4, <1>5, TermsAre, SumAtMost
<1>8. SumFunctionOnSet(t, Terms) = f[S]
  <2>1. S \in SUBSET Originals
    OBVIOUS
  <2> QED
    BY <2>1, TermsAddUp DEF t
<1>9. SumFunctionOnSet(r, Terms) \in Int
  BY <1>5, TermsAre, SumType
<1> QED
  BY <1>2, <1>6, <1>7, <1>8, <1>9 DEF n, ones

\* The value of the result is that of its terms and its penalties.
LEMMA QuadraticValueIs ==
  ASSUME PolyInv, NEW ones
  PROVE  QuadraticValue(ones) = SumFunctionOnSet(NewWithin(ones), Terms) + SumFunction(Penalties(ones))
BY ReducedAddUp DEF QuadraticValue, Penalties

\* What PolyInv is for.
LEMMA KeepsValues ==
  ASSUME PolyInv
  PROVE  QuadraticKeepsValues
<1> SUFFICES ASSUME NEW S \in SUBSET (Originals \ Ancillas), NEW A \in SUBSET Ancillas
             PROVE  IF Consistent(S \cup A) THEN QuadraticValue(S \cup A) = f[S]
                    ELSE QuadraticValue(S \cup A) >= f[S] + (pw - ReplacedWeight)
  <2> DEFINE KeepsValue(S, A) == IF Consistent(S \cup A) THEN QuadraticValue(S \cup A) = f[S]
                            ELSE QuadraticValue(S \cup A) >= f[S] + (pw - ReplacedWeight)
             value == [ones \in SUBSET (Originals \cup Ancillas) |-> QuadraticValue(ones)]
  <2>1. \A S \in SUBSET (Originals \ Ancillas), A \in SUBSET Ancillas :
          S \cup A \in SUBSET (Originals \cup Ancillas)
    OBVIOUS
  <2>2. \A S \in SUBSET (Originals \ Ancillas), A \in SUBSET Ancillas :
          value[S \cup A] = QuadraticValue(S \cup A)
    BY <2>1
  <2>3. (\A S \in SUBSET (Originals \ Ancillas), A \in SUBSET Ancillas : KeepsValue(S, A))
        => QuadraticKeepsValues
    <3> HIDE DEF value
    <3> SUFFICES ASSUME \A S \in SUBSET (Originals \ Ancillas), A \in SUBSET Ancillas : KeepsValue(S, A)
                 PROVE  QuadraticKeepsValues
      OBVIOUS
    <3>1. ASSUME NEW S \in SUBSET (Originals \ Ancillas), NEW A \in SUBSET Ancillas
          PROVE  IF Consistent(S \cup A) THEN value[S \cup A] = f[S]
                 ELSE value[S \cup A] >= f[S] + (pw - ReplacedWeight)
      BY <2>2
    <3> QED
      BY <3>1 DEF QuadraticKeepsValues, value
  <2> QED
    BY <2>3
<1> DEFINE ones == S \cup A
           n == SumFunctionOnSet(NewWithin(ones), Terms)
           p == SumFunction(Penalties(ones))
<1>1. QuadraticValue(ones) = n + p /\ n \in Int
  <2>1. Whole(NewWithin(ones), Terms)
    BY ReducedAddUp
  <2>2. n \in Int
    BY <2>1, TermsAre, SumType
  <2> QED
    BY <2>2, QuadraticValueIs
<1>2. /\ Consistent(ones) => p = 0
      /\ ~ Consistent(ones) => p \in Int /\ p >= pw
  BY PenaltiesAre
<1>3. ReplacedWeight \in Int /\ f[S] <= n + ReplacedWeight
  BY ReplacedAtMost
<1>4. f[S] \in Int /\ pw \in Nat
  <2>1. S \in SUBSET Originals
    OBVIOUS
  <2> QED
    BY <2>1, TermsAddUp DEF PolyInv
<1>5. ASSUME Consistent(ones) PROVE n = f[S]
  <2> DEFINE t == TermsWithin(S)
             w == NewWithin(ones)
  <2>1. \A T \in Terms : (T \subseteq S <=> T \subseteq ones) /\ (newTerms[T] \subseteq ones <=> T \subseteq ones)
    <3>1. \A T \in Terms : T \cap Ancillas = {}
      BY DEF PolyInv
    <3>2. \A T \in Terms : newTerms[T] \subseteq ones <=> T \subseteq ones
      BY <1>5 DEF PolyInv
    <3> QED
      BY <3>1, <3>2
  <2>2. \A T \in Terms : t[T] = w[T]
    <3> HIDE DEF ones
    <3> QED
      BY <2>1 DEF TermsWithin, NewWithin
  <2>3. Whole(w, Terms)
    BY ReducedAddUp
  <2> HIDE DEF t, w
  <2>4. Whole(t, Terms)
    BY <2>2, <2>3 DEF Whole
  <2>5. SumFunctionOnSet(t, Terms) = SumFunctionOnSet(w, Terms)
    BY <2>2, <2>4, TermsAre, SumEqual
  <2>6. SumFunctionOnSet(t, Terms) = f[S]
    <3>1. S \in SUBSET Originals
      OBVIOUS
    <3> QED
      BY <3>1, TermsAddUp DEF t
  <2> QED
    BY <2>5, <2>6 DEF w
<1> HIDE DEF n, p
<1>6. CASE Consistent(ones)
  BY <1>1, <1>2, <1>4, <1>5, <1>6
<1>7. CASE ~ Consistent(ones)
  BY <1>1, <1>2, <1>3, <1>4, <1>7
<1> QED
  BY <1>6, <1>7

\* sapi_makeQuadratic and sapi_reduceDegree, for functions of any number of
\* variables: the quadratic function has the values of the one given wherever
\* each ancillary variable is the product of its pair, and elsewhere is larger
\* by the penalty weight less what the replaced terms may gain.
THEOREM QuadraticKept == PolySpec => []QuadraticKeepsValues
<1>1. PolyInit => PolyInv
  BY PolyStart
<1>2. PolyInv /\ [PolyNext]_polyVars => PolyInv'
  BY PolyStep
<1>3. PolyInv => QuadraticKeepsValues
  BY KeepsValues
<1> QED
  BY <1>1, <1>2, <1>3, PTL DEF PolySpec

-----------------------------------------------------------------------------
(* Fixing variables: literals, and what can be reached                     *)

LEMMA CountIs == NumVariables \in Nat /\ 0 \in 0 .. NumVariables
<1>1. NumVariables \in Nat
  BY FixAssumption
<1> QED
  BY <1>1

\* Literals come in pairs.
LEMMA LiteralsAre ==
  /\ IsFiniteSet(Literals) /\ Cardinality(Literals) \in Nat
  /\ Source \in Literals /\ Sink \in Literals /\ Bar(Source) = Sink /\ Bar(Sink) = Source
  /\ \A u \in Literals : Bar(u) \in Literals /\ Bar(Bar(u)) = u /\ Bar(u) # u
<1>1. IsFiniteSet(Literals)
  <2>1. IsFiniteSet(0 .. NumVariables)
    BY CountIs, FS_Interval
  <2>2. IsFiniteSet({TRUE}) /\ BOOLEAN = {TRUE} \cup {FALSE}
    BY FS_Singleton
  <2>3. IsFiniteSet(BOOLEAN)
    BY <2>2, FS_AddElement
  <2> QED
    BY <2>1, <2>3, FS_Product DEF Literals
<1>2. Source \in Literals /\ Sink \in Literals /\ Bar(Source) = Sink /\ Bar(Sink) = Source
  BY CountIs DEF Source, Sink, Literals, Bar
<1>3. ASSUME NEW u \in Literals PROVE Bar(u) \in Literals /\ Bar(Bar(u)) = u /\ Bar(u) # u
  <2>1. PICK i \in 0 .. NumVariables, b \in BOOLEAN : u = <<i, b>>
    BY DEF Literals
  <2>2. CASE b = TRUE
    BY <2>1, <2>2 DEF Bar, Literals
  <2>3. CASE b = FALSE
    BY <2>1, <2>3 DEF Bar, Literals
  <2> QED
    BY <2>2, <2>3
<1> QED
  BY <1>1, <1>2, <1>3, FS_CardinalityType

Closed(edges, B) == \A e \in edges : e[1] \in B => e[2] \in B
Reach(edges, u, R) ==
  /\ R \in SUBSET Literals /\ u \in R /\ Closed(edges, R)
  /\ \A B : u \in B /\ Closed(edges, B) => R \subseteq B

OneStep(edges, s) == s \cup {e[2] : e \in {e \in edges : e[1] \in s}}

\* What Within has after each step.
LEMMA WithinIs ==
  ASSUME NEW edges, edges \subseteq Literals \X Literals, NEW u \in Literals
  PROVE  \E r \in [0 .. Cardinality(Literals) -> SUBSET Literals] :
           /\ r[0] = {u}
           /\ \A n \in 1 .. Cardinality(Literals) : r[n] = OneStep(edges, r[n - 1])
           /\ ReachedFrom(edges, u) = r[Cardinality(Literals)]
<1> DEFINE N == Cardinality(Literals)
           D == SUBSET Literals
           F == [s \in D |-> OneStep(edges, s)]
           IsReach(r) == r = [n \in 0 .. N |-> IF n = 0 THEN {u} ELSE OneStep(edges, r[n - 1])]
           reach == CHOOSE r : IsReach(r)
<1>1. N \in Nat
  BY LiteralsAre
<1>2. \A s \in D : OneStep(edges, s) \in D
  BY DEF OneStep
<1>3. F \in [D -> D] /\ {u} \in D
  BY <1>2
<1>4. PICK g \in [0 .. N -> D] : g[0] = {u} /\ \A n \in 1 .. N : g[n] = F[g[n - 1]]
  <2> HIDE DEF D, F, N
  <2>1. \E g : Repeats(N, D, {u}, F, g)
    BY <1>1, <1>3, Repeated
  <2> QED
    BY <2>1 DEF Repeats
<1>5. \A n \in 0 .. N : g[n] = IF n = 0 THEN {u} ELSE OneStep(edges, g[n - 1])
  <2> TAKE n \in 0 .. N
  <2>1. CASE n = 0
    BY <2>1, <1>4
  <2>2. CASE n # 0
    <3>1. n \in 1 .. N /\ n - 1 \in 0 .. N
      BY <2>2, <1>1
    <3>2. g[n] = F[g[n - 1]] /\ g[n - 1] \in D
      BY <3>1, <1>4
    <3> QED
      BY <3>2, <2>2
  <2> QED
    BY <2>1, <2>2
<1>6. IsReach(g)
  <2> DEFINE h == [n \in 0 .. N |-> IF n = 0 THEN {u} ELSE OneStep(edges, g[n - 1])]
  <2>1. \A n \in 0 .. N : g[n] = h[n]
    BY <1>5
  <2>2. DOMAIN h = 0 .. N /\ DOMAIN g = 0 .. N /\ h = [n \in 0 .. N |-> h[n]] /\ g = [n \in 0 .. N |-> g[n]]
    BY <1>4
  <2> QED
    BY <2>1, <2>2
<1>7. IsReach(reach)
  BY <1>6
<1>8. ReachedFrom(edges, u) = reach[N]
  BY DEF ReachedFrom, Within, OneStep
<1> HIDE DEF reach, N
<1>9. DOMAIN reach = 0 .. N /\ \A n \in 0 .. N : reach[n] = IF n = 0 THEN {u} ELSE OneStep(edges, reach[n - 1])
  BY <1>7
<1>10. \A n \in 0 .. N : reach[n] \in D
  <2> DEFINE A == {n \in Nat : n <= N => reach[n] \in D}
  <2>1. 0 \in A
    BY <1>1, <1>3, <1>9
  <2>2. ASSUME NEW n \in Nat, n \in A PROVE n + 1 \in A
    <3> SUFFICES ASSUME n + 1 <= N PROVE reach[n + 1] \in D
      OBVIOUS
    <3>1. n + 1 \in 0 .. N /\ (n + 1) - 1 = n /\ n <= N /\ n + 1 # 0
      BY <1>1
    <3>2. reach[n + 1] = OneStep(edges, reach[n])
      BY <3>1, <1>9
    <3>3. reach[n] \in D
      BY <2>2, <3>1
    <3> HIDE DEF D
    <3> QED
      BY <3>2, <3>3, <1>2
  <2>3. Nat \subseteq A
    <3> HIDE DEF A
    <3> QED
      BY <2>1, <2>2, InductiveSet
  <2> HIDE DEF D
  <2> QED
    BY <2>3
<1>11. reach \in [0 .. N -> D]
  BY <1>7, <1>10
<1>12. reach[0] = {u} /\ \A n \in 1 .. N : reach[n] = OneStep(edges, reach[n - 1])
  BY <1>1, <1>9
<1> QED
  BY <1>8, <1>11, <1>12 DEF N

\* What is reached is the least closed set: after as many steps as there are
\* literals nothing is missing.
LEMMA ReachedIs ==
  ASSUME NEW edges, edges \subseteq Literals \X Literals, NEW u \in Literals
  PROVE  Reach(edges, u, ReachedFrom(edges, u))
<1> DEFINE N == Cardinality(Literals)
<1>1. IsFiniteSet(Literals) /\ N \in Nat
  BY LiteralsAre
<1>2. PICK r \in [0 .. N -> SUBSET Literals] :
        /\ r[0] = {u}
        /\ \A n \in 1 .. N : r[n] = OneStep(edges, r[n - 1])
        /\ ReachedFrom(edges, u) = r[N]
  BY WithinIs
<1> HIDE DEF N
<1>3. Closed(edges, r[N])
  <2> DEFINE A == {n \in Nat : n <= N => Closed(edges, r[n]) \/ Cardinality(r[n]) >= n + 1}
  <2>1. 0 \in A
    <3>1. Cardinality(r[0]) = 1
      BY <1>2, FS_Singleton
    <3> QED
      BY <3>1
  <2>2. ASSUME NEW n \in Nat, n \in A PROVE n + 1 \in A
    <3> SUFFICES ASSUME n + 1 <= N PROVE Closed(edges, r[n + 1]) \/ Cardinality(r[n + 1]) >= (n + 1) + 1
      OBVIOUS
    <3>1. n + 1 \in 1 .. N /\ (n + 1) - 1 = n /\ n <= N /\ n \in 0 .. N /\ n + 1 \in 0 .. N
      BY <1>1
    <3>2. r[n + 1] = OneStep(edges, r[n]) /\ r[n] \in SUBSET Literals /\ r[n + 1] \in SUBSET Literals
      BY <3>1, <1>2
    <3>3. CASE Closed(edges, r[n])
      <4>1. OneStep(edges, r[n]) = r[n]
        BY <3>3 DEF Closed, OneStep
      <4> QED
        BY <3>2, <3>3, <4>1
    <3>4. CASE ~ Closed(edges, r[n])
      <4>1. Cardinality(r[n]) >= n + 1 /\ IsFiniteSet(r[n]) /\ IsFiniteSet(r[n + 1])
        BY <2>2, <3>1, <3>2, <3>4, <1>1, FS_Subset
      <4>2. PICK e \in edges : e[1] \in r[n] /\ e[2] \notin r[n]
        BY <3>4 DEF Closed
      <4>3. r[n] \cup {e[2]} \in SUBSET r[n + 1]
        BY <3>2, <4>2 DEF OneStep
      <4>4. Cardinality(r[n] \cup {e[2]}) = Cardinality(r[n]) + 1
        BY <4>1, <4>2, FS_AddElement
      <4>5. Cardinality(r[n] \cup {e[2]}) <= Cardinality(r[n + 1])
        BY <4>1, <4>3, FS_Subset
      <4>6. Cardinality(r[n]) \in Nat /\ Cardinality(r[n + 1]) \in Nat
        BY <4>1, FS_CardinalityType
      <4> QED
        BY <4>1, <4>4, <4>5, <4>6
    <3> QED
      BY <3>3, <3>4
  <2>3. Nat \subseteq A
    <3> HIDE DEF A
    <3> QED
      BY <2>1, <2>2, InductiveSet
  <2>4. Closed(edges, r[N]) \/ Cardinality(r[N]) >= N + 1
    BY <1>1, <2>3
  <2>5. r[N] \in SUBSET Literals
    BY <1>1, <1>2
  <2>6. Cardinality(r[N]) <= N /\ Cardinality(r[N]) \in Nat
    BY <2>5, <1>1, FS_Subset, FS_CardinalityType DEF N
  <2> QED
    BY <1>1, <2>4, <2>6
<1>4. ASSUME NEW B, u \in B, Closed(edges, B) PROVE r[N] \subseteq B
  <2> DEFINE A == {n \in Nat : n <= N => r[n] \subseteq B}
  <2>1. 0 \in A
    BY <1>2, <1>4
  <2>2. ASSUME NEW n \in Nat, n \in A PROVE n + 1 \in A
    <3> SUFFICES ASSUME n + 1 <= N PROVE r[n + 1] \subseteq B
      OBVIOUS
    <3>1. n + 1 \in 1 .. N /\ (n + 1) - 1 = n /\ n <= N
      BY <1>1
    <3>2. r[n + 1] = OneStep(edges, r[n]) /\ r[n] \subseteq B
      BY <3>1, <1>2, <2>2
    <3> QED
      BY <3>2, <1>4 DEF OneStep, Closed
  <2>3. Nat \subseteq A
    <3> HIDE DEF A
    <3> QED
      BY <2>1, <2>2, InductiveSet
  <2> QED
    BY <1>1, <2>3
<1>5. u \in r[N]
  <2> DEFINE A == {n \in Nat : n <= N => u \in r[n]}
  <2>1. 0 \in A
    BY <1>2
  <2>2. ASSUME NEW n \in Nat, n \in A PROVE n + 1 \in A
    <3> SUFFICES ASSUME n + 1 <= N PROVE u \in r[n + 1]
      OBVIOUS
    <3>1. n + 1 \in 1 .. N /\ (n + 1) - 1 = n /\ n <= N
      BY <1>1
    <3> QED
      BY <3>1, <1>2, <2>2 DEF OneStep
  <2>3. Nat \subseteq A
    <3> HIDE DEF A
    <3> QED
      BY <2>1, <2>2, InductiveSet
  <2> QED
    BY <1>1, <2>3
<1>6. r[N] \in SUBSET Literals
  BY <1>1, <1>2
<1> QED
  BY <1>2, <1>3, <1>4, <1>5, <1>6 DEF Reach

-----------------------------------------------------------------------------
(* Fixing variables: the network and its cuts                              *)

\* A pair is its two variables, in order.
LEMMA PairIs ==
  /\ IsFiniteSet(Pairs) /\ IsFiniteSet(Upper(Variables)) /\ IsFiniteSet(Variables)
  /\ \A p \in Pairs :
       /\ p = <<p[1], p[2]>> /\ p[1] \in 0 .. NumVariables /\ p[2] \in Variables /\ p[1] < p[2]
       /\ p[1] # 0 => p[1] \in Variables
  /\ \A p, q \in Pairs : {p[1], p[2]} = {q[1], q[2]} => p = q
<1>1. IsFiniteSet(0 .. NumVariables) /\ IsFiniteSet(1 .. NumVariables)
  BY CountIs, FS_Interval
<1>2. IsFiniteSet(Pairs) /\ IsFiniteSet(Upper(Variables)) /\ IsFiniteSet(Variables)
  <2>1. /\ IsFiniteSet((0 .. NumVariables) \X (0 .. NumVariables))
        /\ IsFiniteSet((1 .. NumVariables) \X (1 .. NumVariables))
    BY <1>1, FS_Product
  <2>2. Pairs \in SUBSET ((0 .. NumVariables) \X (0 .. NumVariables))
    BY DEF Pairs
  <2>3. Upper(Variables) \in SUBSET ((1 .. NumVariables) \X (1 .. NumVariables))
    BY DEF Upper, Variables
  <2>4. IsFiniteSet(Pairs)
    BY <2>1, <2>2, FS_Subset
  <2>5. IsFiniteSet(Upper(Variables))
    BY <2>1, <2>3, FS_Subset
  <2> QED
    BY <1>1, <2>4, <2>5 DEF Variables
<1>3. ASSUME NEW p \in Pairs
      PROVE  /\ p = <<p[1], p[2]>> /\ p[1] \in 0 .. NumVariables /\ p[2] \in Variables /\ p[1] < p[2]
             /\ p[1] # 0 => p[1] \in Variables
  BY CountIs DEF Pairs, Variables
<1>4. ASSUME NEW p \in Pairs, NEW q \in Pairs, {p[1], p[2]} = {q[1], q[2]} PROVE p = q
  <2>1. \A a, b, c, d \in Int : a < b /\ c < d /\ {a, b} = {c, d} => a = c /\ b = d
    OBVIOUS
  <2>2. p[1] \in Int /\ p[2] \in Int /\ q[1] \in Int /\ q[2] \in Int /\ p[1] < p[2] /\ q[1] < q[2]
    BY CountIs DEF Pairs
  <2>3. p[1] = q[1] /\ p[2] = q[2]
    BY <2>1, <2>2, <1>4
  <2> QED
    BY <1>3, <2>3
<1> QED
  BY <1>2, <1>3, <1>4

\* Coefficients are integers, and do not depend on the order of the variables.
LEMMA CoefficientsAre ==
  ASSUME Q \in Matrices
  PROVE  /\ \A r, c \in Variables : UTriQ(r, c) \in Int /\ UTriQ(r, c) = UTriQ(c, r)
         /\ \A r \in Variables : CPrime(r) \in Int
         /\ \A p \in Pairs : Coeff(p) \in Int /\ Weight(p) \in Nat /\ (Coeff(p) = 0 => Weight(p) = 0)
<1>1. \A r, c \in Variables : Entry(r, c) \in Int
  BY FixAssumption DEF Entry
<1>2. \A r, c \in Variables : UTriQ(r, c) \in Int /\ UTriQ(r, c) = UTriQ(c, r)
  BY <1>1 DEF UTriQ
<1>3. ASSUME NEW r \in Variables PROVE CPrime(r) \in Int
  <2> DEFINE S == {p \in Upper(Variables) : p[1] = r /\ (p[2] = r \/ UTriQ(r, p[2]) < 0)}
             g == [p \in S |-> UTriQ(p[1], p[2])]
  <2>1. IsFiniteSet(S)
    BY PairIs, FS_Subset
  <2>2. \A p \in S : g[p] \in Int
    BY <1>2 DEF Upper
  <2>3. CPrime(r) = SumFunctionOnSet(g, S)
    BY DEF CPrime, SumFunction
  <2> HIDE DEF S, g
  <2> QED
    BY <2>1, <2>2, <2>3, SumType DEF Whole
<1>4. ASSUME NEW p \in Pairs PROVE Coeff(p) \in Int
  BY <1>2, <1>3, PairIs DEF Coeff
<1> QED
  BY <1>2, <1>3, <1>4 DEF Weight

Implied == UNION {Edges(p) : p \in Posiform}
Con(e) == <<Bar(e[2]), Bar(e[1])>>
Back(e) == <<e[2], e[1]>>

\* The contraposition of an edge, and the way back, are edges between the same
\* variables.
LEMMA ConIs ==
  ASSUME NEW e \in Literals \X Literals
  PROVE  /\ e = <<e[1], e[2]>> /\ e[1] \in Literals /\ e[2] \in Literals
         /\ Con(e) \in Literals \X Literals /\ Con(Con(e)) = e
         /\ Back(e) \in Literals \X Literals /\ Back(Back(e)) = e /\ Con(Back(e)) = Back(Con(e))
<1>1. e = <<e[1], e[2]>> /\ e[1] \in Literals /\ e[2] \in Literals
  OBVIOUS
<1>2. /\ Bar(e[1]) \in Literals /\ Bar(e[2]) \in Literals
      /\ Bar(Bar(e[1])) = e[1] /\ Bar(Bar(e[2])) = e[2]
  BY <1>1, LiteralsAre
<1> QED
  BY <1>1, <1>2 DEF Con, Back

\* The two edges of a term.
LEMMA EdgesAre ==
  ASSUME Q \in Matrices, NEW p \in Posiform
  PROVE  /\ First(p) \in Literals /\ Second(p) \in Literals
         /\ \A e \in Edges(p) : /\ e \in Literals \X Literals /\ Con(e) \in Edges(p)
                                /\ {e[1][1], e[2][1]} = {p[1], p[2]} /\ e[1][1] # e[2][1]
         /\ <<First(p), Bar(Second(p))>> # <<Second(p), Bar(First(p))>>
<1>1. p \in Pairs
  BY DEF Posiform
<1>2. p[1] \in 0 .. NumVariables /\ p[2] \in 0 .. NumVariables /\ p[1] # p[2]
  BY <1>1, PairIs, CountIs DEF Variables
<1>3. First(p) \in Literals /\ First(p)[1] = p[1]
  BY <1>2 DEF First, Literals
<1>4. Second(p) \in Literals /\ Second(p)[1] = p[2]
  <2>1. (Coeff(p) > 0) \in BOOLEAN
    BY <1>1, CoefficientsAre
  <2> QED
    BY <1>2, <2>1 DEF Second, Literals
<1>5. Bar(First(p))[1] = p[1] /\ Bar(Second(p))[1] = p[2]
  BY <1>3, <1>4 DEF Bar
<1>6. /\ Bar(First(p)) \in Literals /\ Bar(Bar(First(p))) = First(p)
      /\ Bar(Second(p)) \in Literals /\ Bar(Bar(Second(p))) = Second(p)
  BY <1>3, <1>4, LiteralsAre
<1> DEFINE a == <<First(p), Bar(Second(p))>>
           b == <<Second(p), Bar(First(p))>>
<1>7. Edges(p) = {a, b}
  BY DEF Edges
<1>8. Con(a) = b /\ Con(b) = a
  BY <1>6 DEF Con
<1>9. a \in Literals \X Literals /\ b \in Literals \X Literals
  BY <1>3, <1>4, <1>6
<1>10. a[1][1] = p[1] /\ a[2][1] = p[2] /\ b[1][1] = p[2] /\ b[2][1] = p[1]
  BY <1>3, <1>4, <1>5
<1> HIDE DEF a, b
<1>11. ASSUME NEW e \in Edges(p)
       PROVE  /\ e \in Literals \X Literals /\ Con(e) \in Edges(p)
              /\ {e[1][1], e[2][1]} = {p[1], p[2]} /\ e[1][1] # e[2][1]
  BY <1>2, <1>7, <1>8, <1>9, <1>10
<1>12. a # b
  BY <1>2, <1>10
<1> QED
  BY <1>3, <1>4, <1>11, <1>12 DEF a, b

\* Each edge of the network is one of a term, with its weight, or one back.
LEMMA NetworkIs ==
  ASSUME Q \in Matrices
  PROVE  /\ IsFiniteSet(DOMAIN ImplicationNetwork)
         /\ DOMAIN ImplicationNetwork \subseteq Literals \X Literals
         /\ \A e \in DOMAIN ImplicationNetwork :
              /\ e[1] # e[2]
              /\ Back(e) \in DOMAIN ImplicationNetwork /\ Con(e) \in DOMAIN ImplicationNetwork
              /\ ImplicationNetwork[e] \in Nat
              /\ ImplicationNetwork[Con(e)] = ImplicationNetwork[e]
         /\ Implied \subseteq DOMAIN ImplicationNetwork
         /\ \A e \in Implied : \E p \in Posiform : e \in Edges(p)
         /\ \A p \in Posiform : \A e \in Edges(p) : e \in Implied /\ ImplicationNetwork[e] = Weight(p)
         /\ \A e \in DOMAIN ImplicationNetwork \ Implied : ImplicationNetwork[e] = 0
         /\ \A p, q \in Posiform : \A e \in Edges(p) : e \in Edges(q) => p = q
<1> DEFINE N == ImplicationNetwork
           backs == {<<e[2], e[1]>> : e \in Implied}
           term(e) == CHOOSE p \in Posiform : e \in Edges(p)
<1>1. N = [e \in Implied \cup backs |-> IF e \in Implied THEN Weight(term(e)) ELSE 0]
  BY DEF ImplicationNetwork, Implied
<1>2. DOMAIN N = Implied \cup backs /\ \A e \in DOMAIN N : N[e] = IF e \in Implied THEN Weight(term(e)) ELSE 0
  BY <1>1
<1>3. \A e \in Implied : \E p \in Posiform : e \in Edges(p)
  BY DEF Implied
<1>4. \A p \in Posiform : \A e \in Edges(p) : e \in Implied
  BY DEF Implied
<1>5. ASSUME NEW p \in Posiform, NEW q \in Posiform, NEW e \in Edges(p), e \in Edges(q) PROVE p = q
  <2>1. {p[1], p[2]} = {q[1], q[2]}
    BY <1>5, EdgesAre
  <2> QED
    BY <2>1, PairIs DEF Posiform
<1>6. \A p \in Posiform : \A e \in Edges(p) : term(e) = p
  BY <1>5
<1> HIDE DEF N, term
<1>7. \A p \in Posiform : \A e \in Edges(p) : N[e] = Weight(p)
  BY <1>2, <1>4, <1>6
<1>8. \A e \in Implied : e \in Literals \X Literals /\ Con(e) \in Implied /\ e[1][1] # e[2][1]
  BY <1>3, <1>4, EdgesAre
<1>9. \A e \in backs : Back(e) \in Implied /\ Back(Back(e)) = e /\ e \in Literals \X Literals /\ e[1] # e[2]
  <2> SUFFICES ASSUME NEW d \in Implied
               PROVE  LET e == <<d[2], d[1]>>
                      IN  Back(e) \in Implied /\ Back(Back(e)) = e /\ e \in Literals \X Literals /\ e[1] # e[2]
    OBVIOUS
  <2>1. d = <<d[1], d[2]>> /\ d[1] \in Literals /\ d[2] \in Literals /\ d[1] # d[2]
    BY <1>8
  <2> QED
    BY <2>1 DEF Back
<1>10. \A e \in Implied : Back(e) \in backs
  BY DEF Back
<1> HIDE DEF backs
<1>11. \A e \in DOMAIN N : Back(e) \in DOMAIN N /\ e \in Literals \X Literals /\ e[1] # e[2]
  BY <1>2, <1>8, <1>9, <1>10
<1>12. ASSUME NEW e \in DOMAIN N \ Implied PROVE Con(e) \in DOMAIN N \ Implied
  <2>1. e \in backs /\ e \in Literals \X Literals
    BY <1>2, <1>11
  <2>2. Back(e) \in Implied
    BY <2>1, <1>9
  <2>3. Con(Back(e)) \in Implied
    BY <2>2, <1>8
  <2>4. Con(Back(e)) = Back(Con(e)) /\ Back(Back(Con(e))) = Con(e) /\ Con(Con(e)) = e
    BY <2>1, ConIs
  <2>5. Con(e) \in backs
    BY <2>3, <2>4, <1>10
  <2>6. Con(e) \notin Implied
    BY <2>4, <1>8, <1>12
  <2> QED
    BY <2>5, <2>6, <1>2
<1>13. \A e \in DOMAIN N \ Implied : N[e] = 0
  BY <1>2
<1>14. ASSUME NEW e \in DOMAIN N PROVE Con(e) \in DOMAIN N /\ N[e] \in Nat /\ N[Con(e)] = N[e]
  <2>1. CASE e \in Implied
    <3>1. PICK p \in Posiform : e \in Edges(p)
      BY <2>1, <1>3
    <3>2. Con(e) \in Edges(p)
      BY <3>1, EdgesAre
    <3>3. N[e] = Weight(p) /\ N[Con(e)] = Weight(p)
      BY <3>1, <3>2, <1>7
    <3>4. Weight(p) \in Nat
      BY CoefficientsAre DEF Posiform
    <3> QED
      BY <2>1, <3>3, <3>4, <1>2, <1>8
  <2>2. CASE e \notin Implied
    <3>1. Con(e) \in DOMAIN N \ Implied
      BY <2>2, <1>12
    <3> QED
      BY <2>2, <3>1, <1>13
  <2> QED
    BY <2>1, <2>2
<1>15. IsFiniteSet(DOMAIN N)
  <2>1. IsFiniteSet(Literals \X Literals)
    BY LiteralsAre, FS_Product
  <2>2. DOMAIN N \in SUBSET (Literals \X Literals)
    BY <1>11
  <2> QED
    BY <2>1, <2>2, FS_Subset
<1>16. Implied \subseteq DOMAIN N /\ DOMAIN N \subseteq Literals \X Literals
  BY <1>2, <1>11
<1>17. \A p, q \in Posiform : \A e \in Edges(p) : e \in Edges(q) => p = q
  BY <1>5
<1> QED
  BY <1>3, <1>4, <1>7, <1>11, <1>13, <1>14, <1>15, <1>16, <1>17 DEF N

\* The capacity that leaves a set of literals.
Leaving(caps, A) == [e \in DOMAIN caps |-> IF e[1] \in A /\ e[2] \notin A THEN caps[e] ELSE 0]
Cut(caps, A) == SumFunctionOnSet(Leaving(caps, A), DOMAIN caps)

\* The literals whose complements are not in A.
Dual(A) == {u \in Literals : Bar(u) \notin A}

\* A set and its dual have the same cut in the network.
LEMMA DualCut ==
  ASSUME Q \in Matrices, NEW A \in SUBSET Literals
  PROVE  Cut(ImplicationNetwork, Dual(A)) = Cut(ImplicationNetwork, A)
<1> DEFINE N == ImplicationNetwork
           E == DOMAIN N
           w == Leaving(N, A)
           per == Leaving(N, Dual(A))
           con == [e \in E |-> Con(e)]
<1>1. IsFiniteSet(E) /\ E \subseteq Literals \X Literals
  BY NetworkIs
<1>2. \A e \in E : Con(e) \in E /\ N[e] \in Nat /\ N[Con(e)] = N[e]
  BY NetworkIs
<1> HIDE DEF N
<1>3. ASSUME NEW e \in E
      PROVE  w[e] \in Int /\ per[Con(e)] = w[e] /\ Con(Con(e)) = e
  <2>1. e \in Literals \X Literals
    BY <1>1
  <2>2. e[1] \in Literals /\ e[2] \in Literals /\ Con(Con(e)) = e
    BY <2>1, ConIs
  <2>3. Con(e)[1] = Bar(e[2]) /\ Con(e)[2] = Bar(e[1])
    BY DEF Con
  <2>4. Bar(e[2]) \in Dual(A) <=> e[2] \notin A
    BY <2>2, LiteralsAre DEF Dual
  <2>5. Bar(e[1]) \in Dual(A) <=> e[1] \notin A
    BY <2>2, LiteralsAre DEF Dual
  <2>6. per[Con(e)] = IF Con(e)[1] \in Dual(A) /\ Con(e)[2] \notin Dual(A) THEN N[Con(e)] ELSE 0
    BY <1>2 DEF Leaving
  <2>7. w[e] = IF e[1] \in A /\ e[2] \notin A THEN N[e] ELSE 0
    BY DEF Leaving
  <2> QED
    BY <1>2, <2>2, <2>3, <2>4, <2>5, <2>6, <2>7
<1>4. \A e \in E : con[e] = Con(e)
  OBVIOUS
<1>5. Renamed(E, con, E, w, per)
  <2> HIDE DEF E, w, per, con
  <2> QED
    BY <1>2, <1>3, <1>4 DEF Renamed
<1>6. Whole(w, E)
  BY <1>3 DEF Whole
<1>7. Cut(N, A) = SumFunctionOnSet(w, E) /\ Cut(N, Dual(A)) = SumFunctionOnSet(per, E)
  BY DEF Cut
<1>8. SumFunctionOnSet(per, E) = SumFunctionOnSet(w, E)
  <2> HIDE DEF E, w, per, con
  <2> QED
    BY <1>1, <1>5, <1>6, SumRenamed
<1> QED
  BY <1>7, <1>8 DEF N

\* The network depends on the function alone.
LEMMA NetworkKept ==
  ASSUME Q' = Q
  PROVE  ImplicationNetwork' = ImplicationNetwork /\ UsedVariables' = UsedVariables
<1>1. \A r, c : Entry(r, c)' = Entry(r, c)
  BY DEF Entry
<1>2. \A r, c : UTriQ(r, c)' = UTriQ(r, c)
  BY <1>1 DEF UTriQ
<1>3. \A r : CPrime(r)' = CPrime(r)
  <2> TAKE r
  <2> DEFINE S == {p \in Upper(Variables) : p[1] = r /\ (p[2] = r \/ UTriQ(r, p[2]) < 0)}
             t == [p \in S |-> UTriQ(p[1], p[2])]
  <2>1. S' = S
    BY <1>2 DEF Upper
  <2>2. t' = t
    BY <1>2, <2>1
  <2> HIDE DEF t
  <2>3. CPrime(r) = SumFunction(t)
    BY DEF CPrime, t
  <2>4. CPrime(r)' = SumFunction(t')
    BY DEF CPrime, t
  <2> QED
    BY <2>2, <2>3, <2>4
<1>4. \A p : Coeff(p)' = Coeff(p)
  BY <1>2, <1>3 DEF Coeff
<1>5. \A p : Weight(p)' = Weight(p) /\ Second(p)' = Second(p) /\ Edges(p)' = Edges(p)
  BY <1>4 DEF Weight, Second, First, Edges, Bar
<1>6. Posiform' = Posiform
  BY <1>4 DEF Posiform, Pairs
<1>7. UsedVariables' = UsedVariables
  BY DEF UsedVariables
<1> DEFINE edges == UNION {Edges(p) : p \in Posiform}
           all == edges \cup {<<e[2], e[1]>> : e \in edges}
           cap(e) == IF e \in edges THEN Weight(CHOOSE p \in Posiform : e \in Edges(p)) ELSE 0
           N == [e \in all |-> cap(e)]
<1>8. edges' = edges
  BY <1>5, <1>6
<1> HIDE DEF edges
<1>9. all' = all
  BY <1>8
<1>10. \A e : cap(e)' = cap(e)
  <2> TAKE e
  <2> DEFINE term == CHOOSE p \in Posiform : e \in Edges(p)
  <2>1. term' = term
    BY <1>5, <1>6
  <2> HIDE DEF term
  <2>2. Coeff(term)' = Coeff(term)
    BY <1>4, <2>1
  <2>3. Weight(term)' = Weight(term)
    BY <2>2 DEF Weight
  <2> QED
    BY <1>8, <2>3 DEF term
<1> HIDE DEF all, cap
<1>11. N' = N
  BY <1>9, <1>10
<1>12. ImplicationNetwork = N
  BY DEF ImplicationNetwork, N, cap, all, edges
<1>13. ImplicationNetwork' = N'
  BY DEF ImplicationNetwork, N, cap, all, edges
<1> QED
  BY <1>7, <1>11, <1>12, <1>13

-----------------------------------------------------------------------------
(* Fixing variables: the flow                                              *)

\* A path along edges that never returns, from the source.
IsPath(edges, p) ==
  /\ p \in Seq(Literals) /\ Len(p) >= 1 /\ p[1] = Source
  /\ \A i \in 1 .. Len(p) - 1 : <<p[i], p[i + 1]>> \in edges
  /\ \A i, j \in 1 .. Len(p) : p[i] = p[j] => i = j

Ended(s) == {p \in s : p[Len(p)] = Sink}
Extended(edges, s) ==
  {Append(x[1], x[2][2]) :
    x \in {x \in s \X edges : x[1][Len(x[1])] = x[2][1] /\ \A i \in DOMAIN x[1] : x[1][i] # x[2][2]}}
Longer(edges, s) == IF Ended(s) # {} THEN Ended(s) ELSE Extended(edges, s)

\* One more edge.
LEMMA LongerPath ==
  ASSUME NEW edges, edges \subseteq Literals \X Literals, NEW p, IsPath(edges, p), NEW e \in edges,
         p[Len(p)] = e[1], \A i \in DOMAIN p : p[i] # e[2]
  PROVE  IsPath(edges, Append(p, e[2]))
<1> DEFINE n == Len(p)
           q == Append(p, e[2])
<1>1. p \in Seq(Literals) /\ e = <<e[1], e[2]>> /\ e[2] \in Literals
  BY DEF IsPath
<1>2. /\ q \in Seq(Literals) /\ n \in Nat /\ DOMAIN p = 1 .. n /\ Len(q) = n + 1
      /\ q[n + 1] = e[2] /\ \A k \in 1 .. n : q[k] = p[k]
  BY <1>1
<1>3. n >= 1 /\ p[1] = Source /\ (\A i \in 1 .. n - 1 : <<p[i], p[i + 1]>> \in edges)
      /\ \A i, j \in 1 .. n : p[i] = p[j] => i = j
  BY DEF IsPath
<1> HIDE DEF n, q
<1>4. q[1] = Source
  BY <1>2, <1>3
<1>5. ASSUME NEW i \in 1 .. Len(q) - 1 PROVE <<q[i], q[i + 1]>> \in edges
  <2>1. CASE i = n
    <3>1. q[i] = e[1] /\ q[i + 1] = e[2]
      BY <1>2, <1>3, <2>1 DEF n
    <3> QED
      BY <1>1, <3>1
  <2>2. CASE i # n
    <3>1. i \in 1 .. n - 1 /\ i \in 1 .. n /\ i + 1 \in 1 .. n
      BY <1>2, <2>2
    <3> QED
      BY <1>2, <1>3, <3>1
  <2> QED
    BY <2>1, <2>2
<1>6. ASSUME NEW i \in 1 .. Len(q), NEW j \in 1 .. Len(q), q[i] = q[j] PROVE i = j
  <2>1. (i = n + 1 \/ i \in 1 .. n) /\ (j = n + 1 \/ j \in 1 .. n)
    BY <1>2
  <2>2. \A k \in 1 .. n : q[k] # e[2]
    BY <1>2
  <2> QED
    BY <1>2, <1>3, <1>6, <2>1, <2>2
<1>7. Len(q) >= 1
  BY <1>2
<1>8. IsPath(edges, q)
  BY <1>2, <1>4, <1>5, <1>6, <1>7 DEF IsPath
<1> QED
  BY <1>8 DEF q

\* The paths the flow is sent along.
LEMMA AugmentingPathsAre ==
  ASSUME DOMAIN residual \subseteq Literals \X Literals, NEW p \in AugmentingPaths
  PROVE  IsPath(ResidualEdges, p) /\ p[Len(p)] = Sink
<1> DEFINE N == Cardinality(Literals)
           edges == ResidualEdges
           Walks == {q \in Seq(Literals) : IsPath(edges, q)}
           D == SUBSET Walks
           F == [s \in D |-> Longer(edges, s)]
           IsPaths(r) == r = [n \in 0 .. N |-> IF n = 0 THEN {<<Source>>} ELSE Longer(edges, r[n - 1])]
           paths == CHOOSE r : IsPaths(r)
<1>1. N \in Nat
  BY LiteralsAre
<1>2. edges \subseteq Literals \X Literals
  BY DEF ResidualEdges
<1>3. ASSUME NEW s \in D PROVE Longer(edges, s) \in D
  <2>1. Ended(s) \in D
    BY DEF Ended
  <2>2. ASSUME NEW x \in s \X edges, x[1][Len(x[1])] = x[2][1], \A i \in DOMAIN x[1] : x[1][i] # x[2][2]
        PROVE  Append(x[1], x[2][2]) \in Walks
    <3>1. IsPath(edges, x[1]) /\ x[2] \in edges
      OBVIOUS
    <3> HIDE DEF edges
    <3>2. IsPath(edges, Append(x[1], x[2][2]))
      BY <1>2, <2>2, <3>1, LongerPath
    <3> QED
      BY <3>2 DEF IsPath
  <2>3. Extended(edges, s) \in D
    <3> HIDE DEF Walks, edges
    <3> QED
      BY <2>2 DEF Extended
  <2> QED
    BY <2>1, <2>3 DEF Longer
<1>4. {<<Source>>} \in D
  <2> DEFINE q == <<Source>>
  <2>1. q \in Seq(Literals) /\ Len(q) = 1 /\ q[1] = Source /\ 1 .. Len(q) - 1 = {} /\ 1 .. Len(q) = {1}
    BY LiteralsAre
  <2> HIDE DEF q
  <2>2. IsPath(edges, q)
    BY <2>1 DEF IsPath
  <2> QED
    BY <2>1, <2>2 DEF q
<1>5. F \in [D -> D] /\ \A s \in D : F[s] = Longer(edges, s)
  BY <1>3
<1> HIDE DEF F
<1>6. PICK g \in [0 .. N -> D] : g[0] = {<<Source>>} /\ \A n \in 1 .. N : g[n] = F[g[n - 1]]
  <2> HIDE DEF D, N
  <2>1. \E g : Repeats(N, D, {<<Source>>}, F, g)
    BY <1>1, <1>4, <1>5, Repeated
  <2> QED
    BY <2>1 DEF Repeats
<1>7. \A n \in 0 .. N : g[n] = IF n = 0 THEN {<<Source>>} ELSE Longer(edges, g[n - 1])
  <2> TAKE n \in 0 .. N
  <2>1. CASE n = 0
    BY <2>1, <1>6
  <2>2. CASE n # 0
    <3>1. n \in 1 .. N /\ n - 1 \in 0 .. N
      BY <2>2, <1>1
    <3>2. g[n] = F[g[n - 1]] /\ g[n - 1] \in D
      BY <3>1, <1>6
    <3> HIDE DEF D
    <3> QED
      BY <3>2, <2>2, <1>5
  <2> QED
    BY <2>1, <2>2
<1>8. IsPaths(g)
  <2> DEFINE h == [n \in 0 .. N |-> IF n = 0 THEN {<<Source>>} ELSE Longer(edges, g[n - 1])]
  <2>1. \A n \in 0 .. N : g[n] = h[n]
    BY <1>7
  <2>2. DOMAIN h = 0 .. N /\ DOMAIN g = 0 .. N /\ h = [n \in 0 .. N |-> h[n]] /\ g = [n \in 0 .. N |-> g[n]]
    BY <1>6
  <2> QED
    BY <2>1, <2>2
<1>9. IsPaths(paths)
  BY <1>8
<1>10. p \in paths[N] /\ p[Len(p)] = Sink
  BY DEF AugmentingPaths, Longer, Ended, Extended
<1> HIDE DEF paths, N, edges
<1>11. DOMAIN paths = 0 .. N /\ \A n \in 0 .. N : paths[n] = IF n = 0 THEN {<<Source>>} ELSE Longer(edges, paths[n - 1])
  BY <1>9
<1> HIDE DEF IsPaths
<1>12. \A n \in 0 .. N : paths[n] \in D
  <2> HIDE DEF D
  <2> DEFINE A == {n \in Nat : n <= N => paths[n] \in D}
  <2>1. 0 \in A
    <3>1. paths[0] = {<<Source>>}
      BY <1>1, <1>11
    <3>2. paths[0] \in D
      BY <1>4, <3>1
    <3> QED
      BY <3>2
  <2>2. ASSUME NEW n \in Nat, n \in A PROVE n + 1 \in A
    <3> SUFFICES ASSUME n + 1 <= N PROVE paths[n + 1] \in D
      OBVIOUS
    <3>1. n + 1 \in 0 .. N /\ (n + 1) - 1 = n /\ n <= N /\ n + 1 # 0
      BY <1>1
    <3>2. paths[n + 1] = Longer(edges, paths[n])
      BY <3>1, <1>11
    <3>3. paths[n] \in D
      BY <2>2, <3>1
    <3> QED
      BY <3>2, <3>3, <1>3
  <2>3. Nat \subseteq A
    <3> HIDE DEF A
    <3> QED
      BY <2>1, <2>2, InductiveSet
  <2> QED
    BY <2>3
<1>13. paths[N] \in D
  BY <1>1, <1>12
<1>14. p \in Walks
  BY <1>10, <1>13
<1> QED
  BY <1>10, <1>14 DEF edges

On(p) == {<<p[i], p[i + 1]>> : i \in 1 .. Len(p) - 1}
PushedAlong(E, caps, p, m, new) ==
  new = [e \in E |-> caps[e] - (IF e \in On(p) THEN m ELSE 0) + (IF Back(e) \in On(p) THEN m ELSE 0)]

\* What is sent along a path comes off every cut between its ends.
LEMMA PushAlong ==
  ASSUME NEW E, IsFiniteSet(E), E \subseteq Literals \X Literals, \A e \in E : Back(e) \in E,
         NEW caps \in [E -> Nat], NEW p, IsPath(E, p), NEW m \in Nat, \A e \in On(p) : m <= caps[e],
         NEW new, PushedAlong(E, caps, p, m, new)
  PROVE  /\ new \in [E -> Nat]
         /\ \A A \in SUBSET Literals : p[1] \in A /\ p[Len(p)] \notin A => Cut(caps, A) = Cut(new, A) + m
<1> DEFINE n == Len(p)
           I == 1 .. n - 1
<1>1. n \in Nat /\ n >= 1 /\ IsFiniteSet(I) /\ \A i \in I : i \in 1 .. n /\ i + 1 \in 1 .. n
  <2>1. n \in Nat /\ n >= 1
    BY DEF IsPath
  <2> HIDE DEF n
  <2>2. IsFiniteSet(I)
    BY <2>1, FS_Interval
  <2>3. \A i \in I : i \in 1 .. n /\ i + 1 \in 1 .. n
    BY <2>1
  <2> QED
    BY <2>1, <2>2, <2>3
<1>2. /\ \A i \in I : <<p[i], p[i + 1]>> \in E
      /\ \A i, j \in 1 .. n : p[i] = p[j] => i = j
  BY DEF IsPath
<1>3. \A e \in E : /\ Back(Back(e)) = e
                   /\ new[e] = caps[e] - (IF e \in On(p) THEN m ELSE 0) + (IF Back(e) \in On(p) THEN m ELSE 0)
                   /\ caps[e] \in Nat
  BY ConIs DEF PushedAlong
<1>4. On(p) \subseteq E
  BY <1>2 DEF On
<1>5. new \in [E -> Nat]
  <2>1. \A e \in E : new[e] \in Nat
    BY <1>3
  <2>2. DOMAIN new = E /\ new = [e \in E |-> new[e]]
    BY DEF PushedAlong
  <2> QED
    BY <2>1, <2>2
<1> SUFFICES ASSUME NEW A \in SUBSET Literals, p[1] \in A, p[Len(p)] \notin A
             PROVE  Cut(caps, A) = Cut(new, A) + m
  BY <1>5
<1> DEFINE out(e) == e[1] \in A /\ e[2] \notin A
           w == Leaving(caps, A)
           v == Leaving(new, A)
           lost == [e \in E |-> IF e \in On(p) /\ out(e) THEN -m ELSE 0]
           won == [e \in E |-> IF Back(e) \in On(p) /\ out(e) THEN m ELSE 0]
           both == [e \in E |-> lost[e] + won[e]]
           lostAt == [i \in I |-> IF p[i] \in A /\ p[i + 1] \notin A THEN -m ELSE 0]
           wonAt == [i \in I |-> IF p[i + 1] \in A /\ p[i] \notin A THEN m ELSE 0]
           bothAt == [i \in I |-> lostAt[i] + wonAt[i]]
           h == [i \in 1 .. n |-> IF p[i] \in A THEN -m ELSE 0]
           at == [i \in I |-> <<p[i], p[i + 1]>>]
           back == [i \in I |-> <<p[i + 1], p[i]>>]
           B == {back[i] : i \in I}
<1>6. \A e \in E : w[e] \in Int /\ lost[e] \in Int /\ won[e] \in Int /\ both[e] = lost[e] + won[e]
  BY <1>3 DEF Leaving
<1>7. \A e \in E : v[e] = w[e] + both[e]
  BY <1>3, <1>5 DEF Leaving
<1>8. \A i \in I : lostAt[i] \in Int /\ wonAt[i] \in Int /\ bothAt[i] = lostAt[i] + wonAt[i]
  OBVIOUS
<1>9. \A i \in I : bothAt[i] = h[i] - h[i + 1]
  <2> TAKE i \in I
  <2>1. i \in 1 .. n /\ i + 1 \in 1 .. n
    BY <1>1
  <2>2. /\ lostAt[i] = IF p[i] \in A /\ p[i + 1] \notin A THEN -m ELSE 0
        /\ wonAt[i] = IF p[i + 1] \in A /\ p[i] \notin A THEN m ELSE 0
        /\ bothAt[i] = lostAt[i] + wonAt[i]
    OBVIOUS
  <2>3. h[i] = (IF p[i] \in A THEN -m ELSE 0) /\ h[i + 1] = (IF p[i + 1] \in A THEN -m ELSE 0)
    BY <2>1
  <2> HIDE DEF lostAt, wonAt, bothAt, h
  <2> QED
    BY <2>2, <2>3
<1>10. \A i \in 1 .. n : h[i] \in Int
  OBVIOUS
<1>11. Renamed(I, at, On(p), lostAt, lost)
  <2>1. ASSUME NEW i \in I PROVE at[i] \in On(p) /\ lost[at[i]] = lostAt[i]
    <3>1. at[i] \in On(p) /\ at[i] \in E /\ at[i][1] = p[i] /\ at[i][2] = p[i + 1]
      BY <1>4 DEF On
    <3>2. lost[at[i]] = IF at[i] \in On(p) /\ out(at[i]) THEN -m ELSE 0
      BY <3>1
    <3>3. lostAt[i] = IF p[i] \in A /\ p[i + 1] \notin A THEN -m ELSE 0
      OBVIOUS
    <3> HIDE DEF at, lost, lostAt
    <3> QED
      BY <3>1, <3>2, <3>3
  <2>2. ASSUME NEW i \in I, NEW j \in I, at[i] = at[j] PROVE i = j
    <3>1. p[i] = p[j]
      BY <2>2
    <3> QED
      BY <1>1, <1>2, <3>1
  <2>3. ASSUME NEW e \in On(p) PROVE \E i \in I : at[i] = e
    BY DEF On
  <2> HIDE DEF at, lost, lostAt, I
  <2> QED
    BY <2>1, <2>2, <2>3 DEF Renamed
<1>12. Renamed(I, back, B, wonAt, won)
  <2>1. ASSUME NEW i \in I PROVE back[i] \in B /\ won[back[i]] = wonAt[i]
    <3>1. at[i] \in On(p) /\ at[i] \in E /\ Back(at[i]) = back[i] /\ Back(back[i]) = at[i]
          /\ back[i][1] = p[i + 1] /\ back[i][2] = p[i]
      BY <1>4 DEF On, Back
    <3>2. back[i] \in E
      BY <3>1
    <3>3. won[back[i]] = IF Back(back[i]) \in On(p) /\ out(back[i]) THEN m ELSE 0
      BY <3>2
    <3>4. wonAt[i] = IF p[i + 1] \in A /\ p[i] \notin A THEN m ELSE 0
      OBVIOUS
    <3> HIDE DEF at, back, won, wonAt
    <3> QED
      BY <3>1, <3>3, <3>4
  <2>2. ASSUME NEW i \in I, NEW j \in I, back[i] = back[j] PROVE i = j
    <3>1. p[i] = p[j]
      BY <2>2
    <3> QED
      BY <1>1, <1>2, <3>1
  <2>3. ASSUME NEW e \in B PROVE \E i \in I : back[i] = e
    OBVIOUS
  <2> HIDE DEF back, won, wonAt, I, B
  <2> QED
    BY <2>1, <2>2, <2>3 DEF Renamed
<1>13. B \in SUBSET E /\ \A e \in E \ B : won[e] = 0
  <2>1. \A i \in I : back[i] = Back(at[i]) /\ at[i] \in E
    BY <1>2 DEF Back
  <2>2. B \in SUBSET E
    <3>1. \A i \in I : back[i] \in E
      BY <2>1
    <3> HIDE DEF back
    <3> QED
      BY <3>1
  <2>3. ASSUME NEW e \in E, Back(e) \in On(p) PROVE e \in B
    <3>1. PICK i \in I : Back(e) = at[i]
      BY <2>3 DEF On
    <3>2. e = back[i]
      BY <1>3, <2>1, <3>1
    <3> QED
      BY <3>2
  <2> QED
    BY <2>2, <2>3
<1>14. \A e \in E \ On(p) : lost[e] = 0
  OBVIOUS
<1>15. h[1] = -m /\ h[n] = 0
  BY <1>1
<1>16. Cut(caps, A) = SumFunctionOnSet(w, E) /\ Cut(new, A) = SumFunctionOnSet(v, E)
  BY <1>5 DEF Cut
<1> HIDE DEF w, v, lost, won, both, lostAt, wonAt, bothAt, h, at, back, B, I, n, out
<1>17. SumFunctionOnSet(lost, E) = SumFunctionOnSet(lostAt, I)
  <2>1. Whole(lostAt, I) /\ Whole(lost, On(p))
    BY <1>4, <1>6, <1>8 DEF Whole
  <2>2. SumFunctionOnSet(lost, On(p)) = SumFunctionOnSet(lostAt, I)
    BY <1>1, <1>11, <2>1, SumRenamed
  <2>3. SumFunctionOnSet(lost, E) = SumFunctionOnSet(lost, On(p))
    BY <1>4, <1>14, <2>1, SumSupport
  <2> QED
    BY <2>2, <2>3
<1>18. SumFunctionOnSet(won, E) = SumFunctionOnSet(wonAt, I)
  <2>1. Whole(wonAt, I) /\ Whole(won, B)
    BY <1>6, <1>8, <1>13 DEF Whole
  <2>2. SumFunctionOnSet(won, B) = SumFunctionOnSet(wonAt, I)
    BY <1>1, <1>12, <2>1, SumRenamed
  <2>3. SumFunctionOnSet(won, E) = SumFunctionOnSet(won, B)
    BY <1>13, <2>1, SumSupport
  <2> QED
    BY <2>2, <2>3
<1>19. Whole(w, E) /\ Whole(lost, E) /\ Whole(won, E) /\ Whole(both, E) /\ Whole(lostAt, I) /\ Whole(wonAt, I)
  BY <1>6, <1>8 DEF Whole
<1>20. SumFunctionOnSet(v, E) = SumFunctionOnSet(w, E) + SumFunctionOnSet(both, E)
  BY <1>7, <1>19, SumPlus
<1>21. SumFunctionOnSet(both, E) = SumFunctionOnSet(lost, E) + SumFunctionOnSet(won, E)
  BY <1>6, <1>19, SumPlus
<1>22. SumFunctionOnSet(bothAt, I) = SumFunctionOnSet(lostAt, I) + SumFunctionOnSet(wonAt, I)
  BY <1>1, <1>8, <1>19, SumPlus
<1>23. SumFunctionOnSet(bothAt, I) = h[1] - h[n]
  <2>1. \A i \in 1 .. n - 1 : bothAt[i] = h[i] - h[i + 1]
    BY <1>9 DEF I
  <2>2. SumFunctionOnSet(bothAt, 1 .. n - 1) = h[1] - h[n]
    BY <1>1, <1>10, <2>1, Telescope
  <2> QED
    BY <2>2 DEF I
<1>24. SumFunctionOnSet(w, E) \in Int
  BY <1>19, SumType
<1> QED
  BY <1>15, <1>16, <1>17, <1>18, <1>20, <1>21, <1>22, <1>23, <1>24

\* The residual network keeps every cut of the network, but for the flow.
FlowInv ==
  /\ Q \in Matrices
  /\ residual \in [DOMAIN ImplicationNetwork -> Nat]
  /\ \E flow \in Int : \A A \in SUBSET Literals :
       Source \in A /\ Sink \notin A => Cut(ImplicationNetwork, A) = Cut(residual, A) + flow

LEMMA FlowStarts == FixInit => FlowInv
<1> SUFFICES ASSUME FixInit PROVE FlowInv
  OBVIOUS
<1>1. Q \in Matrices /\ residual = ImplicationNetwork
  BY DEF FixInit
<1>2. ImplicationNetwork \in [DOMAIN ImplicationNetwork -> Nat]
  <2>1. \A e \in DOMAIN ImplicationNetwork : ImplicationNetwork[e] \in Nat
    BY <1>1, NetworkIs
  <2>2. ImplicationNetwork = [e \in DOMAIN ImplicationNetwork |-> ImplicationNetwork[e]]
    BY DEF ImplicationNetwork
  <2> QED
    BY <2>1, <2>2
<1>3. \A A \in SUBSET Literals : Cut(ImplicationNetwork, A) \in Int
  <2> SUFFICES ASSUME NEW A \in SUBSET Literals PROVE Cut(ImplicationNetwork, A) \in Int
    OBVIOUS
  <2>1. IsFiniteSet(DOMAIN ImplicationNetwork)
    BY <1>1, NetworkIs
  <2>2. \A e \in DOMAIN ImplicationNetwork : Leaving(ImplicationNetwork, A)[e] \in Int
    BY <1>2 DEF Leaving
  <2> QED
    BY <2>1, <2>2, SumType DEF Cut, Whole
<1>4. \A A \in SUBSET Literals : Cut(ImplicationNetwork, A) = Cut(residual, A) + 0
  BY <1>1, <1>3
<1> QED
  BY <1>1, <1>2, <1>4 DEF FlowInv

LEMMA AugmentKeeps ==
  ASSUME FlowInv, Augment
  PROVE  FlowInv'
<1> DEFINE N == ImplicationNetwork
           E == DOMAIN N
<1>1. N' = N /\ Q' \in Matrices
  <2>1. Q' = Q /\ Q \in Matrices
    BY DEF Augment, FlowInv
  <2>2. N' = N
    BY <2>1, NetworkKept
  <2> QED
    BY <2>1, <2>2
<1>2. /\ IsFiniteSet(E) /\ E \subseteq Literals \X Literals /\ \A e \in E : Back(e) \in E
      /\ residual \in [E -> Nat]
  BY NetworkIs DEF FlowInv
<1> HIDE DEF N
<1>3. PICK p \in AugmentingPaths :
        LET edges == {<<p[i], p[i + 1]>> : i \in 1 .. Len(p) - 1}
            amount == Min({residual[e] : e \in edges})
        IN  residual' = [e \in DOMAIN residual |->
              residual[e] - (IF e \in edges THEN amount ELSE 0)
                          + (IF <<e[2], e[1]>> \in edges THEN amount ELSE 0)]
  BY DEF Augment
<1> DEFINE m == Min({residual[e] : e \in On(p)})
<1>4. residual' = [e \in E |-> residual[e] - (IF e \in On(p) THEN m ELSE 0) + (IF Back(e) \in On(p) THEN m ELSE 0)]
  BY <1>2, <1>3 DEF On, Back
<1>5. IsPath(ResidualEdges, p) /\ p[Len(p)] = Sink
  BY <1>2, AugmentingPathsAre
<1>6. ResidualEdges \subseteq E /\ \A e \in ResidualEdges : residual[e] \in Nat
  BY <1>2 DEF ResidualEdges
<1>7. IsPath(E, p) /\ p[1] = Source
  BY <1>5, <1>6 DEF IsPath
<1>8. m \in Nat /\ \A e \in On(p) : m <= residual[e]
  <2> DEFINE S == {residual[e] : e \in On(p)}
  <2>1. On(p) \subseteq ResidualEdges
    BY <1>5 DEF IsPath, On
  <2>2. On(p) # {}
    <3>1. Len(p) \in Nat /\ Len(p) >= 1 /\ p[1] # p[Len(p)]
      BY <1>5, <1>7, LiteralsAre DEF IsPath
    <3>2. 1 \in 1 .. Len(p) - 1
      BY <3>1
    <3> QED
      BY <3>2 DEF On
  <2>3. S \subseteq Nat /\ S # {}
    BY <1>6, <2>1, <2>2
  <2> HIDE DEF S
  <2>4. Min(S) \in S /\ \A x \in S : Min(S) <= x
    <3>1. S \subseteq Int /\ 0 \in Int /\ \A x \in S : 0 <= x
      BY <2>3
    <3> QED
      BY <2>3, <3>1, MinOfBounded
  <2>5. m = Min(S)
    BY DEF S
  <2> HIDE DEF m
  <2> QED
    BY <2>3, <2>4, <2>5 DEF S
<1> HIDE DEF m
<1>9. PushedAlong(E, residual, p, m, residual')
  BY <1>4 DEF PushedAlong
<1>10. /\ residual' \in [E -> Nat]
       /\ \A A \in SUBSET Literals : p[1] \in A /\ p[Len(p)] \notin A => Cut(residual, A) = Cut(residual', A) + m
  <2> HIDE DEF E
  <2> QED
    BY <1>2, <1>7, <1>8, <1>9, PushAlong
<1>11. PICK flow \in Int : \A A \in SUBSET Literals :
         Source \in A /\ Sink \notin A => Cut(N, A) = Cut(residual, A) + flow
  BY DEF FlowInv, N
<1>12. ASSUME NEW A \in SUBSET Literals, Source \in A, Sink \notin A
       PROVE  Cut(N, A) = Cut(residual', A) + (m + flow)
  <2>1. Cut(N, A) = Cut(residual, A) + flow
    BY <1>11, <1>12
  <2>2. Cut(residual, A) = Cut(residual', A) + m
    BY <1>5, <1>7, <1>10, <1>12
  <2>3. Cut(residual', A) \in Int
    <3>1. \A e \in E : Leaving(residual', A)[e] \in Int
      BY <1>10 DEF Leaving
    <3>2. DOMAIN residual' = E
      BY <1>10
    <3> QED
      BY <1>2, <3>1, <3>2, SumType DEF Cut, Whole
  <2> QED
    BY <1>8, <2>1, <2>2, <2>3
<1>13. m + flow \in Int
  BY <1>8, <1>11
<1>14. \E fl \in Int : \A A \in SUBSET Literals :
         Source \in A /\ Sink \notin A => Cut(N, A) = Cut(residual', A) + fl
  BY <1>12, <1>13
<1>15. FlowInv' <=> /\ Q' \in Matrices
                    /\ residual' \in [DOMAIN N' -> Nat]
                    /\ \E fl \in Int : \A A \in SUBSET Literals :
                         Source \in A /\ Sink \notin A => Cut(N', A) = Cut(residual', A) + fl
  BY DEF FlowInv, N, Cut, Leaving, Literals, Source, Sink
<1> QED
  BY <1>1, <1>10, <1>14, <1>15

-----------------------------------------------------------------------------
(* Fixing variables: an assignment is a set of literals, its energy their cut *)

\* The literals that are true.
Truths(x) == {u \in Literals : IF u[1] = 0 THEN u[2] ELSE u[2] <=> x[u[1]] = 1}

LEMMA TruthsAre ==
  ASSUME NEW x \in Assignments
  PROVE  /\ Truths(x) \in SUBSET Literals /\ Source \in Truths(x) /\ Sink \notin Truths(x)
         /\ \A u \in Literals : Bar(u) \in Truths(x) <=> u \notin Truths(x)
         /\ \A i \in Variables : /\ <<i, TRUE>> \in Truths(x) <=> x[i] = 1
                                 /\ <<i, FALSE>> \in Truths(x) <=> x[i] = 0
<1>1. Truths(x) \in SUBSET Literals
  BY DEF Truths
<1>2. Source \in Truths(x) /\ Sink \notin Truths(x)
  BY LiteralsAre DEF Truths, Source, Sink
<1>3. ASSUME NEW u \in Literals PROVE Bar(u) \in Truths(x) <=> u \notin Truths(x)
  <2>1. u[2] \in BOOLEAN /\ Bar(u) \in Literals /\ Bar(u)[1] = u[1] /\ Bar(u)[2] = ~ u[2]
    BY LiteralsAre DEF Literals, Bar
  <2> QED
    BY <2>1 DEF Truths
<1>4. ASSUME NEW i \in Variables
      PROVE  /\ <<i, TRUE>> \in Truths(x) <=> x[i] = 1
             /\ <<i, FALSE>> \in Truths(x) <=> x[i] = 0
  <2> DEFINE t == <<i, TRUE>>
             n == <<i, FALSE>>
  <2>1. i # 0 /\ i \in 0 .. NumVariables
    BY CountIs DEF Variables
  <2>2. t \in Literals /\ t[1] = i /\ t[2] = TRUE /\ n \in Literals /\ n[1] = i /\ n[2] = FALSE
    BY <2>1 DEF Literals
  <2>3. x[i] \in {0, 1}
    BY DEF Assignments
  <2> HIDE DEF t, n
  <2>4. t \in Truths(x) <=> x[i] = 1
    BY <2>1, <2>2 DEF Truths
  <2>5. n \in Truths(x) <=> x[i] # 1
    BY <2>1, <2>2 DEF Truths
  <2> QED
    BY <2>3, <2>4, <2>5 DEF t, n
<1> QED
  BY <1>1, <1>2, <1>3, <1>4

\* What a term of the posiform is worth.
Worth(x, p) == IF First(p) \in Truths(x) /\ Second(p) \in Truths(x) THEN Weight(p) ELSE 0
Worths(x) == [p \in Pairs |-> Worth(x, p)]

\* Either edge of a term leaves the true literals when the term is not zero.
LEMMA CutIsWorth ==
  ASSUME Q \in Matrices, NEW x \in Assignments
  PROVE  Cut(ImplicationNetwork, Truths(x)) = 2 * SumFunctionOnSet(Worths(x), Pairs)
<1> DEFINE N == ImplicationNetwork
           E == DOMAIN N
           T == Truths(x)
           w == Leaving(N, T)
           term == [e \in Implied |-> CHOOSE p \in Posiform : e \in Edges(p)]
           per == [p \in Pairs |-> 2 * Worth(x, p)]
           g == Worths(x)
<1>1. /\ IsFiniteSet(E) /\ Implied \subseteq E /\ E \subseteq Literals \X Literals
      /\ \A e \in E : N[e] \in Nat
      /\ \A e \in Implied : \E p \in Posiform : e \in Edges(p)
      /\ \A p \in Posiform : \A e \in Edges(p) : e \in Implied /\ N[e] = Weight(p)
      /\ \A e \in E \ Implied : N[e] = 0
      /\ \A p, q \in Posiform : \A e \in Edges(p) : e \in Edges(q) => p = q
  BY NetworkIs
<1>2. \A e \in Implied : term[e] \in Posiform /\ e \in Edges(term[e])
  BY <1>1
<1>3. \A p \in Posiform : \A e \in Edges(p) : term[e] = p
  BY <1>1, <1>2
<1>4. \A e \in E : w[e] = IF e[1] \in T /\ e[2] \notin T THEN N[e] ELSE 0
  BY DEF Leaving
<1>5. Cut(N, T) = SumFunctionOnSet(w, E)
  BY DEF Cut
<1>6. \A p \in Pairs : g[p] = Worth(x, p) /\ Worth(x, p) \in Int /\ per[p] = 2 * g[p]
  BY CoefficientsAre DEF Worth, Worths
<1>7. \A p \in Pairs \ Posiform : per[p] = 0
  BY <1>6, CoefficientsAre DEF Worth, Posiform
<1>8. Posiform \in SUBSET Pairs
  BY DEF Posiform
<1> HIDE DEF N, E, w, term, per, g
<1>9. \A e \in E : w[e] \in Int
  BY <1>1, <1>4
<1>10. ASSUME NEW p \in Posiform
       PROVE  per[p] = SumFunctionOnSet(w, {e \in Implied : term[e] = p})
  <2> DEFINE a == <<First(p), Bar(Second(p))>>
             b == <<Second(p), Bar(First(p))>>
  <2>1. {e \in Implied : term[e] = p} = {a, b}
    <3>1. Edges(p) = {a, b}
      BY DEF Edges
    <3> QED
      BY <3>1, <1>1, <1>2, <1>3
  <2>2. a # b /\ a \in E /\ b \in E /\ N[a] = Weight(p) /\ N[b] = Weight(p)
    <3>1. a \in Edges(p) /\ b \in Edges(p)
      BY DEF Edges
    <3>2. a # b
      BY EdgesAre
    <3> QED
      BY <3>1, <3>2, <1>1
  <2>3. a[1] = First(p) /\ a[2] = Bar(Second(p)) /\ b[1] = Second(p) /\ b[2] = Bar(First(p))
    OBVIOUS
  <2>4. (Bar(Second(p)) \notin T <=> Second(p) \in T) /\ (Bar(First(p)) \notin T <=> First(p) \in T)
    BY EdgesAre, TruthsAre
  <2> HIDE DEF a, b, T
  <2>5. SumFunctionOnSet(w, {a, b}) = w[a] + w[b]
    BY <2>2, <1>9, SumTwo
  <2>6. w[a] = Worth(x, p) /\ w[b] = Worth(x, p)
    BY <1>4, <2>2, <2>3, <2>4 DEF Worth, T
  <2>7. per[p] = 2 * Worth(x, p) /\ Worth(x, p) \in Int
    BY <1>6, <1>8
  <2>8. SumFunctionOnSet(w, {a, b}) = per[p]
    <3>1. \A z \in Int : z + z = 2 * z
      OBVIOUS
    <3> QED
      BY <2>5, <2>6, <2>7, <3>1
  <2> QED
    BY <2>1, <2>8
<1>11. Sorted(Implied, term, Posiform, w, per)
  <2>1. \A p \in Posiform : per[p] = SumFunctionOnSet(w, {e \in Implied : term[e] = p})
    BY <1>10
  <2> QED
    BY <1>2, <2>1 DEF Sorted
<1>12. IsFiniteSet(Implied) /\ IsFiniteSet(Posiform) /\ IsFiniteSet(Pairs)
  BY <1>1, <1>8, PairIs, FS_Subset
<1>13. Whole(w, Implied) /\ Whole(g, Pairs) /\ Whole(per, Posiform)
  BY <1>1, <1>6, <1>8, <1>9 DEF Whole
<1>14. SumFunctionOnSet(per, Posiform) = SumFunctionOnSet(w, Implied)
  BY <1>11, <1>12, <1>13, SumSorted
<1>15. SumFunctionOnSet(w, E) = SumFunctionOnSet(w, Implied)
  <2>1. \A e \in E \ Implied : w[e] = 0
    BY <1>1, <1>4
  <2>2. Implied \in SUBSET E
    BY <1>1
  <2> QED
    BY <1>1, <1>13, <2>1, <2>2, SumSupport
<1>16. SumFunctionOnSet(per, Pairs) = SumFunctionOnSet(per, Posiform)
  BY <1>7, <1>8, <1>12, <1>13, SumSupport
<1>17. SumFunctionOnSet(per, Pairs) = 2 * SumFunctionOnSet(g, Pairs)
  BY <1>6, <1>12, <1>13, SumTimes
<1> QED
  BY <1>5, <1>14, <1>15, <1>16, <1>17 DEF N, T, g

\* The terms of the function given.
TermsOf(x) == [p \in Upper(Variables) |-> UTriQ(p[1], p[2]) * x[p[1]] * x[p[2]]]
\* The part of a term that goes to the linear term of its first variable.
Linear(x) == [p \in Upper(Variables) |->
               IF p[1] = p[2] \/ UTriQ(p[1], p[2]) < 0 THEN UTriQ(p[1], p[2]) * x[p[1]] ELSE 0]
Linears(x) == [r \in Variables |-> CPrime(r) * x[r]]
Constants == [r \in Variables |-> IF CPrime(r) < 0 THEN -CPrime(r) ELSE 0]

LEMMA GivenEnergyIs ==
  ASSUME NEW x
  PROVE  Energy01(Given, x) = SumFunctionOnSet(TermsOf(x), Upper(Variables))
<1> DEFINE h == [p \in DOMAIN Given |-> Given[p] * x[p[1]] * x[p[2]]]
<1>1. DOMAIN Given = Upper(Variables) /\ \A p \in Upper(Variables) : Given[p] = UTriQ(p[1], p[2])
  BY DEF Given
<1>2. h = TermsOf(x)
  BY <1>1 DEF TermsOf
<1>3. DOMAIN h = Upper(Variables)
  BY <1>1
<1>4. Energy01(Given, x) = SumFunctionOnSet(h, DOMAIN h)
  BY DEF Energy01, SumFunction
<1> HIDE DEF h
<1> QED
  BY <1>2, <1>3, <1>4

\* The linear parts, by their variable.
LEMMA LinearsAre ==
  ASSUME Q \in Matrices, NEW x \in Assignments
  PROVE  /\ \A p \in Upper(Variables) : Linear(x)[p] \in Int
         /\ \A r \in Variables : Linears(x)[r] \in Int
         /\ SumFunctionOnSet(Linears(x), Variables) = SumFunctionOnSet(Linear(x), Upper(Variables))
<1> DEFINE U == Upper(Variables)
           w == Linear(x)
           per == Linears(x)
           key == [p \in U |-> p[1]]
<1>1. IsFiniteSet(U) /\ IsFiniteSet(Variables)
  BY PairIs
<1>2. \A p \in U : p[1] \in Variables /\ p[2] \in Variables /\ UTriQ(p[1], p[2]) \in Int /\ key[p] = p[1]
  BY CoefficientsAre DEF Upper
<1>3. \A r \in Variables : x[r] \in Int /\ CPrime(r) \in Int
  BY CoefficientsAre DEF Assignments
<1>4. \A a, b \in Int : a * b \in Int
  OBVIOUS
<1>5. \A p \in U : w[p] = IF p[1] = p[2] \/ UTriQ(p[1], p[2]) < 0 THEN UTriQ(p[1], p[2]) * x[p[1]] ELSE 0
  BY DEF Linear
<1>6. \A r \in Variables : per[r] = CPrime(r) * x[r]
  BY DEF Linears
<1>7. \A p \in U : w[p] \in Int
  BY <1>2, <1>3, <1>4, <1>5
<1>8. \A r \in Variables : per[r] \in Int
  BY <1>3, <1>4, <1>6
<1>9. ASSUME NEW r \in Variables
      PROVE  per[r] = SumFunctionOnSet(w, {p \in U : key[p] = r})
  <2> DEFINE S == {p \in U : p[1] = r /\ (p[2] = r \/ UTriQ(r, p[2]) < 0)}
             C == [p \in S |-> UTriQ(p[1], p[2])]
             K == {p \in U : key[p] = r}
  <2>1. CPrime(r) = SumFunctionOnSet(C, S)
    BY DEF CPrime, SumFunction
  <2>2. S \in SUBSET K /\ K \in SUBSET U
    BY <1>2
  <2>3. \A p \in S : C[p] = UTriQ(p[1], p[2]) /\ p[1] = r /\ p \in U /\ (p[1] = p[2] \/ UTriQ(p[1], p[2]) < 0)
    BY <1>2
  <2>4. \A p \in K \ S : p[1] = r /\ p \in U /\ ~ (p[1] = p[2] \/ UTriQ(p[1], p[2]) < 0)
    BY <1>2
  <2> HIDE DEF S, C, K, U, w, key
  <2>5. IsFiniteSet(S) /\ IsFiniteSet(K)
    BY <1>1, <2>2, FS_Subset
  <2>6. Whole(C, S) /\ Whole(w, S)
    BY <1>2, <1>7, <2>3 DEF Whole
  <2>7. \A p \in K \ S : w[p] = 0
    BY <1>5, <2>4
  <2>8. SumFunctionOnSet(w, K) = SumFunctionOnSet(w, S)
    BY <2>2, <2>5, <2>6, <2>7, SumSupport
  <2>9. \A p \in S : w[p] = x[r] * C[p]
    <3>1. \A a, b \in Int : a * b = b * a
      OBVIOUS
    <3> QED
      BY <1>2, <1>3, <1>5, <2>3, <3>1
  <2>10. SumFunctionOnSet(w, S) = x[r] * SumFunctionOnSet(C, S)
    BY <1>3, <2>5, <2>6, <2>9, SumTimes
  <2>11. per[r] = x[r] * CPrime(r)
    <3>1. \A a, b \in Int : a * b = b * a
      OBVIOUS
    <3> QED
      BY <1>3, <1>6, <3>1
  <2> QED
    BY <2>1, <2>8, <2>10, <2>11 DEF K
<1>10. \A p \in U : key[p] \in Variables
  BY <1>2
<1>11. Whole(w, U)
  BY <1>7 DEF Whole
<1> HIDE DEF U, w, per, key
<1>12. Sorted(U, key, Variables, w, per)
  <2>1. \A r \in Variables : per[r] = SumFunctionOnSet(w, {p \in U : key[p] = r})
    BY <1>9
  <2> QED
    BY <1>10, <2>1 DEF Sorted
<1>13. SumFunctionOnSet(per, Variables) = SumFunctionOnSet(w, U)
  BY <1>1, <1>11, <1>12, SumSorted
<1> QED
  BY <1>7, <1>8, <1>13 DEF U, w, per

Strict == {p \in Pairs : p[1] # 0}
Unary == {p \in Pairs : p[1] = 0}

\* A term is its linear part and what the posiform has for it.
LEMMA TermIs ==
  ASSUME Q \in Matrices, NEW x \in Assignments
  PROVE  /\ Strict \in SUBSET Upper(Variables)
         /\ \A p \in Upper(Variables) : TermsOf(x)[p] \in Int
         /\ \A p \in Strict : TermsOf(x)[p] = Linear(x)[p] + Worth(x, p)
         /\ \A p \in Upper(Variables) \ Strict : TermsOf(x)[p] = Linear(x)[p]
<1>1. \A p \in Upper(Variables) : /\ p = <<p[1], p[2]>> /\ p[1] \in Variables /\ p[2] \in Variables
                                  /\ p[1] <= p[2] /\ p[1] # 0
                                  /\ UTriQ(p[1], p[2]) \in Int /\ x[p[1]] \in {0, 1} /\ x[p[2]] \in {0, 1}
  BY CoefficientsAre DEF Upper, Variables, Assignments
<1>2. \A p \in Upper(Variables) :
        /\ TermsOf(x)[p] = UTriQ(p[1], p[2]) * x[p[1]] * x[p[2]]
        /\ Linear(x)[p] = IF p[1] = p[2] \/ UTriQ(p[1], p[2]) < 0 THEN UTriQ(p[1], p[2]) * x[p[1]] ELSE 0
  BY DEF TermsOf, Linear
<1>3. \A q \in Int : \A a, b \in {0, 1} :
        /\ q * a * b = (IF a = 1 /\ b = 1 THEN q ELSE 0)
        /\ q * a = (IF a = 1 THEN q ELSE 0)
  OBVIOUS
<1>4. Strict \in SUBSET Upper(Variables) /\ \A p \in Strict : p[1] # p[2]
  <2>1. \A p \in Strict : p = <<p[1], p[2]>> /\ p[1] \in Variables /\ p[2] \in Variables /\ p[1] < p[2]
    BY PairIs DEF Strict
  <2>2. \A a, b \in Variables : a < b => a <= b /\ a # b
    BY CountIs DEF Variables
  <2> QED
    BY <2>1, <2>2 DEF Upper
<1>5. ASSUME NEW p \in Strict PROVE TermsOf(x)[p] = Linear(x)[p] + Worth(x, p)
  <2> DEFINE q == UTriQ(p[1], p[2])
  <2>1. p \in Pairs /\ p[1] # 0 /\ Coeff(p) = q /\ p \in Upper(Variables) /\ p[1] # p[2]
    BY <1>4 DEF Strict, Coeff
  <2>2. /\ q \in Int /\ p[1] \in Variables /\ p[2] \in Variables
        /\ x[p[1]] \in {0, 1} /\ x[p[2]] \in {0, 1}
    BY <1>1, <2>1
  <2>3. First(p) = <<p[1], TRUE>> /\ (First(p) \in Truths(x) <=> x[p[1]] = 1)
    BY <2>2, TruthsAre DEF First
  <2>4. /\ TermsOf(x)[p] = (IF x[p[1]] = 1 /\ x[p[2]] = 1 THEN q ELSE 0)
        /\ Linear(x)[p] = IF q < 0 THEN (IF x[p[1]] = 1 THEN q ELSE 0) ELSE 0
    BY <1>2, <1>3, <2>1, <2>2
  <2>5. Second(p) = <<p[2], q > 0>> /\ Weight(p) = IF q > 0 THEN q ELSE -q
    BY <2>1 DEF Second, Weight
  <2>8. (<<p[2], TRUE>> \in Truths(x) <=> x[p[2]] = 1) /\ (<<p[2], FALSE>> \in Truths(x) <=> x[p[2]] = 0)
    BY <2>2, TruthsAre
  <2> HIDE DEF q
  <2>6. CASE q > 0
    <3>1. Second(p) = <<p[2], TRUE>>
      BY <2>5, <2>6
    <3>2. Second(p) \in Truths(x) <=> x[p[2]] = 1
      BY <2>8, <3>1
    <3>3. Worth(x, p) = IF x[p[1]] = 1 /\ x[p[2]] = 1 THEN q ELSE 0
      BY <2>3, <2>5, <2>6, <3>2 DEF Worth
    <3> QED
      BY <2>2, <2>4, <2>6, <3>3
  <2>7. CASE ~ (q > 0)
    <3>1. Second(p) = <<p[2], FALSE>>
      <4>1. (q > 0) = FALSE
        BY <2>7
      <4> QED
        BY <2>5, <4>1
    <3>2. Second(p) \in Truths(x) <=> x[p[2]] = 0
      BY <2>8, <3>1
    <3>3. Worth(x, p) = IF x[p[1]] = 1 /\ x[p[2]] = 0 THEN -q ELSE 0
      BY <2>3, <2>5, <2>7, <3>2 DEF Worth
    <3> QED
      BY <2>2, <2>4, <2>7, <3>3
  <2> QED
    BY <2>6, <2>7
<1>6. ASSUME NEW p \in Upper(Variables) \ Strict PROVE TermsOf(x)[p] = Linear(x)[p]
  <2>1. p[1] = p[2]
    <3>1. p[1] < p[2] => p \in Strict
      BY <1>1, CountIs DEF Strict, Pairs, Variables
    <3> QED
      BY <3>1, <1>1, CountIs DEF Variables
  <2> QED
    BY <1>1, <1>2, <1>3, <2>1
<1>7. \A p \in Upper(Variables) : TermsOf(x)[p] \in Int
  BY <1>1, <1>2, <1>3
<1> QED
  BY <1>4, <1>5, <1>6, <1>7

\* A linear term is worth its coefficient, up to a constant.
LEMMA UnaryIs ==
  ASSUME Q \in Matrices, NEW x \in Assignments, NEW r \in Variables
  PROVE  <<0, r>> \in Unary /\ Constants[r] \in Int /\ Worth(x, <<0, r>>) = Linears(x)[r] + Constants[r]
<1> DEFINE p == <<0, r>>
           c == CPrime(r)
<1>1. p \in Pairs /\ p[1] = 0 /\ p[2] = r
  BY CountIs DEF Pairs, Variables
<1>2. c \in Int /\ x[r] \in {0, 1} /\ Coeff(p) = c
  BY <1>1, CoefficientsAre DEF Coeff, Assignments
<1>3. First(p) = Source
  BY <1>1 DEF First, Source
<1>4. First(p) \in Truths(x)
  BY <1>3, TruthsAre
<1>5. Second(p) = <<r, c > 0>> /\ Weight(p) = IF c > 0 THEN c ELSE -c
  BY <1>1, <1>2 DEF Second, Weight
<1>6. Linears(x)[r] = (IF x[r] = 1 THEN c ELSE 0) /\ Constants[r] = (IF c < 0 THEN -c ELSE 0)
  <2>1. \A q \in Int : \A a \in {0, 1} : q * a = (IF a = 1 THEN q ELSE 0)
    OBVIOUS
  <2> QED
    BY <1>2, <2>1 DEF Linears, Constants
<1> HIDE DEF p, c
<1>7. CASE c > 0
  <2>1. Second(p) = <<r, TRUE>>
    BY <1>5, <1>7
  <2>2. Second(p) \in Truths(x) <=> x[r] = 1
    BY <2>1, TruthsAre
  <2>3. Worth(x, p) = IF x[r] = 1 THEN c ELSE 0
    BY <1>4, <1>5, <1>7, <2>2 DEF Worth
  <2> QED
    BY <1>1, <1>2, <1>6, <1>7, <2>3 DEF p, Unary
<1>8. CASE ~ (c > 0)
  <2>1. Second(p) = <<r, FALSE>>
    <3>1. (c > 0) = FALSE
      BY <1>8
    <3> QED
      BY <1>5, <3>1
  <2>2. Second(p) \in Truths(x) <=> x[r] = 0
    BY <2>1, TruthsAre
  <2>3. Worth(x, p) = IF x[r] = 0 THEN -c ELSE 0
    BY <1>4, <1>5, <1>8, <2>2 DEF Worth
  <2> QED
    BY <1>1, <1>2, <1>6, <1>8, <2>3 DEF p, Unary
<1> QED
  BY <1>7, <1>8

\* The posiform is the function given, up to a constant.
LEMMA WorthIsEnergy ==
  ASSUME Q \in Matrices, NEW x \in Assignments
  PROVE  /\ Energy01(Given, x) \in Int /\ SumFunctionOnSet(Constants, Variables) \in Int
         /\ SumFunctionOnSet(Worths(x), Pairs)
              = Energy01(Given, x) + SumFunctionOnSet(Constants, Variables)
<1> DEFINE U == Upper(Variables)
           t == TermsOf(x)
           l == Linear(x)
           g == Worths(x)
           k == Linears(x)
           quad == [p \in U |-> IF p \in Strict THEN Worth(x, p) ELSE 0]
           one == [r \in Variables |-> k[r] + Constants[r]]
           name == [r \in Variables |-> <<0, r>>]
<1>1. IsFiniteSet(U) /\ IsFiniteSet(Variables) /\ IsFiniteSet(Pairs)
  BY PairIs
<1>2. \A p \in Pairs : Worth(x, p) \in Int /\ g[p] = Worth(x, p)
  BY CoefficientsAre DEF Worth, Worths
<1>3. Strict \in SUBSET U /\ Strict \in SUBSET Pairs /\ Unary \in SUBSET Pairs
      /\ Strict \cup Unary = Pairs /\ Strict \cap Unary = {}
  BY TermIs DEF Strict, Unary
<1>4. IsFiniteSet(Strict) /\ IsFiniteSet(Unary)
  BY <1>1, <1>3, FS_Subset
<1>5. \A p \in U : t[p] \in Int /\ l[p] \in Int
  BY TermIs, LinearsAre
<1>6. \A p \in U : quad[p] = (IF p \in Strict THEN Worth(x, p) ELSE 0) /\ quad[p] \in Int
  BY <1>2, <1>3
<1>7. \A p \in U : t[p] = l[p] + quad[p]
  BY <1>5, <1>6, TermIs
<1>8. \A r \in Variables : /\ k[r] \in Int /\ Constants[r] \in Int /\ one[r] = k[r] + Constants[r]
                           /\ name[r] = <<0, r>> /\ name[r] \in Unary /\ g[name[r]] = one[r]
  <2> TAKE r \in Variables
  <2>1. k[r] \in Int
    BY LinearsAre
  <2>2. <<0, r>> \in Unary /\ Constants[r] \in Int /\ Worth(x, <<0, r>>) = k[r] + Constants[r]
    BY UnaryIs
  <2>3. one[r] = k[r] + Constants[r] /\ name[r] = <<0, r>>
    OBVIOUS
  <2>4. g[<<0, r>>] = Worth(x, <<0, r>>)
    BY <2>2, <1>2, <1>3
  <2> HIDE DEF one, name, k, g
  <2> QED
    BY <2>1, <2>2, <2>3, <2>4
<1>9. ASSUME NEW p \in Unary PROVE \E r \in Variables : name[r] = p
  <2>1. p = <<p[1], p[2]>> /\ p[1] = 0 /\ p[2] \in Variables
    BY PairIs DEF Unary
  <2> QED
    BY <2>1
<1>10. Energy01(Given, x) = SumFunctionOnSet(t, U)
  BY GivenEnergyIs
<1>11. SumFunctionOnSet(k, Variables) = SumFunctionOnSet(l, U)
  BY LinearsAre
<1> HIDE DEF U, t, l, g, k, quad, one, name
<1>12. /\ Whole(t, U) /\ Whole(l, U) /\ Whole(quad, U) /\ Whole(quad, Strict)
       /\ Whole(k, Variables) /\ Whole(Constants, Variables) /\ Whole(one, Variables)
       /\ Whole(g, Strict \cup Unary) /\ Whole(g, Strict)
  BY <1>2, <1>3, <1>5, <1>6, <1>8 DEF Whole
<1>13. SumFunctionOnSet(t, U) = SumFunctionOnSet(l, U) + SumFunctionOnSet(quad, U)
  BY <1>1, <1>7, <1>12, SumPlus
<1>14. SumFunctionOnSet(quad, U) = SumFunctionOnSet(quad, Strict)
  BY <1>1, <1>3, <1>6, <1>12, SumSupport
<1>15. SumFunctionOnSet(quad, Strict) = SumFunctionOnSet(g, Strict)
  <2>1. \A p \in Strict : quad[p] = g[p]
    BY <1>2, <1>3, <1>6
  <2> QED
    BY <1>4, <1>12, <2>1, SumEqual
<1>16. Renamed(Variables, name, Unary, one, g)
  <2>1. \A r, s \in Variables : name[r] = name[s] => r = s
    BY <1>8
  <2> QED
    BY <1>8, <1>9, <2>1 DEF Renamed
<1>17. SumFunctionOnSet(g, Unary) = SumFunctionOnSet(one, Variables)
  BY <1>1, <1>12, <1>16, SumRenamed
<1>18. SumFunctionOnSet(one, Variables) = SumFunctionOnSet(k, Variables) + SumFunctionOnSet(Constants, Variables)
  BY <1>1, <1>8, <1>12, SumPlus
<1>19. SumFunctionOnSet(g, Strict \cup Unary) = SumFunctionOnSet(g, Strict) + SumFunctionOnSet(g, Unary)
  BY <1>3, <1>4, <1>12, SumUnion
<1>20. /\ SumFunctionOnSet(t, U) \in Int /\ SumFunctionOnSet(l, U) \in Int
       /\ SumFunctionOnSet(g, Strict) \in Int /\ SumFunctionOnSet(Constants, Variables) \in Int
  BY <1>1, <1>4, <1>12, SumType
<1>21. SumFunctionOnSet(g, Pairs) = SumFunctionOnSet(g, Strict) + SumFunctionOnSet(one, Variables)
  BY <1>3, <1>17, <1>19
<1>22. SumFunctionOnSet(t, U) = SumFunctionOnSet(k, Variables) + SumFunctionOnSet(g, Strict)
  BY <1>11, <1>13, <1>14, <1>15
<1>23. SumFunctionOnSet(k, Variables) \in Int
  BY <1>11, <1>20
<1>24. SumFunctionOnSet(g, Pairs) = SumFunctionOnSet(t, U) + SumFunctionOnSet(Constants, Variables)
  BY <1>18, <1>20, <1>21, <1>22, <1>23
<1> QED
  BY <1>10, <1>20, <1>24 DEF g

\* The cut of the true literals is twice the energy, up to a constant.
LEMMA CutIsEnergy ==
  ASSUME Q \in Matrices
  PROVE  \E K \in Int : \A x \in Assignments :
           /\ Energy01(Given, x) \in Int
           /\ Cut(ImplicationNetwork, Truths(x)) = 2 * (Energy01(Given, x) + K)
<1> DEFINE K == SumFunctionOnSet(Constants, Variables)
<1>1. K \in Int
  <2>1. IsFiniteSet(Variables)
    BY PairIs
  <2>2. \A r \in Variables : Constants[r] \in Int
    BY CoefficientsAre DEF Constants
  <2> QED
    BY <2>1, <2>2, SumType DEF Whole
<1>2. ASSUME NEW x \in Assignments
      PROVE  /\ Energy01(Given, x) \in Int
             /\ Cut(ImplicationNetwork, Truths(x)) = 2 * (Energy01(Given, x) + K)
  BY CutIsWorth, WorthIsEnergy
<1> HIDE DEF K
<1> QED
  BY <1>1, <1>2

-----------------------------------------------------------------------------
(* Fixing variables: what the residual network says of every minimum       *)

\* Literals that can be made true in any assignment without a rise in energy.
Unopposed(F) == F \in SUBSET Literals /\ Source \in F /\ \A u \in F : Bar(u) \notin F
Persistent(edges, F) ==
  /\ Unopposed(F)
  /\ \A e \in edges : /\ e[1] \in F => e[2] \in F
                      /\ Bar(e[2]) \in F => Bar(e[1]) \in F

Overwritten(x, F) ==
  [i \in Variables |-> IF <<i, TRUE>> \in F THEN 1 ELSE IF <<i, FALSE>> \in F THEN 0 ELSE x[i]]

LEMMA OverwrittenIs ==
  ASSUME NEW F, Unopposed(F), NEW x \in Assignments
  PROVE  /\ Overwritten(x, F) \in Assignments
         /\ Truths(Overwritten(x, F)) = F \cup {u \in Truths(x) : Bar(u) \notin F}
<1> DEFINE y == Overwritten(x, F)
<1>1. \A i \in Variables : y[i] = (IF <<i, TRUE>> \in F THEN 1 ELSE IF <<i, FALSE>> \in F THEN 0 ELSE x[i])
  BY DEF Overwritten
<1>2. y \in Assignments
  BY DEF Overwritten, Assignments
<1>3. ASSUME NEW u \in Literals
      PROVE  u \in Truths(y) <=> u \in F \/ (u \in Truths(x) /\ Bar(u) \notin F)
  <2>1. PICK i \in 0 .. NumVariables, b \in BOOLEAN : u = <<i, b>>
    BY DEF Literals
  <2>2. Bar(u) = <<i, ~b>>
    BY <2>1 DEF Bar
  <2>3. CASE i = 0
    <3>1. CASE b = TRUE
      <4>1. u = Source
        BY <2>1, <2>3, <3>1 DEF Source
      <4> QED
        BY <4>1, <1>2, TruthsAre DEF Unopposed
    <3>2. CASE b = FALSE
      <4>1. u = Sink /\ Sink \notin F
        BY <2>1, <2>3, <3>2, LiteralsAre DEF Sink, Unopposed
      <4> QED
        BY <4>1, <1>2, TruthsAre
    <3> QED
      BY <3>1, <3>2
  <2>4. CASE i # 0
    <3>1. i \in Variables
      BY <2>4, CountIs DEF Variables
    <3>2. y[i] = (IF <<i, TRUE>> \in F THEN 1 ELSE IF <<i, FALSE>> \in F THEN 0 ELSE x[i]) /\ x[i] \in {0, 1}
      BY <3>1, <1>1 DEF Assignments
    <3>3. CASE b = TRUE
      <4>1. u = <<i, TRUE>> /\ Bar(u) = <<i, FALSE>>
        BY <2>1, <2>2, <3>3
      <4>2. (u \in Truths(y) <=> y[i] = 1) /\ (u \in Truths(x) <=> x[i] = 1)
        BY <3>1, <4>1, <1>2, TruthsAre
      <4> HIDE DEF y
      <4>3. y[i] = (IF u \in F THEN 1 ELSE IF Bar(u) \in F THEN 0 ELSE x[i])
        BY <3>2, <4>1
      <4> QED
        BY <4>2, <4>3
    <3>4. CASE b = FALSE
      <4>1. u = <<i, FALSE>> /\ Bar(u) = <<i, TRUE>>
        BY <2>1, <2>2, <3>4
      <4>2. (u \in Truths(y) <=> y[i] = 0) /\ (u \in Truths(x) <=> x[i] = 0)
        BY <3>1, <4>1, <1>2, TruthsAre
      <4>3. u \in F => Bar(u) \notin F
        BY DEF Unopposed
      <4> HIDE DEF y
      <4>4. y[i] = (IF Bar(u) \in F THEN 1 ELSE IF u \in F THEN 0 ELSE x[i]) /\ x[i] \in {0, 1}
        BY <3>2, <4>1
      <4> QED
        BY <4>2, <4>3, <4>4
    <3> QED
      BY <3>3, <3>4
  <2> QED
    BY <2>3, <2>4
<1>4. Truths(y) \in SUBSET Literals /\ Truths(x) \in SUBSET Literals /\ F \in SUBSET Literals
  BY <1>2, TruthsAre DEF Unopposed
<1> HIDE DEF y
<1>5. Truths(y) = F \cup {u \in Truths(x) : Bar(u) \notin F}
  BY <1>3, <1>4
<1> QED
  BY <1>2, <1>5 DEF y

\* What the residual network is.
LEMMA ResidualIs ==
  ASSUME FlowInv
  PROVE  /\ Q \in Matrices /\ IsFiniteSet(DOMAIN residual) /\ DOMAIN residual \subseteq Literals \X Literals
         /\ \A e \in DOMAIN residual : residual[e] \in Nat
         /\ ResidualEdges \subseteq Literals \X Literals /\ ResidualEdges \subseteq DOMAIN residual
         /\ \A e \in DOMAIN residual : e \notin ResidualEdges => residual[e] = 0
         /\ \A e \in ResidualEdges : residual[e] > 0
         /\ \A A : Cut(residual, A) \in Int /\ \A e \in DOMAIN residual : Leaving(residual, A)[e] \in Nat
<1>1. Q \in Matrices /\ residual \in [DOMAIN ImplicationNetwork -> Nat]
  BY DEF FlowInv
<1>2. IsFiniteSet(DOMAIN residual) /\ DOMAIN residual \subseteq Literals \X Literals
  BY <1>1, NetworkIs
<1>3. \A e \in DOMAIN residual : residual[e] \in Nat
  BY <1>1
<1>4. ASSUME NEW A
      PROVE  Cut(residual, A) \in Int /\ \A e \in DOMAIN residual : Leaving(residual, A)[e] \in Nat
  <2>1. \A e \in DOMAIN residual : Leaving(residual, A)[e] \in Nat
    BY <1>3 DEF Leaving
  <2> QED
    BY <1>2, <2>1, SumType DEF Cut, Whole
<1> QED
  BY <1>1, <1>2, <1>3, <1>4 DEF ResidualEdges

\* The cut of the true literals in the residual network orders assignments as
\* the energy does.
LEMMA ResidualOrder ==
  ASSUME FlowInv, NEW x \in Assignments, NEW y \in Assignments
  PROVE  /\ Energy01(Given, x) \in Int /\ Energy01(Given, y) \in Int
         /\ Energy01(Given, x) <= Energy01(Given, y)
              <=> Cut(residual, Truths(x)) <= Cut(residual, Truths(y))
<1>1. Q \in Matrices
  BY DEF FlowInv
<1>2. PICK K \in Int : \A z \in Assignments :
         /\ Energy01(Given, z) \in Int
         /\ Cut(ImplicationNetwork, Truths(z)) = 2 * (Energy01(Given, z) + K)
  BY <1>1, CutIsEnergy
<1>3. PICK flow \in Int : \A A \in SUBSET Literals :
        Source \in A /\ Sink \notin A => Cut(ImplicationNetwork, A) = Cut(residual, A) + flow
  BY DEF FlowInv
<1>4. /\ Cut(ImplicationNetwork, Truths(x)) = Cut(residual, Truths(x)) + flow
      /\ Cut(ImplicationNetwork, Truths(y)) = Cut(residual, Truths(y)) + flow
  <2>1. /\ Truths(x) \in SUBSET Literals /\ Source \in Truths(x) /\ Sink \notin Truths(x)
        /\ Truths(y) \in SUBSET Literals /\ Source \in Truths(y) /\ Sink \notin Truths(y)
    BY TruthsAre
  <2> QED
    BY <1>3, <2>1
<1>5. Cut(residual, Truths(x)) \in Int /\ Cut(residual, Truths(y)) \in Int
  BY ResidualIs
<1>6. \A a, b, c, d, k, fl \in Int :
        2 * (a + k) = c + fl /\ 2 * (b + k) = d + fl => (a <= b <=> c <= d)
  OBVIOUS
<1>7. /\ 2 * (Energy01(Given, x) + K) = Cut(residual, Truths(x)) + flow
      /\ 2 * (Energy01(Given, y) + K) = Cut(residual, Truths(y)) + flow
  BY <1>2, <1>4
<1> QED
  BY <1>2, <1>5, <1>6, <1>7

\* An edge that leaves the literals true afterwards left those true before.
LEMMA StillLeaves ==
  ASSUME NEW F, Persistent(ResidualEdges, F), NEW x \in Assignments,
         NEW e \in ResidualEdges, e \in Literals \X Literals,
         e[1] \in Truths(Overwritten(x, F)), e[2] \notin Truths(Overwritten(x, F))
  PROVE  e[1] \in Truths(x) /\ e[2] \notin Truths(x) /\ e[1] \notin F
<1>1. Truths(Overwritten(x, F)) = F \cup {u \in Truths(x) : Bar(u) \notin F}
  BY OverwrittenIs DEF Persistent
<1>2. (e[1] \in F => e[2] \in F) /\ (Bar(e[2]) \in F => Bar(e[1]) \in F)
  BY DEF Persistent
<1>3. e[1] \notin F
  BY <1>1, <1>2
<1>4. e[1] \in Truths(x) /\ Bar(e[1]) \notin F
  BY <1>1, <1>3
<1> QED
  BY <1>1, <1>2, <1>3, <1>4

LEMMA OverwritingIsSafe ==
  ASSUME FlowInv, NEW F, Persistent(ResidualEdges, F), NEW x \in Assignments
  PROVE  Energy01(Given, Overwritten(x, F)) <= Energy01(Given, x)
<1> DEFINE y == Overwritten(x, F)
           E == DOMAIN residual
           v == Leaving(residual, Truths(y))
           w == Leaving(residual, Truths(x))
<1>1. y \in Assignments
  BY OverwrittenIs DEF Persistent
<1>2. ASSUME NEW e \in E PROVE v[e] \in Int /\ w[e] \in Int /\ v[e] <= w[e]
  <2>1. v[e] \in Nat /\ w[e] \in Nat
    BY ResidualIs
  <2>2. /\ v[e] = IF e[1] \in Truths(y) /\ e[2] \notin Truths(y) THEN residual[e] ELSE 0
        /\ w[e] = IF e[1] \in Truths(x) /\ e[2] \notin Truths(x) THEN residual[e] ELSE 0
    BY DEF Leaving
  <2>3. CASE e \in ResidualEdges /\ e[1] \in Truths(y) /\ e[2] \notin Truths(y)
    <3>1. e \in Literals \X Literals
      BY ResidualIs
    <3>2. e[1] \in Truths(x) /\ e[2] \notin Truths(x)
      BY <2>3, <3>1, StillLeaves
    <3> HIDE DEF v, w
    <3> QED
      BY <2>1, <2>2, <2>3, <3>2
  <2>4. CASE ~ (e \in ResidualEdges /\ e[1] \in Truths(y) /\ e[2] \notin Truths(y))
    <3>1. e \notin ResidualEdges => residual[e] = 0
      BY ResidualIs
    <3> HIDE DEF v, w, y
    <3>2. v[e] = 0
      BY <2>2, <2>4, <3>1
    <3> QED
      BY <2>1, <3>2
  <2> QED
    BY <2>3, <2>4
<1>3. IsFiniteSet(E)
  BY ResidualIs
<1>4. Cut(residual, Truths(y)) = SumFunctionOnSet(v, E) /\ Cut(residual, Truths(x)) = SumFunctionOnSet(w, E)
  BY DEF Cut
<1> HIDE DEF y, E, v, w
<1>5. Whole(v, E) /\ Whole(w, E)
  BY <1>2 DEF Whole
<1>6. SumFunctionOnSet(v, E) <= SumFunctionOnSet(w, E)
  BY <1>2, <1>3, <1>5, SumAtMost
<1>7. Energy01(Given, y) <= Energy01(Given, x)
  BY <1>1, <1>4, <1>6, ResidualOrder
<1> QED
  BY <1>7 DEF y

Reached == ReachedFrom(ResidualEdges, Source)

\* Energy falls when something that the source reaches was not true.
LEMMA OverwritingHelps ==
  ASSUME FlowInv, Persistent(ResidualEdges, Reached), NEW x \in Assignments, ~ (Reached \subseteq Truths(x))
  PROVE  ~ (Energy01(Given, x) <= Energy01(Given, Overwritten(x, Reached)))
<1> DEFINE F == Reached
           y == Overwritten(x, F)
           E == DOMAIN residual
           v == Leaving(residual, Truths(y))
           w == Leaving(residual, Truths(x))
<1>1. y \in Assignments
  BY OverwrittenIs DEF Persistent
<1>2. Reach(ResidualEdges, Source, F)
  <2>1. ResidualEdges \subseteq Literals \X Literals /\ Source \in Literals
    BY ResidualIs, LiteralsAre
  <2> QED
    BY <2>1, ReachedIs DEF Reached
<1>3. PICK z \in ResidualEdges : z[1] \in F \cap Truths(x) /\ z[2] \notin F \cap Truths(x)
  <2>1. Source \in F \cap Truths(x)
    BY <1>2, TruthsAre DEF Reach
  <2>2. ~ Closed(ResidualEdges, F \cap Truths(x))
    BY <1>2, <2>1 DEF Reach
  <2> QED
    BY <2>2 DEF Closed
<1>4. z[2] \in F /\ z[2] \notin Truths(x)
  BY <1>2, <1>3 DEF Reach, Closed
<1>5. ASSUME NEW e \in E
      PROVE  /\ v[e] \in Int /\ w[e] \in Int /\ v[e] <= w[e]
             /\ v[e] = IF e[1] \in Truths(y) /\ e[2] \notin Truths(y) THEN residual[e] ELSE 0
             /\ w[e] = IF e[1] \in Truths(x) /\ e[2] \notin Truths(x) THEN residual[e] ELSE 0
  <2>1. v[e] \in Nat /\ w[e] \in Nat
    BY ResidualIs
  <2>2. /\ v[e] = IF e[1] \in Truths(y) /\ e[2] \notin Truths(y) THEN residual[e] ELSE 0
        /\ w[e] = IF e[1] \in Truths(x) /\ e[2] \notin Truths(x) THEN residual[e] ELSE 0
    BY DEF Leaving
  <2>3. CASE e \in ResidualEdges /\ e[1] \in Truths(y) /\ e[2] \notin Truths(y)
    <3>1. e \in Literals \X Literals
      BY ResidualIs
    <3>2. e[1] \in Truths(x) /\ e[2] \notin Truths(x)
      BY <2>3, <3>1, StillLeaves
    <3> HIDE DEF v, w
    <3> QED
      BY <2>1, <2>2, <2>3, <3>2
  <2>4. CASE ~ (e \in ResidualEdges /\ e[1] \in Truths(y) /\ e[2] \notin Truths(y))
    <3>1. e \notin ResidualEdges => residual[e] = 0
      BY ResidualIs
    <3> HIDE DEF v, w, y
    <3>2. v[e] = 0
      BY <2>2, <2>4, <3>1
    <3> QED
      BY <2>1, <2>2, <3>2
  <2> QED
    BY <2>3, <2>4
<1>6. F \subseteq Truths(y)
  BY OverwrittenIs DEF Persistent
<1>7. IsFiniteSet(E) /\ z \in E /\ residual[z] > 0 /\ residual[z] \in Nat
  BY ResidualIs
<1>8. Cut(residual, Truths(y)) = SumFunctionOnSet(v, E) /\ Cut(residual, Truths(x)) = SumFunctionOnSet(w, E)
  BY DEF Cut
<1> HIDE DEF y, E, v, w, F
<1>9. v[z] < w[z]
  <2>1. v[z] = 0
    BY <1>4, <1>5, <1>6, <1>7
  <2>2. w[z] = residual[z]
    BY <1>3, <1>4, <1>5, <1>7
  <2> QED
    BY <1>7, <2>1, <2>2
<1>10. Whole(v, E) /\ Whole(w, E)
  BY <1>5 DEF Whole
<1>11. SumFunctionOnSet(v, E) < SumFunctionOnSet(w, E)
  BY <1>5, <1>7, <1>9, <1>10, SumLess
<1>12. SumFunctionOnSet(v, E) \in Int /\ SumFunctionOnSet(w, E) \in Int
  BY <1>7, <1>10, SumType
<1>13. ~ (SumFunctionOnSet(w, E) <= SumFunctionOnSet(v, E))
  BY <1>11, <1>12
<1>14. ~ (Energy01(Given, x) <= Energy01(Given, y))
  BY <1>1, <1>8, <1>13, ResidualOrder
<1> QED
  BY <1>14 DEF y, F

\* A set that no edge with capacity leaves has no cut, and no other has none.
LEMMA NoCut ==
  ASSUME FlowInv, NEW A
  PROVE  Cut(residual, A) = 0 <=> Closed(ResidualEdges, A)
<1> DEFINE E == DOMAIN residual
           w == Leaving(residual, A)
           none == [e \in E |-> 0]
<1>1. /\ IsFiniteSet(E) /\ Cut(residual, A) = SumFunctionOnSet(w, E)
      /\ \A e \in E : w[e] \in Nat /\ none[e] = 0
      /\ \A e \in E : w[e] = IF e[1] \in A /\ e[2] \notin A THEN residual[e] ELSE 0
  BY ResidualIs DEF Cut, Leaving
<1>2. /\ ResidualEdges \subseteq E /\ \A e \in ResidualEdges : residual[e] > 0
      /\ \A e \in E : residual[e] \in Nat /\ (e \notin ResidualEdges => residual[e] = 0)
  BY ResidualIs
<1> HIDE DEF E, w, none
<1>3. ASSUME Closed(ResidualEdges, A) PROVE SumFunctionOnSet(w, E) = 0
  <2>1. \A e \in E : w[e] = 0
    BY <1>1, <1>2, <1>3 DEF Closed
  <2> QED
    BY <1>1, <2>1, SumZero
<1>4. ASSUME ~ Closed(ResidualEdges, A) PROVE SumFunctionOnSet(w, E) # 0
  <2>1. PICK z \in ResidualEdges : z[1] \in A /\ z[2] \notin A
    BY <1>4 DEF Closed
  <2>2. z \in E /\ w[z] = residual[z] /\ residual[z] \in Nat /\ residual[z] > 0
    BY <1>1, <1>2, <2>1
  <2>3. none[z] < w[z]
    BY <1>1, <2>2
  <2>4. Whole(w, E) /\ Whole(none, E) /\ \A e \in E : none[e] <= w[e]
    BY <1>1 DEF Whole
  <2>5. SumFunctionOnSet(none, E) < SumFunctionOnSet(w, E)
    BY <1>1, <2>2, <2>3, <2>4, SumLess
  <2>6. SumFunctionOnSet(none, E) = 0
    BY <1>1, SumZero
  <2>7. SumFunctionOnSet(w, E) \in Int
    BY <1>1, <2>4, SumType
  <2> QED
    BY <2>5, <2>6, <2>7
<1> QED
  BY <1>1, <1>3, <1>4

\* When the flow is maximal, the source reaches nothing together with its
\* complement.
LEMMA ReachedIsPersistent ==
  ASSUME FlowInv, ~ SinkIsReached
  PROVE  Persistent(ResidualEdges, Reached) /\ Reach(ResidualEdges, Source, Reached)
<1> DEFINE R == Reached
<1>1. Reach(ResidualEdges, Source, R)
  <2>1. ResidualEdges \subseteq Literals \X Literals /\ Source \in Literals
    BY ResidualIs, LiteralsAre
  <2> QED
    BY <2>1, ReachedIs DEF Reached
<1>2. R \in SUBSET Literals /\ Source \in R /\ Closed(ResidualEdges, R) /\ Sink \notin R
  BY <1>1 DEF Reach, SinkIsReached, Reached
<1> HIDE DEF R
<1>3. Dual(R) \in SUBSET Literals /\ Source \in Dual(R) /\ Sink \notin Dual(R)
  BY <1>2, LiteralsAre DEF Dual
<1>4. Cut(residual, R) = 0
  BY <1>2, NoCut
<1>5. PICK flow \in Int : \A A \in SUBSET Literals :
        Source \in A /\ Sink \notin A => Cut(ImplicationNetwork, A) = Cut(residual, A) + flow
  BY DEF FlowInv
<1>6. /\ Cut(ImplicationNetwork, R) = Cut(residual, R) + flow
      /\ Cut(ImplicationNetwork, Dual(R)) = Cut(residual, Dual(R)) + flow
  BY <1>2, <1>3, <1>5
<1>7. Cut(ImplicationNetwork, Dual(R)) = Cut(ImplicationNetwork, R)
  BY <1>2, DualCut DEF FlowInv
<1>8. Cut(residual, Dual(R)) \in Int
  BY ResidualIs
<1>9. Cut(residual, Dual(R)) = 0
  BY <1>4, <1>6, <1>7, <1>8
<1>10. Closed(ResidualEdges, Dual(R))
  BY <1>9, NoCut
<1>11. R \subseteq Dual(R)
  BY <1>1, <1>3, <1>10 DEF Reach
<1>12. Unopposed(R)
  BY <1>2, <1>11 DEF Unopposed, Dual
<1>13. ASSUME NEW e \in ResidualEdges, Bar(e[2]) \in R PROVE Bar(e[1]) \in R
  <2>1. e \in Literals \X Literals
    BY ResidualIs
  <2>2. e[1] \in Literals /\ e[2] \in Literals
    BY <2>1
  <2>3. e[2] \notin Dual(R)
    BY <1>13 DEF Dual
  <2>4. e[1] \notin Dual(R)
    BY <2>3, <1>10 DEF Closed
  <2> QED
    BY <2>2, <2>4 DEF Dual
<1>14. Persistent(ResidualEdges, R)
  BY <1>2, <1>12, <1>13 DEF Persistent, Closed
<1> QED
  BY <1>1, <1>14 DEF R

-----------------------------------------------------------------------------
(* Fixing variables: strong components                                     *)

\* The edges are the same both ways, and none enters the source.
LEMMA SymmetricIs ==
  ASSUME FlowInv
  PROVE  /\ SymmetricResidual \subseteq Literals \X Literals
         /\ \A e \in SymmetricResidual :
              /\ Con(e) \in SymmetricResidual /\ e[1] # Sink /\ e[2] # Source
              /\ e \in ResidualEdges \/ Con(e) \in ResidualEdges
         /\ \A e \in ResidualEdges : e[1] # Sink /\ e[2] # Source => e \in SymmetricResidual
<1> DEFINE D == {<<Bar(e[2]), Bar(e[1])>> : e \in ResidualEdges}
<1>1. ResidualEdges \subseteq Literals \X Literals
  BY ResidualIs
<1>2. \A e \in ResidualEdges : Con(e) \in D
  BY DEF Con
<1>3. \A d \in D : \E e \in ResidualEdges : d = Con(e)
  BY DEF Con
<1>4. SymmetricResidual = {e \in ResidualEdges \cup D : e[1] # Sink /\ e[2] # Source}
  BY DEF SymmetricResidual
<1> HIDE DEF D
<1>5. \A d \in D : d \in Literals \X Literals /\ Con(d) \in ResidualEdges
  BY <1>1, <1>3, ConIs
<1>6. ASSUME NEW e \in SymmetricResidual PROVE Con(e) \in SymmetricResidual
  <2>1. e \in Literals \X Literals /\ e[1] # Sink /\ e[2] # Source /\ Con(e) \in ResidualEdges \cup D
    BY <1>1, <1>2, <1>4, <1>5
  <2>2. Con(e)[1] = Bar(e[2]) /\ Con(e)[2] = Bar(e[1]) /\ e[1] \in Literals /\ e[2] \in Literals
    BY <2>1 DEF Con
  <2>3. Bar(e[2]) # Sink /\ Bar(e[1]) # Source
    BY <2>1, <2>2, LiteralsAre
  <2> QED
    BY <1>4, <2>1, <2>2, <2>3
<1> QED
  BY <1>1, <1>4, <1>5, <1>6

ReachedBy(u) == ReachedFrom(SymmetricResidual, u)
ComponentOf(w) == {v \in ReachedBy(w) : w \in ReachedBy(v)}

\* To reach is reflexive, transitive, and the same for the complements.
LEMMA ReachedByIs ==
  ASSUME FlowInv
  PROVE  /\ \A u \in Literals : Reach(SymmetricResidual, u, ReachedBy(u))
         /\ \A u \in Literals : \A v \in ReachedBy(u) : ReachedBy(v) \subseteq ReachedBy(u)
         /\ \A u \in Literals : \A v \in ReachedBy(u) : Bar(u) \in ReachedBy(Bar(v))
<1> DEFINE S == SymmetricResidual
<1>1. ASSUME NEW u \in Literals PROVE Reach(S, u, ReachedBy(u))
  BY SymmetricIs, ReachedIs DEF ReachedBy
<1>2. \A u \in Literals : ReachedBy(u) \in SUBSET Literals /\ u \in ReachedBy(u) /\ Closed(S, ReachedBy(u))
  BY <1>1 DEF Reach
<1>3. ASSUME NEW u \in Literals, NEW v \in ReachedBy(u) PROVE ReachedBy(v) \subseteq ReachedBy(u)
  <2>1. v \in Literals /\ Closed(S, ReachedBy(u))
    BY <1>2
  <2> QED
    BY <1>1, <2>1 DEF Reach
<1>4. ASSUME NEW u \in Literals, NEW v \in ReachedBy(u) PROVE Bar(u) \in ReachedBy(Bar(v))
  <2> DEFINE B == {z \in Literals : Bar(u) \in ReachedBy(Bar(z))}
  <2>1. u \in B
    BY <1>2, LiteralsAre
  <2>2. ASSUME NEW e \in S, e[1] \in B PROVE e[2] \in B
    <3>1. e[1] \in Literals /\ e[2] \in Literals /\ Con(e) \in S
      BY SymmetricIs
    <3>2. Con(e)[1] = Bar(e[2]) /\ Con(e)[2] = Bar(e[1])
      BY DEF Con
    <3>3. Bar(e[1]) \in Literals /\ Bar(e[2]) \in Literals
      BY <3>1, LiteralsAre
    <3>4. Bar(e[1]) \in ReachedBy(Bar(e[2]))
      BY <1>2, <3>1, <3>2, <3>3 DEF Closed
    <3>5. ReachedBy(Bar(e[1])) \subseteq ReachedBy(Bar(e[2]))
      BY <1>3, <3>3, <3>4
    <3> QED
      BY <2>2, <3>1, <3>5
  <2>3. Closed(S, B)
    BY <2>2 DEF Closed
  <2>4. ReachedBy(u) \subseteq B
    BY <1>1, <2>1, <2>3 DEF Reach
  <2> QED
    BY <2>4
<1> QED
  BY <1>1, <1>3, <1>4

\* The components are a partition, each with that of the complements; the
\* source and the sink are on their own.
LEMMA ComponentsAre ==
  ASSUME FlowInv
  PROVE  /\ \A C \in Components : C \in SUBSET Literals /\ ComplementOf(C) \in Components
                                  /\ \E w \in Literals : C = ComponentOf(w)
         /\ \A w \in Literals : ComponentOf(w) \in Components /\ w \in ComponentOf(w)
         /\ \A C, D \in Components : \A u \in C : u \in D => C = D
         /\ ComponentOf(Source) = {Source} /\ ComponentOf(Sink) = {Sink}
<1> DEFINE reached == [u \in Literals |-> ReachedFrom(SymmetricResidual, u)]
<1>1. Components = {{v \in reached[u] : u \in reached[v]} : u \in Literals}
  BY DEF Components
<1>2. \A u \in Literals : reached[u] = ReachedBy(u)
  BY DEF ReachedBy
<1>3. \A u \in Literals : ReachedBy(u) \in SUBSET Literals /\ u \in ReachedBy(u)
  BY ReachedByIs DEF Reach
<1> HIDE DEF reached
<1>4. \A u \in Literals : {v \in reached[u] : u \in reached[v]} = ComponentOf(u)
  <2> TAKE u \in Literals
  <2>1. \A v \in ReachedBy(u) : reached[v] = ReachedBy(v)
    BY <1>2, <1>3
  <2> QED
    BY <1>2, <2>1 DEF ComponentOf
<1>5. \A w \in Literals : ComponentOf(w) \in Components
  BY <1>1, <1>4
<1>6. \A C \in Components : \E w \in Literals : C = ComponentOf(w)
  BY <1>1, <1>4
<1>7. \A w \in Literals : ComponentOf(w) \in SUBSET Literals /\ w \in ComponentOf(w)
  BY <1>3 DEF ComponentOf
<1>8. \A u \in Literals : \A v \in ReachedBy(u) : ReachedBy(v) \subseteq ReachedBy(u)
  BY ReachedByIs
<1>9. ASSUME NEW w \in Literals, NEW u \in ComponentOf(w) PROVE ComponentOf(u) = ComponentOf(w)
  <2>1. u \in Literals /\ u \in ReachedBy(w) /\ w \in ReachedBy(u)
    BY <1>3 DEF ComponentOf
  <2>2. ReachedBy(u) = ReachedBy(w)
    BY <1>8, <2>1
  <2>3. \A v \in ReachedBy(w) : u \in ReachedBy(v) <=> w \in ReachedBy(v)
    BY <1>3, <1>8, <2>1
  <2> QED
    BY <2>2, <2>3 DEF ComponentOf
<1>10. ASSUME NEW w \in Literals PROVE ComplementOf(ComponentOf(w)) = ComponentOf(Bar(w))
  <2>1. ASSUME NEW z \in Literals, NEW u \in ComponentOf(z) PROVE Bar(u) \in ComponentOf(Bar(z))
    <3>1. u \in Literals /\ u \in ReachedBy(z) /\ z \in ReachedBy(u)
      BY <1>3 DEF ComponentOf
    <3>2. Bar(z) \in ReachedBy(Bar(u)) /\ Bar(u) \in ReachedBy(Bar(z))
      BY <3>1, ReachedByIs
    <3> QED
      BY <3>2 DEF ComponentOf
  <2>2. ASSUME NEW v \in ComponentOf(Bar(w)) PROVE \E u \in ComponentOf(w) : v = Bar(u)
    <3>1. Bar(w) \in Literals /\ Bar(Bar(w)) = w
      BY LiteralsAre
    <3>2. v \in Literals
      BY <1>7, <3>1
    <3>3. Bar(v) \in ComponentOf(w)
      BY <2>1, <3>1
    <3> QED
      BY <3>2, <3>3, LiteralsAre
  <2>3. \A u \in ComponentOf(w) : Bar(u) \in ComponentOf(Bar(w))
    BY <2>1
  <2> QED
    BY <2>2, <2>3 DEF ComplementOf
<1>11. \A C \in Components : C \in SUBSET Literals /\ ComplementOf(C) \in Components
  BY <1>5, <1>6, <1>7, <1>10, LiteralsAre
<1>12. \A C, D \in Components : \A u \in C : u \in D => C = D
  BY <1>6, <1>9
<1>13. ComponentOf(Source) = {Source}
  <2> DEFINE B == Literals \ {Source}
  <2>1. Closed(SymmetricResidual, B)
    BY SymmetricIs DEF Closed
  <2>2. ASSUME NEW v \in Literals, v # Source PROVE Source \notin ReachedBy(v)
    <3>1. ReachedBy(v) \subseteq B
      BY <2>1, <2>2, ReachedByIs DEF Reach
    <3> QED
      BY <3>1
  <2> QED
    BY <1>7, <2>2, LiteralsAre DEF ComponentOf
<1>14. ComponentOf(Sink) = {Sink}
  <2> DEFINE B == {Sink}
  <2>1. Closed(SymmetricResidual, B)
    BY SymmetricIs DEF Closed
  <2>2. ReachedBy(Sink) \subseteq B
    BY <2>1, ReachedByIs, LiteralsAre DEF Reach
  <2> QED
    BY <1>7, <2>2, LiteralsAre DEF ComponentOf
<1> QED
  BY <1>5, <1>6, <1>7, <1>11, <1>12, <1>13, <1>14

\* What the source reaches is the same when implications are made symmetric.
LEMMA ReachedBySource ==
  ASSUME FlowInv, ~ SinkIsReached
  PROVE  ReachedBy(Source) = Reached
<1> DEFINE R == Reached
           S == ReachedBy(Source)
<1>1. Persistent(ResidualEdges, R) /\ Reach(ResidualEdges, Source, R)
  BY ReachedIsPersistent
<1>2. Reach(SymmetricResidual, Source, S)
  BY ReachedByIs, LiteralsAre
<1>3. Sink \notin R
  BY DEF Reached, SinkIsReached
<1> HIDE DEF R, S
<1>4. ASSUME NEW e \in SymmetricResidual, e[1] \in R PROVE e[2] \in R
  <2>1. e \in Literals \X Literals /\ (e \in ResidualEdges \/ Con(e) \in ResidualEdges)
    BY SymmetricIs
  <2>2. CASE e \in ResidualEdges
    BY <1>1, <1>4, <2>2 DEF Persistent
  <2>3. CASE Con(e) \in ResidualEdges
    <3>1. Con(e)[1] = Bar(e[2]) /\ Con(e)[2] = Bar(e[1]) /\ e[1] \in Literals /\ e[2] \in Literals
      BY <2>1 DEF Con
    <3>2. Bar(Con(e)[2]) = e[1] /\ Bar(Con(e)[1]) = e[2]
      BY <3>1, LiteralsAre
    <3> QED
      BY <1>1, <1>4, <2>3, <3>2 DEF Persistent
  <2> QED
    BY <2>1, <2>2, <2>3
<1>5. S \subseteq R
  BY <1>1, <1>2, <1>4 DEF Reach, Closed
<1>6. ASSUME NEW e \in ResidualEdges, e[1] \in S PROVE e[2] \in S
  <2>1. e[1] # Sink
    BY <1>3, <1>5, <1>6
  <2>2. CASE e[2] = Source
    BY <2>2, <1>2 DEF Reach
  <2>3. CASE e[2] # Source
    <3>1. e \in SymmetricResidual
      BY <2>1, <2>3, SymmetricIs
    <3> QED
      BY <1>2, <1>6, <3>1 DEF Reach, Closed
  <2> QED
    BY <2>2, <2>3
<1>7. R \subseteq S
  BY <1>1, <1>2, <1>6 DEF Reach, Closed
<1> QED
  BY <1>5, <1>7 DEF R, S

-----------------------------------------------------------------------------
(* Fixing variables: what is fixed                                         *)

Chosen(edges, m, F) ==
  /\ Persistent(edges, F) /\ ReachedFrom(edges, Source) \subseteq F
  /\ m = "standard" => F = ReachedFrom(edges, Source)

\* The decided components are those of the fixed literals and their complements.
Decided(components, taken, F) ==
  /\ taken \subseteq components
  /\ (UNION taken) \cup {Source, Sink} = F \cup {Bar(u) : u \in F}

FixInv ==
  /\ FlowInv
  /\ method \in {"standard", "optimized"}
  /\ step = "fixing" => /\ Chosen(ResidualEdges, method, fixed \cup {Source})
                        /\ method = "optimized" => Decided(Components, removed, fixed \cup {Source})
  /\ step = "fixed" => \E F : /\ Chosen(ResidualEdges, method, F)
                              /\ fixed = {u \in F : u[1] \in UsedVariables}

LEMMA ReachedKeeps ==
  ASSUME FixInv, FixReached
  PROVE  /\ Persistent(ResidualEdges, fixed' \cup {Source}) /\ Reached \subseteq fixed' \cup {Source}
         /\ removed' \subseteq Components
         /\ (UNION removed') \cup {Source, Sink}
              = fixed' \cup {Source} \cup {Bar(u) : u \in fixed' \cup {Source}}
<1> DEFINE met == {C \in Components : C # {Source} /\ C \cap ReachedBy(Source) # {}}
           R == Reached
<1>1. FlowInv /\ ~ SinkIsReached /\ fixed' = UNION met /\ removed' = met \cup {ComplementOf(C) : C \in met}
  BY DEF FixInv, FixReached, FlowIsMaximal, ReachedBy
<1>2. R = ReachedBy(Source) /\ Persistent(ResidualEdges, R) /\ R \in SUBSET Literals /\ Source \in R
  BY <1>1, ReachedBySource, ReachedIsPersistent DEF Reach
<1>3. /\ \A C \in Components : C \in SUBSET Literals /\ ComplementOf(C) \in Components
                               /\ \E w \in Literals : C = ComponentOf(w)
      /\ \A w \in Literals : ComponentOf(w) \in Components /\ w \in ComponentOf(w)
      /\ \A C, D \in Components : \A u \in C : u \in D => C = D
      /\ ComponentOf(Source) = {Source}
  BY <1>1, ComponentsAre
<1>4. ASSUME NEW C \in met PROVE C \subseteq R /\ Source \notin C
  <2>1. PICK w \in Literals : C = ComponentOf(w)
    BY <1>3
  <2>2. PICK v \in C : v \in ReachedBy(Source)
    OBVIOUS
  <2>3. w \in ReachedBy(v) /\ v \in Literals /\ C \subseteq ReachedBy(w)
    BY <1>3, <2>1, <2>2 DEF ComponentOf
  <2>4. ReachedBy(v) \subseteq ReachedBy(Source)
    BY <1>1, <2>2, ReachedByIs, LiteralsAre
  <2>5. ReachedBy(w) \subseteq ReachedBy(Source)
    BY <1>1, <2>3, <2>4, ReachedByIs, LiteralsAre
  <2>6. Source \notin C
    BY <1>3, LiteralsAre
  <2> QED
    BY <1>2, <2>3, <2>5, <2>6
<1>5. ASSUME NEW u \in R, u # Source PROVE u \in UNION met
  <2>1. u \in Literals /\ ComponentOf(u) \in Components /\ u \in ComponentOf(u)
    BY <1>2, <1>3
  <2> QED
    BY <1>2, <1>5, <2>1
<1>6. met \subseteq Components
  OBVIOUS
<1> HIDE DEF met, R
<1>7. fixed' \cup {Source} = R
  BY <1>1, <1>2, <1>4, <1>5
<1>8. removed' \subseteq Components
  BY <1>1, <1>3, <1>6
<1>9. UNION removed' = fixed' \cup {Bar(u) : u \in fixed'}
  <2>1. \A C \in met : ComplementOf(C) = {Bar(u) : u \in C}
    BY DEF ComplementOf
  <2> QED
    BY <1>1, <2>1
<1>10. (UNION removed') \cup {Source, Sink} = fixed' \cup {Source} \cup {Bar(u) : u \in fixed' \cup {Source}}
  BY <1>9, LiteralsAre
<1> QED
  BY <1>2, <1>7, <1>8, <1>10 DEF R

LEMMA ComponentKeeps ==
  ASSUME FixInv, FixComponent
  PROVE  /\ Persistent(ResidualEdges, fixed' \cup {Source}) /\ Reached \subseteq fixed' \cup {Source}
         /\ removed' \subseteq Components
         /\ (UNION removed') \cup {Source, Sink}
              = fixed' \cup {Source} \cup {Bar(u) : u \in fixed' \cup {Source}}
<1> DEFINE F == fixed \cup {Source}
<1>1. PICK C \in Components : Ready(C) /\ fixed' = fixed \cup C /\ removed' = removed \cup {C, ComplementOf(C)}
  BY DEF FixComponent
<1>2. /\ FlowInv /\ Persistent(ResidualEdges, F) /\ Reached \subseteq F /\ removed \subseteq Components
      /\ (UNION removed) \cup {Source, Sink} = F \cup {Bar(u) : u \in F}
  BY DEF FixInv, FixComponent, Chosen, Decided, Reached
<1>3. /\ \A D \in Components : D \in SUBSET Literals /\ ComplementOf(D) \in Components
      /\ \A w \in Literals : ComponentOf(w) \in Components /\ w \in ComponentOf(w)
      /\ \A B, D \in Components : \A u \in B : u \in D => B = D
      /\ ComponentOf(Source) = {Source} /\ ComponentOf(Sink) = {Sink}
  BY <1>2, ComponentsAre
<1>4. /\ \A u \in C : Bar(u) \notin C
      /\ C # {Source} /\ C # {Sink} /\ C \notin removed
      /\ \A e \in SymmetricResidual : e[1] \in C => e[2] \in C \cup UNION removed
  BY <1>1 DEF Ready, SelfComplement
<1> HIDE DEF F
<1>5. F \in SUBSET Literals /\ Source \in F /\ \A u \in F : Bar(u) \notin F
  BY <1>2 DEF Persistent, Unopposed
<1>6. Source \notin C /\ Sink \notin C
  BY <1>3, <1>4, LiteralsAre
<1>7. \A u \in C : u \in Literals /\ u \notin UNION removed
  BY <1>2, <1>3, <1>4
<1>8. \A u \in C : u \notin F /\ u \notin {Bar(v) : v \in F}
  BY <1>2, <1>6, <1>7
<1>9. \A u \in C : Bar(u) \notin F /\ \A v \in F : Bar(v) \notin C
  <2> SUFFICES ASSUME NEW u \in C PROVE Bar(u) \notin F
    BY <1>8
  <2>1. u = Bar(Bar(u))
    BY <1>7, LiteralsAre
  <2> QED
    BY <2>1, <1>8
<1>10. Unopposed(F \cup C)
  <2>1. \A u \in F \cup C : Bar(u) \notin F \cup C
    BY <1>4, <1>5, <1>9
  <2> QED
    BY <1>5, <1>7, <2>1 DEF Unopposed
<1>11. ASSUME NEW e \in ResidualEdges
       PROVE  /\ e[1] \in F => e[2] \in F
              /\ Bar(e[2]) \in F => Bar(e[1]) \in F
              /\ e \in Literals \X Literals /\ e[1] \in Literals /\ e[2] \in Literals
  <2>1. e \in Literals \X Literals
    BY <1>2, ResidualIs
  <2> QED
    BY <1>2, <2>1 DEF Persistent
<1>12. ASSUME NEW e \in ResidualEdges, e[1] \in C PROVE e[2] \in F \cup C
  <2>1. e[1] # Sink
    BY <1>6, <1>12
  <2>2. CASE e[2] = Source
    BY <1>5, <2>2
  <2>3. CASE e[2] # Source
    <3>1. e \in SymmetricResidual
      BY <1>2, <2>1, <2>3, SymmetricIs
    <3>2. e[2] \in C \/ e[2] \in F \/ e[2] \in {Bar(u) : u \in F}
      BY <1>2, <1>4, <1>12, <3>1
    <3>3. ASSUME NEW u \in F, e[2] = Bar(u) PROVE FALSE
      <4>1. Bar(e[2]) \in F
        BY <1>5, <3>3, LiteralsAre
      <4>2. Bar(e[1]) \in F
        BY <4>1, <1>11
      <4> QED
        BY <4>2, <1>9, <1>12
    <3> QED
      BY <3>2, <3>3
  <2> QED
    BY <2>2, <2>3
<1>13. ASSUME NEW e \in ResidualEdges, Bar(e[2]) \in C PROVE Bar(e[1]) \in F \cup C
  <2>1. e[1] \in Literals /\ e[2] \in Literals /\ Bar(Bar(e[1])) = e[1] /\ Bar(Bar(e[2])) = e[2]
    BY <1>11, LiteralsAre
  <2>2. e[2] # Source
    BY <1>6, <1>13, LiteralsAre
  <2>3. CASE e[1] = Sink
    BY <1>5, <2>3, LiteralsAre
  <2>4. CASE e[1] # Sink
    <3>1. e \in SymmetricResidual
      BY <1>2, <2>2, <2>4, SymmetricIs
    <3>2. Con(e) \in SymmetricResidual /\ Con(e)[1] = Bar(e[2]) /\ Con(e)[2] = Bar(e[1])
      BY <1>2, <3>1, SymmetricIs DEF Con
    <3>3. Bar(e[1]) \in C \/ Bar(e[1]) \in F \/ Bar(e[1]) \in {Bar(u) : u \in F}
      BY <1>2, <1>4, <1>13, <3>2
    <3>4. ASSUME NEW u \in F, Bar(e[1]) = Bar(u) PROVE FALSE
      <4>1. e[1] = u
        <5>1. u \in Literals /\ Bar(Bar(u)) = u
          BY <1>5, LiteralsAre
        <5> QED
          BY <5>1, <2>1, <3>4
      <4>2. e[2] \in F
        BY <4>1, <1>11
      <4> QED
        BY <4>2, <1>9, <1>13
    <3> QED
      BY <3>3, <3>4
  <2> QED
    BY <2>3, <2>4
<1>14. Persistent(ResidualEdges, F \cup C)
  BY <1>10, <1>11, <1>12, <1>13 DEF Persistent
<1>15. fixed' \cup {Source} = F \cup C
  BY <1>1 DEF F
<1>16. UNION removed' = (UNION removed) \cup C \cup {Bar(u) : u \in C}
  BY <1>1 DEF ComplementOf
<1>17. (UNION removed') \cup {Source, Sink} = F \cup C \cup {Bar(u) : u \in F \cup C}
  BY <1>2, <1>16
<1>18. removed' \subseteq Components
  BY <1>1, <1>2, <1>3
<1> QED
  BY <1>2, <1>14, <1>15, <1>17, <1>18

LEMMA FixInitInv == FixInit => FixInv
<1> SUFFICES ASSUME FixInit PROVE FixInv
  OBVIOUS
<1>1. FlowInv
  BY FlowStarts
<1> QED
  BY <1>1 DEF FixInit, FixInv

\* Nothing but the flow changes the residual network.
Frame == Q' = Q /\ residual' = residual /\ method' = method

LEMMA FrameKeeps ==
  ASSUME Frame
  PROVE  /\ FlowInv' <=> FlowInv
         /\ ResidualEdges' = ResidualEdges /\ Components' = Components /\ UsedVariables' = UsedVariables
<1>1. Q' = Q /\ residual' = residual
  BY DEF Frame
<1>2. ImplicationNetwork' = ImplicationNetwork
  BY <1>1, NetworkKept
<1>3. FlowInv' <=> FlowInv
  BY <1>1, <1>2 DEF FlowInv
<1>4. ResidualEdges' = ResidualEdges
  BY <1>1 DEF ResidualEdges
<1>5. SymmetricResidual' = SymmetricResidual
  BY <1>4 DEF SymmetricResidual
<1>6. Components' = Components
  BY <1>5 DEF Components
<1>7. UsedVariables' = UsedVariables
  BY <1>1 DEF UsedVariables
<1> QED
  BY <1>3, <1>4, <1>6, <1>7

\* What a step has to show when it only fixes variables.
LEMMA FixingKeeps ==
  ASSUME FixInv, Frame, step' = "fixing",
         Persistent(ResidualEdges, fixed' \cup {Source}), Reached \subseteq fixed' \cup {Source},
         method = "standard" => fixed' \cup {Source} = Reached,
         method = "optimized" => Decided(Components, removed', fixed' \cup {Source})
  PROVE  FixInv'
<1>1. Chosen(ResidualEdges', method', fixed' \cup {Source})
  BY FrameKeeps DEF Chosen, Reached, Frame
<1>2. method' = "optimized" => Decided(Components', removed', fixed' \cup {Source})
  BY FrameKeeps DEF Frame
<1>3. FlowInv' /\ method' \in {"standard", "optimized"}
  BY FrameKeeps DEF FixInv, Frame
<1> QED
  BY <1>1, <1>2, <1>3 DEF FixInv

LEMMA FixNextInv ==
  ASSUME FixInv, [FixNext]_fixVars
  PROVE  FixInv'
<1>1. CASE Augment
  <2>1. FlowInv'
    BY <1>1, AugmentKeeps DEF FixInv
  <2>2. step' = "flow" /\ method' = method
    BY <1>1 DEF Augment
  <2>3. method' \in {"standard", "optimized"} /\ step' # "fixing" /\ step' # "fixed"
    BY <2>2 DEF FixInv
  <2> QED
    BY <2>1, <2>3 DEF FixInv
<1>2. CASE ApplyImplication
  <2>1. Frame /\ step' = "fixing" /\ method = "standard"
    BY <1>2 DEF ApplyImplication, Frame
  <2>2. FlowInv /\ ~ SinkIsReached
    BY <1>2 DEF FixInv, ApplyImplication, FlowIsMaximal
  <2>3. Persistent(ResidualEdges, Reached) /\ Source \in Reached
    BY <2>2, ReachedIsPersistent DEF Reach
  <2>4. fixed' \cup {Source} = Reached
    BY <1>2, <2>3 DEF ApplyImplication, Forced, Reached
  <2> QED
    BY <2>1, <2>3, <2>4, FixingKeeps
<1>3. CASE FixReached
  <2>1. Frame /\ step' = "fixing" /\ method = "optimized"
    BY <1>3 DEF FixReached, Frame
  <2> QED
    BY <1>3, <2>1, ReachedKeeps, FixingKeeps DEF Decided
<1>4. CASE FixComponent
  <2>1. Frame /\ step' = "fixing" /\ method = "optimized"
    BY <1>4 DEF FixComponent, Frame
  <2> QED
    BY <1>4, <2>1, ComponentKeeps, FixingKeeps DEF Decided
<1>5. CASE DropUnused
  <2>1. Frame /\ step = "fixing" /\ step' = "fixed" /\ fixed' = {u \in fixed : u[1] \in UsedVariables}
    BY <1>5 DEF DropUnused, Frame
  <2>2. FlowInv /\ Chosen(ResidualEdges, method, fixed \cup {Source})
    BY <2>1 DEF FixInv
  <2>3. 0 \notin UsedVariables
    <3>1. \A p \in DOMAIN Q : p[1] \in Variables /\ p[2] \in Variables
      BY <2>2, FixAssumption DEF FlowInv
    <3>2. \A i \in UsedVariables : i \in Variables
      BY <3>1 DEF UsedVariables
    <3> QED
      BY <3>2 DEF Variables
  <2>4. fixed' = {u \in fixed \cup {Source} : u[1] \in UsedVariables}
    <3>1. Source[1] \notin UsedVariables
      BY <2>3 DEF Source
    <3> QED
      BY <2>1, <3>1
  <2>5. \E F : Chosen(ResidualEdges', method', F) /\ fixed' = {u \in F : u[1] \in UsedVariables'}
    BY <2>1, <2>2, <2>4, FrameKeeps DEF Frame
  <2>6. FlowInv' /\ method' \in {"standard", "optimized"} /\ step' # "fixing"
    BY <2>1, FrameKeeps DEF FixInv, Frame
  <2> QED
    BY <2>5, <2>6 DEF FixInv
<1>6. CASE UNCHANGED fixVars
  <2>1. Frame /\ step' = step /\ removed' = removed /\ fixed' = fixed
    BY <1>6 DEF fixVars, Frame
  <2>2. FlowInv' /\ ResidualEdges' = ResidualEdges /\ Components' = Components /\ UsedVariables' = UsedVariables
        /\ method' = method
    BY <2>1, FrameKeeps DEF FixInv, Frame
  <2> QED
    BY <2>1, <2>2 DEF FixInv
<1> QED
  BY <1>1, <1>2, <1>3, <1>4, <1>5, <1>6 DEF FixNext

-----------------------------------------------------------------------------
(* Fixing variables: the reduced function                                  *)

Free == Variables \ FixedVars
Mixed == {p \in Upper(Variables) : p[1] \in FixedVars <=> p[2] \in Free}
\* What the products with fixed variables add to a free variable.
Adds(j) == SumFunctionOnSet([i \in FixedVars |-> UTriQ(i, j) * Value(i)], FixedVars)
Added(x) == [p \in Upper(Free) |-> IF p[1] = p[2] THEN Adds(p[1]) * x[p[1]] * x[p[1]] ELSE 0]
Restriction(x) == [p \in Upper(Free) |-> NewQ[p] * x[p[1]] * x[p[2]]]

\* The fixed variables, with the values that they have in x.
KeepsFixed(x) ==
  /\ Q \in Matrices /\ x \in Assignments /\ FixedVars \subseteq Variables
  /\ \A i \in FixedVars : Value(i) = x[i]

LEMMA SplitIs ==
  ASSUME FixedVars \subseteq Variables
  PROVE  /\ IsFiniteSet(FixedVars) /\ IsFiniteSet(Free) /\ IsFiniteSet(Upper(Free))
         /\ IsFiniteSet(Upper(FixedVars)) /\ IsFiniteSet(Mixed) /\ Free \subseteq Variables
         /\ Upper(Variables) = (Upper(Free) \cup Mixed) \cup Upper(FixedVars)
         /\ Upper(Free) \cap Mixed = {} /\ (Upper(Free) \cup Mixed) \cap Upper(FixedVars) = {}
         /\ \A p \in Upper(Variables) : p = <<p[1], p[2]>> /\ p[1] \in Variables /\ p[2] \in Variables
         /\ \A p \in Upper(Free) : p = <<p[1], p[2]>> /\ p[1] \in Free /\ p[2] \in Free
         /\ \A p \in Upper(FixedVars) : p[1] \in FixedVars /\ p[2] \in FixedVars
<1>1. IsFiniteSet(Variables) /\ IsFiniteSet(Upper(Variables))
  BY PairIs
<1>2. /\ \A p \in Upper(Variables) : p = <<p[1], p[2]>> /\ p[1] \in Variables /\ p[2] \in Variables /\ p[1] <= p[2]
      /\ \A p \in Upper(Free) : p = <<p[1], p[2]>> /\ p[1] \in Free /\ p[2] \in Free /\ p[1] <= p[2]
      /\ \A p \in Upper(FixedVars) : p = <<p[1], p[2]>> /\ p[1] \in FixedVars /\ p[2] \in FixedVars /\ p[1] <= p[2]
  BY DEF Upper
<1>3. \A p \in Upper(Variables) : /\ p[1] \in Free /\ p[2] \in Free => p \in Upper(Free)
                                  /\ p[1] \in FixedVars /\ p[2] \in FixedVars => p \in Upper(FixedVars)
  BY <1>2 DEF Upper
<1>4. Free \subseteq Variables /\ \A i \in Variables : i \in Free <=> i \notin FixedVars
  BY DEF Free
<1>5. Upper(Free) \subseteq Upper(Variables) /\ Upper(FixedVars) \subseteq Upper(Variables)
  BY <1>4 DEF Upper
<1>6. Mixed \subseteq Upper(Variables)
  BY DEF Mixed
<1>7. /\ IsFiniteSet(FixedVars) /\ IsFiniteSet(Free) /\ IsFiniteSet(Upper(Free))
      /\ IsFiniteSet(Upper(FixedVars)) /\ IsFiniteSet(Mixed)
  BY <1>1, <1>4, <1>5, <1>6, FS_Subset
<1>8. Upper(Variables) = (Upper(Free) \cup Mixed) \cup Upper(FixedVars)
  BY <1>2, <1>3, <1>4, <1>5, <1>6 DEF Mixed
<1>9. Upper(Free) \cap Mixed = {} /\ (Upper(Free) \cup Mixed) \cap Upper(FixedVars) = {}
  BY <1>2, <1>4 DEF Mixed
<1> QED
  BY <1>2, <1>4, <1>7, <1>8, <1>9

\* Products of a free variable with fixed ones are sorted by the free one.
LEMMA MixedIsAdded ==
  ASSUME NEW x, KeepsFixed(x)
  PROVE  /\ \A p \in Upper(Free) : Added(x)[p] \in Int
         /\ \A j \in Free : Adds(j) \in Int
         /\ SumFunctionOnSet(Added(x), Upper(Free)) = SumFunctionOnSet(TermsOf(x), Mixed)
<1> DEFINE t == TermsOf(x)
           per == Added(x)
           P == Upper(Free)
           key == [p \in Mixed |-> IF p[1] \in Free THEN <<p[1], p[1]>> ELSE <<p[2], p[2]>>]
<1>1. Q \in Matrices /\ x \in Assignments /\ FixedVars \subseteq Variables /\ \A i \in FixedVars : Value(i) = x[i]
  BY DEF KeepsFixed
<1>2. /\ IsFiniteSet(FixedVars) /\ IsFiniteSet(P) /\ IsFiniteSet(Mixed)
      /\ Free \subseteq Variables /\ Mixed \subseteq Upper(Variables)
      /\ \A p \in Upper(Variables) : p = <<p[1], p[2]>> /\ p[1] \in Variables /\ p[2] \in Variables
      /\ \A p \in P : p = <<p[1], p[2]>> /\ p[1] \in Free /\ p[2] \in Free
  BY <1>1, SplitIs
<1>3. \A i \in Variables : x[i] \in Int
  BY <1>1 DEF Assignments
<1>4. \A r, c \in Variables : UTriQ(r, c) \in Int /\ UTriQ(r, c) = UTriQ(c, r)
  BY <1>1, CoefficientsAre
<1>5. \A p \in Upper(Variables) : t[p] = UTriQ(p[1], p[2]) * x[p[1]] * x[p[2]]
  BY DEF TermsOf
<1>6. \A p \in P : per[p] = IF p[1] = p[2] THEN Adds(p[1]) * x[p[1]] * x[p[1]] ELSE 0
  BY DEF Added
<1>7. \A a, b, c \in Int : a * b * c \in Int
  OBVIOUS
<1>8. \A p \in Upper(Variables) : t[p] \in Int
  BY <1>2, <1>3, <1>4, <1>5, <1>7
<1>9. ASSUME NEW j \in Free PROVE Adds(j) \in Int
  <2> DEFINE f1 == [i \in FixedVars |-> UTriQ(i, j) * Value(i)]
  <2>1. \A a, b \in Int : a * b \in Int
    OBVIOUS
  <2>2. \A i \in FixedVars : f1[i] = UTriQ(i, j) * Value(i)
    OBVIOUS
  <2> HIDE DEF f1
  <2>3. \A i \in FixedVars : f1[i] \in Int
    BY <1>1, <1>2, <1>3, <1>4, <2>1, <2>2
  <2> QED
    BY <1>2, <2>3, SumType DEF Adds, Whole, f1
<1>10. \A p \in P : per[p] \in Int
  BY <1>2, <1>3, <1>6, <1>7, <1>9
<1>11. \A p \in Mixed : key[p] = IF p[1] \in Free THEN <<p[1], p[1]>> ELSE <<p[2], p[2]>>
  OBVIOUS
<1>12. \A i \in Variables : i <= i
  BY CountIs DEF Variables
<1>13. \A j \in Free : <<j, j>> \in P
  BY <1>2, <1>12 DEF Upper
<1>14. \A p \in Mixed : /\ p \in Upper(Variables)
                        /\ \/ p[1] \in Free /\ p[2] \in FixedVars
                           \/ p[1] \in FixedVars /\ p[2] \in Free
  BY <1>1, <1>2 DEF Mixed, Free
<1>15. \A p \in Mixed : key[p] \in P
  BY <1>11, <1>13, <1>14
<1>16. \A i \in FixedVars : i \notin Free /\ i \in Variables
  BY <1>1 DEF Free
<1> HIDE DEF t, per, P, key
<1>17. ASSUME NEW p \in P
       PROVE  per[p] = SumFunctionOnSet(t, {q \in Mixed : key[q] = p})
  <2>1. CASE p[1] # p[2]
    <3>1. \A q \in Mixed : key[q] # p
      <4>1. \A q \in Mixed : key[q][1] = key[q][2]
        <5> TAKE q \in Mixed
        <5>1. CASE q[1] \in Free
          <6>1. key[q] = <<q[1], q[1]>>
            BY <1>11, <5>1
          <6> QED
            BY <6>1
        <5>2. CASE q[1] \notin Free
          <6>1. key[q] = <<q[2], q[2]>>
            BY <1>11, <5>2
          <6> QED
            BY <6>1
        <5> QED
          BY <5>1, <5>2
      <4> QED
        BY <2>1, <4>1
    <3>2. {q \in Mixed : key[q] = p} = {}
      BY <3>1
    <3> QED
      BY <1>6, <2>1, <3>2, SumEmpty
  <2>2. CASE p[1] = p[2]
    <3> DEFINE j == p[1]
               K == {q \in Mixed : key[q] = p}
               f1 == [i \in FixedVars |-> UTriQ(i, j) * Value(i)]
               f2 == [i \in FixedVars |-> (x[j] * x[j]) * f1[i]]
               name == [i \in FixedVars |-> IF i <= j THEN <<i, j>> ELSE <<j, i>>]
    <3>1. j \in Free /\ j \in Variables /\ p = <<j, j>> /\ x[j] \in Int
      BY <1>2, <1>3, <2>2
    <3>2. \A i \in FixedVars : /\ f1[i] = UTriQ(i, j) * Value(i) /\ f2[i] = (x[j] * x[j]) * f1[i]
                               /\ name[i] = IF i <= j THEN <<i, j>> ELSE <<j, i>>
      OBVIOUS
    <3>3. Adds(j) = SumFunctionOnSet(f1, FixedVars)
      BY DEF Adds
    <3>4. \A q \in Mixed : q \in K <=> key[q] = <<j, j>>
      BY <3>1
    <3>5. K \subseteq Mixed
      OBVIOUS
    <3> HIDE DEF j, K, f1, f2, name
    <3>6. \A a, b \in Int : a * b \in Int
      OBVIOUS
    <3>7. \A i \in FixedVars : /\ UTriQ(i, j) \in Int /\ x[i] \in Int /\ Value(i) = x[i] /\ i \in Variables
                               /\ f1[i] \in Int /\ x[j] * x[j] \in Int /\ f2[i] \in Int
      <4> TAKE i \in FixedVars
      <4>1. UTriQ(i, j) \in Int /\ x[i] \in Int /\ Value(i) = x[i] /\ i \in Variables
        BY <1>1, <1>3, <1>4, <1>16, <3>1
      <4>2. f1[i] = UTriQ(i, j) * x[i] /\ f2[i] = (x[j] * x[j]) * f1[i]
        BY <3>2, <4>1
      <4>3. x[j] * x[j] \in Int
        BY <3>1, <3>6
      <4>4. f1[i] \in Int
        BY <3>6, <4>1, <4>2
      <4>5. f2[i] \in Int
        BY <3>6, <4>2, <4>3, <4>4
      <4> QED
        BY <4>1, <4>3, <4>4, <4>5
    <3>8. \A i \in FixedVars : /\ name[i] \in Mixed
                               /\ name[i] = <<i, j>> \/ name[i] = <<j, i>>
      <4> TAKE i \in FixedVars
      <4>1. i \in Variables /\ j \in Variables /\ i \notin Free /\ j \notin FixedVars
        BY <1>16, <3>1 DEF Free
      <4>2. i <= j \/ j <= i
        BY <4>1, CountIs DEF Variables
      <4>3. (i <= j => <<i, j>> \in Mixed) /\ (j <= i => <<j, i>> \in Mixed)
        BY <3>1, <4>1 DEF Mixed, Upper
      <4> QED
        BY <3>2, <4>2, <4>3
    <3>9. \A i \in FixedVars : t[name[i]] = f2[i]
      <4> TAKE i \in FixedVars
      <4>1. name[i] \in Upper(Variables)
        BY <3>8, <1>14
      <4>2. \A a, b, c \in Int : a * b * c = (c * c) * (a * b) => TRUE
        OBVIOUS
      <4>3. f2[i] = (x[j] * x[j]) * (UTriQ(i, j) * x[i])
        BY <3>2, <3>7
      <4>4. x[j] \in {0, 1} /\ x[i] \in {0, 1}
        BY <1>1, <3>1, <3>7 DEF Assignments
      <4>5. \A q \in Int : \A a, b \in {0, 1} : q * a * b = (b * b) * (q * a) /\ q * b * a = (b * b) * (q * a)
        OBVIOUS
      <4>6. CASE name[i] = <<i, j>>
        <5>1. t[name[i]] = UTriQ(i, j) * x[i] * x[j]
          BY <1>5, <4>1, <4>6
        <5> QED
          BY <5>1, <3>7, <4>3, <4>4, <4>5
      <4>7. CASE name[i] = <<j, i>>
        <5>1. t[name[i]] = UTriQ(j, i) * x[j] * x[i]
          BY <1>5, <4>1, <4>7
        <5>2. UTriQ(j, i) = UTriQ(i, j)
          BY <1>4, <3>1, <3>7
        <5> QED
          BY <5>1, <5>2, <3>7, <4>3, <4>4, <4>5
      <4> QED
        BY <3>8, <4>6, <4>7
    <3>10. ASSUME NEW i \in FixedVars PROVE name[i] \in K
      <4>1. name[i] \in Mixed /\ i \notin Free
        BY <3>8, <1>16
      <4>2. CASE name[i] = <<i, j>>
        <5>1. key[name[i]] = <<j, j>>
          BY <1>11, <4>1, <4>2
        <5> QED
          BY <3>4, <4>1, <5>1
      <4>3. CASE name[i] = <<j, i>>
        <5>1. key[name[i]] = <<j, j>>
          BY <1>11, <3>1, <4>1, <4>3
        <5> QED
          BY <3>4, <4>1, <5>1
      <4> QED
        BY <3>8, <4>2, <4>3
    <3>11. ASSUME NEW i \in FixedVars, NEW k \in FixedVars, name[i] = name[k] PROVE i = k
      <4>1. i # j /\ k # j
        BY <1>16, <3>1
      <4> QED
        BY <3>8, <3>11, <4>1
    <3>12. ASSUME NEW q \in K PROVE \E i \in FixedVars : name[i] = q
      <4>1. q \in Mixed /\ key[q] = <<j, j>>
        BY <3>4, <3>5
      <4>2. q = <<q[1], q[2]>> /\ q[1] \in Variables /\ q[2] \in Variables /\ q[1] <= q[2]
        BY <1>14, <1>2, <4>1 DEF Upper
      <4>3. CASE q[1] \in Free
        <5>1. q[1] = j /\ q[2] \in FixedVars
          <6>1. <<q[1], q[1]>> = <<j, j>>
            BY <1>11, <4>1, <4>3
          <6>2. q[2] \in FixedVars
            BY <1>14, <1>16, <4>1, <4>3
          <6> QED
            BY <6>1, <6>2
        <5>2. q[2] # j /\ j <= q[2]
          BY <5>1, <1>16, <3>1, <4>2
        <5>3. ~ (q[2] <= j)
          BY <5>1, <5>2, <4>2, CountIs DEF Variables
        <5>4. name[q[2]] = q
          BY <3>2, <4>2, <5>1, <5>3
        <5> QED
          BY <5>1, <5>4
      <4>4. CASE q[1] \notin Free
        <5>1. q[2] = j /\ q[1] \in FixedVars
          <6>1. <<q[2], q[2]>> = <<j, j>>
            BY <1>11, <4>1, <4>4
          <6>2. q[1] \in FixedVars
            BY <1>14, <4>1, <4>4
          <6> QED
            BY <6>1, <6>2
        <5>2. name[q[1]] = q
          BY <3>2, <4>2, <5>1
        <5> QED
          BY <5>1, <5>2
      <4> QED
        BY <4>3, <4>4
    <3>13. Renamed(FixedVars, name, K, f2, t)
      BY <3>9, <3>10, <3>11, <3>12 DEF Renamed
    <3>14. Whole(f2, FixedVars) /\ Whole(f1, FixedVars)
      BY <3>7 DEF Whole
    <3>15. SumFunctionOnSet(t, K) = SumFunctionOnSet(f2, FixedVars)
      BY <1>2, <3>13, <3>14, SumRenamed
    <3>16. SumFunctionOnSet(f2, FixedVars) = (x[j] * x[j]) * SumFunctionOnSet(f1, FixedVars)
      <4>1. x[j] * x[j] \in Int
        BY <3>1, <3>6
      <4> QED
        BY <1>2, <3>2, <3>14, <4>1, SumTimes
    <3>17. per[p] = Adds(j) * x[j] * x[j]
      BY <1>6, <2>2 DEF j
    <3>18. Adds(j) * x[j] * x[j] = (x[j] * x[j]) * Adds(j)
      <4>1. \A q \in Int : \A a \in {0, 1} : q * a * a = (a * a) * q
        OBVIOUS
      <4>2. x[j] \in {0, 1}
        BY <1>1, <3>1 DEF Assignments
      <4> QED
        BY <4>1, <4>2, <3>1, <1>9
    <3> QED
      BY <3>3, <3>15, <3>16, <3>17, <3>18 DEF K
  <2> QED
    BY <2>1, <2>2
<1>18. Sorted(Mixed, key, P, t, per)
  <2>1. \A p \in P : per[p] = SumFunctionOnSet(t, {q \in Mixed : key[q] = p})
    BY <1>17
  <2> QED
    BY <1>15, <2>1 DEF Sorted
<1>19. Whole(t, Mixed)
  BY <1>2, <1>8 DEF Whole
<1>20. SumFunctionOnSet(per, P) = SumFunctionOnSet(t, Mixed)
  BY <1>2, <1>18, <1>19, SumSorted
<1> QED
  BY <1>9, <1>10, <1>20 DEF per, P, t

LEMMA ReducedIs ==
  ASSUME NEW x, KeepsFixed(x)
  PROVE  Energy01(Given, x) = Energy01(NewQ, x) + Offset
<1> DEFINE t == TermsOf(x)
           a == Added(x)
           r == Restriction(x)
           P == Upper(Free)
           o == [p \in Upper(FixedVars) |-> UTriQ(p[1], p[2]) * Value(p[1]) * Value(p[2])]
           h == [p \in DOMAIN NewQ |-> NewQ[p] * x[p[1]] * x[p[2]]]
<1>1. Q \in Matrices /\ x \in Assignments /\ FixedVars \subseteq Variables /\ \A i \in FixedVars : Value(i) = x[i]
  BY DEF KeepsFixed
<1>2. /\ IsFiniteSet(P) /\ IsFiniteSet(Upper(FixedVars)) /\ IsFiniteSet(Mixed) /\ Free \subseteq Variables
      /\ Upper(Variables) = (P \cup Mixed) \cup Upper(FixedVars)
      /\ P \cap Mixed = {} /\ (P \cup Mixed) \cap Upper(FixedVars) = {}
      /\ \A p \in P : p[1] \in Free /\ p[2] \in Free
      /\ \A p \in Upper(FixedVars) : p[1] \in FixedVars /\ p[2] \in FixedVars
  BY <1>1, SplitIs
<1>3. /\ \A p \in P : a[p] \in Int
      /\ \A j \in Free : Adds(j) \in Int
      /\ SumFunctionOnSet(a, P) = SumFunctionOnSet(t, Mixed)
  BY MixedIsAdded
<1>4. \A p \in Upper(Variables) : t[p] \in Int /\ t[p] = UTriQ(p[1], p[2]) * x[p[1]] * x[p[2]]
  BY <1>1, TermIs DEF TermsOf
<1>5. DOMAIN NewQ = P /\ \A p \in P : NewQ[p] = IF p[1] # p[2] THEN UTriQ(p[1], p[2])
                                               ELSE UTriQ(p[1], p[1]) + Adds(p[1])
  <2>1. \A j : SumFunction([i \in FixedVars |-> UTriQ(i, j) * Value(i)]) = Adds(j)
    BY DEF SumFunction, Adds
  <2> QED
    BY <2>1 DEF NewQ, Free
<1>6. h = r /\ DOMAIN h = P
  BY <1>5 DEF Restriction
<1>7. Energy01(NewQ, x) = SumFunctionOnSet(h, DOMAIN h)
  BY DEF Energy01, SumFunction
<1>8. Offset = SumFunctionOnSet(o, Upper(FixedVars))
  BY DEF Offset, SumFunction
<1>9. \A p \in Upper(FixedVars) : o[p] = UTriQ(p[1], p[2]) * Value(p[1]) * Value(p[2])
  OBVIOUS
<1>10. \A p \in P : r[p] = NewQ[p] * x[p[1]] * x[p[2]]
  BY DEF Restriction
<1>11. \A p \in P : a[p] = IF p[1] = p[2] THEN Adds(p[1]) * x[p[1]] * x[p[1]] ELSE 0
  BY DEF Added
<1>12. Energy01(Given, x) = SumFunctionOnSet(t, Upper(Variables))
  BY GivenEnergyIs
<1> HIDE DEF t, a, r, P, o, h
<1>13. \A p \in Upper(FixedVars) : t[p] = o[p] /\ t[p] \in Int
  BY <1>1, <1>2, <1>4, <1>9
<1>14. ASSUME NEW p \in P PROVE r[p] = t[p] + a[p] /\ t[p] \in Int
  <2>1. p \in Upper(Variables) /\ p[1] \in Free /\ p[2] \in Free /\ p[1] \in Variables /\ p[2] \in Variables
    BY <1>2, <1>14
  <2>2. UTriQ(p[1], p[2]) \in Int /\ x[p[1]] \in {0, 1} /\ x[p[2]] \in {0, 1} /\ Adds(p[1]) \in Int
    BY <1>1, <1>3, <2>1, CoefficientsAre DEF Assignments
  <2>3. t[p] = UTriQ(p[1], p[2]) * x[p[1]] * x[p[2]] /\ t[p] \in Int
    BY <1>4, <2>1
  <2>4. \A q, d \in Int : \A b \in {0, 1} : (q + d) * b * b = q * b * b + d * b * b
    OBVIOUS
  <2>5. CASE p[1] = p[2]
    <3>1. NewQ[p] = UTriQ(p[1], p[2]) + Adds(p[1]) /\ a[p] = Adds(p[1]) * x[p[1]] * x[p[1]]
      BY <1>5, <1>11, <2>5
    <3> QED
      BY <1>10, <2>2, <2>3, <2>4, <2>5, <3>1
  <2>6. CASE p[1] # p[2]
    <3>1. NewQ[p] = UTriQ(p[1], p[2]) /\ a[p] = 0
      BY <1>5, <1>11, <2>6
    <3> QED
      BY <1>10, <2>3, <3>1
  <2> QED
    BY <2>3, <2>5, <2>6
<1>15. \A p \in Mixed : t[p] \in Int
  BY <1>2, <1>4
<1>16. /\ Whole(t, P) /\ Whole(a, P) /\ Whole(t, Mixed) /\ Whole(t, Upper(FixedVars))
       /\ Whole(t, P \cup Mixed) /\ Whole(t, (P \cup Mixed) \cup Upper(FixedVars))
  BY <1>3, <1>13, <1>14, <1>15 DEF Whole
<1>17. IsFiniteSet(P \cup Mixed)
  BY <1>2, FS_Union
<1>18. SumFunctionOnSet(t, (P \cup Mixed) \cup Upper(FixedVars))
         = SumFunctionOnSet(t, P \cup Mixed) + SumFunctionOnSet(t, Upper(FixedVars))
  BY <1>2, <1>16, <1>17, SumUnion
<1>19. SumFunctionOnSet(t, P \cup Mixed) = SumFunctionOnSet(t, P) + SumFunctionOnSet(t, Mixed)
  BY <1>2, <1>16, SumUnion
<1>20. SumFunctionOnSet(r, P) = SumFunctionOnSet(t, P) + SumFunctionOnSet(a, P)
  BY <1>2, <1>14, <1>16, SumPlus
<1>21. SumFunctionOnSet(t, Upper(FixedVars)) = SumFunctionOnSet(o, Upper(FixedVars))
  BY <1>2, <1>13, <1>16, SumEqual
<1> QED
  BY <1>2, <1>3, <1>6, <1>7, <1>8, <1>12, <1>18, <1>19, <1>20, <1>21

-----------------------------------------------------------------------------
(* Fixing variables: theorem                                               *)

\* There are finitely many assignments, so one has the least energy.
LEMMA MinimumExists ==
  ASSUME Q \in Matrices
  PROVE  \E x \in Assignments : \A y \in Assignments : Energy01(Given, x) <= Energy01(Given, y)
<1> DEFINE neg == [x \in Assignments |-> -Energy01(Given, x)]
<1>1. IsFiniteSet(Assignments)
  <2> DEFINE ones(s) == [i \in Variables |-> IF i \in s THEN 1 ELSE 0]
             g == [s \in SUBSET Variables |-> ones(s)]
  <2>1. IsFiniteSet(SUBSET Variables)
    BY PairIs, FS_SUBSET
  <2>2. ASSUME NEW x \in Assignments PROVE \E s \in SUBSET Variables : g[s] = x
    <3> DEFINE s == {i \in Variables : x[i] = 1}
    <3>1. \A i \in Variables : ones(s)[i] = x[i]
      BY DEF Assignments
    <3>2. ones(s) = x
      BY <3>1 DEF Assignments
    <3>3. s \in SUBSET Variables
      OBVIOUS
    <3> QED
      BY <3>2, <3>3
  <2>3. Assignments \in SUBSET {g[s] : s \in SUBSET Variables}
    BY <2>2
  <2> HIDE DEF g
  <2>4. IsFiniteSet({g[s] : s \in SUBSET Variables})
    BY <2>1, ImageFinite
  <2> QED
    BY <2>3, <2>4, FS_Subset
<1>2. Assignments # {}
  <2>1. [i \in Variables |-> 0] \in Assignments
    BY DEF Assignments
  <2> QED
    BY <2>1
<1>3. \A x \in Assignments : Energy01(Given, x) \in Int
  BY CutIsEnergy
<1>4. \A x \in Assignments : neg[x] = -Energy01(Given, x)
  OBVIOUS
<1> HIDE DEF neg
<1>5. \A x \in Assignments : neg[x] \in Int
  BY <1>3, <1>4
<1>6. PICK x \in Assignments : \A y \in Assignments : neg[y] <= neg[x]
  BY <1>1, <1>2, <1>5, LargestExists
<1>7. \A y \in Assignments : Energy01(Given, x) <= Energy01(Given, y)
  BY <1>3, <1>4, <1>6
<1> QED
  BY <1>7

\* Literals that are true are what the assignment agrees with.
LEMMA TrueAgrees ==
  ASSUME NEW x \in Assignments, fixed \subseteq Truths(x), \A u \in fixed : u[1] # 0
  PROVE  Agrees(x)
BY DEF Agrees, Truths

LEMMA FixInvSafe == FixInv => FixedIsSafe
<1> SUFFICES ASSUME FixInv, step = "fixed" PROVE FixedIsSafe
  BY DEF FixedIsSafe
<1> DEFINE en == [x \in Assignments |-> Energy01(Given, x)]
           minima == {x \in Assignments : \A y \in Assignments : en[x] <= en[y]}
<1>1. FlowInv /\ Q \in Matrices
  BY DEF FixInv, FlowInv
<1>2. PICK F : /\ Chosen(ResidualEdges, method, F)
               /\ fixed = {u \in F : u[1] \in UsedVariables}
  BY DEF FixInv
<1>3. /\ Persistent(ResidualEdges, F) /\ Reached \subseteq F
      /\ method = "standard" => F = Reached
  BY <1>2 DEF Chosen, Reached
<1>4. Unopposed(F)
  BY <1>3 DEF Persistent
<1>5. UsedVariables \subseteq Variables
  <2>1. \A p \in DOMAIN Q : p[1] \in Variables /\ p[2] \in Variables
    BY <1>1, FixAssumption
  <2> QED
    BY <2>1 DEF UsedVariables
<1>6. fixed \subseteq F /\ \A u \in fixed : u[1] \in Variables /\ u[1] # 0 /\ u \in Literals
  <2>1. fixed \subseteq F /\ \A u \in fixed : u[1] \in Variables
    BY <1>2, <1>5
  <2>2. \A i \in Variables : i # 0
    BY CountIs DEF Variables
  <2>3. F \subseteq Literals
    BY <1>4 DEF Unopposed
  <2> QED
    BY <2>1, <2>2, <2>3
<1>7. \A x \in Assignments : en[x] = Energy01(Given, x) /\ Energy01(Given, x) \in Int
  BY <1>1, CutIsEnergy
<1>8. \A u \in fixed : Bar(u) \notin fixed
  BY <1>4, <1>6 DEF Unopposed
<1>9. \A x \in minima : x \in Assignments /\ \A y \in Assignments : Energy01(Given, x) <= Energy01(Given, y)
  BY <1>7
<1>10. \A x \in Assignments : (\A y \in Assignments : Energy01(Given, x) <= Energy01(Given, y)) => x \in minima
  BY <1>7
<1> HIDE DEF en, minima
<1>11. \E x \in minima : Agrees(x)
  <2>1. PICK x \in Assignments : \A y \in Assignments : Energy01(Given, x) <= Energy01(Given, y)
    BY <1>1, MinimumExists
  <2> DEFINE z == Overwritten(x, F)
  <2>2. z \in Assignments /\ F \subseteq Truths(z)
    BY <1>4, OverwrittenIs
  <2>3. Energy01(Given, z) <= Energy01(Given, x)
    BY <1>1, <1>3, OverwritingIsSafe
  <2> HIDE DEF z
  <2>4. \A y \in Assignments : Energy01(Given, z) <= Energy01(Given, y)
    BY <1>7, <2>1, <2>2, <2>3
  <2>5. Agrees(z)
    BY <1>6, <2>2, TrueAgrees
  <2> QED
    BY <1>10, <2>2, <2>4, <2>5
<1>12. ASSUME method = "standard", NEW x \in minima PROVE Agrees(x)
  <2>1. F = Reached /\ x \in Assignments
    BY <1>3, <1>9, <1>12
  <2>2. Overwritten(x, Reached) \in Assignments
    BY <1>4, <2>1, OverwrittenIs
  <2>3. Energy01(Given, x) <= Energy01(Given, Overwritten(x, Reached))
    BY <1>9, <1>12, <2>2
  <2>4. Reached \subseteq Truths(x)
    BY <1>1, <1>3, <2>1, <2>3, OverwritingHelps
  <2> QED
    BY <1>6, <2>1, <2>4, TrueAgrees
<1>13. \A u \in Forced : u[1] \in UsedVariables => u \in fixed
  BY <1>2, <1>3 DEF Forced, Reached
<1>14. ASSUME NEW x \in Assignments, Agrees(x)
       PROVE  en[x] = Energy01(NewQ, x) + Offset
  <2>1. FixedVars \subseteq Variables
    BY <1>6 DEF FixedVars
  <2>2. ASSUME NEW i \in FixedVars PROVE Value(i) = x[i]
    <3>1. PICK u \in fixed : i = u[1]
      BY DEF FixedVars
    <3>2. i \in Variables /\ x[i] \in {0, 1}
      BY <2>1 DEF Assignments
    <3>3. u \in Literals /\ (u[2] <=> x[i] = 1)
      BY <1>6, <1>14, <3>1 DEF Agrees
    <3>4. u = <<i, u[2]>> /\ u[2] \in BOOLEAN
      BY <3>1, <3>3 DEF Literals
    <3>5. CASE <<i, TRUE>> \in fixed
      <4>1. x[i] = 1
        BY <1>14, <3>5 DEF Agrees
      <4> QED
        BY <3>5, <4>1 DEF Value
    <3>6. CASE <<i, TRUE>> \notin fixed
      <4>1. u[2] = FALSE
        BY <3>1, <3>4, <3>6
      <4> QED
        BY <3>2, <3>3, <3>6, <4>1 DEF Value
    <3> QED
      BY <3>5, <3>6
  <2>3. KeepsFixed(x)
    BY <1>1, <2>1, <2>2 DEF KeepsFixed
  <2> QED
    BY <1>7, <2>3, ReducedIs
<1> QED
  BY <1>8, <1>11, <1>12, <1>13, <1>14 DEF FixedIsSafe, en, minima

\* fixQuboVariables loses no minimum: some assignment with the least energy has
\* the fixed values, with method 2 every one has, and what is returned is the
\* function given, restricted to the other variables.
THEOREM FixingSafe == FixSpec => []FixedIsSafe
<1>1. FixInit => FixInv
  BY FixInitInv
<1>2. FixInv /\ [FixNext]_fixVars => FixInv'
  BY FixNextInv
<1>3. FixInv => FixedIsSafe
  BY FixInvSafe
<1> QED
  BY <1>1, <1>2, <1>3, PTL DEF FixSpec

-----------------------------------------------------------------------------
(* CompressedMatrix: rows and their entries                                *)

\* What the three arrays always are: the rows' begins ascend, and so do the
\* columns within a row.
Shape(ro, ci, vs) ==
  /\ ro \in [0 .. NumRows -> Nat] /\ ro[0] = 0 /\ ro[NumRows] = Len(vs)
  /\ \A i, j \in 0 .. NumRows : i <= j => ro[i] <= ro[j]
  /\ ci \in Seq(0 .. NumCols - 1) /\ Len(ci) = Len(vs) /\ vs \in Seq(EntryValues)
  /\ \A r \in 0 .. NumRows - 1 : \A j, k \in ro[r] + 1 .. ro[r + 1] : j < k => ci[j] < ci[k]

InRow(ro, k, r) == ro[r] < k /\ k <= ro[r + 1]
RowIn(ro, k) == CHOOSE r \in 0 .. NumRows - 1 : ro[r] < k /\ k <= ro[r + 1]
Position(ro, ci, k) == <<RowIn(ro, k), ci[k]>>
EntriesOf(ro, ci, vs) ==
  [p \in {Position(ro, ci, k) : k \in DOMAIN vs} |->
    vs[CHOOSE k \in DOMAIN vs : p = Position(ro, ci, k)]]

\* Each index is in one row.
LEMMA RowsAre ==
  ASSUME NEW ro, NEW ci, NEW vs, Shape(ro, ci, vs), NEW k \in 1 .. Len(vs)
  PROVE  /\ RowIn(ro, k) \in 0 .. NumRows - 1 /\ InRow(ro, k, RowIn(ro, k))
         /\ \A r \in 0 .. NumRows - 1 : InRow(ro, k, r) => r = RowIn(ro, k)
<1> DEFINE S == {i \in 0 .. NumRows : k <= ro[i]}
<1>1. NumRows \in Nat /\ Len(vs) \in Nat /\ ro \in [0 .. NumRows -> Nat] /\ ro[0] = 0 /\ ro[NumRows] = Len(vs)
  BY MatrixAssumption DEF Shape
<1>2. S \subseteq Nat /\ NumRows \in S
  BY <1>1
<1>3. PICK i \in S : \A j \in S : i <= j
  BY <1>2, LeastOfNat
<1>4. i - 1 \in 0 .. NumRows - 1 /\ k <= ro[(i - 1) + 1]
  BY <1>1, <1>3
<1>5. ro[i - 1] < k
  <2>1. i - 1 \in 0 .. NumRows /\ ~(i <= i - 1) /\ ro[i - 1] \in Nat
    BY <1>1, <1>4
  <2>2. i - 1 \notin S
    BY <1>3, <2>1
  <2> QED
    BY <2>1, <2>2
<1>6. RowIn(ro, k) \in 0 .. NumRows - 1 /\ InRow(ro, k, RowIn(ro, k))
  BY <1>4, <1>5 DEF RowIn, InRow
<1>7. ASSUME NEW r \in 0 .. NumRows - 1, NEW s \in 0 .. NumRows - 1, InRow(ro, k, r), InRow(ro, k, s), r < s
      PROVE  FALSE
  <2>1. r + 1 \in 0 .. NumRows /\ s \in 0 .. NumRows /\ r + 1 <= s
    BY <1>1, <1>7
  <2>2. ro[r + 1] <= ro[s] /\ ro[r + 1] \in Nat /\ ro[s] \in Nat
    BY <1>1, <2>1 DEF Shape
  <2> QED
    BY <1>7, <2>2 DEF InRow
<1>8. \A r \in 0 .. NumRows - 1 : InRow(ro, k, r) => r = RowIn(ro, k)
  <2> TAKE r \in 0 .. NumRows - 1
  <2> HAVE InRow(ro, k, r)
  <2>1. ~(r < RowIn(ro, k)) /\ ~(RowIn(ro, k) < r)
    BY <1>6, <1>7
  <2> QED
    BY <1>1, <1>6, <2>1
<1> QED
  BY <1>6, <1>8

\* The positions come in their order, each once.
LEMMA PositionsAre ==
  ASSUME NEW ro, NEW ci, NEW vs, Shape(ro, ci, vs)
  PROVE  /\ \A k \in 1 .. Len(vs) : Position(ro, ci, k) \in Cells
         /\ \A j, k \in 1 .. Len(vs) : j < k => Precedes(Position(ro, ci, j), Position(ro, ci, k))
<1>1. NumRows \in Nat /\ NumCols \in Nat /\ Len(vs) \in Nat /\ ci \in [1 .. Len(vs) -> 0 .. NumCols - 1]
  BY MatrixAssumption DEF Shape
<1>2. \A k \in 1 .. Len(vs) : RowIn(ro, k) \in 0 .. NumRows - 1 /\ InRow(ro, k, RowIn(ro, k))
  BY RowsAre
<1>3. \A k \in 1 .. Len(vs) : Position(ro, ci, k) \in Cells
  BY <1>1, <1>2 DEF Position, Cells
<1>4. ASSUME NEW j \in 1 .. Len(vs), NEW k \in 1 .. Len(vs), j < k
      PROVE  Precedes(Position(ro, ci, j), Position(ro, ci, k))
  <2> DEFINE r == RowIn(ro, j)
             s == RowIn(ro, k)
  <2>1. r \in 0 .. NumRows - 1 /\ InRow(ro, j, r) /\ s \in 0 .. NumRows - 1 /\ InRow(ro, k, s)
    BY <1>2
  <2> HIDE DEF r, s
  <2>2. CASE s < r
    <3>1. s + 1 \in 0 .. NumRows /\ r \in 0 .. NumRows /\ s + 1 <= r
      BY <1>1, <2>1, <2>2
    <3>2. ro[s + 1] <= ro[r] /\ ro[s + 1] \in Nat /\ ro[r] \in Nat
      BY <3>1 DEF Shape
    <3>3. ro[r] < j /\ k <= ro[s + 1]
      BY <2>1 DEF InRow
    <3> QED
      BY <1>4, <3>2, <3>3
  <2>3. CASE s = r
    <3>1. r \in 0 .. NumRows /\ r + 1 \in 0 .. NumRows
      BY <1>1, <2>1
    <3>2. ro[r] \in Nat /\ ro[r + 1] \in Nat
      BY <3>1 DEF Shape
    <3>3. j \in ro[r] + 1 .. ro[r + 1] /\ k \in ro[r] + 1 .. ro[r + 1]
      BY <2>1, <2>3, <3>2 DEF InRow
    <3>4. ci[j] < ci[k]
      BY <1>4, <2>1, <3>3 DEF Shape
    <3> QED
      BY <2>3, <3>4 DEF Position, Precedes, r, s
  <2>4. CASE r < s
    BY <2>4 DEF Position, Precedes, r, s
  <2> QED
    BY <1>1, <2>1, <2>2, <2>3, <2>4
<1> QED
  BY <1>3, <1>4

LEMMA PrecedesIs ==
  /\ \A p \in Cells : ~ Precedes(p, p)
  /\ \A p, q \in Cells : Precedes(p, q) => ~ Precedes(q, p) /\ p # q
  /\ \A p, q \in Cells : Precedes(p, q) \/ Precedes(q, p) \/ p = q
  /\ \A p, q, r \in Cells : Precedes(p, q) /\ Precedes(q, r) => Precedes(p, r)
BY MatrixAssumption DEF Precedes, Cells

\* The map has one entry for each index.
EntryForEach(ro, ci, vs, E) ==
  /\ E = [p \in DOMAIN E |-> E[p]]
  /\ \A p \in DOMAIN E : \E k \in 1 .. Len(vs) : p = Position(ro, ci, k)
  /\ \A k \in 1 .. Len(vs) : Position(ro, ci, k) \in DOMAIN E /\ E[Position(ro, ci, k)] = vs[k]

LEMMA EntriesAre ==
  ASSUME NEW ro, NEW ci, NEW vs, Shape(ro, ci, vs)
  PROVE  EntryForEach(ro, ci, vs, EntriesOf(ro, ci, vs))
<1>1. DOMAIN vs = 1 .. Len(vs) /\ Len(vs) \in Nat
  BY DEF Shape
<1>2. \A j, k \in 1 .. Len(vs) : Position(ro, ci, j) = Position(ro, ci, k) => j = k
  <2>1. \A j, k \in 1 .. Len(vs) : j < k => Position(ro, ci, j) # Position(ro, ci, k)
    BY PositionsAre, PrecedesIs
  <2> QED
    BY <1>1, <2>1
<1> DEFINE at(k) == Position(ro, ci, k)
<1>3. EntriesOf(ro, ci, vs) = [p \in {at(k) : k \in DOMAIN vs} |-> vs[CHOOSE k \in DOMAIN vs : p = at(k)]]
  BY DEF EntriesOf
<1> HIDE DEF at
<1>4. \A k \in 1 .. Len(vs) : (CHOOSE j \in DOMAIN vs : at(k) = at(j)) = k
  BY <1>1, <1>2 DEF at
<1>5. PICK E : E = EntriesOf(ro, ci, vs)
  OBVIOUS
<1>6. E = [p \in {at(k) : k \in DOMAIN vs} |-> vs[CHOOSE k \in DOMAIN vs : p = at(k)]]
  BY <1>3, <1>5
<1>7. DOMAIN E = {at(k) : k \in 1 .. Len(vs)} /\ E = [p \in DOMAIN E |-> E[p]]
  BY <1>1, <1>6
<1>8. ASSUME NEW k \in 1 .. Len(vs) PROVE E[at(k)] = vs[k]
  <2>1. at(k) \in {at(j) : j \in DOMAIN vs}
    BY <1>1
  <2>2. E[at(k)] = vs[CHOOSE j \in DOMAIN vs : at(k) = at(j)]
    BY <1>6, <2>1
  <2> QED
    BY <1>4, <2>2
<1>9. /\ \A p \in DOMAIN E : \E k \in 1 .. Len(vs) : p = at(k)
      /\ \A k \in 1 .. Len(vs) : at(k) \in DOMAIN E /\ E[at(k)] = vs[k]
  BY <1>7, <1>8
<1>10. EntryForEach(ro, ci, vs, E)
  BY <1>7, <1>9, Zenon DEF EntryForEach, at
<1> QED
  BY <1>5, <1>10

LEMMA EntriesIs ==
  /\ Entries = EntriesOf(rowOffsets, colIndices, values)
  /\ \A p, q : Sparse!InOrder(p, q) = Precedes(p, q)
  /\ Sparse!Positions = Cells
BY DEF Entries, EntriesOf, RowOf, RowIn, Position, Sparse!InOrder, Precedes, Sparse!Positions, Cells

-----------------------------------------------------------------------------
(* CompressedMatrix: the bisections                                        *)

InvShape == Shape(rowOffsets, colIndices, values)

Half(col, x) ==
  IF colIndices[Middle(x) + 1] < col THEN <<Middle(x) + 1, x[2]>> ELSE <<x[1], Middle(x) - 1>>
ProbeEnds(col) ==
  {x \in Ranges(Len(values) - 1) :
    colIndices[Middle(x) + 1] = col \/ Half(col, x)[1] > Half(col, x)[2]}

LEMMA RangesAre ==
  ASSUME NEW n \in Int, NEW x \in Ranges(n)
  PROVE  /\ n \in Nat /\ x[1] \in 0 .. n /\ x[2] \in 0 .. n /\ x[1] <= x[2] /\ x = <<x[1], x[2]>>
         /\ Middle(x) \in x[1] .. x[2]
<1>1. x \in (0 .. n) \X (0 .. n) /\ x[1] <= x[2]
  BY DEF Ranges
<1>2. x[1] \in 0 .. n /\ x[2] \in 0 .. n /\ x = <<x[1], x[2]>>
  BY <1>1
<1> QED
  BY <1>1, <1>2 DEF Middle

\* Where the loop of a lookup ends up: the column if it is there, or a neighbour
\* of the place where it would be.
Probed(start, end, col, mid) ==
  /\ mid \in start .. end - 1
  /\ colIndices[mid + 1] < col => \A k \in mid + 1 .. end - 1 : colIndices[k + 1] > col
  /\ colIndices[mid + 1] > col => \A k \in start .. mid - 1 : colIndices[k + 1] < col

LEMMA ProbeIs ==
  ASSUME InvShape, NEW row \in 0 .. NumRows - 1, NEW col \in 0 .. NumCols - 1,
         rowOffsets[row] # rowOffsets[row + 1]
  PROVE  Probed(rowOffsets[row], rowOffsets[row + 1], col, LastProbe(row, col))
<1> DEFINE n == Len(values) - 1
           D == Ranges(n)
           start == rowOffsets[row]
           end == rowOffsets[row + 1]
           stop == ProbeEnds(col)
           out == [x \in D |-> Middle(x)]
           next == [x \in D |-> Half(col, x)]
           m == [x \in D |-> x[2] - x[1]]
           v(k) == colIndices[k + 1]
<1>1. /\ NumRows \in Nat /\ NumCols \in Nat /\ Len(values) \in Nat
      /\ \A k \in 0 .. n : v(k) \in Int
  BY MatrixAssumption DEF InvShape, Shape
<1>2. start \in Nat /\ end \in Nat /\ start <= end - 1 /\ end - 1 <= n /\ n \in Nat
  <2>1. row \in 0 .. NumRows /\ row + 1 \in 0 .. NumRows /\ NumRows \in 0 .. NumRows
    BY <1>1
  <2>2. /\ start \in Nat /\ end \in Nat /\ rowOffsets[NumRows] = Len(values)
        /\ start <= end /\ end <= rowOffsets[NumRows]
    BY <1>1, <2>1 DEF InvShape, Shape
  <2> QED
    BY <1>1, <2>2
<1>3. \A j, k \in start .. end - 1 : j < k => v(j) < v(k)
  <2> TAKE j, k \in start .. end - 1
  <2>1. j + 1 \in start + 1 .. end /\ k + 1 \in start + 1 .. end /\ (j < k => j + 1 < k + 1)
    BY <1>2
  <2> QED
    BY <2>1 DEF InvShape, Shape
<1> HIDE DEF n, start, end, v
<1>4. ASSUME NEW x \in D
      PROVE  /\ x[1] \in 0 .. n /\ x[2] \in 0 .. n /\ x[1] <= x[2] /\ x = <<x[1], x[2]>>
             /\ Middle(x) \in x[1] .. x[2]
  BY <1>2, RangesAre
<1>5. Falling(D, n + 1, m, stop, next)
  <2> SUFFICES ASSUME NEW x \in D
               PROVE  m[x] \in 0 .. n /\ (x \in stop \/ (next[x] \in D /\ m[next[x]] < m[x]))
    BY <1>2 DEF Falling
  <2>1. m[x] = x[2] - x[1] /\ next[x] = Half(col, x) /\ m[x] \in 0 .. n
    BY <1>2, <1>4
  <2>2. CASE x \notin stop
    <3>1. Half(col, x)[1] <= Half(col, x)[2]
      BY <1>2, <1>4, <2>2 DEF ProbeEnds, Half, n
    <3>2. Half(col, x) \in D
      BY <1>2, <1>4, <3>1 DEF Half, Ranges
    <3>3. m[Half(col, x)] = Half(col, x)[2] - Half(col, x)[1]
      BY <3>2
    <3>4. Half(col, x)[2] - Half(col, x)[1] < x[2] - x[1]
      BY <1>2, <1>4 DEF Half
    <3> QED
      BY <2>1, <3>2, <3>3, <3>4
  <2> QED
    BY <2>1, <2>2
<1>6. PICK loop : Looping(D, stop, out, next, loop) /\ LastProbe(row, col) = loop[<<start, end - 1>>]
  <2> DEFINE Is(g) == g = [x \in Ranges(Len(values) - 1) |->
                             IF colIndices[Middle(x) + 1] = col \/ Half(col, x)[1] > Half(col, x)[2]
                             THEN Middle(x) ELSE g[Half(col, x)]]
  <2>1. LastProbe(row, col) = (CHOOSE g : Is(g))[<<start, end - 1>>]
    BY DEF LastProbe, Half, start, end
  <2>2. ASSUME NEW g PROVE Is(g) <=> Looping(D, stop, out, next, g)
    <3>1. [x \in D |-> IF x \in stop THEN out[x] ELSE g[next[x]]]
            = [x \in D |-> IF colIndices[Middle(x) + 1] = col \/ Half(col, x)[1] > Half(col, x)[2]
                           THEN Middle(x) ELSE g[Half(col, x)]]
      BY DEF ProbeEnds, n
    <3> QED
      BY <3>1 DEF Looping, n
  <2> HIDE DEF Is
  <2>3. \E g : Looping(D, stop, out, next, g)
    <3>1. n + 1 \in Nat
      BY <1>2
    <3> HIDE DEF D, stop, out, next, m
    <3> QED
      BY <3>1, <1>5, LoopExists, Zenon
  <2> HIDE DEF stop, out, next, D
  <2>4. Is(CHOOSE g : Is(g))
    BY <2>2, <2>3
  <2> QED
    BY <2>1, <2>2, <2>4
<1>7. \A x \in D : loop[x] = IF x \in stop THEN Middle(x) ELSE loop[Half(col, x)]
  BY <1>6 DEF Looping
<1> DEFINE Around(x) ==
             /\ start <= x[1] /\ x[2] < end
             /\ \A k \in start .. x[1] - 1 : v(k) < col
             /\ \A k \in x[2] + 1 .. end - 1 : v(k) > col
           A == {x \in D : Around(x) => Probed(start, end, col, loop[x])}
<1>8. ASSUME NEW x \in D, x \in stop \/ next[x] \in A PROVE x \in A
  <2> SUFFICES ASSUME Around(x) PROVE Probed(start, end, col, loop[x])
    OBVIOUS
  <2> DEFINE k == Middle(x)
  <2>0. /\ x[1] \in 0 .. n /\ x[2] \in 0 .. n /\ k \in x[1] .. x[2]
        /\ start <= x[1] /\ x[2] < end
    BY <1>4
  <2>1. k \in x[1] .. x[2] /\ k \in start .. end - 1 /\ k \in 0 .. n /\ v(k) \in Int
    <3> HIDE DEF D, k
    <3>1. k \in start .. end - 1 /\ k \in 0 .. n
      BY <1>2, <2>0
    <3> QED
      BY <1>1, <2>0, <3>1
  <2>2. CASE x \in stop
    <3>1. loop[x] = k
      BY <1>7, <2>2
    <3>2. v(k) = col \/ Half(col, x)[1] > Half(col, x)[2]
      BY <2>2 DEF ProbeEnds, v
    <3>3. v(k) < col => k = x[2]
      BY <1>4, <2>1, <3>2 DEF Half, v
    <3>4. v(k) > col => k = x[1]
      BY <1>4, <2>1, <3>2 DEF Half, v
    <3> QED
      BY <2>1, <3>1, <3>3, <3>4 DEF Probed, v
  <2>3. CASE x \notin stop
    <3>1. loop[x] = loop[Half(col, x)] /\ next[x] = Half(col, x) /\ Half(col, x) \in A
      BY <1>7, <1>8, <2>3
    <3>2. v(k) # col
      BY <2>3, <1>4 DEF ProbeEnds, v, n
    <3>3. Around(Half(col, x))
      <4>1. CASE v(k) < col
        <5>1. Half(col, x) = <<k + 1, x[2]>>
          BY <4>1 DEF Half, v
        <5>2. \A i \in start .. k : v(i) < col
          <6> TAKE i \in start .. k
          <6>1. i \in start .. end - 1 /\ i \in 0 .. n /\ v(i) \in Int /\ (i = k \/ i < k)
            BY <1>1, <1>2, <2>1
          <6> QED
            BY <1>3, <2>1, <4>1, <6>1
        <5>3. (k + 1) - 1 = k /\ start <= k + 1
          BY <1>2, <2>1
        <5> QED
          BY <5>1, <5>2, <5>3
      <4>2. CASE v(k) > col
        <5>1. Half(col, x) = <<x[1], k - 1>>
          BY <2>1, <4>2 DEF Half, v
        <5>2. \A i \in k .. end - 1 : v(i) > col
          <6> TAKE i \in k .. end - 1
          <6>1. i \in start .. end - 1 /\ i \in 0 .. n /\ v(i) \in Int /\ (i = k \/ k < i)
            BY <1>1, <1>2, <2>1
          <6> QED
            BY <1>3, <2>1, <4>2, <6>1
        <5>3. (k - 1) + 1 = k /\ k - 1 < end
          BY <1>2, <2>1
        <5> QED
          BY <5>1, <5>2, <5>3
      <4> QED
        BY <2>1, <3>2, <4>1, <4>2
    <3> QED
      BY <3>1, <3>3
  <2> QED
    BY <2>2, <2>3
<1>9. D \subseteq A
  <2> HIDE DEF D, stop, out, next, m, A
  <2> QED
    BY <1>2, <1>5, <1>8, LoopInduction
<1>10. <<start, end - 1>> \in D /\ Around(<<start, end - 1>>)
  BY <1>2 DEF Ranges
<1> QED
  BY <1>6, <1>9, <1>10 DEF start, end

\* The bisection of the rows: the last of them that begins at the offset.
RowHalf(offset, x) ==
  LET mid == x[1] + (x[2] - x[1] + 1) \div 2
  IN  IF rowOffsets[mid] = offset THEN <<mid, x[2]>> ELSE <<x[1], mid - 1>>
LastOne(offset, r) ==
  /\ r \in 0 .. NumRows /\ rowOffsets[r] = offset
  /\ r = NumRows \/ rowOffsets[r + 1] > offset

LEMMA LastRowIs ==
  ASSUME InvShape, NEW from \in 0 .. NumRows
  PROVE  /\ LastOne(rowOffsets[from], LastRowAt(from, rowOffsets[from]))
         /\ from <= LastRowAt(from, rowOffsets[from])
<1> DEFINE n == NumRows
           D == Ranges(n)
           offset == rowOffsets[from]
           stop == {x \in D : x[1] = x[2]}
           out == [x \in D |-> x[1]]
           next == [x \in D |-> RowHalf(offset, x)]
           m == [x \in D |-> x[2] - x[1]]
<1>1. /\ n \in Nat /\ offset \in Nat
      /\ \A i \in 0 .. n : rowOffsets[i] \in Nat
      /\ \A i, j \in 0 .. n : i <= j => rowOffsets[i] <= rowOffsets[j]
  BY MatrixAssumption DEF InvShape, Shape
<1> HIDE DEF n, offset
<1>2. ASSUME NEW x \in D
      PROVE  /\ x[1] \in 0 .. n /\ x[2] \in 0 .. n /\ x[1] <= x[2] /\ x = <<x[1], x[2]>>
             /\ x[1] < x[2] => x[1] + (x[2] - x[1] + 1) \div 2 \in x[1] + 1 .. x[2]
  <2>1. x[1] \in 0 .. n /\ x[2] \in 0 .. n /\ x[1] <= x[2] /\ x = <<x[1], x[2]>>
    BY <1>1, RangesAre
  <2> HIDE DEF D
  <2> QED
    BY <1>1, <2>1
<1>3. ASSUME NEW x \in D, x \notin stop
      PROVE  LET y == RowHalf(offset, x)
             IN  y \in D /\ y[2] - y[1] < x[2] - x[1]
  <2> DEFINE mid == x[1] + (x[2] - x[1] + 1) \div 2
  <2>1. x[1] \in 0 .. n /\ x[2] \in 0 .. n /\ x[1] < x[2] /\ mid \in x[1] + 1 .. x[2]
    BY <1>1, <1>2, <1>3
  <2>2. RowHalf(offset, x) = IF rowOffsets[mid] = offset THEN <<mid, x[2]>> ELSE <<x[1], mid - 1>>
    BY DEF RowHalf
  <2> HIDE DEF mid
  <2>3. CASE rowOffsets[mid] = offset
    BY <1>1, <2>1, <2>2, <2>3 DEF Ranges
  <2>4. CASE rowOffsets[mid] # offset
    BY <1>1, <2>1, <2>2, <2>4 DEF Ranges
  <2> QED
    BY <2>3, <2>4
<1>4. Falling(D, n + 1, m, stop, next)
  <2> SUFFICES ASSUME NEW x \in D
               PROVE  m[x] \in 0 .. n /\ (x \in stop \/ (next[x] \in D /\ m[next[x]] < m[x]))
    BY <1>1 DEF Falling
  <2>1. m[x] = x[2] - x[1] /\ next[x] = RowHalf(offset, x) /\ m[x] \in 0 .. n
    BY <1>1, <1>2
  <2>2. CASE x \notin stop
    <3>1. RowHalf(offset, x) \in D /\ RowHalf(offset, x)[2] - RowHalf(offset, x)[1] < x[2] - x[1]
      BY <1>3, <2>2
    <3>2. m[RowHalf(offset, x)] = RowHalf(offset, x)[2] - RowHalf(offset, x)[1]
      BY <3>1
    <3> QED
      BY <2>1, <3>1, <3>2
  <2> QED
    BY <2>1, <2>2
<1>5. PICK loop : Looping(D, stop, out, next, loop) /\ LastRowAt(from, offset) = loop[<<from, n>>]
  <2> DEFINE Is(g) == g = [x \in Ranges(NumRows) |->
                             IF x[1] = x[2] THEN x[1] ELSE g[RowHalf(offset, x)]]
  <2>1. LastRowAt(from, offset) = (CHOOSE g : Is(g))[<<from, n>>]
    BY DEF LastRowAt, RowHalf, n
  <2>2. ASSUME NEW g PROVE Is(g) <=> Looping(D, stop, out, next, g)
    <3>1. [x \in D |-> IF x \in stop THEN out[x] ELSE g[next[x]]]
            = [x \in D |-> IF x[1] = x[2] THEN x[1] ELSE g[RowHalf(offset, x)]]
      OBVIOUS
    <3> QED
      BY <3>1 DEF Looping, n
  <2> HIDE DEF Is
  <2>3. \E g : Looping(D, stop, out, next, g)
    <3>1. n + 1 \in Nat
      BY <1>1
    <3> HIDE DEF D, stop, out, next, m
    <3> QED
      BY <3>1, <1>4, LoopExists, Zenon
  <2> HIDE DEF stop, out, next, D
  <2>4. Is(CHOOSE g : Is(g))
    BY <2>2, <2>3
  <2> QED
    BY <2>1, <2>2, <2>4
<1>6. \A x \in D : loop[x] = IF x \in stop THEN x[1] ELSE loop[RowHalf(offset, x)]
  BY <1>5 DEF Looping
<1> DEFINE Around(x) ==
             rowOffsets[x[1]] = offset /\ (x[2] = n \/ rowOffsets[x[2] + 1] > offset)
           A == {x \in D : Around(x) => LastOne(offset, loop[x]) /\ x[1] <= loop[x]}
<1>7. ASSUME NEW x \in D, x \in stop \/ next[x] \in A PROVE x \in A
  <2> SUFFICES ASSUME Around(x) PROVE LastOne(offset, loop[x]) /\ x[1] <= loop[x]
    OBVIOUS
  <2>1. CASE x \in stop
    <3>1. loop[x] = x[1] /\ x[1] = x[2] /\ x[1] \in 0 .. n
      BY <1>2, <1>6, <2>1
    <3> QED
      BY <1>1, <3>1 DEF LastOne, n
  <2>2. CASE x \notin stop
    <3> DEFINE mid == x[1] + (x[2] - x[1] + 1) \div 2
               y == RowHalf(offset, x)
    <3>1. loop[x] = loop[y] /\ y \in A
      BY <1>6, <1>7, <2>2
    <3>2. x[1] \in 0 .. n /\ x[2] \in 0 .. n /\ x[1] < x[2] /\ mid \in x[1] + 1 .. x[2]
      BY <1>1, <1>2, <2>2
    <3>3. y = IF rowOffsets[mid] = offset THEN <<mid, x[2]>> ELSE <<x[1], mid - 1>>
      BY DEF RowHalf
    <3>4. rowOffsets[x[1]] = offset /\ (x[2] = n \/ rowOffsets[x[2] + 1] > offset)
      OBVIOUS
    <3>5. y \in D => (Around(y) => LastOne(offset, loop[y]) /\ y[1] <= loop[y])
      BY <3>1
    <3> HIDE DEF mid, y, A, stop, D, next
    <3>6. Around(y) /\ x[1] <= y[1]
      <4>1. CASE rowOffsets[mid] = offset
        BY <1>1, <3>2, <3>3, <3>4, <4>1
      <4>2. CASE rowOffsets[mid] # offset
        <5>1. mid \in 0 .. n /\ x[1] <= mid /\ (mid - 1) + 1 = mid
          BY <1>1, <3>2
        <5>2. rowOffsets[x[1]] <= rowOffsets[mid] /\ rowOffsets[mid] \in Nat
          BY <1>1, <3>2, <5>1
        <5>3. rowOffsets[mid] > offset
          BY <1>1, <3>4, <4>2, <5>2
        <5> QED
          BY <3>2, <3>3, <3>4, <4>2, <5>1, <5>3
      <4> QED
        BY <4>1, <4>2
    <3>7. y \in D
      BY <1>3, <2>2 DEF y
    <3>8. LastOne(offset, loop[y]) /\ y[1] <= loop[y]
      BY <3>5, <3>6, <3>7
    <3>9. y[1] \in 0 .. n /\ loop[y] \in 0 .. n
      BY <1>2, <3>7, <3>8 DEF LastOne, n
    <3> QED
      BY <1>1, <3>1, <3>2, <3>6, <3>8, <3>9
  <2> QED
    BY <2>1, <2>2
<1>8. D \subseteq A
  <2>1. n + 1 \in Nat
    BY <1>1
  <2> HIDE DEF D, stop, out, next, m, A
  <2> QED
    BY <2>1, <1>4, <1>7, LoopInduction
<1>9. <<from, n>> \in D /\ Around(<<from, n>>)
  BY <1>1 DEF Ranges, n, offset
<1> QED
  BY <1>5, <1>8, <1>9 DEF offset

-----------------------------------------------------------------------------
(* CompressedMatrix: its steps are those of a map                          *)

\* The iterator is at an entry, or behind the last one.
AtEntry(row, index) ==
  IF row = NumRows THEN index = Len(values)
  ELSE rowOffsets[row] <= index /\ index < rowOffsets[row + 1]

MatrixInv ==
  /\ InvShape
  /\ iterating \in BOOLEAN
  /\ iterating => currIndex \in 0 .. Len(values) /\ currRow \in 0 .. NumRows /\ AtEntry(currRow, currIndex)

Pos(k) == Position(rowOffsets, colIndices, k)
From(n) == {Pos(k) : k \in n + 1 .. Len(values)}
CursorAt(row, index) == IF row = NumRows THEN <<NumRows, 0>> ELSE <<row, colIndices[index + 1]>>

\* The cursor is the first of the positions from the index on.
LEMMA FirstIs ==
  ASSUME InvShape, NEW row \in 0 .. NumRows, NEW index \in 0 .. Len(values), AtEntry(row, index)
  PROVE  /\ Sparse!FirstOf(From(index)) = CursorAt(row, index)
         /\ row # NumRows => index + 1 \in 1 .. Len(values) /\ CursorAt(row, index) = Pos(index + 1)
<1>1. NumRows \in Nat /\ Len(values) \in Nat /\ rowOffsets[NumRows] = Len(values)
  BY MatrixAssumption DEF InvShape, Shape
<1>2. \A p, q : Sparse!InOrder(p, q) = Precedes(p, q)
  BY EntriesIs
<1>3. CASE row = NumRows
  <2>1. From(index) = {}
    BY <1>1, <1>3 DEF From, AtEntry
  <2> QED
    BY <1>3, <2>1 DEF Sparse!FirstOf, Sparse!End, CursorAt
<1>4. CASE row # NumRows
  <2>1. row \in 0 .. NumRows - 1 /\ rowOffsets[row] <= index /\ index < rowOffsets[row + 1]
    BY <1>1, <1>4 DEF AtEntry
  <2>2. /\ rowOffsets[row] \in Nat /\ rowOffsets[row + 1] \in Nat
        /\ rowOffsets[row + 1] <= Len(values)
    <3>1. row \in 0 .. NumRows /\ row + 1 \in 0 .. NumRows /\ NumRows \in 0 .. NumRows /\ row + 1 <= NumRows
      BY <1>1, <2>1
    <3>2. rowOffsets[row + 1] <= rowOffsets[NumRows]
      BY <3>1 DEF InvShape, Shape
    <3> QED
      BY <1>1, <3>1, <3>2 DEF InvShape, Shape
  <2>3. index + 1 \in 1 .. Len(values) /\ InRow(rowOffsets, index + 1, row)
    BY <1>1, <2>1, <2>2 DEF InRow
  <2>4. RowIn(rowOffsets, index + 1) = row
    BY <2>1, <2>3, RowsAre DEF InvShape
  <2>5. CursorAt(row, index) = Pos(index + 1)
    BY <1>4, <2>4 DEF CursorAt, Pos, Position
  <2>6. /\ \A k \in 1 .. Len(values) : Pos(k) \in Cells
        /\ \A j, k \in 1 .. Len(values) : j < k => Precedes(Pos(j), Pos(k))
    BY PositionsAre DEF InvShape, Pos
  <2>7. Pos(index + 1) \in From(index)
    BY <1>1, <2>3 DEF From
  <2>8. \A q \in From(index) : q \in Cells /\ (Pos(index + 1) = q \/ Precedes(Pos(index + 1), q))
    <3> TAKE q \in From(index)
    <3>1. PICK k \in index + 1 .. Len(values) : q = Pos(k)
      BY DEF From
    <3>2. k \in 1 .. Len(values) /\ (k = index + 1 \/ index + 1 < k)
      BY <1>1
    <3> QED
      BY <2>3, <2>6, <3>1, <3>2
  <2>9. \A p \in From(index) :
          (\A q \in From(index) : p = q \/ Precedes(p, q)) => p = Pos(index + 1)
    BY <2>7, <2>8, PrecedesIs
  <2>10. Sparse!FirstOf(From(index))
           = CHOOSE p \in From(index) : \A q \in From(index) : p = q \/ Precedes(p, q)
    BY <1>2, <2>7 DEF Sparse!FirstOf
  <2>11. Sparse!FirstOf(From(index)) = Pos(index + 1)
    BY <2>7, <2>8, <2>9, <2>10
  <2> QED
    BY <2>3, <2>5, <2>11
<1> QED
  BY <1>3, <1>4

LEMMA CursorIs == Cursor = IF ~iterating THEN <<>> ELSE CursorAt(currRow, currIndex)
BY DEF Cursor, CursorAt

\* The entries are those at the positions.
LEMMA EntriesHere ==
  ASSUME InvShape
  PROVE  /\ DOMAIN Entries = {Pos(k) : k \in 1 .. Len(values)}
         /\ \A k \in 1 .. Len(values) : Pos(k) \in DOMAIN Entries /\ Entries[Pos(k)] = values[k]
<1> DEFINE E == EntriesOf(rowOffsets, colIndices, values)
<1>0. Shape(rowOffsets, colIndices, values)
  BY DEF InvShape
<1>1. EntryForEach(rowOffsets, colIndices, values, E)
  BY <1>0, EntriesAre
<1>2. Entries = E
  BY EntriesIs
<1> HIDE DEF E
<1>3. \A p \in DOMAIN Entries : \E k \in 1 .. Len(values) : p = Pos(k)
  BY <1>1, <1>2 DEF Pos, EntryForEach
<1>4. \A k \in 1 .. Len(values) : Pos(k) \in DOMAIN Entries /\ Entries[Pos(k)] = values[k]
  BY <1>1, <1>2 DEF Pos, EntryForEach
<1> QED
  BY <1>3, <1>4

LEMMA BeginIs ==
  ASSUME MatrixInv, BeginIteration
  PROVE  MatrixInv' /\ Sparse!Begin
<1>1. /\ currRow' = LastRowAt(0, 0) /\ currIndex' = 0 /\ iterating' = TRUE /\ read' = <<>>
      /\ rowOffsets' = rowOffsets /\ colIndices' = colIndices /\ values' = values
  BY DEF BeginIteration
<1>2. InvShape /\ InvShape'
  BY <1>1 DEF MatrixInv, InvShape
<1>3. 0 \in 0 .. NumRows /\ rowOffsets[0] = 0 /\ Len(values) \in Nat /\ rowOffsets[NumRows] = Len(values)
  BY <1>2, MatrixAssumption DEF InvShape, Shape
<1>4. LastOne(0, LastRowAt(0, 0))
  BY <1>2, <1>3, LastRowIs
<1>5. LastRowAt(0, 0) \in 0 .. NumRows /\ AtEntry(LastRowAt(0, 0), 0)
  BY <1>3, <1>4 DEF LastOne, AtEntry
<1>6. MatrixInv'
  BY <1>1, <1>2, <1>3, <1>5 DEF MatrixInv, AtEntry
<1>7. Sparse!FirstOf(From(0)) = CursorAt(LastRowAt(0, 0), 0)
  BY <1>2, <1>3, <1>5, FirstIs
<1>8. DOMAIN Entries = From(0)
  <2>1. DOMAIN Entries = {Pos(k) : k \in 1 .. Len(values)}
    BY <1>2, EntriesHere
  <2>2. From(0) = {Pos(k) : k \in 1 .. Len(values)}
    BY DEF From
  <2> QED
    BY <2>1, <2>2
<1>9. Entries' = Entries
  BY <1>1 DEF Entries, RowOf
<1>10. Cursor' = CursorAt(LastRowAt(0, 0), 0)
  BY <1>1 DEF Cursor, CursorAt
<1> QED
  BY <1>1, <1>6, <1>7, <1>8, <1>9, <1>10 DEF Sparse!Begin

LEMMA IncrementIs ==
  ASSUME MatrixInv, Increment
  PROVE  MatrixInv' /\ Sparse!Advance
<1> DEFINE n == currIndex
           row == IF n + 1 = rowOffsets[currRow + 1] THEN LastRowAt(currRow + 1, n + 1) ELSE currRow
<1>1. /\ iterating /\ currRow # NumRows
      /\ currRow' = row /\ currIndex' = n + 1 /\ iterating' = iterating /\ read' = <<>>
      /\ rowOffsets' = rowOffsets /\ colIndices' = colIndices /\ values' = values
  BY DEF Increment
<1>2. InvShape /\ InvShape'
  BY <1>1 DEF MatrixInv, InvShape
<1>3. /\ NumRows \in Nat /\ Len(values) \in Nat /\ rowOffsets[NumRows] = Len(values)
      /\ currRow \in 0 .. NumRows /\ n \in 0 .. Len(values) /\ AtEntry(currRow, n)
      /\ \A i \in 0 .. NumRows : rowOffsets[i] \in Nat
  BY <1>1, <1>2, MatrixAssumption DEF InvShape, Shape, MatrixInv
<1>4. /\ Sparse!FirstOf(From(n)) = CursorAt(currRow, n)
      /\ n + 1 \in 1 .. Len(values) /\ CursorAt(currRow, n) = Pos(n + 1)
  BY <1>1, <1>2, <1>3, FirstIs
<1>5. currRow + 1 \in 0 .. NumRows /\ rowOffsets[currRow] <= n /\ n < rowOffsets[currRow + 1]
  BY <1>1, <1>3 DEF AtEntry
<1>6. row \in 0 .. NumRows /\ AtEntry(row, n + 1)
  <2>1. CASE n + 1 = rowOffsets[currRow + 1]
    <3>1. LastOne(n + 1, row)
      BY <1>2, <1>5, <2>1, LastRowIs
    <3> HIDE DEF row
    <3> QED
      BY <1>3, <3>1 DEF LastOne, AtEntry
  <2>2. CASE n + 1 # rowOffsets[currRow + 1]
    BY <1>1, <1>3, <1>5, <2>2 DEF AtEntry
  <2> QED
    BY <2>1, <2>2
<1> HIDE DEF row
<1>7. n + 1 \in 0 .. Len(values)
  BY <1>4
<1>8. MatrixInv'
  BY <1>1, <1>2, <1>6, <1>7 DEF MatrixInv, AtEntry
<1>9. Sparse!FirstOf(From(n + 1)) = CursorAt(row, n + 1)
  BY <1>2, <1>6, <1>7, FirstIs
<1>10. DOMAIN Entries = {Pos(k) : k \in 1 .. Len(values)}
  BY <1>2, EntriesHere
<1>11. Cursor = Pos(n + 1)
  BY <1>1, <1>4, CursorIs
<1>12. {p \in DOMAIN Entries : Precedes(Pos(n + 1), p)} = From(n + 1)
  <2>1. /\ \A k \in 1 .. Len(values) : Pos(k) \in Cells
        /\ \A j, k \in 1 .. Len(values) : j < k => Precedes(Pos(j), Pos(k))
    BY <1>2, PositionsAre DEF InvShape, Pos
  <2>2. ASSUME NEW k \in 1 .. Len(values) PROVE Precedes(Pos(n + 1), Pos(k)) <=> k \in (n + 1) + 1 .. Len(values)
    <3>1. k = n + 1 \/ k < n + 1 \/ n + 1 < k
      BY <1>3, <1>4
    <3>2. ~ Precedes(Pos(n + 1), Pos(n + 1))
      BY <1>4, <2>1, PrecedesIs
    <3>3. k < n + 1 => ~ Precedes(Pos(n + 1), Pos(k))
      BY <1>4, <2>1, PrecedesIs
    <3>4. n + 1 < k => Precedes(Pos(n + 1), Pos(k))
      BY <1>4, <2>1
    <3>5. k \in (n + 1) + 1 .. Len(values) <=> n + 1 < k
      BY <1>3
    <3> QED
      BY <3>1, <3>2, <3>3, <3>4, <3>5
  <2>3. (n + 1) + 1 .. Len(values) \subseteq 1 .. Len(values)
    BY <1>3
  <2> QED
    BY <1>10, <2>2, <2>3 DEF From
<1>13. Entries' = Entries
  BY <1>1 DEF Entries, RowOf
<1>14. Cursor' = CursorAt(row, n + 1)
  BY <1>1 DEF Cursor, CursorAt
<1>15. {p \in DOMAIN Entries : Sparse!InOrder(Cursor, p)} = From(n + 1)
  BY <1>11, <1>12, EntriesIs
<1>16. Cursor \in DOMAIN Entries
  BY <1>4, <1>10, <1>11
<1> QED
  BY <1>1, <1>8, <1>9, <1>13, <1>14, <1>15, <1>16 DEF Sparse!Advance

\* What a lookup finds.
LEMMA LookupIs ==
  ASSUME InvShape, NEW row \in 0 .. NumRows - 1, NEW col \in 0 .. NumCols - 1
  PROVE  LET mid == LastProbe(row, col)
             begin == rowOffsets[row]
             end == rowOffsets[row + 1]
             at == InsertionIndex(row, col)
         IN  /\ Holds(row, col, mid) => mid \in begin .. end - 1 /\ colIndices[mid + 1] = col
             /\ ~ Holds(row, col, mid) =>
                  /\ at \in begin .. end
                  /\ \A k \in begin .. at - 1 : colIndices[k + 1] < col
                  /\ \A k \in at .. end - 1 : colIndices[k + 1] > col
<1> DEFINE mid == LastProbe(row, col)
           begin == rowOffsets[row]
           end == rowOffsets[row + 1]
           at == InsertionIndex(row, col)
           v(k) == colIndices[k + 1]
<1>1. NumRows \in Nat /\ NumCols \in Nat /\ Len(values) \in Nat /\ row \in 0 .. NumRows /\ row + 1 \in 0 .. NumRows
  BY MatrixAssumption DEF InvShape, Shape
<1>2. /\ begin \in Nat /\ end \in Nat /\ begin <= end /\ end <= Len(values)
      /\ \A k \in 0 .. Len(values) - 1 : v(k) \in Int
  <2>1. NumRows \in 0 .. NumRows /\ row <= row + 1 /\ row + 1 <= NumRows
    BY <1>1
  <2>2. begin <= end /\ end <= rowOffsets[NumRows] /\ rowOffsets[NumRows] = Len(values) /\ begin \in Nat /\ end \in Nat
    BY <1>1, <2>1 DEF InvShape, Shape
  <2>3. \A k \in 0 .. Len(values) - 1 : k + 1 \in 1 .. Len(values) /\ v(k) \in 0 .. NumCols - 1
    BY <1>1 DEF InvShape, Shape
  <2> QED
    BY <1>1, <2>2, <2>3
<1>3. \A j, k \in begin .. end - 1 : j < k => v(j) < v(k)
  <2> TAKE j, k \in begin .. end - 1
  <2>1. j + 1 \in begin + 1 .. end /\ k + 1 \in begin + 1 .. end /\ (j < k => j + 1 < k + 1)
    BY <1>2
  <2> QED
    BY <2>1 DEF InvShape, Shape
<1>4. CASE begin = end
  <2>1. ~ Holds(row, col, mid)
    BY <1>2, <1>4 DEF Holds
  <2>2. mid = begin
    BY <1>4 DEF LastProbe
  <2>3. at = begin
    BY <1>2, <1>4, <2>2 DEF InsertionIndex
  <2> HIDE DEF at, mid, begin, end
  <2> QED
    BY <1>2, <1>4, <2>1, <2>3 DEF at, mid, begin, end
<1>5. CASE begin # end
  <2>1. Probed(begin, end, col, mid)
    BY <1>5, ProbeIs
  <2>2. /\ mid \in begin .. end - 1 /\ v(mid) \in Int
        /\ v(mid) < col => \A k \in mid + 1 .. end - 1 : v(k) > col
        /\ v(mid) > col => \A k \in begin .. mid - 1 : v(k) < col
    <3> HIDE DEF mid, begin, end
    <3> QED
      BY <1>2, <2>1 DEF Probed
  <2>3. Holds(row, col, mid) <=> v(mid) = col
    BY <1>2, <1>5 DEF Holds
  <2>4. at = IF v(mid) < col THEN mid + 1 ELSE mid
    BY <1>2, <1>5 DEF InsertionIndex
  <2> HIDE DEF at, mid, begin, end, v
  <2>5. ASSUME v(mid) # col
        PROVE  /\ at \in begin .. end
               /\ \A k \in begin .. at - 1 : v(k) < col
               /\ \A k \in at .. end - 1 : v(k) > col
    <3>1. CASE v(mid) < col
      <4>1. at = mid + 1 /\ at \in begin .. end
        BY <1>2, <2>2, <2>4, <3>1
      <4>2. ASSUME NEW k \in begin .. at - 1 PROVE v(k) < col
        <5>1. k \in begin .. end - 1 /\ k \in 0 .. Len(values) - 1 /\ v(k) \in Int /\ (k = mid \/ k < mid)
          BY <1>1, <1>2, <2>2, <4>1
        <5> QED
          BY <1>3, <2>2, <3>1, <5>1
      <4> QED
        BY <2>2, <3>1, <4>1, <4>2
    <3>2. CASE v(mid) > col
      <4>1. at = mid /\ at \in begin .. end
        BY <1>2, <2>2, <2>4, <3>2
      <4>2. ASSUME NEW k \in at .. end - 1 PROVE v(k) > col
        <5>1. k \in begin .. end - 1 /\ k \in 0 .. Len(values) - 1 /\ v(k) \in Int /\ (k = mid \/ mid < k)
          BY <1>1, <1>2, <2>2, <4>1
        <5> QED
          BY <1>3, <2>2, <3>2, <5>1
      <4> QED
        BY <2>2, <3>2, <4>1, <4>2
    <3> QED
      BY <2>2, <2>5, <3>1, <3>2
  <2> QED
    BY <2>2, <2>3, <2>5 DEF at, mid, begin, end, v
<1> QED
  BY <1>4, <1>5

\* A position is an entry if the row has the column.
LEMMA EntryAt ==
  ASSUME InvShape, NEW row \in 0 .. NumRows - 1, NEW col
  PROVE  /\ \A k \in rowOffsets[row] .. rowOffsets[row + 1] - 1 :
              k + 1 \in 1 .. Len(values) /\ Pos(k + 1) = <<row, colIndices[k + 1]>>
         /\ <<row, col>> \in DOMAIN Entries =>
              \E k \in rowOffsets[row] .. rowOffsets[row + 1] - 1 : colIndices[k + 1] = col
<1>1. /\ NumRows \in Nat /\ Len(values) \in Nat /\ row \in 0 .. NumRows /\ row + 1 \in 0 .. NumRows
      /\ rowOffsets[row] \in Nat /\ rowOffsets[row + 1] \in Nat /\ rowOffsets[row + 1] <= Len(values)
  <2>1. NumRows \in Nat /\ row \in 0 .. NumRows /\ row + 1 \in 0 .. NumRows /\ NumRows \in 0 .. NumRows /\ row + 1 <= NumRows
    BY MatrixAssumption
  <2>2. rowOffsets[row + 1] <= rowOffsets[NumRows]
    BY <2>1 DEF InvShape, Shape
  <2> QED
    BY <2>1, <2>2 DEF InvShape, Shape
<1>2. ASSUME NEW k \in rowOffsets[row] .. rowOffsets[row + 1] - 1
      PROVE  k + 1 \in 1 .. Len(values) /\ Pos(k + 1) = <<row, colIndices[k + 1]>>
  <2>1. k + 1 \in 1 .. Len(values) /\ InRow(rowOffsets, k + 1, row)
    BY <1>1 DEF InRow
  <2>2. RowIn(rowOffsets, k + 1) = row
    BY <2>1, RowsAre DEF InvShape
  <2> QED
    BY <2>1, <2>2 DEF Pos, Position
<1>3. ASSUME <<row, col>> \in DOMAIN Entries
      PROVE  \E k \in rowOffsets[row] .. rowOffsets[row + 1] - 1 : colIndices[k + 1] = col
  <2>1. PICK j \in 1 .. Len(values) : <<row, col>> = Position(rowOffsets, colIndices, j)
    BY <1>3, EntriesHere DEF Pos
  <2>2. row = RowIn(rowOffsets, j) /\ col = colIndices[j]
    BY <2>1 DEF Position
  <2>3. InRow(rowOffsets, j, row)
    BY <2>2, RowsAre DEF InvShape
  <2>4. j - 1 \in rowOffsets[row] .. rowOffsets[row + 1] - 1 /\ (j - 1) + 1 = j
    BY <1>1, <2>3 DEF InRow
  <2> QED
    BY <2>2, <2>4
<1> QED
  BY <1>2, <1>3

LEMMA GetIs ==
  ASSUME MatrixInv, NEW row \in 0 .. NumRows - 1, NEW col \in 0 .. NumCols - 1, Get(row, col)
  PROVE  MatrixInv' /\ Sparse!Lookup(row, col)
<1> DEFINE mid == LastProbe(row, col)
           begin == rowOffsets[row]
           end == rowOffsets[row + 1]
<1>1. /\ read' = <<IF Holds(row, col, mid) THEN values[mid + 1] ELSE 0>>
      /\ rowOffsets' = rowOffsets /\ colIndices' = colIndices /\ values' = values
      /\ currRow' = currRow /\ currIndex' = currIndex /\ iterating' = iterating
  BY DEF Get
<1>2. InvShape
  BY DEF MatrixInv
<1>3. MatrixInv'
  BY <1>1 DEF MatrixInv, InvShape, AtEntry
<1>4. Entries' = Entries /\ Cursor' = Cursor
  BY <1>1 DEF Entries, RowOf, Cursor
<1>5. CASE Holds(row, col, mid)
  <2>1. mid \in begin .. end - 1 /\ colIndices[mid + 1] = col
    BY <1>2, <1>5, LookupIs
  <2>2. mid + 1 \in 1 .. Len(values) /\ Pos(mid + 1) = <<row, col>>
    BY <1>2, <2>1, EntryAt
  <2>3. <<row, col>> \in DOMAIN Entries /\ Entries[<<row, col>>] = values[mid + 1]
    BY <1>2, <2>2, EntriesHere
  <2> QED
    BY <1>1, <1>3, <1>4, <1>5, <2>3 DEF Sparse!Lookup
<1>6. CASE ~ Holds(row, col, mid)
  <2>1. PICK at : /\ at \in begin .. end
                  /\ \A k \in begin .. at - 1 : colIndices[k + 1] < col
                  /\ \A k \in at .. end - 1 : colIndices[k + 1] > col
    BY <1>2, <1>6, LookupIs
  <2>2. \A k \in begin .. end - 1 : colIndices[k + 1] # col
    <3> TAKE k \in begin .. end - 1
    <3>1. begin \in Int /\ end \in Int
      BY <1>2, MatrixAssumption DEF InvShape, Shape
    <3>2. k \in begin .. at - 1 \/ k \in at .. end - 1
      BY <2>1, <3>1
    <3> QED
      BY <2>1, <3>2
  <2>3. <<row, col>> \notin DOMAIN Entries
    BY <1>2, <2>2, EntryAt
  <2> QED
    BY <1>1, <1>3, <1>4, <1>6, <2>3 DEF Sparse!Lookup
<1> QED
  BY <1>5, <1>6

\* What inserting leaves.
Inserted(S, s, i, e, t) ==
  /\ t \in Seq(S) /\ Len(t) = Len(s) + 1
  /\ \A k \in 1 .. Len(s) + 1 : t[k] = IF k < i THEN s[k] ELSE IF k = i THEN e ELSE s[k - 1]

LEMMA InsertIs ==
  ASSUME NEW S, NEW s \in Seq(S), NEW i \in 1 .. Len(s) + 1, NEW e \in S
  PROVE  Inserted(S, s, i, e, InsertAt(s, i, e))
<1> DEFINE before == SubSeq(s, 1, i - 1)
           after == SubSeq(s, i, Len(s))
<1>1. Len(s) \in Nat /\ s \in [1 .. Len(s) -> S]
  OBVIOUS
<1>2. before \in Seq(S) /\ Len(before) = i - 1 /\ \A k \in 1 .. i - 1 : before[k] = s[k]
  BY <1>1
<1>3. after \in Seq(S) /\ Len(after) = Len(s) - i + 1 /\ \A k \in 1 .. Len(s) - i + 1 : after[k] = s[i + k - 1]
  BY <1>1
<1>4. InsertAt(s, i, e) = before \o <<e>> \o after
  BY DEF InsertAt
<1> HIDE DEF before, after
<1> DEFINE t == before \o <<e>>
<1>5. t \in Seq(S) /\ Len(t) = i /\ t[i] = e /\ \A k \in 1 .. i - 1 : t[k] = s[k]
  BY <1>1, <1>2
<1> HIDE DEF t
<1>6. InsertAt(s, i, e) = t \o after
  BY <1>4 DEF t
<1>7. /\ t \o after \in Seq(S) /\ Len(t \o after) = Len(s) + 1
      /\ \A k \in 1 .. Len(s) + 1 : (t \o after)[k] = IF k <= i THEN t[k] ELSE after[k - i]
  BY <1>1, <1>3, <1>5
<1>8. ASSUME NEW k \in 1 .. Len(s) + 1
      PROVE  (t \o after)[k] = IF k < i THEN s[k] ELSE IF k = i THEN e ELSE s[k - 1]
  <2>1. CASE k < i
    BY <1>1, <1>5, <1>7, <2>1
  <2>2. CASE k = i
    BY <1>1, <1>5, <1>7, <2>2
  <2>3. CASE k > i
    <3>1. k - i \in 1 .. Len(s) - i + 1 /\ i + (k - i) - 1 = k - 1 /\ ~(k <= i)
      BY <1>1, <2>3
    <3>2. (t \o after)[k] = after[k - i]
      BY <1>7, <3>1
    <3> QED
      BY <1>1, <1>3, <2>3, <3>1, <3>2
  <2>4. k < i \/ k = i \/ k > i
    BY <1>1
  <2> HIDE DEF t
  <2> QED
    BY <2>1, <2>2, <2>3, <2>4
<1> QED
  BY <1>6, <1>7, <1>8 DEF Inserted

\* A new entry: the arrays before and after.
Grown(ro, ci, vs, row, col, value, at, ro2, ci2, vs2) ==
  /\ row \in 0 .. NumRows - 1 /\ col \in 0 .. NumCols - 1 /\ value \in EntryValues
  /\ at \in ro[row] .. ro[row + 1]
  /\ \A k \in ro[row] .. at - 1 : ci[k + 1] < col
  /\ \A k \in at .. ro[row + 1] - 1 : ci[k + 1] > col
  /\ ro2 = [r \in 0 .. NumRows |-> ro[r] + (IF r > row THEN 1 ELSE 0)]
  /\ ci2 = InsertAt(ci, at + 1, col) /\ vs2 = InsertAt(vs, at + 1, value)

\* Where an entry is afterwards.
Moved(at, k) == IF k <= at THEN k ELSE k + 1

LEMMA GrownIs ==
  ASSUME NEW ro, NEW ci, NEW vs, Shape(ro, ci, vs), NEW row, NEW col, NEW value, NEW at,
         NEW ro2, NEW ci2, NEW vs2, Grown(ro, ci, vs, row, col, value, at, ro2, ci2, vs2)
  PROVE  /\ NumRows \in Nat /\ Len(vs) \in Nat /\ at \in 0 .. Len(vs)
         /\ ro2 \in [0 .. NumRows -> Nat]
         /\ \A r \in 0 .. NumRows : ro2[r] = ro[r] + (IF r > row THEN 1 ELSE 0) /\ ro[r] \in 0 .. Len(vs)
         /\ \A i, j \in 0 .. NumRows : i <= j => ro[i] <= ro[j]
         /\ ci2 \in Seq(0 .. NumCols - 1) /\ vs2 \in Seq(EntryValues)
         /\ Len(ci2) = Len(vs) + 1 /\ Len(vs2) = Len(vs) + 1
         /\ \A k \in 1 .. Len(vs) : /\ Moved(at, k) \in 1 .. Len(vs) + 1
                                    /\ ci2[Moved(at, k)] = ci[k] /\ vs2[Moved(at, k)] = vs[k]
         /\ at + 1 \in 1 .. Len(vs) + 1 /\ ci2[at + 1] = col /\ vs2[at + 1] = value
         /\ \A k \in 1 .. Len(vs) + 1 : k = at + 1 \/ \E j \in 1 .. Len(vs) : k = Moved(at, j)
<1>1. /\ NumRows \in Nat /\ NumCols \in Nat /\ Len(vs) \in Nat /\ Len(ci) = Len(vs)
      /\ ro \in [0 .. NumRows -> Nat] /\ ro[NumRows] = Len(vs)
      /\ \A i, j \in 0 .. NumRows : i <= j => ro[i] <= ro[j]
      /\ ci \in Seq(0 .. NumCols - 1) /\ vs \in Seq(EntryValues)
  BY MatrixAssumption DEF Shape
<1>2. /\ row \in 0 .. NumRows - 1 /\ col \in 0 .. NumCols - 1 /\ value \in EntryValues
      /\ row \in 0 .. NumRows /\ row + 1 \in 0 .. NumRows
  <2>1. row \in 0 .. NumRows - 1 /\ col \in 0 .. NumCols - 1
    BY DEF Grown
  <2>2. value \in EntryValues
    BY DEF Grown
  <2> QED
    BY <1>1, <2>1, <2>2
<1>3. \A r \in 0 .. NumRows : ro[r] \in 0 .. Len(vs)
  <2> TAKE r \in 0 .. NumRows
  <2>1. r <= NumRows /\ NumRows \in 0 .. NumRows
    BY <1>1
  <2> QED
    BY <1>1, <2>1
<1>4. at \in 0 .. Len(vs)
  <2>1. at \in ro[row] .. ro[row + 1]
    BY DEF Grown
  <2> QED
    BY <1>1, <1>2, <1>3, <2>1
<1>5. ro2 = [r \in 0 .. NumRows |-> ro[r] + (IF r > row THEN 1 ELSE 0)]
  BY DEF Grown
<1>6. ro2 \in [0 .. NumRows -> Nat] /\ \A r \in 0 .. NumRows : ro2[r] = ro[r] + (IF r > row THEN 1 ELSE 0)
  BY <1>1, <1>5
<1>7. at + 1 \in 1 .. Len(ci) + 1 /\ at + 1 \in 1 .. Len(vs) + 1
  BY <1>1, <1>4
<1>8. /\ ci2 \in Seq(0 .. NumCols - 1) /\ Len(ci2) = Len(vs) + 1
      /\ \A k \in 1 .. Len(vs) + 1 :
           ci2[k] = IF k < at + 1 THEN ci[k] ELSE IF k = at + 1 THEN col ELSE ci[k - 1]
  <2>1. ci2 = InsertAt(ci, at + 1, col)
    BY DEF Grown
  <2>2. /\ ci2 \in Seq(0 .. NumCols - 1) /\ Len(ci2) = Len(ci) + 1
        /\ \A k \in 1 .. Len(ci) + 1 :
             ci2[k] = IF k < at + 1 THEN ci[k] ELSE IF k = at + 1 THEN col ELSE ci[k - 1]
    <3>1. ci \in Seq(0 .. NumCols - 1) /\ at + 1 \in 1 .. Len(ci) + 1 /\ col \in 0 .. NumCols - 1
      BY <1>1, <1>2, <1>7
    <3>2. Inserted(0 .. NumCols - 1, ci, at + 1, col, ci2)
      BY <2>1, <3>1, InsertIs
    <3> QED
      BY <3>2 DEF Inserted
  <2> QED
    BY <1>1, <2>2
<1>9. /\ vs2 \in Seq(EntryValues) /\ Len(vs2) = Len(vs) + 1
      /\ \A k \in 1 .. Len(vs) + 1 :
           vs2[k] = IF k < at + 1 THEN vs[k] ELSE IF k = at + 1 THEN value ELSE vs[k - 1]
  <2>1. vs2 = InsertAt(vs, at + 1, value)
    BY DEF Grown
  <2>2. PICK e : e = value
    OBVIOUS
  <2>3. vs \in Seq(EntryValues) /\ at + 1 \in 1 .. Len(vs) + 1 /\ e \in EntryValues /\ vs2 = InsertAt(vs, at + 1, e)
    BY <1>1, <1>2, <1>7, <2>1, <2>2
  <2>4. /\ vs2 \in Seq(EntryValues) /\ Len(vs2) = Len(vs) + 1
        /\ \A k \in 1 .. Len(vs) + 1 :
             vs2[k] = IF k < at + 1 THEN vs[k] ELSE IF k = at + 1 THEN e ELSE vs[k - 1]
    <3>1. Inserted(EntryValues, vs, at + 1, e, vs2)
      BY <2>3, InsertIs
    <3> QED
      BY <3>1 DEF Inserted
  <2> QED
    BY <2>2, <2>4
<1>10. ASSUME NEW k \in 1 .. Len(vs)
       PROVE  /\ Moved(at, k) \in 1 .. Len(vs) + 1
              /\ ci2[Moved(at, k)] = ci[k] /\ vs2[Moved(at, k)] = vs[k]
  <2>1. CASE k <= at
    <3>1. Moved(at, k) = k /\ k \in 1 .. Len(vs) + 1 /\ k < at + 1
      BY <1>1, <1>4, <2>1 DEF Moved
    <3> QED
      BY <1>8, <1>9, <3>1
  <2>2. CASE k > at
    <3>1. Moved(at, k) = k + 1 /\ k + 1 \in 1 .. Len(vs) + 1 /\ ~(k + 1 < at + 1) /\ k + 1 # at + 1 /\ (k + 1) - 1 = k
      BY <1>1, <1>4, <2>2 DEF Moved
    <3> QED
      BY <1>8, <1>9, <3>1
  <2> QED
    BY <1>1, <1>4, <2>1, <2>2
<1>11. ci2[at + 1] = col /\ vs2[at + 1] = value
  BY <1>1, <1>4, <1>7, <1>8, <1>9
<1>12. ASSUME NEW k \in 1 .. Len(vs) + 1, k # at + 1 PROVE \E j \in 1 .. Len(vs) : k = Moved(at, j)
  <2>1. CASE k <= at
    BY <1>1, <1>4, <2>1 DEF Moved
  <2>2. CASE k > at + 1
    <3>1. k - 1 \in 1 .. Len(vs) /\ Moved(at, k - 1) = k
      BY <1>1, <1>4, <2>2 DEF Moved
    <3> QED
      BY <3>1
  <2> QED
    BY <1>1, <1>4, <1>12, <2>1, <2>2
<1> QED
  BY <1>1, <1>3, <1>4, <1>6, <1>7, <1>8, <1>9, <1>10, <1>11, <1>12

\* The rows keep their entries, and the new one is in its row.
LEMMA GrownRows ==
  ASSUME NEW ro, NEW ci, NEW vs, Shape(ro, ci, vs), NEW row, NEW col, NEW value, NEW at,
         NEW ro2, NEW ci2, NEW vs2, Grown(ro, ci, vs, row, col, value, at, ro2, ci2, vs2),
         NEW r \in 0 .. NumRows - 1
  PROVE  /\ \A k \in 1 .. Len(vs) : InRow(ro2, Moved(at, k), r) <=> InRow(ro, k, r)
         /\ InRow(ro2, at + 1, r) <=> r = row
<1>1. /\ NumRows \in Nat /\ Len(vs) \in Nat /\ at \in 0 .. Len(vs)
      /\ \A i \in 0 .. NumRows : ro2[i] = ro[i] + (IF i > row THEN 1 ELSE 0) /\ ro[i] \in 0 .. Len(vs)
      /\ \A i, j \in 0 .. NumRows : i <= j => ro[i] <= ro[j]
  BY GrownIs
<1>2. row \in 0 .. NumRows - 1 /\ at \in ro[row] .. ro[row + 1]
  BY DEF Grown
<1>3. /\ r \in 0 .. NumRows /\ r + 1 \in 0 .. NumRows /\ row \in 0 .. NumRows /\ row + 1 \in 0 .. NumRows
      /\ r < row \/ r = row \/ r > row
  BY <1>1, <1>2
<1>4. /\ ro2[r] = ro[r] + (IF r > row THEN 1 ELSE 0) /\ ro2[r + 1] = ro[r + 1] + (IF r + 1 > row THEN 1 ELSE 0)
      /\ ro[r] \in 0 .. Len(vs) /\ ro[r + 1] \in 0 .. Len(vs)
      /\ ro[row] \in 0 .. Len(vs) /\ ro[row + 1] \in 0 .. Len(vs)
  BY <1>1, <1>3
<1>5. r < row => ro[r] <= ro[row] /\ ro[r + 1] <= ro[row] /\ ~(r > row) /\ ~(r + 1 > row)
  <2>1. r < row => r <= row /\ r + 1 <= row
    BY <1>3
  <2> QED
    BY <1>1, <1>3, <2>1
<1>6. r > row => ro[row + 1] <= ro[r] /\ ro[row + 1] <= ro[r + 1] /\ r + 1 > row
  <2>1. r > row => row + 1 <= r /\ row + 1 <= r + 1 /\ r + 1 > row
    BY <1>3
  <2> QED
    BY <1>1, <1>3, <2>1
<1>7. r = row => ~(r > row) /\ r + 1 > row
  BY <1>3
<1>8. ASSUME NEW k \in 1 .. Len(vs) PROVE InRow(ro2, Moved(at, k), r) <=> InRow(ro, k, r)
  <2>1. k \in Nat /\ at \in Nat /\ ro[row] <= at /\ at <= ro[row + 1]
    BY <1>1, <1>2, <1>4
  <2>2. CASE k <= at
    <3>1. Moved(at, k) = k
      BY <2>2 DEF Moved
    <3>2. (ro2[r] < k <=> ro[r] < k) /\ (k <= ro2[r + 1] <=> k <= ro[r + 1])
      BY <1>3, <1>4, <1>5, <1>6, <1>7, <2>1, <2>2
    <3> QED
      BY <3>1, <3>2 DEF InRow
  <2>3. CASE k > at
    <3>1. Moved(at, k) = k + 1
      BY <2>1, <2>3 DEF Moved
    <3>2. CASE r < row
      <4>1. /\ ro2[r] = ro[r] /\ ro2[r + 1] = ro[r + 1]
            /\ ro[r] <= ro[row] /\ ro[r + 1] <= ro[row]
        BY <1>4, <1>5, <3>2
      <4> QED
        BY <1>4, <2>1, <2>3, <3>1, <4>1 DEF InRow
    <3>3. CASE r = row
      <4>1. ro2[r] = ro[r] /\ ro2[r + 1] = ro[r + 1] + 1
        BY <1>3, <1>4, <1>7, <3>3
      <4> QED
        BY <1>4, <2>1, <2>3, <3>1, <3>3, <4>1 DEF InRow
    <3>4. CASE r > row
      <4>1. ro2[r] = ro[r] + 1 /\ ro2[r + 1] = ro[r + 1] + 1
        BY <1>4, <1>6, <3>4
      <4> QED
        BY <1>4, <2>1, <2>3, <3>1, <4>1 DEF InRow
    <3> QED
      BY <1>3, <3>2, <3>3, <3>4
  <2> QED
    BY <2>1, <2>2, <2>3
<1>9. InRow(ro2, at + 1, r) <=> r = row
  <2>1. at \in Nat /\ ro[row] <= at /\ at <= ro[row + 1]
    BY <1>1, <1>2, <1>4
  <2>2. CASE r < row
    <3>1. ro2[r + 1] = ro[r + 1] /\ ro[r + 1] <= ro[row]
      BY <1>4, <1>5, <2>2
    <3> QED
      BY <1>3, <1>4, <2>1, <2>2, <3>1 DEF InRow
  <2>3. CASE r = row
    <3>1. ro2[r] = ro[r] /\ ro2[r + 1] = ro[r + 1] + 1
      BY <1>4, <1>7, <2>3
    <3> QED
      BY <1>4, <2>1, <2>3, <3>1 DEF InRow
  <2>4. CASE r > row
    <3>1. ro2[r] = ro[r] + 1 /\ ro[row + 1] <= ro[r]
      BY <1>4, <1>6, <2>4
    <3> QED
      BY <1>3, <1>4, <2>1, <2>4, <3>1 DEF InRow
  <2> QED
    BY <1>3, <2>2, <2>3, <2>4
<1> QED
  BY <1>8, <1>9

LEMMA GrownShape ==
  ASSUME NEW ro, NEW ci, NEW vs, Shape(ro, ci, vs), NEW row, NEW col, NEW value, NEW at,
         NEW ro2, NEW ci2, NEW vs2, Grown(ro, ci, vs, row, col, value, at, ro2, ci2, vs2)
  PROVE  Shape(ro2, ci2, vs2)
<1>1. /\ NumRows \in Nat /\ Len(vs) \in Nat /\ at \in 0 .. Len(vs)
      /\ ro2 \in [0 .. NumRows -> Nat]
      /\ \A r \in 0 .. NumRows : ro2[r] = ro[r] + (IF r > row THEN 1 ELSE 0) /\ ro[r] \in 0 .. Len(vs)
      /\ \A i, j \in 0 .. NumRows : i <= j => ro[i] <= ro[j]
      /\ ci2 \in Seq(0 .. NumCols - 1) /\ vs2 \in Seq(EntryValues)
      /\ Len(ci2) = Len(vs) + 1 /\ Len(vs2) = Len(vs) + 1
      /\ \A k \in 1 .. Len(vs) : Moved(at, k) \in 1 .. Len(vs) + 1 /\ ci2[Moved(at, k)] = ci[k]
      /\ ci2[at + 1] = col
      /\ \A k \in 1 .. Len(vs) + 1 : k = at + 1 \/ \E j \in 1 .. Len(vs) : k = Moved(at, j)
  BY GrownIs
<1>2. /\ row \in 0 .. NumRows - 1 /\ at \in ro[row] .. ro[row + 1]
      /\ \A k \in ro[row] .. at - 1 : ci[k + 1] < col
      /\ \A k \in at .. ro[row + 1] - 1 : ci[k + 1] > col
  BY DEF Grown
<1>3. ro[0] = 0 /\ ro[NumRows] = Len(vs)
  BY DEF Shape
<1>4. ro2[0] = 0 /\ ro2[NumRows] = Len(vs2)
  <2>1. 0 \in 0 .. NumRows /\ NumRows \in 0 .. NumRows /\ ~(0 > row) /\ NumRows > row
    BY <1>1, <1>2
  <2> QED
    BY <1>1, <1>3, <2>1
<1>5. ASSUME NEW i \in 0 .. NumRows, NEW j \in 0 .. NumRows, i <= j PROVE ro2[i] <= ro2[j]
  <2>1. ro[i] <= ro[j] /\ (i > row => j > row)
    BY <1>1, <1>2, <1>5
  <2> QED
    BY <1>1, <2>1
<1>6. ASSUME NEW r \in 0 .. NumRows - 1, NEW j \in ro2[r] + 1 .. ro2[r + 1], NEW k \in ro2[r] + 1 .. ro2[r + 1],
             j < k
      PROVE  ci2[j] < ci2[k]
  <2>1. /\ r \in 0 .. NumRows /\ r + 1 \in 0 .. NumRows /\ ro2[r] \in Nat /\ ro2[r + 1] \in Nat
        /\ ro[r] \in Nat /\ ro[r + 1] \in Nat /\ row \in 0 .. NumRows /\ row + 1 \in 0 .. NumRows
        /\ ro[row] \in Nat /\ ro[row + 1] \in Nat /\ at \in Nat /\ j \in Int /\ k \in Int
    <3>1. r \in 0 .. NumRows /\ r + 1 \in 0 .. NumRows /\ row \in 0 .. NumRows /\ row + 1 \in 0 .. NumRows
      BY <1>1, <1>2
    <3>2. ro2[r] \in Nat /\ ro2[r + 1] \in Nat
      BY <1>1, <3>1
    <3>3. ro[r] \in Nat /\ ro[r + 1] \in Nat /\ ro[row] \in Nat /\ ro[row + 1] \in Nat
      <4>1. ro \in [0 .. NumRows -> Nat]
        BY DEF Shape
      <4> QED
        BY <3>1, <4>1
    <3>4. at \in Nat /\ j \in Int /\ k \in Int
      <4>1. Len(vs) \in Nat /\ at \in 0 .. Len(vs)
        BY <1>1
      <4>2. j \in ro2[r] + 1 .. ro2[r + 1] /\ k \in ro2[r] + 1 .. ro2[r + 1]
        OBVIOUS
      <4> QED
        BY <3>2, <4>1, <4>2
    <3> QED
      BY <3>1, <3>2, <3>3, <3>4
  <2>2. ro2[r + 1] <= Len(vs) + 1
    <3>1. NumRows \in 0 .. NumRows /\ r + 1 <= NumRows
      BY <1>1, <2>1
    <3> QED
      BY <1>1, <1>4, <1>5, <2>1, <3>1
  <2>3. j \in 1 .. Len(vs) + 1 /\ k \in 1 .. Len(vs) + 1 /\ InRow(ro2, j, r) /\ InRow(ro2, k, r)
    <3>1. ro2[r] < j /\ j <= ro2[r + 1] /\ ro2[r] < k /\ k <= ro2[r + 1]
      <4>1. j \in ro2[r] + 1 .. ro2[r + 1] /\ k \in ro2[r] + 1 .. ro2[r + 1]
        OBVIOUS
      <4>2. ro2[r] \in Nat /\ ro2[r + 1] \in Nat
        BY <2>1
      <4> QED
        BY <4>1, <4>2
    <3>2. Len(vs) \in Nat
      BY <1>1
    <3>3. j \in Int /\ k \in Int /\ ro2[r] \in Nat /\ ro2[r + 1] \in Nat
      BY <2>1
    <3>4. j \in 1 .. Len(vs) + 1 /\ k \in 1 .. Len(vs) + 1
      BY <2>2, <3>1, <3>2, <3>3
    <3> QED
      BY <3>1, <3>4 DEF InRow
  <2>4. \A i \in 1 .. Len(vs) : InRow(ro2, Moved(at, i), r) => i \in ro[r] + 1 .. ro[r + 1]
    <3> TAKE i \in 1 .. Len(vs)
    <3>1. InRow(ro2, Moved(at, i), r) => InRow(ro, i, r)
      BY GrownRows
    <3> QED
      BY <2>1, <3>1 DEF InRow
  <2>5. InRow(ro2, at + 1, r) => r = row
    BY GrownRows
  <2>6. CASE j = at + 1
    <3>1. PICK i \in 1 .. Len(vs) : k = Moved(at, i)
      BY <1>1, <1>6, <2>3, <2>6
    <3>2. r = row /\ i \in ro[r] + 1 .. ro[r + 1]
      BY <2>3, <2>4, <2>5, <2>6, <3>1
    <3>3. i - 1 \in at .. ro[row + 1] - 1 /\ (i - 1) + 1 = i
      <4>1. i > at
        BY <1>6, <2>1, <2>6, <3>1 DEF Moved
      <4> QED
        BY <2>1, <3>2, <4>1
    <3>4. ci[i] > col
      BY <1>2, <3>3
    <3>5. ci[i] \in Int /\ col \in Int
      <4>1. ci \in Seq(0 .. NumCols - 1) /\ Len(ci) = Len(vs)
        BY DEF Shape
      <4>2. ci[i] \in 0 .. NumCols - 1
        <5>1. i \in 1 .. Len(ci)
          BY <4>1
        <5> QED
          BY <4>1, <5>1, ElementOfSeq
      <4>3. col \in 0 .. NumCols - 1
        BY DEF Grown
      <4> QED
        BY <4>2, <4>3
    <3> QED
      BY <1>1, <2>6, <3>1, <3>4, <3>5
  <2>7. CASE k = at + 1
    <3>1. PICK i \in 1 .. Len(vs) : j = Moved(at, i)
      BY <1>1, <1>6, <2>3, <2>7
    <3>2. r = row /\ i \in ro[r] + 1 .. ro[r + 1]
      BY <2>3, <2>4, <2>5, <2>7, <3>1
    <3>3. i - 1 \in ro[row] .. at - 1 /\ (i - 1) + 1 = i
      <4>1. i <= at
        BY <1>6, <2>1, <2>7, <3>1 DEF Moved
      <4> QED
        BY <2>1, <3>2, <4>1
    <3>4. ci[i] < col
      BY <1>2, <3>3
    <3> QED
      BY <1>1, <2>7, <3>1, <3>4
  <2>8. CASE j # at + 1 /\ k # at + 1
    <3>1. PICK i \in 1 .. Len(vs) : j = Moved(at, i)
      BY <1>1, <2>3, <2>8
    <3>2. PICK h \in 1 .. Len(vs) : k = Moved(at, h)
      BY <1>1, <2>3, <2>8
    <3>3. i \in ro[r] + 1 .. ro[r + 1] /\ h \in ro[r] + 1 .. ro[r + 1]
      BY <2>3, <2>4, <3>1, <3>2
    <3>4. i < h
      BY <1>1, <1>6, <3>1, <3>2 DEF Moved
    <3>5. ci[i] < ci[h]
      BY <3>3, <3>4 DEF Shape
    <3> QED
      BY <1>1, <3>1, <3>2, <3>5
  <2> QED
    BY <2>6, <2>7, <2>8
<1> QED
  BY <1>1, <1>4, <1>5, <1>6 DEF Shape

PutInto(E, row, col, value, E2) ==
  E2 = [p \in DOMAIN E \cup {<<row, col>>} |-> IF p = <<row, col>> THEN value ELSE E[p]]

LEMMA GrownEntries ==
  ASSUME NEW ro, NEW ci, NEW vs, Shape(ro, ci, vs), NEW row, NEW col, NEW value, NEW at,
         NEW ro2, NEW ci2, NEW vs2, Grown(ro, ci, vs, row, col, value, at, ro2, ci2, vs2),
         NEW E, EntryForEach(ro, ci, vs, E), NEW E2, EntryForEach(ro2, ci2, vs2, E2)
  PROVE  PutInto(E, row, col, value, E2)
<1>1. /\ Len(vs) \in Nat /\ Len(vs2) = Len(vs) + 1
      /\ \A k \in 1 .. Len(vs) : Moved(at, k) \in 1 .. Len(vs) + 1
                                 /\ ci2[Moved(at, k)] = ci[k] /\ vs2[Moved(at, k)] = vs[k]
      /\ at + 1 \in 1 .. Len(vs) + 1 /\ ci2[at + 1] = col /\ vs2[at + 1] = value
      /\ \A k \in 1 .. Len(vs) + 1 : k = at + 1 \/ \E j \in 1 .. Len(vs) : k = Moved(at, j)
  BY GrownIs
<1>2. Shape(ro2, ci2, vs2)
  BY GrownShape
<1>3. ASSUME NEW k \in 1 .. Len(vs) PROVE Position(ro2, ci2, Moved(at, k)) = Position(ro, ci, k)
  <2>1. RowIn(ro, k) \in 0 .. NumRows - 1 /\ InRow(ro, k, RowIn(ro, k))
    BY RowsAre
  <2>2. InRow(ro2, Moved(at, k), RowIn(ro, k))
    BY <2>1, GrownRows
  <2>3. RowIn(ro, k) = RowIn(ro2, Moved(at, k))
    BY <1>1, <1>2, <2>1, <2>2, RowsAre
  <2> QED
    BY <1>1, <2>3 DEF Position
<1>4. Position(ro2, ci2, at + 1) = <<row, col>>
  <2>1. row \in 0 .. NumRows - 1
    BY DEF Grown
  <2>2. InRow(ro2, at + 1, row)
    BY <2>1, GrownRows
  <2>3. row = RowIn(ro2, at + 1)
    BY <1>1, <1>2, <2>1, <2>2, RowsAre
  <2> QED
    BY <1>1, <2>3 DEF Position
<1>5. <<row, col>> \in DOMAIN E2 /\ E2[<<row, col>>] = value
  BY <1>1, <1>4 DEF EntryForEach
<1>6. \A p \in DOMAIN E : p \in DOMAIN E2 /\ E2[p] = E[p]
  <2> TAKE p \in DOMAIN E
  <2>1. PICK k \in 1 .. Len(vs) : p = Position(ro, ci, k)
    BY DEF EntryForEach
  <2>2. E[p] = vs[k]
    BY <2>1 DEF EntryForEach
  <2>3. Moved(at, k) \in 1 .. Len(vs2) /\ p = Position(ro2, ci2, Moved(at, k)) /\ vs2[Moved(at, k)] = vs[k]
    BY <1>1, <1>3, <2>1
  <2>4. p \in DOMAIN E2 /\ E2[p] = vs2[Moved(at, k)]
    BY <2>3 DEF EntryForEach
  <2> QED
    BY <2>2, <2>3, <2>4
<1>7. \A p \in DOMAIN E2 : p = <<row, col>> \/ p \in DOMAIN E
  <2> TAKE p \in DOMAIN E2
  <2>1. PICK k \in 1 .. Len(vs) + 1 : p = Position(ro2, ci2, k)
    BY <1>1 DEF EntryForEach
  <2>2. CASE k = at + 1
    BY <1>4, <2>1, <2>2
  <2>3. CASE k # at + 1
    <3>1. PICK j \in 1 .. Len(vs) : k = Moved(at, j)
      BY <1>1, <2>3
    <3>2. p = Position(ro, ci, j)
      BY <1>3, <2>1, <3>1
    <3> QED
      BY <3>2 DEF EntryForEach
  <2> QED
    BY <2>2, <2>3
<1>8. E2 = [p \in DOMAIN E2 |-> E2[p]]
  BY DEF EntryForEach
<1>9. DOMAIN E2 = DOMAIN E \cup {<<row, col>>}
  BY <1>5, <1>6, <1>7
<1>10. \A p \in DOMAIN E2 : E2[p] = IF p = <<row, col>> THEN value ELSE E[p]
  BY <1>5, <1>6, <1>7
<1> QED
  BY <1>8, <1>9, <1>10 DEF PutInto

\* An entry that is there is written over.
LEMMA WrittenEntries ==
  ASSUME NEW ro, NEW ci, NEW vs, Shape(ro, ci, vs), NEW row \in 0 .. NumRows - 1, NEW col \in 0 .. NumCols - 1,
         NEW value \in EntryValues, NEW k \in 1 .. Len(vs), Position(ro, ci, k) = <<row, col>>,
         NEW vs2, vs2 = [vs EXCEPT ![k] = value],
         NEW E, EntryForEach(ro, ci, vs, E), NEW E2, EntryForEach(ro, ci, vs2, E2)
  PROVE  PutInto(E, row, col, value, E2)
<1>1. /\ vs \in [1 .. Len(vs) -> EntryValues] /\ Len(vs) \in Nat /\ Len(vs2) = Len(vs)
      /\ vs2[k] = value /\ \A j \in 1 .. Len(vs) : j # k => vs2[j] = vs[j]
  BY DEF Shape
<1>2. \A p \in DOMAIN E2 : p \in DOMAIN E /\ (p # <<row, col>> => E2[p] = E[p])
  <2> TAKE p \in DOMAIN E2
  <2>1. PICK j \in 1 .. Len(vs) : p = Position(ro, ci, j)
    BY <1>1 DEF EntryForEach
  <2>2. E2[p] = vs2[j] /\ p \in DOMAIN E /\ E[p] = vs[j]
    BY <1>1, <2>1 DEF EntryForEach
  <2>3. p # <<row, col>> => j # k
    BY <2>1
  <2> QED
    BY <1>1, <2>2, <2>3
<1>3. \A p \in DOMAIN E : p \in DOMAIN E2
  BY <1>1 DEF EntryForEach
<1>4. <<row, col>> \in DOMAIN E2 /\ E2[<<row, col>>] = value
  BY <1>1 DEF EntryForEach
<1>5. E2 = [p \in DOMAIN E2 |-> E2[p]]
  BY DEF EntryForEach
<1>6. DOMAIN E2 = DOMAIN E \cup {<<row, col>>}
  BY <1>2, <1>3, <1>4
<1>7. \A p \in DOMAIN E2 : E2[p] = IF p = <<row, col>> THEN value ELSE E[p]
  BY <1>2, <1>4
<1> QED
  BY <1>5, <1>6, <1>7 DEF PutInto

LEMMA EntriesFit ==
  /\ InvShape => EntryForEach(rowOffsets, colIndices, values, Entries)
  /\ InvShape' => EntryForEach(rowOffsets', colIndices', values', Entries')
<1>1. Entries = EntriesOf(rowOffsets, colIndices, values)
  BY EntriesIs
<1>2. Entries' = EntriesOf(rowOffsets', colIndices', values')
  BY DEF Entries, EntriesOf, RowOf, RowIn, Position
<1>3. InvShape => Shape(rowOffsets, colIndices, values)
  BY DEF InvShape
<1>4. InvShape' => Shape(rowOffsets', colIndices', values')
  BY DEF InvShape
<1> QED
  BY <1>1, <1>2, <1>3, <1>4, EntriesAre

LEMMA SubscriptIs ==
  ASSUME MatrixInv, NEW row \in 0 .. NumRows - 1, NEW col \in 0 .. NumCols - 1,
         NEW value \in EntryValues, Subscript(row, col, value)
  PROVE  MatrixInv' /\ Sparse!Put(row, col, value)
<1> DEFINE mid == LastProbe(row, col)
           at == InsertionIndex(row, col)
<1>1. /\ currRow' = 0 /\ currIndex' = 0 /\ iterating' = FALSE /\ read' = <<>>
      /\ Holds(row, col, mid) =>
           /\ values' = [values EXCEPT ![mid + 1] = value]
           /\ rowOffsets' = rowOffsets /\ colIndices' = colIndices
      /\ ~ Holds(row, col, mid) =>
           /\ rowOffsets' = [r \in 0 .. NumRows |-> rowOffsets[r] + (IF r > row THEN 1 ELSE 0)]
           /\ colIndices' = InsertAt(colIndices, at + 1, col)
           /\ values' = InsertAt(values, at + 1, value)
  BY DEF Subscript
<1>2. InvShape /\ Shape(rowOffsets, colIndices, values)
  BY DEF MatrixInv, InvShape
<1>3. /\ Holds(row, col, mid) =>
           mid \in rowOffsets[row] .. rowOffsets[row + 1] - 1 /\ colIndices[mid + 1] = col
      /\ ~ Holds(row, col, mid) =>
           /\ at \in rowOffsets[row] .. rowOffsets[row + 1]
           /\ \A k \in rowOffsets[row] .. at - 1 : colIndices[k + 1] < col
           /\ \A k \in at .. rowOffsets[row + 1] - 1 : colIndices[k + 1] > col
  BY <1>2, LookupIs
<1> HIDE DEF mid, at
<1>4. EntryForEach(rowOffsets, colIndices, values, Entries)
  BY <1>2, EntriesFit
<1>5. ASSUME Holds(row, col, mid) PROVE InvShape' /\ PutInto(Entries, row, col, value, Entries')
  <2>1. mid + 1 \in 1 .. Len(values) /\ Position(rowOffsets, colIndices, mid + 1) = <<row, col>>
    BY <1>2, <1>3, <1>5, EntryAt DEF Pos
  <2>2. values' = [values EXCEPT ![mid + 1] = value] /\ rowOffsets' = rowOffsets /\ colIndices' = colIndices
    BY <1>1, <1>5
  <2>3. Shape(rowOffsets, colIndices, values')
    <3>1. values \in Seq(EntryValues)
      BY <1>2 DEF Shape
    <3>2. values' \in Seq(EntryValues) /\ Len(values') = Len(values)
      BY <2>1, <2>2, <3>1
    <3> QED
      BY <1>2, <3>2 DEF Shape
  <2>4. InvShape'
    BY <2>2, <2>3 DEF InvShape
  <2>5. EntryForEach(rowOffsets, colIndices, values', Entries')
    BY <2>2, <2>4, EntriesFit
  <2>6. PutInto(Entries, row, col, value, Entries')
    BY <1>2, <1>4, <2>1, <2>2, <2>5, WrittenEntries
  <2> QED
    BY <2>4, <2>6
<1>6. ASSUME ~ Holds(row, col, mid) PROVE InvShape' /\ PutInto(Entries, row, col, value, Entries')
  <2>1. Grown(rowOffsets, colIndices, values, row, col, value, at, rowOffsets', colIndices', values')
    BY <1>1, <1>3, <1>6 DEF Grown
  <2>2. InvShape'
    BY <1>2, <2>1, GrownShape DEF InvShape
  <2>3. EntryForEach(rowOffsets', colIndices', values', Entries')
    BY <2>2, EntriesFit
  <2>4. PutInto(Entries, row, col, value, Entries')
    BY <1>2, <1>4, <2>1, <2>3, GrownEntries
  <2> QED
    BY <2>2, <2>4
<1>7. InvShape' /\ PutInto(Entries, row, col, value, Entries')
  BY <1>5, <1>6
<1>8. MatrixInv'
  BY <1>1, <1>7 DEF MatrixInv
<1>9. Cursor' = <<>>
  BY <1>1 DEF Cursor
<1> QED
  BY <1>1, <1>7, <1>8, <1>9 DEF Sparse!Put, PutInto

-----------------------------------------------------------------------------
(* CompressedMatrix: the constructor                                       *)

Before(S, p) == {q \in S : Precedes(q, p)}
Under(S, r) == {p \in S : p[1] < r}

\* The positions in their order: each has as many before it as its index says.
Ranked(S, inOrder) ==
  /\ inOrder \in [1 .. Cardinality(S) -> S]
  /\ \A k \in 1 .. Cardinality(S) : Cardinality(Before(S, inOrder[k])) = k - 1
  /\ \A p \in S : \E k \in 1 .. Cardinality(S) : inOrder[k] = p
  /\ \A j, k \in 1 .. Cardinality(S) : j < k => Precedes(inOrder[j], inOrder[k])

LEMMA OrderIs ==
  ASSUME NEW S \in SUBSET Cells
  PROVE  IsFiniteSet(S) /\ Cardinality(S) \in Nat /\ Ranked(S, InRowOrder(S))
<1> DEFINE n == Cardinality(S)
           rank == [p \in S |-> Cardinality(Before(S, p)) + 1]
           inOrder == InRowOrder(S)
<1>1. IsFiniteSet(S) /\ n \in Nat
  <2>1. IsFiniteSet(0 .. NumRows - 1) /\ IsFiniteSet(0 .. NumCols - 1)
    BY MatrixAssumption, FS_Interval
  <2>2. IsFiniteSet(Cells)
    BY <2>1, FS_Product DEF Cells
  <2> QED
    BY <2>2, FS_Subset, FS_CardinalityType
<1>2. \A p \in S : p \notin Before(S, p) /\ Before(S, p) \in SUBSET S
  BY PrecedesIs DEF Before
<1>3. ASSUME NEW p \in S
      PROVE  IsFiniteSet(Before(S, p)) /\ Cardinality(Before(S, p)) \in 0 .. n - 1
  <2>1. IsFiniteSet(Before(S, p)) /\ Cardinality(Before(S, p)) \in Nat /\ Cardinality(Before(S, p)) < n
    BY <1>1, <1>2, FS_Subset, FS_CardinalityType
  <2> QED
    BY <1>1, <2>1
<1>4. ASSUME NEW p \in S, NEW q \in S, Precedes(p, q)
      PROVE  Cardinality(Before(S, p)) < Cardinality(Before(S, q))
  <2>1. Before(S, p) \in SUBSET Before(S, q) /\ p \in Before(S, q) /\ p \notin Before(S, p)
    BY <1>4, PrecedesIs DEF Before
  <2> QED
    BY <1>3, <2>1, FS_Subset
<1>5. \A p, q \in S : Cardinality(Before(S, p)) = Cardinality(Before(S, q)) => p = q
  <2> TAKE p, q \in S
  <2>1. Precedes(p, q) \/ Precedes(q, p) \/ p = q
    BY PrecedesIs
  <2> QED
    BY <1>3, <1>4, <2>1
<1>6. rank \in Injection(S, 1 .. n)
  <2>1. \A p \in S : rank[p] = Cardinality(Before(S, p)) + 1 /\ rank[p] \in 1 .. n /\ Cardinality(Before(S, p)) \in Nat
    BY <1>1, <1>3
  <2>2. rank \in [S -> 1 .. n]
    BY <2>1
  <2>3. \A p, q \in S : rank[p] = rank[q] => p = q
    BY <1>5, <2>1
  <2> QED
    BY <2>2, <2>3 DEF Injection, IsInjective
<1>7. IsFiniteSet(1 .. n) /\ Cardinality(1 .. n) = n
  BY <1>1, FS_Interval
<1>8. rank \in Surjection(S, 1 .. n)
  BY <1>6, <1>7, FS_Injection
<1>9. \A k \in 1 .. n : \E p \in S : Cardinality(Before(S, p)) = k - 1
  <2> TAKE k \in 1 .. n
  <2>1. PICK p \in S : rank[p] = k
    BY <1>8 DEF Surjection
  <2>2. Cardinality(Before(S, p)) + 1 = k /\ Cardinality(Before(S, p)) \in Nat
    BY <1>3, <2>1
  <2> QED
    BY <2>2
<1>10. \A k \in 1 .. n : inOrder[k] = CHOOSE p \in S : Cardinality(Before(S, p)) = k - 1
  BY DEF InRowOrder, Before
<1>11. \A k \in 1 .. n : inOrder[k] \in S /\ Cardinality(Before(S, inOrder[k])) = k - 1
  <2> HIDE DEF n, inOrder
  <2> QED
    BY <1>9, <1>10
<1>12. inOrder \in [1 .. n -> S]
  <2> DEFINE chosen(k) == CHOOSE p \in S : Cardinality({q \in S : Precedes(q, p)}) = k - 1
  <2>1. inOrder = [k \in 1 .. n |-> chosen(k)]
    BY DEF InRowOrder
  <2> HIDE DEF chosen, inOrder, n
  <2> QED
    BY <1>11, <2>1
<1>13. \A p \in S : \E k \in 1 .. n : inOrder[k] = p
  <2> TAKE p \in S
  <2>1. PICK k \in 1 .. n : k - 1 = Cardinality(Before(S, p))
    <3>1. Cardinality(Before(S, p)) + 1 \in 1 .. n /\ (Cardinality(Before(S, p)) + 1) - 1 = Cardinality(Before(S, p))
      BY <1>1, <1>3
    <3> QED
      BY <3>1
  <2> QED
    BY <1>5, <1>11, <2>1
<1>14. ASSUME NEW j \in 1 .. n, NEW k \in 1 .. n, j < k PROVE Precedes(inOrder[j], inOrder[k])
  <2>1. inOrder[j] \in S /\ inOrder[k] \in S /\ Cardinality(Before(S, inOrder[j])) = j - 1
        /\ Cardinality(Before(S, inOrder[k])) = k - 1
    BY <1>11
  <2>2. inOrder[j] # inOrder[k] /\ ~ Precedes(inOrder[k], inOrder[j])
    BY <1>1, <1>4, <1>14, <2>1
  <2> QED
    BY <2>1, <2>2, PrecedesIs
<1> QED
  BY <1>1, <1>11, <1>12, <1>13, <1>14 DEF Ranked

\* The arrays that hold them.
BuiltFrom(S, given, inOrder, ro, ci, vs) ==
  /\ given \in [S -> EntryValues]
  /\ ro = [r \in 0 .. NumRows |-> Cardinality(Under(S, r))]
  /\ ci = [k \in 1 .. Cardinality(S) |-> inOrder[k][2]]
  /\ vs = [k \in 1 .. Cardinality(S) |-> given[inOrder[k]]]

LEMMA BuiltShape ==
  ASSUME NEW S \in SUBSET Cells, NEW given, NEW inOrder, Ranked(S, inOrder),
         NEW ro, NEW ci, NEW vs, BuiltFrom(S, given, inOrder, ro, ci, vs)
  PROVE  /\ Shape(ro, ci, vs) /\ Len(vs) = Cardinality(S)
         /\ \A k \in 1 .. Len(vs) : Position(ro, ci, k) = inOrder[k]
<1> DEFINE n == Cardinality(S)
<1>1. IsFiniteSet(S) /\ n \in Nat /\ NumRows \in Nat /\ NumCols \in Nat
  BY OrderIs, MatrixAssumption
<1>2. \A r \in 0 .. NumRows :
        /\ ro[r] = Cardinality(Under(S, r)) /\ Under(S, r) \in SUBSET S
        /\ IsFiniteSet(Under(S, r)) /\ ro[r] \in Nat
  <2> TAKE r \in 0 .. NumRows
  <2>1. ro[r] = Cardinality(Under(S, r)) /\ Under(S, r) \in SUBSET S
    BY DEF BuiltFrom, Under
  <2> QED
    BY <1>1, <2>1, FS_Subset, FS_CardinalityType
<1>3. \A k \in 1 .. n :
        /\ inOrder[k] \in S /\ inOrder[k] = <<inOrder[k][1], inOrder[k][2]>>
        /\ inOrder[k][1] \in 0 .. NumRows - 1 /\ inOrder[k][2] \in 0 .. NumCols - 1
        /\ ci[k] = inOrder[k][2] /\ vs[k] = given[inOrder[k]]
  <2> TAKE k \in 1 .. n
  <2>1. inOrder[k] \in S
    BY DEF Ranked
  <2>2. inOrder[k] \in (0 .. NumRows - 1) \X (0 .. NumCols - 1)
    BY <2>1 DEF Cells
  <2>3. ci[k] = inOrder[k][2] /\ vs[k] = given[inOrder[k]]
    BY DEF BuiltFrom
  <2> QED
    BY <2>1, <2>2, <2>3
<1>4. ci \in Seq(0 .. NumCols - 1) /\ Len(ci) = n /\ vs \in Seq(EntryValues) /\ Len(vs) = n
  <2>1. ci \in [1 .. n -> 0 .. NumCols - 1]
    BY <1>3 DEF BuiltFrom
  <2>2. \A k \in 1 .. n : vs[k] \in EntryValues
    BY <1>3 DEF BuiltFrom
  <2>3. vs \in [1 .. n -> EntryValues]
    BY <2>2 DEF BuiltFrom
  <2> HIDE DEF n
  <2> QED
    BY <1>1, <2>1, <2>3, AsSeq
<1>5. ro \in [0 .. NumRows -> Nat]
  BY <1>2 DEF BuiltFrom
<1>6. ro[0] = 0 /\ ro[NumRows] = n
  <2>1. 0 \in 0 .. NumRows /\ NumRows \in 0 .. NumRows
    BY <1>1
  <2>2. \A p \in S : p[1] \in 0 .. NumRows - 1
    BY DEF Cells
  <2>3. Under(S, 0) = {} /\ Under(S, NumRows) = S
    BY <1>1, <2>2 DEF Under
  <2> QED
    BY <1>2, <2>1, <2>3, FS_EmptySet
<1>7. ASSUME NEW i \in 0 .. NumRows, NEW j \in 0 .. NumRows, i <= j PROVE ro[i] <= ro[j]
  <2>1. \A p \in S : p[1] \in 0 .. NumRows - 1
    BY DEF Cells
  <2>2. Under(S, i) \in SUBSET Under(S, j)
    BY <1>1, <1>7, <2>1 DEF Under
  <2> QED
    BY <1>2, <2>2, FS_Subset
<1>8. ASSUME NEW k \in 1 .. n PROVE InRow(ro, k, inOrder[k][1])
  <2> DEFINE p == inOrder[k]
             r == p[1]
  <2>1. p \in S /\ r \in 0 .. NumRows - 1 /\ Cardinality(Before(S, p)) = k - 1
    BY <1>3 DEF Ranked
  <2>2. r \in 0 .. NumRows /\ r + 1 \in 0 .. NumRows
    BY <1>1, <2>1
  <2>3. \A q \in S : q[1] \in 0 .. NumRows - 1
    BY DEF Cells
  <2> HIDE DEF r
  <2>4. Before(S, p) \in SUBSET S /\ IsFiniteSet(Before(S, p))
    BY <1>1, FS_Subset DEF Before
  <2>5. Under(S, r) \in SUBSET Before(S, p)
    BY DEF Under, Before, Precedes, r
  <2>6. ro[r] <= k - 1
    BY <1>2, <2>1, <2>2, <2>4, <2>5, FS_Subset
  <2>7. Before(S, p) \in SUBSET Under(S, r + 1) /\ p \in Under(S, r + 1) /\ p \notin Before(S, p)
    <3>1. \A q \in S : (q[1] < r \/ q[1] = r) => q[1] < r + 1
      BY <2>1, <2>3
    <3>2. Before(S, p) \in SUBSET Under(S, r + 1)
      BY <3>1 DEF Before, Under, Precedes, r
    <3>3. p \in Under(S, r + 1)
      BY <2>1, <3>1 DEF Under, r
    <3>4. p \notin Before(S, p)
      BY <2>1, PrecedesIs DEF Before
    <3> QED
      BY <3>2, <3>3, <3>4
  <2>8. k - 1 < ro[r + 1]
    BY <1>2, <2>1, <2>2, <2>7, FS_Subset
  <2> QED
    BY <1>1, <1>2, <2>2, <2>6, <2>8 DEF InRow, r
<1>9. ASSUME NEW k \in 1 .. n, NEW r \in 0 .. NumRows - 1, InRow(ro, k, r) PROVE inOrder[k][1] = r
  <2> DEFINE s == inOrder[k][1]
  <2>1. s \in 0 .. NumRows - 1 /\ ro[s] < k /\ k <= ro[s + 1] /\ ro[r] < k /\ k <= ro[r + 1]
    BY <1>3, <1>8, <1>9 DEF InRow
  <2> HIDE DEF s
  <2>2. s \in 0 .. NumRows /\ s + 1 \in 0 .. NumRows /\ r \in 0 .. NumRows /\ r + 1 \in 0 .. NumRows
    BY <1>1, <2>1
  <2>3. ro[s] \in Nat /\ ro[s + 1] \in Nat /\ ro[r] \in Nat /\ ro[r + 1] \in Nat
    BY <1>2, <2>2
  <2>4. ~(s < r)
    <3>1. s < r => s + 1 <= r
      BY <2>1
    <3>2. s < r => ro[s + 1] <= ro[r]
      BY <1>7, <2>2, <3>1
    <3> QED
      BY <2>1, <2>3, <3>2
  <2>5. ~(r < s)
    <3>1. r < s => r + 1 <= s
      BY <2>1
    <3>2. r < s => ro[r + 1] <= ro[s]
      BY <1>7, <2>2, <3>1
    <3> QED
      BY <2>1, <2>3, <3>2
  <2>6. s = r
    BY <2>1, <2>4, <2>5
  <2> QED
    BY <2>6 DEF s
<1>10. ASSUME NEW r \in 0 .. NumRows - 1, NEW j \in ro[r] + 1 .. ro[r + 1], NEW k \in ro[r] + 1 .. ro[r + 1], j < k
       PROVE  ci[j] < ci[k]
  <2>1. r \in 0 .. NumRows /\ r + 1 \in 0 .. NumRows /\ NumRows \in 0 .. NumRows /\ r + 1 <= NumRows
    BY <1>1
  <2>2. ro[r] \in Nat /\ ro[r + 1] \in Nat /\ ro[r + 1] <= n
    BY <1>2, <1>6, <1>7, <2>1
  <2>3. j \in 1 .. n /\ k \in 1 .. n /\ InRow(ro, j, r) /\ InRow(ro, k, r)
    <3> HIDE DEF n
    <3> QED
      BY <1>1, <2>2 DEF InRow
  <2>4. inOrder[j][1] = r /\ inOrder[k][1] = r /\ Precedes(inOrder[j], inOrder[k])
    BY <1>9, <1>10, <2>3 DEF Ranked
  <2>5. inOrder[j][2] < inOrder[k][2]
    BY <1>10, <2>4 DEF Precedes
  <2> QED
    BY <1>3, <2>3, <2>5
<1>11. Shape(ro, ci, vs)
  BY <1>4, <1>5, <1>6, <1>7, <1>10 DEF Shape
<1>12. ASSUME NEW k \in 1 .. Len(vs) PROVE Position(ro, ci, k) = inOrder[k]
  <2>1. k \in 1 .. n
    BY <1>4
  <2>2. inOrder[k][1] \in 0 .. NumRows - 1 /\ InRow(ro, k, inOrder[k][1])
    BY <1>3, <1>8, <2>1
  <2>3. RowIn(ro, k) = inOrder[k][1]
    BY <1>11, <2>2, RowsAre
  <2> QED
    BY <1>3, <2>1, <2>3 DEF Position
<1> QED
  BY <1>4, <1>11, <1>12

LEMMA MatrixInitIs ==
  ASSUME MatrixInit
  PROVE  MatrixInv /\ Sparse!SparseInit
<1>0. PICK S \in SUBSET Cells : \E given \in [S -> EntryValues] :
        /\ rowOffsets = [r \in 0 .. NumRows |-> Cardinality({p \in S : p[1] < r})]
        /\ colIndices = [k \in DOMAIN InRowOrder(S) |-> InRowOrder(S)[k][2]]
        /\ values = [k \in DOMAIN InRowOrder(S) |-> given[InRowOrder(S)[k]]]
  BY DEF MatrixInit
<1>1. PICK given \in [S -> EntryValues] :
        /\ rowOffsets = [r \in 0 .. NumRows |-> Cardinality({p \in S : p[1] < r})]
        /\ colIndices = [k \in DOMAIN InRowOrder(S) |-> InRowOrder(S)[k][2]]
        /\ values = [k \in DOMAIN InRowOrder(S) |-> given[InRowOrder(S)[k]]]
  BY <1>0
<1>2. currRow = 0 /\ currIndex = 0 /\ iterating = FALSE /\ read = <<>>
  BY DEF MatrixInit
<1>3. PICK inOrder : inOrder = InRowOrder(S)
  OBVIOUS
<1>4. Ranked(S, inOrder) /\ Cardinality(S) \in Nat
  BY <1>3, OrderIs
<1>5. DOMAIN inOrder = 1 .. Cardinality(S)
  BY <1>4 DEF Ranked
<1>6. BuiltFrom(S, given, inOrder, rowOffsets, colIndices, values)
  BY <1>1, <1>3, <1>5 DEF BuiltFrom, Under
<1>7. /\ InvShape /\ Len(values) = Cardinality(S)
      /\ \A k \in 1 .. Len(values) : Pos(k) = inOrder[k]
  BY <1>4, <1>6, BuiltShape DEF InvShape, Pos
<1>8. DOMAIN Entries = {Pos(k) : k \in 1 .. Len(values)}
      /\ \A k \in 1 .. Len(values) : Entries[Pos(k)] = values[k]
  BY <1>7, EntriesHere
<1>9. DOMAIN Entries = S
  BY <1>4, <1>7, <1>8 DEF Ranked
<1>10. \A p \in S : Entries[p] = given[p]
  <2> TAKE p \in S
  <2>1. PICK k \in 1 .. Len(values) : inOrder[k] = p
    BY <1>4, <1>7 DEF Ranked
  <2>2. Entries[p] = values[k]
    BY <1>7, <1>8, <2>1
  <2>3. values[k] = given[inOrder[k]]
    BY <1>6, <1>7 DEF BuiltFrom
  <2> QED
    BY <2>1, <2>2, <2>3
<1>11. Entries = [p \in DOMAIN Entries |-> Entries[p]]
  BY <1>7, EntriesFit DEF EntryForEach
<1>12. Entries \in [S -> EntryValues]
  BY <1>9, <1>10, <1>11
<1>13. S \in SUBSET Sparse!Positions
  BY EntriesIs
<1>14. Cursor = <<>>
  BY <1>2 DEF Cursor
<1>15. MatrixInv
  BY <1>2, <1>7 DEF MatrixInv
<1> QED
  BY <1>2, <1>12, <1>13, <1>14, <1>15 DEF Sparse!SparseInit

LEMMA MatrixStep ==
  ASSUME MatrixInv, [MatrixNext]_matrixVars
  PROVE  MatrixInv' /\ [Sparse!SparseNext]_(Sparse!sparseVars)
<1>1. ASSUME NEW row \in 0 .. NumRows - 1, NEW col \in 0 .. NumCols - 1,
             NEW value \in EntryValues, Subscript(row, col, value)
      PROVE  MatrixInv' /\ [Sparse!SparseNext]_(Sparse!sparseVars)
  BY <1>1, SubscriptIs DEF Sparse!SparseNext
<1>2. ASSUME NEW row \in 0 .. NumRows - 1, NEW col \in 0 .. NumCols - 1, Get(row, col)
      PROVE  MatrixInv' /\ [Sparse!SparseNext]_(Sparse!sparseVars)
  BY <1>2, GetIs DEF Sparse!SparseNext
<1>3. CASE BeginIteration
  BY <1>3, BeginIs DEF Sparse!SparseNext
<1>4. CASE Increment
  BY <1>4, IncrementIs DEF Sparse!SparseNext
<1>5. CASE UNCHANGED matrixVars
  <2>1. /\ rowOffsets' = rowOffsets /\ colIndices' = colIndices /\ values' = values
        /\ currRow' = currRow /\ currIndex' = currIndex /\ iterating' = iterating /\ read' = read
    BY <1>5 DEF matrixVars
  <2>2. Entries' = Entries
    BY <2>1 DEF Entries, RowOf
  <2>3. Cursor' = Cursor
    BY <2>1 DEF Cursor
  <2>4. MatrixInv'
    BY <2>1 DEF MatrixInv, InvShape, AtEntry
  <2> QED
    BY <2>1, <2>2, <2>3, <2>4 DEF Sparse!sparseVars
<1> QED
  BY <1>1, <1>2, <1>3, <1>4, <1>5 DEF MatrixNext

\* The rows, offsets and columns behave as one map: from every constructor
\* and over every sequence of operator(), get() and iterator steps the matrix
\* of compressed_matrix.hpp does what a map from positions to values does.
THEOREM MatrixIsSparse == MatrixSpec => IsSparseMatrix
<1>1. MatrixInit => MatrixInv /\ Sparse!SparseInit
  BY MatrixInitIs
<1>2. MatrixInv /\ [MatrixNext]_matrixVars => MatrixInv' /\ [Sparse!SparseNext]_(Sparse!sparseVars)
  BY MatrixStep
<1> QED
  BY <1>1, <1>2, PTL DEF MatrixSpec, IsSparseMatrix, Sparse!SparseSpec
=============================================================================
