-------------------------- MODULE MCProblemManager --------------------------
(* TLC instances of ProblemManager: symmetry where no liveness is checked,   *)
(* and the ways in which users use the manager.                              *)
EXTENDS ProblemManager, TLC

Symmetry ==
  Permutations(Threads) \cup Permutations(Problems) \cup Permutations(Fetches)

OneSlotUsages ==
  {[calls |-> {"submit", "retry"}, problems |-> 2], [calls |-> {"submit", "drop"}, problems |-> 2]}

TwoSlotUsages ==
  {[calls |-> {"submit"}, problems |-> 2], [calls |-> {"add", "answer"}, problems |-> 1]}

LiveUsages == {[calls |-> {"submit", "cancel"}, problems |-> 1]}

SubmitUsages == {[calls |-> {"submit"}, problems |-> 1]}
=============================================================================
