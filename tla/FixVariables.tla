---------------------------- MODULE FixVariables ----------------------------
(***************************************************************************)
(* fix_variables_::fixQuboVariables (fix-variables/src/fix_variables.cpp): *)
(* variables of a quadratic function of 0/1 variables are fixed without    *)
(* losing every minimum, and the function is reduced to the others.        *)
(*                                                                         *)
(* The function becomes a posiform, a sum of products of literals with     *)
(* positive weights; each product is two edges of the implication network. *)
(* After a maximum flow the residual edges are implications that hold in   *)
(* every minimum.  "standard" (method 2) fixes what the constant x0 = 1    *)
(* implies; "optimized" (method 1) also fixes whole strong components.     *)
(*                                                                         *)
(* A literal is <<i, b>>, the claim that variable i is b; variable 0 is    *)
(* the constant, so <<0, TRUE>> is the source and <<0, FALSE>> the sink.   *)
(* Coefficients are integers (the code scales to 64 bits); the maximum     *)
(* flow is Boost's, modelled as augmentation along any shortest path.      *)
(***************************************************************************)
EXTENDS Integers, FiniteSets, FiniteSetsExt, Functions, Sequences

CONSTANTS
  NumVariables,   \* Q.numRows(); the variables are 1 .. NumVariables
  Matrices        \* matrices Q that are tried: functions on pairs <<r, c>>

Variables == 1 .. NumVariables

ASSUME FixAssumption ==
  /\ NumVariables \in Nat
  /\ \A matrix \in Matrices :
       DOMAIN matrix \subseteq Variables \X Variables /\ matrix \in [DOMAIN matrix -> Int]

VARIABLES
  Q,          \* the argument: its explicit entries
  method,     \* "standard" or "optimized"
  residual,   \* residual capacity of each pair of literals
  step,       \* "flow", "fixing", "fixed"
  removed,    \* strong components that are decided, with their complements
  fixed       \* the literals fixed to true

fixVars == <<Q, method, residual, step, removed, fixed>>

Literals == (0 .. NumVariables) \X BOOLEAN
Source == <<0, TRUE>>
Sink == <<0, FALSE>>
Bar(u) == <<u[1], ~u[2]>>

-----------------------------------------------------------------------------
(* The posiform and its network *)

\* Entries on both sides of the diagonal are added.
Entry(r, c) == IF <<r, c>> \in DOMAIN Q THEN Q[<<r, c>>] ELSE 0
UTriQ(r, c) == IF r = c THEN Entry(r, c) ELSE Entry(r, c) + Entry(c, r)

\* A variable without an entry, even a zero one, is never fixed.
UsedVariables == UNION {{p[1], p[2]} : p \in DOMAIN Q}

\* The products of two variables, or of one with itself.
Upper(over) == {p \in over \X over : p[1] <= p[2]}

\* A negative product x_r x_c becomes x_r times the complement of x_c, and its
\* weight goes to the linear term of x_r.
CPrime(r) ==
  SumFunction([p \in {p \in Upper(Variables) : p[1] = r /\ (p[2] = r \/ UTriQ(r, p[2]) < 0)} |->
                UTriQ(p[1], p[2])])

\* The posiform has a term for each pair of variables with a coefficient: the
\* product of a literal of either, with a positive weight.  A linear term is a
\* product with the constant.
Pairs == {p \in (0 .. NumVariables) \X (0 .. NumVariables) : p[1] < p[2]}
Coeff(p) == IF p[1] = 0 THEN CPrime(p[2]) ELSE UTriQ(p[1], p[2])
First(p) == <<p[1], TRUE>>
Second(p) == <<p[2], Coeff(p) > 0>>
Weight(p) == IF Coeff(p) > 0 THEN Coeff(p) ELSE -Coeff(p)
Posiform == {p \in Pairs : Coeff(p) # 0}

\* Either literal of a term implies the complement of the other.
Edges(p) == {<<First(p), Bar(Second(p))>>, <<Second(p), Bar(First(p))>>}
ImplicationNetwork ==
  LET edges == UNION {Edges(p) : p \in Posiform}
  IN  [e \in edges \cup {<<e[2], e[1]>> : e \in edges} |->
        IF e \in edges THEN Weight(CHOOSE p \in Posiform : e \in Edges(p)) ELSE 0]

FixInit ==
  /\ Q \in Matrices
  /\ method \in {"standard", "optimized"}
  /\ residual = ImplicationNetwork
  /\ step = "flow"
  /\ removed = {}
  /\ fixed = {}

\* The literals within n steps of u, and all that can be reached.
Within(edges, u) ==
  LET within[n \in 0 .. Cardinality(Literals)] ==
        IF n = 0 THEN {u}
        ELSE LET before == within[n - 1]
             IN  before \cup {e[2] : e \in {e \in edges : e[1] \in before}}
  IN  within
ReachedFrom(edges, u) == Within(edges, u)[Cardinality(Literals)]

ResidualEdges == {e \in DOMAIN residual : residual[e] > 0}

SinkIsReached == Sink \in ReachedFrom(ResidualEdges, Source)

\* The shortest paths from the source to the sink with capacity left.
AugmentingPaths ==
  LET edges == ResidualEdges
      extended(paths) ==
        {Append(x[1], x[2][2]) :
          x \in {x \in paths \X edges :
                  x[1][Len(x[1])] = x[2][1] /\ \A i \in DOMAIN x[1] : x[1][i] # x[2][2]}}
      paths[n \in 0 .. Cardinality(Literals)] ==
        IF n = 0 THEN {<<Source>>}
        ELSE LET shorter == paths[n - 1]
                 there == {p \in shorter : p[Len(p)] = Sink}
             IN  IF there # {} THEN there ELSE extended(shorter)
  IN  {p \in paths[Cardinality(Literals)] : p[Len(p)] = Sink}

\* maxFlow and applyImplication up to the call that computes the flow: as much
\* as possible is sent along one path.
Augment ==
  /\ step = "flow" /\ SinkIsReached
  /\ \E p \in AugmentingPaths :
       LET edges == {<<p[i], p[i + 1]>> : i \in 1 .. Len(p) - 1}
           amount == Min({residual[e] : e \in edges})
       IN  residual' = [e \in DOMAIN residual |->
             residual[e] - (IF e \in edges THEN amount ELSE 0)
                         + (IF <<e[2], e[1]>> \in edges THEN amount ELSE 0)]
  /\ UNCHANGED <<Q, method, step, removed, fixed>>

FlowIsMaximal == step = "flow" /\ ~SinkIsReached

-----------------------------------------------------------------------------
(* method 2 *)

\* applyImplication: what the residual network says of the constant.
Forced == ReachedFrom(ResidualEdges, Source) \ {Source}

ApplyImplication ==
  /\ FlowIsMaximal /\ method = "standard"
  /\ fixed' = Forced
  /\ step' = "fixing"
  /\ UNCHANGED <<Q, method, residual, removed>>

-----------------------------------------------------------------------------
(* method 1 *)

\* makeResidualSymmetric: an implication and its contraposition are one; nothing
\* leaves the sink or enters the source.
SymmetricResidual ==
  {e \in ResidualEdges \cup {<<Bar(e[2]), Bar(e[1])>> : e \in ResidualEdges} :
    e[1] # Sink /\ e[2] # Source}

Components ==
  LET edges == SymmetricResidual
      reached == [u \in Literals |-> ReachedFrom(edges, u)]
  IN  {{v \in reached[u] : u \in reached[v]} : u \in Literals}
SelfComplement(C) == \E u \in C : Bar(u) \in C
ComplementOf(C) == {Bar(u) : u \in C}

\* fixVariables, first part: the components the source reaches.
FixReached ==
  /\ FlowIsMaximal /\ method = "optimized"
  /\ LET reached == {C \in Components :
           C # {Source} /\ C \cap ReachedFrom(SymmetricResidual, Source) # {}}
     IN  /\ fixed' = UNION reached
         /\ removed' = reached \cup {ComplementOf(C) : C \in reached}
  /\ step' = "fixing"
  /\ UNCHANGED <<Q, method, residual>>

\* Mutant: a component is taken without regard to what it implies.
Ready_AnyComponent(C) ==
  /\ ~SelfComplement(C) /\ C \notin {{Source}, {Sink}} /\ C \notin removed

\* A component whose out-degree has come down to zero.
Ready(C) ==
  /\ ~SelfComplement(C) /\ C \notin {{Source}, {Sink}} /\ C \notin removed
  /\ \A e \in SymmetricResidual : e[1] \in C => e[2] \in C \cup UNION removed

\* fixVariables, second part: one round of the loop over the queue.  Its order
\* depends on Boost's numbers for the components: any is taken.
FixComponent ==
  /\ step = "fixing" /\ method = "optimized"
  /\ \E C \in Components :
       /\ Ready(C)
       /\ fixed' = fixed \cup C
       /\ removed' = removed \cup {C, ComplementOf(C)}
  /\ UNCHANGED <<Q, method, residual, step>>

\* Variables that do not occur are dropped from the result.
DropUnused ==
  /\ step = "fixing"
  /\ method = "optimized" => \A C \in Components : ~Ready(C)
  /\ fixed' = {u \in fixed : u[1] \in UsedVariables}
  /\ step' = "fixed"
  /\ UNCHANGED <<Q, method, residual, removed>>

FixNext == Augment \/ ApplyImplication \/ FixReached \/ FixComponent \/ DropUnused

FixSpec == FixInit /\ [][FixNext]_fixVars

-----------------------------------------------------------------------------
(* computeNewQAndOffset *)

FixedVars == {u[1] : u \in fixed}
Value(i) == IF <<i, TRUE>> \in fixed THEN 1 ELSE 0

Offset ==
  SumFunction([p \in Upper(FixedVars) |-> UTriQ(p[1], p[2]) * Value(p[1]) * Value(p[2])])

\* The products of a free variable with fixed ones go to its diagonal entry.
NewQ ==
  [p \in Upper(Variables \ FixedVars) |->
    IF p[1] # p[2] THEN UTriQ(p[1], p[2])
    ELSE UTriQ(p[1], p[1]) + SumFunction([i \in FixedVars |-> UTriQ(i, p[1]) * Value(i)])]

-----------------------------------------------------------------------------
(* Properties *)

Assignments == [Variables -> {0, 1}]
Given == [p \in Upper(Variables) |-> UTriQ(p[1], p[2])]
Energy01(coefficients, x) ==
  SumFunction([p \in DOMAIN coefficients |-> coefficients[p] * x[p[1]] * x[p[2]]])
Agrees(x) == \A u \in fixed : u[2] <=> x[u[1]] = 1

\* The variables that are fixed lose no information: no variable is fixed both
\* ways, some minimum has the fixed values (with "standard" every minimum has
\* them), "optimized" fixes all that "standard" would, and the reduced function
\* plus the offset equals the function given wherever they are defined.
FixedIsSafe ==
  step = "fixed" =>
    LET energy == [x \in Assignments |-> Energy01(Given, x)]
        minima == {x \in Assignments : \A y \in Assignments : energy[x] <= energy[y]}
    IN  /\ \A u \in fixed : Bar(u) \notin fixed
        /\ \E x \in minima : Agrees(x)
        /\ method = "standard" => \A x \in minima : Agrees(x)
        /\ \A u \in Forced : u[1] \in UsedVariables => u \in fixed
        /\ \A x \in Assignments : Agrees(x) =>
             energy[x] = Energy01(NewQ, x) + Offset
=============================================================================
