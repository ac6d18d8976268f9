----------------------------- MODULE Polynomial -----------------------------
(***************************************************************************)
(* sapi_makeQuadratic and sapi_reduceDegree (c-client/src/conversions.cpp; *)
(* the Python and Matlab clients have their own copies).                   *)
(*                                                                         *)
(* A function of 0/1 variables is written as a polynomial; while a term    *)
(* has more than two variables, the pair that most such terms share is     *)
(* replaced by an ancillary variable; a penalty makes the ancillary        *)
(* variable equal to the product of the pair.                              *)
(*                                                                         *)
(* The table f is a function on the sets of variables that are 1, and a    *)
(* term is the set of its variables.  Values are integers.                 *)
(***************************************************************************)
EXTENDS Integers, FiniteSets, FiniteSetsExt, Functions, Sequences

CONSTANTS
  NumVars,      \* variables are 0 .. NumVars - 1
  Tables,       \* the functions f that are tried
  GivenWeights  \* penalty weights that a caller may give

Originals == 0 .. NumVars - 1

\* make_quadratic refuses a function with a constant.
ASSUME PolyAssumption ==
  /\ NumVars \in Nat
  /\ \A table \in Tables : table \in [SUBSET Originals -> Int] /\ table[{}] = 0
  /\ GivenWeights \subseteq Nat

VARIABLES
  f,
  newTerms,     \* what each term with a non-zero coefficient has become
  mapping,      \* <<ancilla, x, y>> for each replacement, in order
  quadratic,    \* the loop is over
  pw            \* the penalty weight, 0 before that

polyVars == <<f, newTerms, mapping, quadratic, pw>>

\* The sign that inclusion and exclusion gives a set.
Parity(S) == IF Cardinality(S) % 2 = 0 THEN 1 ELSE -1
Abs(n) == IF n < 0 THEN -n ELSE n

\* invW * f: the coefficient of the product of the variables in S.
Coefficient(S) == SumFunction([T \in SUBSET S |-> Parity(S \ T) * f[T]])

Terms == DOMAIN newTerms

PolyInit ==
  /\ f \in Tables
  /\ newTerms = [S \in {S \in SUBSET Originals : Coefficient(S) # 0} |-> S]
  /\ mapping = <<>>
  /\ quadratic = FALSE
  /\ pw = 0

\* The terms that have both variables and one more.
PairBelongsTo(x, y) ==
  {S \in Terms : Cardinality(newTerms[S]) > 2 /\ {x, y} \subseteq newTerms[S]}

MaxVar ==
  IF mapping = <<>> THEN Max({0} \cup UNION Terms) ELSE mapping[Len(mapping)][1]

\* max_element over a map: the first pair among those in most terms.
SharedPair(x, y) ==
  /\ x < y /\ PairBelongsTo(x, y) # {}
  /\ \A u, v \in 0 .. MaxVar : u < v =>
       LET more == Cardinality(PairBelongsTo(u, v)) - Cardinality(PairBelongsTo(x, y))
       IN  more < 0 \/ (more = 0 /\ (x < u \/ (x = u /\ y <= v)))

Replace(x, y, ancilla) ==
  [S \in Terms |-> IF S \in PairBelongsTo(x, y)
                   THEN (newTerms[S] \ {x, y}) \cup {ancilla} ELSE newTerms[S]]

\* One round of the loop of reduce_degree.
ReduceDegree ==
  /\ ~quadratic
  /\ \E x, y \in 0 .. MaxVar :
       /\ SharedPair(x, y)
       /\ newTerms' = Replace(x, y, MaxVar + 1)
       /\ mapping' = Append(mapping, <<MaxVar + 1, x, y>>)
  /\ UNCHANGED <<f, quadratic, pw>>

\* Linear and pair coefficients before the penalties: terms that have become
\* equal are added.
NewTerms == {newTerms[S] : S \in Terms}
Reduced(T) == SumFunction([S \in {S \in Terms : newTerms[S] = T} |-> Coefficient(S)])

LargestPair == Max({0} \cup {Abs(Reduced(T)) : T \in {T \in NewTerms : Cardinality(T) = 2}})

\* The default penalty weight, ten times the largest entry of the matrix, which
\* holds half of a pair's coefficient.
DefaultWeight == 5 * LargestPair

\* The weight may be the caller's.
MakeQuadratic ==
  /\ ~quadratic
  /\ \A S \in Terms : Cardinality(newTerms[S]) <= 2
  /\ quadratic' = TRUE
  /\ pw' \in {DefaultWeight} \cup GivenWeights
  /\ UNCHANGED <<f, newTerms, mapping>>

PolyNext == ReduceDegree \/ MakeQuadratic

PolySpec == PolyInit /\ [][PolyNext]_polyVars

\* Mutant: the ancillary variable's own entry is twice the weight.
Penalty_Twice(m, ones) ==
  LET bit(x) == IF x \in ones THEN 1 ELSE 0 IN
  pw * (2 * bit(m[1]) + bit(m[2]) * bit(m[3]) - 2 * bit(m[1]) * bit(m[2]) - 2 * bit(m[1]) * bit(m[3]))

\* What QAnd and rAnd add for a replacement <<ancilla, x, y>>.
Penalty(m, ones) ==
  LET bit(x) == IF x \in ones THEN 1 ELSE 0 IN
  pw * (3 * bit(m[1]) + bit(m[2]) * bit(m[3]) - 2 * bit(m[1]) * bit(m[2]) - 2 * bit(m[1]) * bit(m[3]))

\* The value of the result when the variables in ones are 1.
QuadraticValue(ones) ==
  SumFunction([T \in NewTerms |-> IF T \subseteq ones THEN Reduced(T) ELSE 0])
    + SumFunction([k \in DOMAIN mapping |-> Penalty(mapping[k], ones)])

-----------------------------------------------------------------------------
(* Properties *)

Ancillas == {mapping[k][1] : k \in DOMAIN mapping}
Consistent(ones) ==
  \A k \in DOMAIN mapping : mapping[k][1] \in ones <=> {mapping[k][2], mapping[k][3]} \subseteq ones

\* What the terms that have been replaced could gain together.
ReplacedWeight == SumFunction([S \in Terms |-> IF newTerms[S] = S THEN 0 ELSE Abs(Coefficient(S))])

\* The result has the value of the function given wherever each ancillary
\* variable is the product it stands for; elsewhere it is larger by the penalty
\* weight, less what the replaced terms may gain.  So the minima are the same
\* where the weight exceeds that: the default one is "usually sufficiently
\* large", but terms may be many.  (An ancillary variable may have the number
\* of a variable on which the function does not depend.)
QuadraticKeepsValues ==
  quadratic =>
    LET value == [ones \in SUBSET (Originals \cup Ancillas) |-> QuadraticValue(ones)]
        least == pw - ReplacedWeight
    IN  \A S \in SUBSET (Originals \ Ancillas), A \in SUBSET Ancillas :
          IF Consistent(S \cup A) THEN value[S \cup A] = f[S] ELSE value[S \cup A] >= f[S] + least
=============================================================================
