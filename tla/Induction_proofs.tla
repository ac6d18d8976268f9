-------------------------- MODULE Induction_proofs ---------------------------
(***************************************************************************)
(* Facts about data that the other proofs cite: least and largest          *)
(* elements, induction, functions applied in turn, and finite sums.        *)
(*                                                                         *)
(* Induction is stated for a set of numbers (InductiveSet) and for a       *)
(* family of subsets of a finite set (InductiveFamily): to prove P of all  *)
(* of S, let A be the members of which P holds and show that A is closed.  *)
(* Both rest on the well-founded order of Nat alone.                       *)
(*                                                                         *)
(* SumFunctionOnSet is defined by a choice at each step, of a function     *)
(* that is itself chosen: SumExists and SumUnique give that function,      *)
(* SumOrder says that the order in which it takes the terms is no matter,  *)
(* and the rest follows one term at a time.                                *)
(***************************************************************************)
EXTENDS Integers, Sequences, FiniteSets, FiniteSetsExt, Functions, FiniteSetTheorems,
        WellFoundedInduction, TLAPS

-----------------------------------------------------------------------------
(* Induction *)

\* A set of numbers has a least one.
LEMMA LeastOfNat ==
  ASSUME NEW S, S \subseteq Nat, S # {}
  PROVE  \E x \in S : \A y \in S : x <= y
<1>1. \E x \in S : \A y \in S : ~ (<<y, x>> \in OpToRel(<, Nat))
  BY NatLessThanWellFounded, WFMin
<1>2. PICK x \in S : \A y \in S : ~ (<<y, x>> \in OpToRel(<, Nat))
  BY <1>1
<1>3. ASSUME NEW y \in S PROVE x <= y
  <2>1. x \in Nat /\ y \in Nat
    OBVIOUS
  <2>2. ~ (y < x)
    BY <1>2, <2>1 DEF OpToRel
  <2> QED
    BY <2>1, <2>2
<1> QED
  BY <1>3

\* So has a set of integers that is bounded from below, and Min is that one.
LEMMA MinOfBounded ==
  ASSUME NEW S, S \subseteq Int, S # {}, NEW v \in Int, \A x \in S : v <= x
  PROVE  Min(S) \in S /\ \A y \in S : Min(S) <= y
<1> DEFINE T == {n \in Nat : v + n \in S}
<1>1. T # {}
  <2>1. PICK x \in S : TRUE
    OBVIOUS
  <2>2. x - v \in Nat /\ v + (x - v) = x
    BY <2>1
  <2> QED
    BY <2>1, <2>2
<1>2. PICK n \in T : \A m \in T : n <= m
  BY <1>1, LeastOfNat
<1>3. \A y \in S : v + n <= y
  <2> SUFFICES ASSUME NEW y \in S PROVE v + n <= y
    OBVIOUS
  <2>1. y - v \in Nat /\ v + (y - v) = y
    OBVIOUS
  <2>2. n <= y - v
    BY <1>2, <2>1
  <2> QED
    BY <2>1, <2>2
<1>4. \E x \in S : \A y \in S : x =< y
  BY <1>2, <1>3
<1> QED
  BY <1>4 DEF Min

\* Induction over the natural numbers, for a set.
LEMMA InductiveSet ==
  ASSUME NEW A, 0 \in A, \A n \in Nat : n \in A => n + 1 \in A
  PROVE  Nat \subseteq A
<1> SUFFICES ASSUME Nat \ A # {} PROVE FALSE
  OBVIOUS
<1>1. PICK n \in Nat \ A : \A m \in Nat \ A : n <= m
  BY LeastOfNat
<1>2. n # 0 /\ n - 1 \in Nat
  BY <1>1
<1>3. n - 1 \in A
  BY <1>1, <1>2
<1>4. (n - 1) + 1 = n
  BY <1>1
<1> QED
  BY <1>1, <1>2, <1>3, <1>4

\* Induction over the subsets of a finite set.
LEMMA InductiveFamily ==
  ASSUME NEW S, IsFiniteSet(S), NEW A, {} \in A,
         \A T \in SUBSET S : \A x \in S \ T : T \in A => T \cup {x} \in A
  PROVE  S \in A
<1> DEFINE N == {n \in Nat : \A T \in SUBSET S : Cardinality(T) = n => T \in A}
<1>1. 0 \in N
  BY FS_EmptySet, FS_Subset
<1>2. ASSUME NEW n \in Nat, n \in N PROVE n + 1 \in N
  <2> SUFFICES ASSUME NEW T \in SUBSET S, Cardinality(T) = n + 1 PROVE T \in A
    OBVIOUS
  <2>1. IsFiniteSet(T) /\ T # {}
    BY FS_Subset, FS_EmptySet
  <2>2. PICK x \in T : TRUE
    BY <2>1
  <2>r. Cardinality(T \ {x}) = Cardinality(T) - 1
    BY <2>1, <2>2, FS_RemoveElement
  <2>3. Cardinality(T \ {x}) = n /\ T \ {x} \in SUBSET S
    BY <2>r
  <2>4. T \ {x} \in A
    BY <1>2, <2>3
  <2>5. (T \ {x}) \cup {x} \in A
    BY <2>2, <2>3, <2>4
  <2>6. (T \ {x}) \cup {x} = T
    BY <2>2
  <2> QED
    BY <2>5, <2>6
<1>3. Nat \subseteq N
  <2> HIDE DEF N
  <2> QED
    BY <1>1, <1>2, InductiveSet
<1>4. Cardinality(S) \in Nat
  BY FS_CardinalityType
<1> QED
  BY <1>3, <1>4

\* A finite set of numbers has a largest.
LEMMA LargestExists ==
  ASSUME NEW S, IsFiniteSet(S), S # {}, NEW f, \A x \in S : f[x] \in Int
  PROVE  \E x \in S : \A y \in S : f[y] <= f[x]
<1> DEFINE A == {T \in SUBSET S : T # {} => \E x \in T : \A y \in T : f[y] <= f[x]}
<1>1. {} \in A
  OBVIOUS
<1>2. ASSUME NEW T \in SUBSET S, NEW x \in S \ T, T \in A PROVE T \cup {x} \in A
  <2>1. CASE T = {}
    BY <2>1
  <2>2. CASE T # {}
    <3>1. PICK z \in T : \A y \in T : f[y] <= f[z]
      BY <1>2, <2>2
    <3>2. f[x] \in Int /\ f[z] \in Int /\ \A y \in T : f[y] \in Int
      OBVIOUS
    <3>3. CASE f[x] <= f[z]
      BY <3>1, <3>2, <3>3
    <3>4. CASE f[z] < f[x]
      <4>1. \A y \in T \cup {x} : f[y] <= f[x]
        BY <3>1, <3>2, <3>4
      <4> QED
        BY <4>1
    <3> QED
      BY <3>2, <3>3, <3>4
  <2> QED
    BY <2>1, <2>2
<1>3. S \in A
  <2> HIDE DEF A
  <2> QED
    BY <1>1, <1>2, InductiveFamily
<1> QED
  BY <1>3

\* The image of a finite set is finite.
LEMMA ImageFinite ==
  ASSUME NEW S, IsFiniteSet(S), NEW f
  PROVE  IsFiniteSet({f[x] : x \in S}) /\ Cardinality({f[x] : x \in S}) <= Cardinality(S)
<1> DEFINE T == {f[x] : x \in S}
           g == [x \in S |-> f[x]]
<1>1. g \in Surjection(S, T)
  BY DEF Surjection
<1> HIDE DEF g, T
<1>2. IsFiniteSet(T) /\ Cardinality(T) <= Cardinality(S)
  BY <1>1, FS_Surjection
<1> QED
  BY <1>2 DEF T

\* g[n] is what F[1] .. F[n] make of a in turn.
Rounds(N, D, a, F, g) ==
  g \in [0 .. N -> D] /\ g[0] = a /\ \A n \in 1 .. N : g[n] = F[n][g[n - 1]]

\* Functions may be applied in turn: the recursive functions of the models exist.
LEMMA Iterates ==
  ASSUME NEW N \in Nat, NEW D, NEW a \in D, NEW F \in [1 .. N -> [D -> D]]
  PROVE  \E g : Rounds(N, D, a, F, g)
<1> DEFINE Runs(m) == \E g \in [0 .. m -> D] : g[0] = a /\ \A n \in 1 .. m : g[n] = F[n][g[n - 1]]
           A == {m \in Nat : m <= N => Runs(m)}
<1>1. 0 \in A
  <2> DEFINE g == [n \in 0 .. 0 |-> a]
  <2>1. g \in [0 .. 0 -> D] /\ g[0] = a /\ 1 .. 0 = {}
    OBVIOUS
  <2> HIDE DEF g
  <2> QED
    BY <2>1
<1>2. ASSUME NEW m \in Nat, m \in A PROVE m + 1 \in A
  <2> SUFFICES ASSUME m + 1 <= N PROVE Runs(m + 1)
    OBVIOUS
  <2>1. PICK g \in [0 .. m -> D] : g[0] = a /\ \A n \in 1 .. m : g[n] = F[n][g[n - 1]]
    BY <1>2
  <2> DEFINE h == [n \in 0 .. m + 1 |-> IF n = m + 1 THEN F[m + 1][g[m]] ELSE g[n]]
  <2>2. h \in [0 .. m + 1 -> D]
    <3>1. F[m + 1] \in [D -> D] /\ g[m] \in D
      BY <2>1
    <3> QED
      BY <2>1, <3>1
  <2>3. h[0] = a
    BY <2>1
  <2>4. ASSUME NEW n \in 1 .. m + 1 PROVE h[n] = F[n][h[n - 1]]
    <3>1. n - 1 \in 0 .. m /\ h[n - 1] = g[n - 1]
      OBVIOUS
    <3>2. CASE n = m + 1
      BY <3>1, <3>2
    <3>3. CASE n # m + 1
      <4>1. n \in 1 .. m /\ n \in 0 .. m + 1
        BY <3>3
      <4>2. h[n] = g[n]
        BY <3>3, <4>1
      <4> HIDE DEF h
      <4> QED
        BY <3>1, <4>1, <4>2, <2>1
    <3> QED
      BY <3>2, <3>3
  <2> HIDE DEF h
  <2>5. Runs(m + 1)
    BY <2>2, <2>3, <2>4
  <2> HIDE DEF Runs
  <2> QED
    BY <2>5
<1>3. Nat \subseteq A
  <2> HIDE DEF A
  <2> QED
    BY <1>1, <1>2, InductiveSet
<1> QED
  BY <1>3 DEF Rounds

\* One function, applied again and again.
Repeats(N, D, a, F, g) ==
  g \in [0 .. N -> D] /\ g[0] = a /\ \A n \in 1 .. N : g[n] = F[g[n - 1]]

\* So there are the values of a repeated one.
LEMMA Repeated ==
  ASSUME NEW N \in Nat, NEW D, NEW a \in D, NEW F \in [D -> D]
  PROVE  \E g : Repeats(N, D, a, F, g)
<1> DEFINE Fs == [n \in 1 .. N |-> F]
<1>1. Fs \in [1 .. N -> [D -> D]] /\ \A n \in 1 .. N : Fs[n] = F
  OBVIOUS
<1> HIDE DEF Fs
<1>2. PICK g : Rounds(N, D, a, Fs, g)
  BY <1>1, Iterates
<1>3. g \in [0 .. N -> D] /\ g[0] = a /\ \A n \in 1 .. N : g[n] = Fs[n][g[n - 1]]
  BY <1>2 DEF Rounds
<1> QED
  BY <1>1, <1>3 DEF Repeats

-----------------------------------------------------------------------------
(* Sequences *)

\* What appending leaves.
LEMMA AppendIs ==
  ASSUME NEW S, NEW s \in Seq(S), NEW e \in S
  PROVE  /\ Append(s, e) \in Seq(S) /\ Len(s) \in Nat /\ DOMAIN s = 1 .. Len(s)
         /\ DOMAIN Append(s, e) = 1 .. Len(s) + 1 /\ Append(s, e)[Len(s) + 1] = e
         /\ \A k \in 1 .. Len(s) : Append(s, e)[k] = s[k]
OBVIOUS

\* A function on 1 .. n is a sequence.
LEMMA AsSeq ==
  ASSUME NEW S, NEW n \in Nat, NEW f \in [1 .. n -> S]
  PROVE  f \in Seq(S)
OBVIOUS

\* No repetitions.
Injective(s) == \A i, j \in 1 .. Len(s) : s[i] = s[j] => i = j

\* A list without repetitions has as many members as entries.
LEMMA CountOfList ==
  ASSUME NEW S, NEW s \in Seq(S), Injective(s)
  PROVE  /\ IsFiniteSet({s[i] : i \in DOMAIN s})
         /\ Cardinality({s[i] : i \in DOMAIN s}) = Len(s)
<1> DEFINE D == 1 .. Len(s)
           T == {s[i] : i \in DOMAIN s}
<1>1. DOMAIN s = D /\ Len(s) \in Nat /\ s \in [D -> S]
  OBVIOUS
<1>2. s \in [D -> T] /\ s \in Injection(D, T) /\ s \in Surjection(D, T)
  <2>1. s \in [D -> T] /\ DOMAIN s = D
    BY <1>1
  <2>2. IsInjective(s)
    BY <1>1 DEF Injective, IsInjective
  <2> QED
    BY <2>1, <2>2 DEF Injection, Surjection
<1>3. IsFiniteSet(D) /\ Cardinality(D) = IF 1 > Len(s) THEN 0 ELSE Len(s) - 1 + 1
  BY <1>1, FS_Interval, SMTT(60)
<1>4. Cardinality(D) = Len(s)
  BY <1>1, <1>3
<1> HIDE DEF D, T
<1>5. /\ IsFiniteSet(T) /\ Cardinality(T) = Cardinality(D) <=> s \in Injection(D, T)
  BY <1>2, <1>3, FS_Surjection
<1>6. IsFiniteSet(T)
  BY <1>2, <1>3, FS_Surjection
<1> QED
  BY <1>2, <1>4, <1>5, <1>6 DEF T

-----------------------------------------------------------------------------
(* Sums *)

Some(s) == CHOOSE x \in s : TRUE

\* The function that SumFunctionOnSet computes.
Partial(fun, s, g) == IF s = {} THEN 0 ELSE fun[Some(s)] + g[s \ {Some(s)}]
IsSum(fun, S, g) == g = [s \in SUBSET S |-> Partial(fun, s, g)]


\* The sum is the value of a function that is chosen.
LEMMA SumIsChosen ==
  ASSUME NEW fun, NEW S
  PROVE  SumFunctionOnSet(fun, S) = (CHOOSE g : IsSum(fun, S, g))[S]
BY DEF SumFunctionOnSet, FoldFunctionOnSet, MapThenFoldSet, IsSum, Partial, Some

\* There is such a function ...
LEMMA SumExists ==
  ASSUME NEW fun, NEW S, IsFiniteSet(S)
  PROVE  \E g : IsSum(fun, S, g)
<1> DEFINE Upto(n, g) == \A s \in SUBSET S : Cardinality(s) <= n => g[s] = Partial(fun, s, g)
           Sets == SUBSET S
           N == {n \in Nat : \E g : g = [s \in Sets |-> g[s]] /\ Upto(n, g)}
<1>0. \A s \in SUBSET S : IsFiniteSet(s) /\ Cardinality(s) \in Nat
  BY FS_Subset, FS_CardinalityType
<1>1. 0 \in N
  <2> DEFINE g == [s \in Sets |-> 0]
  <2>1. \A s \in SUBSET S : Cardinality(s) <= 0 => s = {}
    BY <1>0, FS_EmptySet
  <2>2. Upto(0, g)
    BY <2>1 DEF Partial
  <2>3. g = [s \in Sets |-> g[s]]
    OBVIOUS
  <2> HIDE DEF g
  <2> QED
    BY <2>2, <2>3
<1>2. ASSUME NEW n \in Nat, n \in N PROVE n + 1 \in N
  <2>1. PICK g : g = [s \in Sets |-> g[s]] /\ Upto(n, g)
    BY <1>2
  <2> DEFINE h == [s \in Sets |-> Partial(fun, s, g)]
  <2>2. \A s \in SUBSET S : Cardinality(s) <= n => h[s] = g[s]
    BY <2>1
  <2>3. ASSUME NEW s \in SUBSET S, Cardinality(s) <= n + 1, s # {}
        PROVE  h[s \ {Some(s)}] = g[s \ {Some(s)}]
    <3>1. Some(s) \in s
      BY <2>3 DEF Some
    <3>2. Cardinality(s \ {Some(s)}) = Cardinality(s) - 1
      BY <3>1, <1>0, FS_RemoveElement
    <3>3. s \ {Some(s)} \in SUBSET S /\ Cardinality(s \ {Some(s)}) <= n
      BY <3>2, <1>0, <2>3
    <3> QED
      BY <3>3, <2>2
  <2>4. Upto(n + 1, h)
    <3> SUFFICES ASSUME NEW s \in SUBSET S, Cardinality(s) <= n + 1
                 PROVE  h[s] = Partial(fun, s, h)
      OBVIOUS
    <3>1. h[s] = Partial(fun, s, g)
      OBVIOUS
    <3> HIDE DEF h
    <3> QED
      BY <3>1, <2>3 DEF Partial
  <2>5. h = [s \in Sets |-> h[s]]
    OBVIOUS
  <2> HIDE DEF h, Upto
  <2>6. n + 1 \in Nat
    OBVIOUS
  <2> QED
    BY <2>4, <2>5, <2>6
<1>3. Nat \subseteq N
  <2> HIDE DEF N
  <2> QED
    BY <1>1, <1>2, InductiveSet
<1>4. Cardinality(S) \in N
  BY <1>0, <1>3
<1>5. PICK g : g = [s \in Sets |-> g[s]] /\ Upto(Cardinality(S), g)
  BY <1>4
<1>6. \A s \in SUBSET S : Cardinality(s) <= Cardinality(S)
  BY FS_Subset
<1>7. \A s \in SUBSET S : g[s] = Partial(fun, s, g)
  BY <1>5, <1>6
<1>8. [s \in Sets |-> g[s]] = [s \in Sets |-> Partial(fun, s, g)]
  BY <1>7
<1> QED
  BY <1>5, <1>8 DEF IsSum

\* So that the sum is a value of it.
LEMMA SumIs ==
  ASSUME NEW fun, NEW S, IsFiniteSet(S)
  PROVE  \E g : IsSum(fun, S, g) /\ SumFunctionOnSet(fun, S) = g[S]
BY SumExists, SumIsChosen

\* ... and only one.
LEMMA SumUnique ==
  ASSUME NEW fun, NEW S, IsFiniteSet(S), NEW g, IsSum(fun, S, g),
         NEW T \in SUBSET S, NEW h, IsSum(fun, T, h)
  PROVE  g[T] = h[T]
<1> DEFINE N == {n \in Nat : \A s \in SUBSET T : Cardinality(s) = n => g[s] = h[s]}
<1>0. \A s \in SUBSET T : IsFiniteSet(s) /\ Cardinality(s) \in Nat
  BY FS_Subset, FS_CardinalityType
<1>e. \A s \in SUBSET T : g[s] = Partial(fun, s, g) /\ h[s] = Partial(fun, s, h)
  BY DEF IsSum
<1>1. 0 \in N
  <2>1. \A s \in SUBSET T : Cardinality(s) = 0 => s = {}
    BY <1>0, FS_EmptySet
  <2> QED
    BY <2>1, <1>e DEF Partial
<1>2. ASSUME NEW n \in Nat, n \in N PROVE n + 1 \in N
  <2> SUFFICES ASSUME NEW s \in SUBSET T, Cardinality(s) = n + 1 PROVE g[s] = h[s]
    OBVIOUS
  <2>1. s # {}
    BY <1>0, FS_EmptySet
  <2>2. Some(s) \in s
    BY <2>1 DEF Some
  <2>3. Cardinality(s \ {Some(s)}) = Cardinality(s) - 1
    BY <2>2, <1>0, FS_RemoveElement
  <2>4. s \ {Some(s)} \in SUBSET T /\ Cardinality(s \ {Some(s)}) = n
    BY <2>3, <1>0
  <2>5. g[s \ {Some(s)}] = h[s \ {Some(s)}]
    BY <2>4, <1>2
  <2> QED
    BY <2>5, <1>e DEF Partial
<1>3. Nat \subseteq N
  <2> HIDE DEF N
  <2> QED
    BY <1>1, <1>2, InductiveSet
<1> QED
  BY <1>0, <1>3

\* The sum of nothing.
LEMMA SumEmpty ==
  ASSUME NEW fun
  PROVE  SumFunctionOnSet(fun, {}) = 0
<1>1. PICK g : IsSum(fun, {}, g) /\ SumFunctionOnSet(fun, {}) = g[{}]
  BY SumIs, FS_EmptySet
<1> QED
  BY <1>1 DEF IsSum, Partial

\* One term more: the one that is chosen.
LEMMA SumStep ==
  ASSUME NEW fun, NEW S, IsFiniteSet(S), S # {}
  PROVE  /\ Some(S) \in S
         /\ SumFunctionOnSet(fun, S) = fun[Some(S)] + SumFunctionOnSet(fun, S \ {Some(S)})
<1>1. Some(S) \in S
  BY DEF Some
<1>2. PICK g : IsSum(fun, S, g) /\ SumFunctionOnSet(fun, S) = g[S]
  BY SumIs
<1>3. IsFiniteSet(S \ {Some(S)}) /\ S \ {Some(S)} \in SUBSET S
  BY FS_Subset
<1>4. PICK h : IsSum(fun, S \ {Some(S)}, h) /\ SumFunctionOnSet(fun, S \ {Some(S)}) = h[S \ {Some(S)}]
  BY SumIs, <1>3
<1>5. g[S \ {Some(S)}] = h[S \ {Some(S)}]
  BY <1>2, <1>3, <1>4, SumUnique
<1>6. g[S] = fun[Some(S)] + g[S \ {Some(S)}]
  BY <1>2 DEF IsSum, Partial
<1> QED
  BY <1>1, <1>2, <1>4, <1>5, <1>6

Whole(fun, S) == \A x \in S : fun[x] \in Int

\* A sum of integers is one ...
LEMMA SumType ==
  ASSUME NEW fun, NEW S, IsFiniteSet(S), Whole(fun, S)
  PROVE  SumFunctionOnSet(fun, S) \in Int
<1> DEFINE Sum(s) == SumFunctionOnSet(fun, s)
           N == {n \in Nat : \A s \in SUBSET S : Cardinality(s) = n => Sum(s) \in Int}
<1> HIDE DEF Sum
<1>0. \A s \in SUBSET S : IsFiniteSet(s) /\ Cardinality(s) \in Nat
  BY FS_Subset, FS_CardinalityType
<1>1. 0 \in N
  <2>1. \A s \in SUBSET S : Cardinality(s) = 0 => s = {}
    BY <1>0, FS_EmptySet
  <2>2. Sum({}) \in Int
    BY SumEmpty DEF Sum
  <2> QED
    BY <2>1, <2>2
<1>2. ASSUME NEW n \in Nat, n \in N PROVE n + 1 \in N
  <2> SUFFICES ASSUME NEW s \in SUBSET S, Cardinality(s) = n + 1 PROVE Sum(s) \in Int
    OBVIOUS
  <2>1. s # {} /\ IsFiniteSet(s)
    BY <1>0, FS_EmptySet
  <2>2. PICK c \in s : Sum(s) = fun[c] + Sum(s \ {c})
    BY <2>1, SumStep DEF Sum
  <2>3. Cardinality(s \ {c}) = Cardinality(s) - 1
    BY <2>1, FS_RemoveElement
  <2>4. s \ {c} \in SUBSET S /\ Cardinality(s \ {c}) = n
    BY <2>3
  <2>5. Sum(s \ {c}) \in Int
    BY <2>4, <1>2
  <2>6. fun[c] \in Int
    BY DEF Whole
  <2> QED
    BY <2>2, <2>5, <2>6
<1>3. Nat \subseteq N
  <2> HIDE DEF N
  <2> QED
    BY <1>1, <1>2, InductiveSet
<1>4. Sum(S) \in Int
  BY <1>0, <1>3
<1> QED
  BY <1>4 DEF Sum

\* ... and its terms may be added in any order.
LEMMA SumOrder ==
  ASSUME NEW fun, NEW S, IsFiniteSet(S), Whole(fun, S), NEW y \in S
  PROVE  SumFunctionOnSet(fun, S) = fun[y] + SumFunctionOnSet(fun, S \ {y})
<1> DEFINE Sum(s) == SumFunctionOnSet(fun, s)
           Good(s) == \A x \in s : Sum(s) = fun[x] + Sum(s \ {x})
           N == {n \in Nat : \A s \in SUBSET S : Cardinality(s) = n => Good(s)}
<1> HIDE DEF Sum
<1>0. \A s \in SUBSET S : IsFiniteSet(s) /\ Cardinality(s) \in Nat
  BY FS_Subset, FS_CardinalityType
<1>t. \A s \in SUBSET S : Sum(s) \in Int
  BY <1>0, SumType DEF Sum, Whole
<1>1. 0 \in N
  <2>1. \A s \in SUBSET S : Cardinality(s) = 0 => s = {}
    BY <1>0, FS_EmptySet
  <2>2. Good({})
    OBVIOUS
  <2> QED
    BY <2>1, <2>2
<1>2. ASSUME NEW n \in Nat, n \in N PROVE n + 1 \in N
  <2> SUFFICES ASSUME NEW s \in SUBSET S, Cardinality(s) = n + 1, NEW x \in s
               PROVE  Sum(s) = fun[x] + Sum(s \ {x})
    OBVIOUS
  <2>l. ASSUME NEW z \in s
        PROVE  s \ {z} \in SUBSET S /\ Good(s \ {z})
    <3>1. Cardinality(s \ {z}) = Cardinality(s) - 1
      BY <1>0, FS_RemoveElement
    <3>2. s \ {z} \in SUBSET S /\ Cardinality(s \ {z}) = n
      BY <3>1
    <3> HIDE DEF Good
    <3> QED
      BY <3>2, <1>2
  <2>1. s # {} /\ IsFiniteSet(s)
    BY <1>0, FS_EmptySet
  <2>2. PICK c \in s : Sum(s) = fun[c] + Sum(s \ {c})
    BY <2>1, SumStep DEF Sum
  <2>3. CASE x = c
    BY <2>3, <2>2
  <2>4. CASE x # c
    <3>1. Sum(s \ {c}) = fun[x] + Sum((s \ {c}) \ {x})
      BY <2>l, <2>4
    <3>2. Sum(s \ {x}) = fun[c] + Sum((s \ {x}) \ {c})
      BY <2>l, <2>4
    <3>3. (s \ {c}) \ {x} = (s \ {x}) \ {c}
      OBVIOUS
    <3>4. fun[x] \in Int /\ fun[c] \in Int
      BY DEF Whole
    <3>5. Sum((s \ {x}) \ {c}) \in Int
      BY <1>t
    <3>6. Sum((s \ {c}) \ {x}) = Sum((s \ {x}) \ {c})
      BY <3>3
    <3> QED
      BY <2>2, <3>1, <3>2, <3>4, <3>5, <3>6
  <2> QED
    BY <2>3, <2>4
<1>3. Nat \subseteq N
  <2> HIDE DEF N
  <2> QED
    BY <1>1, <1>2, InductiveSet
<1>4. Good(S)
  BY <1>0, <1>3
<1> QED
  BY <1>4 DEF Sum

\* One term more: any that was not there.
LEMMA SumAdd ==
  ASSUME NEW fun, NEW S, IsFiniteSet(S), Whole(fun, S), NEW y, y \notin S, fun[y] \in Int
  PROVE  SumFunctionOnSet(fun, S \cup {y}) = SumFunctionOnSet(fun, S) + fun[y]
<1>1. IsFiniteSet(S \cup {y})
  BY FS_AddElement
<1>2. Whole(fun, S \cup {y})
  BY DEF Whole
<1>3. SumFunctionOnSet(fun, S \cup {y}) = fun[y] + SumFunctionOnSet(fun, (S \cup {y}) \ {y})
  BY <1>1, <1>2, SumOrder
<1>4. (S \cup {y}) \ {y} = S
  OBVIOUS
<1>5. SumFunctionOnSet(fun, S) \in Int
  BY SumType
<1>6. SumFunctionOnSet(fun, (S \cup {y}) \ {y}) = SumFunctionOnSet(fun, S)
  BY <1>4
<1> QED
  BY <1>3, <1>5, <1>6

\* Terms that are equal one by one have equal sums.
LEMMA SumEqual ==
  ASSUME NEW S, IsFiniteSet(S), NEW f, NEW g, Whole(f, S), \A x \in S : f[x] = g[x]
  PROVE  SumFunctionOnSet(f, S) = SumFunctionOnSet(g, S)
<1> DEFINE A == {T \in SUBSET S : SumFunctionOnSet(f, T) = SumFunctionOnSet(g, T)}
<1>1. {} \in A
  BY SumEmpty
<1>2. ASSUME NEW T \in SUBSET S, NEW x \in S \ T, T \in A PROVE T \cup {x} \in A
  <2>1. IsFiniteSet(T) /\ Whole(f, T) /\ Whole(g, T)
    BY FS_Subset DEF Whole
  <2>2. f[x] \in Int /\ g[x] = f[x]
    BY DEF Whole
  <2>3. SumFunctionOnSet(f, T \cup {x}) = SumFunctionOnSet(f, T) + f[x]
    BY <2>1, <2>2, SumAdd
  <2>4. SumFunctionOnSet(g, T \cup {x}) = SumFunctionOnSet(g, T) + g[x]
    BY <2>1, <2>2, SumAdd
  <2> QED
    BY <1>2, <2>2, <2>3, <2>4
<1> HIDE DEF A
<1>3. S \in A
  BY <1>1, <1>2, InductiveFamily
<1> QED
  BY <1>3 DEF A

\* The sum of sums.
LEMMA SumPlus ==
  ASSUME NEW S, IsFiniteSet(S), NEW f, NEW g, NEW h, Whole(f, S), Whole(g, S),
         \A x \in S : h[x] = f[x] + g[x]
  PROVE  SumFunctionOnSet(h, S) = SumFunctionOnSet(f, S) + SumFunctionOnSet(g, S)
<1> DEFINE A == {T \in SUBSET S :
                   SumFunctionOnSet(h, T) = SumFunctionOnSet(f, T) + SumFunctionOnSet(g, T)}
<1>1. {} \in A
  BY SumEmpty
<1>2. ASSUME NEW T \in SUBSET S, NEW x \in S \ T, T \in A PROVE T \cup {x} \in A
  <2>1. IsFiniteSet(T) /\ Whole(f, T) /\ Whole(g, T) /\ Whole(h, T)
    BY FS_Subset DEF Whole
  <2>2. f[x] \in Int /\ g[x] \in Int /\ h[x] = f[x] + g[x]
    BY DEF Whole
  <2>3. SumFunctionOnSet(f, T \cup {x}) = SumFunctionOnSet(f, T) + f[x]
    BY <2>1, <2>2, SumAdd
  <2>4. SumFunctionOnSet(g, T \cup {x}) = SumFunctionOnSet(g, T) + g[x]
    BY <2>1, <2>2, SumAdd
  <2>5. SumFunctionOnSet(h, T \cup {x}) = SumFunctionOnSet(h, T) + h[x]
    BY <2>1, <2>2, SumAdd
  <2>6. SumFunctionOnSet(f, T) \in Int /\ SumFunctionOnSet(g, T) \in Int
    BY <2>1, SumType
  <2> QED
    BY <1>2, <2>2, <2>3, <2>4, <2>5, <2>6
<1> HIDE DEF A
<1>3. S \in A
  BY <1>1, <1>2, InductiveFamily
<1> QED
  BY <1>3 DEF A

\* A factor that all terms have.
LEMMA SumTimes ==
  ASSUME NEW S, IsFiniteSet(S), NEW f, NEW h, NEW c \in Int, Whole(f, S),
         \A x \in S : h[x] = c * f[x]
  PROVE  SumFunctionOnSet(h, S) = c * SumFunctionOnSet(f, S)
<1> DEFINE A == {T \in SUBSET S : SumFunctionOnSet(h, T) = c * SumFunctionOnSet(f, T)}
<1>1. {} \in A
  BY SumEmpty
<1>2. ASSUME NEW T \in SUBSET S, NEW x \in S \ T, T \in A PROVE T \cup {x} \in A
  <2>1. IsFiniteSet(T) /\ Whole(f, T) /\ Whole(h, T)
    BY FS_Subset DEF Whole
  <2>2. f[x] \in Int /\ h[x] = c * f[x] /\ h[x] \in Int
    BY DEF Whole
  <2>3. SumFunctionOnSet(f, T \cup {x}) = SumFunctionOnSet(f, T) + f[x]
    BY <2>1, <2>2, SumAdd
  <2>4. SumFunctionOnSet(h, T \cup {x}) = SumFunctionOnSet(h, T) + h[x]
    BY <2>1, <2>2, SumAdd
  <2>5. SumFunctionOnSet(f, T) \in Int
    BY <2>1, SumType
  <2>6. SumFunctionOnSet(h, T) = c * SumFunctionOnSet(f, T)
    BY <1>2
  <2>7. c * (SumFunctionOnSet(f, T) + f[x]) = c * SumFunctionOnSet(f, T) + c * f[x]
    BY <2>2, <2>5
  <2> QED
    BY <2>2, <2>3, <2>4, <2>6, <2>7
<1> HIDE DEF A
<1>3. S \in A
  BY <1>1, <1>2, InductiveFamily
<1> QED
  BY <1>3 DEF A

\* Terms that are all zero.
LEMMA SumZero ==
  ASSUME NEW S, IsFiniteSet(S), NEW f, \A x \in S : f[x] = 0
  PROVE  SumFunctionOnSet(f, S) = 0
<1> DEFINE A == {T \in SUBSET S : SumFunctionOnSet(f, T) = 0}
<1>1. {} \in A
  BY SumEmpty
<1>2. ASSUME NEW T \in SUBSET S, NEW x \in S \ T, T \in A PROVE T \cup {x} \in A
  <2>1. IsFiniteSet(T) /\ Whole(f, T)
    BY FS_Subset DEF Whole
  <2>2. SumFunctionOnSet(f, T \cup {x}) = SumFunctionOnSet(f, T) + f[x]
    BY <2>1, SumAdd
  <2> QED
    BY <1>2, <2>2
<1> HIDE DEF A
<1>3. S \in A
  BY <1>1, <1>2, InductiveFamily
<1> QED
  BY <1>3 DEF A

\* Terms that are no larger one by one.
LEMMA SumAtMost ==
  ASSUME NEW S, IsFiniteSet(S), NEW f, NEW g, Whole(f, S), Whole(g, S), \A x \in S : f[x] <= g[x]
  PROVE  SumFunctionOnSet(f, S) <= SumFunctionOnSet(g, S)
<1> DEFINE A == {T \in SUBSET S : SumFunctionOnSet(f, T) <= SumFunctionOnSet(g, T)}
<1>1. {} \in A
  BY SumEmpty
<1>2. ASSUME NEW T \in SUBSET S, NEW x \in S \ T, T \in A PROVE T \cup {x} \in A
  <2>1. IsFiniteSet(T) /\ Whole(f, T) /\ Whole(g, T)
    BY FS_Subset DEF Whole
  <2>2. f[x] \in Int /\ g[x] \in Int /\ f[x] <= g[x]
    BY DEF Whole
  <2>3. SumFunctionOnSet(f, T \cup {x}) = SumFunctionOnSet(f, T) + f[x]
    BY <2>1, <2>2, SumAdd
  <2>4. SumFunctionOnSet(g, T \cup {x}) = SumFunctionOnSet(g, T) + g[x]
    BY <2>1, <2>2, SumAdd
  <2>6. SumFunctionOnSet(f, T) \in Int /\ SumFunctionOnSet(g, T) \in Int
    BY <2>1, SumType
  <2> QED
    BY <1>2, <2>2, <2>3, <2>4, <2>6
<1> HIDE DEF A
<1>3. S \in A
  BY <1>1, <1>2, InductiveFamily
<1> QED
  BY <1>3 DEF A

\* The sum over two sets that do not meet.
LEMMA SumUnion ==
  ASSUME NEW S, IsFiniteSet(S), NEW R, IsFiniteSet(R), R \cap S = {}, NEW f, Whole(f, R \cup S)
  PROVE  SumFunctionOnSet(f, R \cup S) = SumFunctionOnSet(f, R) + SumFunctionOnSet(f, S)
<1> DEFINE A == {T \in SUBSET S :
                   SumFunctionOnSet(f, R \cup T) = SumFunctionOnSet(f, R) + SumFunctionOnSet(f, T)}
<1>0. SumFunctionOnSet(f, R) \in Int
  BY SumType DEF Whole
<1>1. {} \in A
  <2>1. R \cup {} = R
    OBVIOUS
  <2> QED
    BY <1>0, <2>1, SumEmpty
<1>2. ASSUME NEW T \in SUBSET S, NEW x \in S \ T, T \in A PROVE T \cup {x} \in A
  <2>1. IsFiniteSet(T) /\ Whole(f, T)
    BY FS_Subset DEF Whole
  <2>2. IsFiniteSet(R \cup T) /\ Whole(f, R \cup T) /\ x \notin R \cup T
    BY <2>1, FS_Union DEF Whole
  <2>3. f[x] \in Int
    BY DEF Whole
  <2>4. SumFunctionOnSet(f, T \cup {x}) = SumFunctionOnSet(f, T) + f[x]
    BY <2>1, <2>3, SumAdd
  <2>5. SumFunctionOnSet(f, (R \cup T) \cup {x}) = SumFunctionOnSet(f, R \cup T) + f[x]
    BY <2>2, <2>3, SumAdd
  <2>6. SumFunctionOnSet(f, T) \in Int
    BY <2>1, SumType
  <2>7. (R \cup T) \cup {x} = R \cup (T \cup {x})
    OBVIOUS
  <2>8. SumFunctionOnSet(f, R \cup (T \cup {x})) = SumFunctionOnSet(f, R \cup T) + f[x]
    BY <2>5, <2>7
  <2>9. SumFunctionOnSet(f, R \cup T) = SumFunctionOnSet(f, R) + SumFunctionOnSet(f, T)
    BY <1>2
  <2> QED
    BY <1>0, <2>3, <2>4, <2>6, <2>8, <2>9
<1> HIDE DEF A
<1>3. S \in A
  BY <1>1, <1>2, InductiveFamily
<1> QED
  BY <1>3 DEF A

\* Terms that are zero may be left out.
LEMMA SumSupport ==
  ASSUME NEW S, IsFiniteSet(S), NEW R \in SUBSET S, NEW f, Whole(f, R), \A x \in S \ R : f[x] = 0
  PROVE  SumFunctionOnSet(f, S) = SumFunctionOnSet(f, R)
<1>1. IsFiniteSet(R) /\ IsFiniteSet(S \ R)
  BY FS_Subset
<1>2. Whole(f, R \cup (S \ R)) /\ R \cap (S \ R) = {} /\ R \cup (S \ R) = S
  BY DEF Whole
<1>3. SumFunctionOnSet(f, R \cup (S \ R)) = SumFunctionOnSet(f, R) + SumFunctionOnSet(f, S \ R)
  BY <1>1, <1>2, SumUnion
<1>4. SumFunctionOnSet(f, S \ R) = 0
  BY <1>1, SumZero
<1>5. SumFunctionOnSet(f, R) \in Int
  BY <1>1, SumType
<1>6. SumFunctionOnSet(f, R \cup (S \ R)) = SumFunctionOnSet(f, S)
  BY <1>2
<1> QED
  BY <1>3, <1>4, <1>5, <1>6

\* One term.
LEMMA SumOne ==
  ASSUME NEW f, NEW x, f[x] \in Int
  PROVE  SumFunctionOnSet(f, {x}) = f[x]
<1>1. SumFunctionOnSet(f, {} \cup {x}) = SumFunctionOnSet(f, {}) + f[x]
  BY FS_EmptySet, SumAdd DEF Whole
<1>2. {} \cup {x} = {x}
  OBVIOUS
<1> QED
  BY <1>1, <1>2, SumEmpty

\* A table with its rows f, its columns g, and their sums.
Table(S, R, f, g, rows, cols) ==
  /\ \A x \in S : \A y \in R : f[x][y] \in Int /\ g[y][x] = f[x][y]
  /\ \A x \in S : rows[x] = SumFunctionOnSet(f[x], R)
  /\ \A y \in R : cols[y] = SumFunctionOnSet(g[y], S)

\* Two sums may change places.
LEMMA SumExchange ==
  ASSUME NEW S, IsFiniteSet(S), NEW R, IsFiniteSet(R),
         NEW f, NEW g, NEW rows, NEW cols, Table(S, R, f, g, rows, cols)
  PROVE  SumFunctionOnSet(rows, S) = SumFunctionOnSet(cols, R)
<1> DEFINE col(T) == [y \in R |-> SumFunctionOnSet(g[y], T)]
           A == {T \in SUBSET S : SumFunctionOnSet(rows, T) = SumFunctionOnSet(col(T), R)}
<1>t. /\ \A x \in S : \A y \in R : f[x][y] \in Int /\ g[y][x] = f[x][y]
      /\ \A x \in S : rows[x] = SumFunctionOnSet(f[x], R)
      /\ \A y \in R : cols[y] = SumFunctionOnSet(g[y], S)
  BY DEF Table
<1>w. \A x \in S : Whole(f[x], R)
  BY <1>t DEF Whole
<1>v. \A y \in R : Whole(g[y], S)
  BY <1>t DEF Whole
<1>r. \A x \in S : rows[x] \in Int
  BY <1>t, <1>w, SumType
<1>1. {} \in A
  <2>1. \A y \in R : col({})[y] = 0
    BY SumEmpty
  <2>2. SumFunctionOnSet(col({}), R) = 0
    <3> HIDE DEF col
    <3> QED
      BY <2>1, SumZero
  <2> QED
    BY <2>2, SumEmpty
<1>2. ASSUME NEW T \in SUBSET S, NEW x \in S \ T, T \in A PROVE T \cup {x} \in A
  <2>1. IsFiniteSet(T) /\ Whole(rows, T) /\ rows[x] \in Int
    BY <1>r, FS_Subset DEF Whole
  <2>2. SumFunctionOnSet(rows, T \cup {x}) = SumFunctionOnSet(rows, T) + rows[x]
    BY <2>1, SumAdd
  <2>3. ASSUME NEW y \in R
        PROVE  /\ col(T)[y] \in Int /\ f[x][y] \in Int
               /\ col(T \cup {x})[y] = col(T)[y] + f[x][y]
    <3>1. Whole(g[y], T) /\ g[y][x] = f[x][y] /\ f[x][y] \in Int /\ x \notin T
      BY <1>t, <1>v DEF Whole
    <3>2. col(T)[y] = SumFunctionOnSet(g[y], T) /\ col(T \cup {x})[y] = SumFunctionOnSet(g[y], T \cup {x})
      OBVIOUS
    <3> HIDE DEF col
    <3>4. SumFunctionOnSet(g[y], T \cup {x}) = SumFunctionOnSet(g[y], T) + g[y][x]
      BY <2>1, <3>1, SumAdd
    <3>5. SumFunctionOnSet(g[y], T) \in Int
      BY <2>1, <3>1, SumType
    <3> QED
      BY <3>1, <3>2, <3>4, <3>5
  <2>5. SumFunctionOnSet(col(T \cup {x}), R) = SumFunctionOnSet(col(T), R) + SumFunctionOnSet(f[x], R)
    <3> DEFINE before == col(T)
               after == col(T \cup {x})
               row == f[x]
    <3> HIDE DEF col
    <3>1. \A y \in R : after[y] = before[y] + row[y]
      BY <2>3
    <3>2. Whole(before, R) /\ Whole(row, R)
      BY <2>3 DEF Whole
    <3> HIDE DEF before, after, row
    <3>3. SumFunctionOnSet(after, R) = SumFunctionOnSet(before, R) + SumFunctionOnSet(row, R)
      BY <3>1, <3>2, SumPlus
    <3> QED
      BY <3>3 DEF before, after, row
  <2> HIDE DEF col
  <2> QED
    BY <1>2, <1>t, <2>2, <2>5
<1>3. S \in A
  <2> HIDE DEF A
  <2> QED
    BY <1>1, <1>2, InductiveFamily
<1>4. SumFunctionOnSet(rows, S) = SumFunctionOnSet(col(S), R)
  BY <1>3
<1>5. \A y \in R : col(S)[y] = cols[y] /\ cols[y] \in Int
  BY <1>t, <1>v, SumType
<1>6. SumFunctionOnSet(col(S), R) = SumFunctionOnSet(cols, R)
  <2> HIDE DEF col
  <2> QED
    BY <1>5, SumEqual DEF Whole
<1> QED
  BY <1>4, <1>6

\* The sum of a constant.
LEMMA SumConstant ==
  ASSUME NEW S, IsFiniteSet(S), NEW f, NEW c \in Int, \A x \in S : f[x] = c
  PROVE  SumFunctionOnSet(f, S) = Cardinality(S) * c
<1> DEFINE A == {T \in SUBSET S : SumFunctionOnSet(f, T) = Cardinality(T) * c}
<1>1. {} \in A
  <2>1. Cardinality({}) = 0 /\ SumFunctionOnSet(f, {}) = 0
    BY FS_EmptySet, SumEmpty
  <2> QED
    BY <2>1
<1>2. ASSUME NEW T \in SUBSET S, NEW x \in S \ T, T \in A PROVE T \cup {x} \in A
  <2>1. IsFiniteSet(T) /\ Whole(f, T)
    BY FS_Subset DEF Whole
  <2>2. SumFunctionOnSet(f, T \cup {x}) = SumFunctionOnSet(f, T) + f[x]
    BY <2>1, SumAdd
  <2>3. Cardinality(T \cup {x}) = Cardinality(T) + 1
    BY <2>1, FS_AddElement
  <2>4. Cardinality(T) \in Nat
    BY <2>1, FS_CardinalityType
  <2>5. (Cardinality(T) + 1) * c = Cardinality(T) * c + c
    <3> DEFINE n == Cardinality(T)
    <3>1. n \in Int
      BY <2>4
    <3> HIDE DEF n
    <3>2. (n + 1) * c = n * c + c
      BY <3>1
    <3> QED
      BY <3>2 DEF n
  <2>6. SumFunctionOnSet(f, T) = Cardinality(T) * c /\ f[x] = c
    BY <1>2
  <2>7. SumFunctionOnSet(f, T \cup {x}) = Cardinality(T \cup {x}) * c
    BY <2>2, <2>3, <2>5, <2>6
  <2> QED
    BY <2>7
<1> HIDE DEF A
<1>3. S \in A
  BY <1>1, <1>2, InductiveFamily
<1> QED
  BY <1>3 DEF A

\* x, worth w[x], is dealt out over the places on[x], in shares that make K
\* together; each place p weighs what it holds m[p] times, as t does x.
Dealt(S, P, K, on, share, w, t, m, part, per, all) ==
  /\ \A x \in S : on[x] \in SUBSET P /\ share[x] \in Int /\ w[x] \in Int /\ t[x] \in Int
  /\ \A x \in S : Cardinality(on[x]) * share[x] = K
  /\ \A p \in P : m[p] \in Int
  /\ \A x \in S : \A p \in on[x] : m[p] = t[x] /\ part[p][x] = share[x] * w[x]
  /\ \A p \in P : per[p] = SumFunctionOnSet(part[p], {x \in S : p \in on[x]}) * m[p]
  /\ \A x \in S : all[x] = w[x] * t[x]

\* What is dealt out in equal shares, each weighed alike, comes to the whole.
LEMMA DealtOut ==
  ASSUME NEW S, IsFiniteSet(S), NEW P, IsFiniteSet(P), NEW K \in Int,
         NEW on, NEW share, NEW w, NEW t, NEW m, NEW part, NEW per, NEW all,
         Dealt(S, P, K, on, share, w, t, m, part, per, all)
  PROVE  SumFunctionOnSet(per, P) = K * SumFunctionOnSet(all, S)
<1> DEFINE here(p) == {x \in S : p \in on[x]}
           v(x) == share[x] * w[x] * t[x]
           f == [x \in S |-> [p \in P |-> IF p \in on[x] THEN v(x) ELSE 0]]
           g == [p \in P |-> [x \in S |-> IF p \in on[x] THEN v(x) ELSE 0]]
           rows == [x \in S |-> SumFunctionOnSet(f[x], P)]
           cols == [p \in P |-> SumFunctionOnSet(g[p], S)]
<1>a. /\ \A x \in S : on[x] \in SUBSET P /\ share[x] \in Int /\ w[x] \in Int /\ t[x] \in Int
      /\ \A x \in S : Cardinality(on[x]) * share[x] = K
      /\ \A p \in P : m[p] \in Int
      /\ \A x \in S : \A p \in on[x] : m[p] = t[x] /\ part[p][x] = share[x] * w[x]
  BY DEF Dealt
<1>b. /\ \A p \in P : per[p] = SumFunctionOnSet(part[p], {x \in S : p \in on[x]}) * m[p]
      /\ \A x \in S : all[x] = w[x] * t[x]
  BY DEF Dealt
<1>1. \A x \in S : v(x) \in Int
  BY <1>a
<1>2. \A x \in S : \A p \in P : f[x][p] = (IF p \in on[x] THEN v(x) ELSE 0) /\ g[p][x] = f[x][p]
  OBVIOUS
<1>3. \A x \in S : rows[x] = SumFunctionOnSet(f[x], P)
  OBVIOUS
<1>4. \A p \in P : cols[p] = SumFunctionOnSet(g[p], S)
  OBVIOUS
<1> HIDE DEF f, g, rows, cols
<1>5. SumFunctionOnSet(rows, S) = SumFunctionOnSet(cols, P)
  <2> HIDE DEF v
  <2>1. \A x \in S : \A p \in P : f[x][p] \in Int /\ g[p][x] = f[x][p]
    BY <1>1, <1>2
  <2>2. SumFunctionOnSet(rows, S) = SumFunctionOnSet(cols, P)
    <3>1. Table(S, P, f, g, rows, cols)
      BY <2>1, <1>3, <1>4 DEF Table
    <3> QED
      BY <3>1, SumExchange
  <2> QED
    BY <2>2
<1>6. ASSUME NEW x \in S PROVE rows[x] = K * all[x]
  <2> DEFINE fx == f[x]
  <2>1. on[x] \in SUBSET P /\ IsFiniteSet(on[x])
    BY <1>a, FS_Subset
  <2>2. \A p \in on[x] : fx[p] = v(x)
    BY <1>2, <2>1
  <2>3. \A p \in P \ on[x] : fx[p] = 0
    BY <1>2
  <2>4. v(x) \in Int
    BY <1>1
  <2> HIDE DEF fx, v
  <2>5. SumFunctionOnSet(fx, P) = SumFunctionOnSet(fx, on[x])
    BY <2>1, <2>2, <2>3, <2>4, SumSupport DEF Whole
  <2>6. SumFunctionOnSet(fx, on[x]) = Cardinality(on[x]) * v(x)
    BY <2>1, <2>2, <2>4, SumConstant
  <2>7. rows[x] = Cardinality(on[x]) * v(x)
    BY <2>5, <2>6, <1>3 DEF fx
  <2>8. Cardinality(on[x]) * v(x) = (Cardinality(on[x]) * share[x]) * (w[x] * t[x])
    <3> DEFINE n == Cardinality(on[x])
    <3>1. n \in Int /\ share[x] \in Int /\ w[x] \in Int /\ t[x] \in Int
      BY <1>a, <2>1, FS_CardinalityType
    <3> HIDE DEF n
    <3>2. \A a, b, c, d \in Int : a * (b * c * d) = (a * b) * (c * d)
      OBVIOUS
    <3>3. n * (share[x] * w[x] * t[x]) = (n * share[x]) * (w[x] * t[x])
      BY <3>1, <3>2
    <3> QED
      BY <3>3 DEF n, v
  <2> QED
    BY <1>a, <1>b, <2>7, <2>8
<1>7. ASSUME NEW p \in P PROVE cols[p] = per[p]
  <2> DEFINE gp == g[p]  pp == part[p]
  <2>1. here(p) \in SUBSET S /\ IsFiniteSet(here(p))
    BY FS_Subset
  <2>2. \A x \in S \ here(p) : gp[x] = 0
    BY <1>2
  <2>3. \A x \in here(p) : gp[x] = v(x)
    BY <1>2
  <2>4. ASSUME NEW x \in here(p) PROVE pp[x] \in Int /\ gp[x] \in Int /\ gp[x] = m[p] * pp[x]
    <3>1. x \in S /\ p \in on[x]
      OBVIOUS
    <3>2. pp[x] = share[x] * w[x] /\ m[p] = t[x]
      BY <1>a, <3>1
    <3>3. share[x] \in Int /\ w[x] \in Int /\ t[x] \in Int
      BY <1>a, <3>1
    <3>4. gp[x] = share[x] * w[x] * t[x]
      BY <2>3
    <3>5. \A a, b, c \in Int : a * b * c = c * (a * b)
      OBVIOUS
    <3>6. share[x] * w[x] * t[x] = t[x] * (share[x] * w[x])
      BY <3>3, <3>5
    <3> QED
      BY <3>2, <3>3, <3>4, <3>6
  <2>5. m[p] \in Int
    BY <1>a
  <2>6. SumFunctionOnSet(pp, here(p)) * m[p] = per[p]
    BY <1>b
  <2>7. cols[p] = SumFunctionOnSet(gp, S)
    BY <1>4
  <2> HIDE DEF gp, pp, here, v
  <2>8. SumFunctionOnSet(gp, S) = SumFunctionOnSet(gp, here(p))
    BY <2>1, <2>2, <2>4, SumSupport DEF Whole
  <2>9. SumFunctionOnSet(gp, here(p)) = m[p] * SumFunctionOnSet(pp, here(p))
    BY <2>1, <2>4, <2>5, SumTimes DEF Whole
  <2>10. SumFunctionOnSet(pp, here(p)) \in Int
    BY <2>1, <2>4, SumType DEF Whole
  <2>11. \A a, b \in Int : a * b = b * a
    OBVIOUS
  <2> QED
    BY <2>5, <2>6, <2>7, <2>8, <2>9, <2>10, <2>11
<1>8. \A x \in S : all[x] \in Int /\ rows[x] \in Int
  <2>1. \A x \in S : all[x] \in Int
    BY <1>a, <1>b
  <2> QED
    BY <1>6, <2>1
<1>9. SumFunctionOnSet(rows, S) = K * SumFunctionOnSet(all, S)
  BY <1>6, <1>8, SumTimes DEF Whole
<1>10. \A p \in P : cols[p] \in Int
  <2>1. ASSUME NEW p \in P PROVE cols[p] \in Int
    <3> DEFINE gp == g[p]
    <3>1. \A x \in S : gp[x] \in Int
      BY <1>1, <1>2
    <3> HIDE DEF gp, v
    <3>2. SumFunctionOnSet(gp, S) \in Int
      BY <3>1, SumType DEF Whole
    <3> QED
      BY <3>2, <1>4 DEF gp
  <2> QED
    BY <2>1
<1>11. SumFunctionOnSet(cols, P) = SumFunctionOnSet(per, P)
  BY <1>7, <1>10, SumEqual DEF Whole
<1> QED
  BY <1>5, <1>9, <1>11

\* w[x] goes whole to the one place e[x], and per[p] is what comes to p.
Grouped(S, e, P, w, per) ==
  /\ P = {e[x] : x \in S}
  /\ \A p \in P : per[p] = SumFunctionOnSet(w, {x \in S : e[x] = p})

\* The places together have what was there.
LEMMA SumGrouped ==
  ASSUME NEW S, IsFiniteSet(S), NEW e, NEW P, NEW w, Whole(w, S), NEW per, Grouped(S, e, P, w, per)
  PROVE  SumFunctionOnSet(per, P) = SumFunctionOnSet(w, S)
<1> USE DEF Grouped
<1> DEFINE f == [x \in S |-> [p \in P |-> IF e[x] = p THEN w[x] ELSE 0]]
           g == [p \in P |-> [x \in S |-> IF e[x] = p THEN w[x] ELSE 0]]
<1>1. IsFiniteSet(P)
  BY ImageFinite
<1>2. \A x \in S : \A p \in P : f[x][p] = (IF e[x] = p THEN w[x] ELSE 0) /\ g[p][x] = f[x][p]
  OBVIOUS
<1>3. \A x \in S : w[x] \in Int /\ e[x] \in P
  BY DEF Whole
<1> HIDE DEF f, g
<1>4. \A x \in S : w[x] = SumFunctionOnSet(f[x], P)
  <2> SUFFICES ASSUME NEW x \in S PROVE w[x] = SumFunctionOnSet(f[x], P)
    OBVIOUS
  <2>1. {e[x]} \in SUBSET P /\ f[x][e[x]] = w[x] /\ \A p \in P \ {e[x]} : f[x][p] = 0
    BY <1>2, <1>3
  <2>2. Whole(f[x], {e[x]})
    BY <1>3, <2>1 DEF Whole
  <2>3. SumFunctionOnSet(f[x], P) = SumFunctionOnSet(f[x], {e[x]})
    BY <1>1, <2>1, <2>2, SumSupport
  <2> QED
    BY <1>3, <2>1, <2>3, SumOne
<1>5. \A p \in P : per[p] = SumFunctionOnSet(g[p], S)
  <2> SUFFICES ASSUME NEW p \in P PROVE per[p] = SumFunctionOnSet(g[p], S)
    OBVIOUS
  <2> DEFINE R == {x \in S : e[x] = p}
  <2>1. R \in SUBSET S /\ \A x \in S \ R : g[p][x] = 0
    BY <1>2
  <2>2. \A x \in R : g[p][x] = w[x] /\ w[x] \in Int
    BY <1>2, <1>3
  <2>3. IsFiniteSet(R)
    BY FS_Subset
  <2>4. per[p] = SumFunctionOnSet(w, R)
    OBVIOUS
  <2> HIDE DEF R
  <2>5. Whole(g[p], R)
    BY <2>2 DEF Whole
  <2>6. SumFunctionOnSet(g[p], S) = SumFunctionOnSet(g[p], R)
    BY <2>1, <2>5, SumSupport
  <2>7. SumFunctionOnSet(g[p], R) = SumFunctionOnSet(w, R)
    BY <2>2, <2>3, <2>5, SumEqual
  <2> QED
    BY <2>4, <2>6, <2>7
<1>6. Table(S, P, f, g, w, per)
  <2>1. \A x \in S : \A p \in P : f[x][p] \in Int /\ g[p][x] = f[x][p]
    BY <1>2, <1>3
  <2> QED
    BY <1>4, <1>5, <2>1 DEF Table
<1> QED
  BY <1>1, <1>6, SumExchange

\* A sum over all sets, those with x beside those without.
Beside(S, x, h, k) ==
  /\ x \notin S
  /\ Whole(h, SUBSET (S \cup {x}))
  /\ \A T \in SUBSET S : k[T] = h[T] + h[T \cup {x}]

\* A sum over the sets with x and without is one over those without.
LEMMA SumSubsets ==
  ASSUME NEW S, IsFiniteSet(S), NEW x, NEW h, NEW k, Beside(S, x, h, k)
  PROVE  SumFunctionOnSet(h, SUBSET (S \cup {x})) = SumFunctionOnSet(k, SUBSET S)
<1> USE DEF Beside
<1> DEFINE A == SUBSET S
           e == [T \in SUBSET S |-> T \cup {x}]
           B == {e[T] : T \in A}
           w == [T \in SUBSET S |-> h[T \cup {x}]]
<1>1. A \cup B = SUBSET (S \cup {x}) /\ A \cap B = {}
  <2>1. \A T \in SUBSET (S \cup {x}) : T \in A \/ T \in B
    <3> SUFFICES ASSUME NEW T \in SUBSET (S \cup {x}), T \notin A PROVE T \in B
      OBVIOUS
    <3>1. T \ {x} \in A /\ (T \ {x}) \cup {x} = T
      OBVIOUS
    <3>2. e[T \ {x}] = T
      BY <3>1
    <3> QED
      BY <3>1, <3>2
  <2>2. \A T \in A : e[T] \in SUBSET (S \cup {x}) /\ x \in e[T] /\ T \in SUBSET (S \cup {x}) /\ x \notin T
    OBVIOUS
  <2> HIDE DEF e, A
  <2>3. \A T \in B : T \in SUBSET (S \cup {x}) /\ x \in T
    BY <2>2
  <2>4. A \cup B \subseteq SUBSET (S \cup {x})
    BY <2>2, <2>3
  <2>5. SUBSET (S \cup {x}) \subseteq A \cup B
    BY <2>1
  <2>6. A \cap B = {}
    BY <2>2, <2>3
  <2> HIDE DEF B
  <2> QED
    BY <2>4, <2>5, <2>6
<1>2. \A T \in A : /\ e[T] = T \cup {x} /\ w[T] = h[e[T]] /\ k[T] = h[T] + w[T]
                   /\ h[T] \in Int /\ w[T] \in Int
  <2>1. \A T \in SUBSET (S \cup {x}) : h[T] \in Int
    BY DEF Whole
  <2> QED
    BY <2>1
<1>3. IsFiniteSet(A)
  BY FS_SUBSET
<1>4. \A T, U \in A : e[T] = e[U] => T = U
  <2> SUFFICES ASSUME NEW T \in A, NEW U \in A, e[T] = e[U] PROVE T = U
    OBVIOUS
  <2>1. T \cup {x} = U \cup {x} /\ x \notin T /\ x \notin U
    OBVIOUS
  <2> QED
    BY <2>1
<1>5. IsFiniteSet(B)
  <2> HIDE DEF e, A
  <2> QED
    BY <1>3, ImageFinite
<1>6. \A p \in B : h[p] = SumFunctionOnSet(w, {T \in A : e[T] = p})
  <2> HIDE DEF e, A, w
  <2> SUFFICES ASSUME NEW T \in A PROVE h[e[T]] = SumFunctionOnSet(w, {U \in A : e[U] = e[T]})
    OBVIOUS
  <2>1. {U \in A : e[U] = e[T]} = {T}
    BY <1>4
  <2>2. SumFunctionOnSet(w, {T}) = w[T]
    BY <1>2, SumOne
  <2> QED
    BY <1>2, <2>1, <2>2
<1>b. B = {e[T] : T \in A}
  OBVIOUS
<1> HIDE DEF e, w, B, A
<1>7. Whole(w, A) /\ Whole(h, A) /\ Whole(h, A \cup B)
  <2>1. Whole(h, A \cup B)
    BY <1>1
  <2> QED
    BY <1>2, <2>1 DEF Whole
<1>8. SumFunctionOnSet(h, B) = SumFunctionOnSet(w, A)
  <2>1. Grouped(A, e, B, w, h)
    BY <1>6, <1>b DEF Grouped
  <2> QED
    BY <1>3, <1>7, <2>1, SumGrouped
<1>9. SumFunctionOnSet(h, A \cup B) = SumFunctionOnSet(h, A) + SumFunctionOnSet(h, B)
  <2>1. B \cap A = {} /\ A \cap B = {}
    BY <1>1
  <2> QED
    BY <1>3, <1>5, <1>7, <2>1, SumUnion
<1>10. SumFunctionOnSet(k, A) = SumFunctionOnSet(h, A) + SumFunctionOnSet(w, A)
  BY <1>2, <1>3, <1>7, SumPlus
<1> QED
  BY <1>1, <1>8, <1>9, <1>10 DEF A

\* Sums of the same terms under other names.
Renamed(S, e, P, w, per) ==
  /\ \A x \in S : e[x] \in P /\ per[e[x]] = w[x]
  /\ \A x, y \in S : e[x] = e[y] => x = y
  /\ \A p \in P : \E x \in S : e[x] = p

LEMMA SumRenamed ==
  ASSUME NEW S, IsFiniteSet(S), NEW e, NEW P, NEW w, Whole(w, S), NEW per, Renamed(S, e, P, w, per)
  PROVE  SumFunctionOnSet(per, P) = SumFunctionOnSet(w, S)
<1>1. P = {e[x] : x \in S}
  BY DEF Renamed
<1>2. ASSUME NEW p \in P PROVE per[p] = SumFunctionOnSet(w, {x \in S : e[x] = p})
  <2>1. PICK y \in S : e[y] = p
    BY DEF Renamed
  <2>2. {x \in S : e[x] = p} = {y}
    BY <2>1 DEF Renamed
  <2>3. w[y] \in Int /\ per[p] = w[y]
    BY <2>1 DEF Renamed, Whole
  <2> QED
    BY <2>2, <2>3, SumOne
<1>3. Grouped(S, e, P, w, per)
  BY <1>1, <1>2 DEF Grouped
<1> QED
  BY <1>3, SumGrouped

\* Sums of terms that are sorted into groups, some of which may be empty.
Sorted(S, e, P, w, per) ==
  /\ \A x \in S : e[x] \in P
  /\ \A p \in P : per[p] = SumFunctionOnSet(w, {x \in S : e[x] = p})

LEMMA SumSorted ==
  ASSUME NEW S, IsFiniteSet(S), NEW e, NEW P, IsFiniteSet(P), NEW w, Whole(w, S), NEW per,
         Sorted(S, e, P, w, per)
  PROVE  SumFunctionOnSet(per, P) = SumFunctionOnSet(w, S)
<1> DEFINE R == {e[x] : x \in S}
<1>1. R \in SUBSET P
  BY DEF Sorted
<1>2. \A p \in R : per[p] = SumFunctionOnSet(w, {x \in S : e[x] = p})
  BY <1>1 DEF Sorted
<1>3. Grouped(S, e, R, w, per)
  BY <1>2 DEF Grouped
<1> HIDE DEF R
<1>4. SumFunctionOnSet(per, R) = SumFunctionOnSet(w, S)
  BY <1>3, SumGrouped
<1>5. ASSUME NEW p \in R PROVE per[p] \in Int
  <2> DEFINE T == {x \in S : e[x] = p}
  <2>1. IsFiniteSet(T) /\ Whole(w, T)
    BY FS_Subset DEF Whole
  <2>2. per[p] = SumFunctionOnSet(w, T)
    BY <1>2
  <2> HIDE DEF T
  <2> QED
    BY <2>1, <2>2, SumType
<1>6. ASSUME NEW p \in P \ R PROVE per[p] = 0
  <2>1. {x \in S : e[x] = p} = {}
    BY <1>6 DEF R
  <2> QED
    BY <2>1, SumEmpty DEF Sorted
<1>7. Whole(per, R)
  BY <1>5 DEF Whole
<1>8. SumFunctionOnSet(per, P) = SumFunctionOnSet(per, R)
  BY <1>1, <1>6, <1>7, SumSupport
<1> QED
  BY <1>4, <1>8

\* A sum is less when no term is more and one is less.
LEMMA SumLess ==
  ASSUME NEW S, IsFiniteSet(S), NEW f1, NEW f2, Whole(f1, S), Whole(f2, S),
         \A x \in S : f1[x] <= f2[x], NEW z \in S, f1[z] < f2[z]
  PROVE  SumFunctionOnSet(f1, S) < SumFunctionOnSet(f2, S)
<1> DEFINE T == S \ {z}
<1>1. IsFiniteSet(T) /\ Whole(f1, T) /\ Whole(f2, T) /\ z \notin T /\ T \cup {z} = S
  BY FS_Subset DEF Whole
<1>2. f1[z] \in Int /\ f2[z] \in Int /\ \A x \in T : f1[x] <= f2[x]
  BY DEF Whole
<1> HIDE DEF T
<1>3. /\ SumFunctionOnSet(f1, S) = SumFunctionOnSet(f1, T) + f1[z]
      /\ SumFunctionOnSet(f2, S) = SumFunctionOnSet(f2, T) + f2[z]
  <2>1. SumFunctionOnSet(f1, T \cup {z}) = SumFunctionOnSet(f1, T) + f1[z]
    BY <1>1, <1>2, SumAdd
  <2>2. SumFunctionOnSet(f2, T \cup {z}) = SumFunctionOnSet(f2, T) + f2[z]
    BY <1>1, <1>2, SumAdd
  <2> QED
    BY <1>1, <2>1, <2>2
<1>4. SumFunctionOnSet(f1, T) <= SumFunctionOnSet(f2, T)
  BY <1>1, <1>2, SumAtMost
<1>5. SumFunctionOnSet(f1, T) \in Int /\ SumFunctionOnSet(f2, T) \in Int
  BY <1>1, SumType
<1> QED
  BY <1>2, <1>3, <1>4, <1>5

\* The sum of two terms.
LEMMA SumTwo ==
  ASSUME NEW fun, NEW x, NEW y, x # y, fun[x] \in Int, fun[y] \in Int
  PROVE  SumFunctionOnSet(fun, {x, y}) = fun[x] + fun[y]
<1>1. IsFiniteSet({x}) /\ Whole(fun, {x}) /\ y \notin {x} /\ {x} \cup {y} = {x, y}
  BY FS_Singleton DEF Whole
<1>2. SumFunctionOnSet(fun, {x} \cup {y}) = SumFunctionOnSet(fun, {x}) + fun[y]
  BY <1>1, SumAdd
<1>3. SumFunctionOnSet(fun, {x}) = fun[x]
  BY SumOne
<1> QED
  BY <1>1, <1>2, <1>3

\* A sum of differences leaves the first and the last.
LEMMA Telescope ==
  ASSUME NEW n \in Nat, n >= 1, NEW h, \A i \in 1 .. n : h[i] \in Int,
         NEW d, \A i \in 1 .. n - 1 : d[i] = h[i] - h[i + 1]
  PROVE  SumFunctionOnSet(d, 1 .. n - 1) = h[1] - h[n]
<1> DEFINE Is(m) == SumFunctionOnSet(d, 1 .. m) = h[1] - h[m + 1]
           A == {m \in Nat : m <= n - 1 => Is(m)}
<1>1. 0 \in A
  <2>1. 1 .. 0 = {} /\ h[1] \in Int /\ 0 + 1 = 1
    OBVIOUS
  <2>2. SumFunctionOnSet(d, 1 .. 0) = 0
    BY <2>1, SumEmpty
  <2>3. Is(0)
    BY <2>1, <2>2
  <2> HIDE DEF Is
  <2> QED
    BY <2>3
<1>2. ASSUME NEW m \in Nat, m \in A PROVE m + 1 \in A
  <2> SUFFICES ASSUME m + 1 <= n - 1 PROVE Is(m + 1)
    OBVIOUS
  <2>1. SumFunctionOnSet(d, 1 .. m) = h[1] - h[m + 1]
    BY <1>2
  <2>2. IsFiniteSet(1 .. m) /\ Whole(d, 1 .. m) /\ m + 1 \notin 1 .. m /\ (1 .. m) \cup {m + 1} = 1 .. m + 1
    <3>1. IsFiniteSet(1 .. m)
      BY FS_Interval
    <3>2. \A i \in 1 .. m : i \in 1 .. n - 1 /\ i \in 1 .. n /\ i + 1 \in 1 .. n
      OBVIOUS
    <3>3. Whole(d, 1 .. m)
      BY <3>2 DEF Whole
    <3> QED
      BY <3>1, <3>3
  <2>3. m + 1 \in 1 .. n - 1 /\ m + 1 \in 1 .. n /\ (m + 1) + 1 \in 1 .. n /\ 1 \in 1 .. n
    OBVIOUS
  <2>4. d[m + 1] = h[m + 1] - h[(m + 1) + 1] /\ h[m + 1] \in Int /\ h[(m + 1) + 1] \in Int /\ h[1] \in Int
    BY <2>3
  <2>5. SumFunctionOnSet(d, (1 .. m) \cup {m + 1}) = SumFunctionOnSet(d, 1 .. m) + d[m + 1]
    <3>1. d[m + 1] \in Int
      BY <2>4
    <3> QED
      BY <2>2, <3>1, SumAdd
  <2>6. SumFunctionOnSet(d, 1 .. m + 1) = SumFunctionOnSet(d, 1 .. m) + d[m + 1]
    BY <2>2, <2>5
  <2>7. SumFunctionOnSet(d, 1 .. m + 1) = h[1] - h[(m + 1) + 1]
    BY <2>1, <2>4, <2>6
  <2> QED
    BY <2>7
<1>3. Nat \subseteq A
  <2> HIDE DEF A
  <2> QED
    BY <1>1, <1>2, InductiveSet
<1>4. n - 1 \in Nat /\ (n - 1) + 1 = n
  OBVIOUS
<1> QED
  BY <1>3, <1>4

-----------------------------------------------------------------------------
(* Loops that end when a measure has run out *)

\* A loop as a recursive function: it stops with a result or goes on elsewhere.
Looping(D, stop, out, next, f) ==
  f = [x \in D |-> IF x \in stop THEN out[x] ELSE f[next[x]]]

\* What is left of it becomes less with each round.
Falling(D, B, m, stop, next) ==
  \A x \in D : m[x] \in 0 .. B - 1 /\ (x \in stop \/ (next[x] \in D /\ m[next[x]] < m[x]))

\* There is such a function.
LEMMA LoopExists ==
  ASSUME NEW D, NEW B \in Nat, NEW m, NEW stop, NEW out, NEW next, Falling(D, B, m, stop, next)
  PROVE  \E f : Looping(D, stop, out, next, f)
<1> DEFINE Body(f, x) == IF x \in stop THEN out[x] ELSE f[next[x]]
           Good(n, f) == f = [x \in D |-> f[x]] /\ \A x \in D : m[x] < n => f[x] = Body(f, x)
           A == {n \in Nat : \E f : Good(n, f)}
<1>1. 0 \in A
  <2>1. Good(0, [x \in D |-> 0])
    BY DEF Falling
  <2> QED
    BY <2>1
<1>2. ASSUME NEW n \in Nat, n \in A PROVE n + 1 \in A
  <2>1. PICK f : Good(n, f)
    BY <1>2
  <2> DEFINE h == [x \in D |-> IF m[x] < n THEN f[x] ELSE Body(f, x)]
  <2>2. ASSUME NEW x \in D, m[x] < n + 1 PROVE h[x] = Body(h, x)
    <3>1. h[x] = Body(f, x)
      BY <2>1
    <3>2. CASE x \in stop
      BY <3>1, <3>2
    <3>3. CASE x \notin stop
      <4>1. next[x] \in D /\ m[next[x]] < m[x] /\ m[x] \in Nat /\ m[next[x]] \in Nat
        BY <3>3 DEF Falling
      <4>2. m[next[x]] < n
        BY <2>2, <4>1
      <4>3. h[next[x]] = f[next[x]]
        BY <4>1, <4>2
      <4> QED
        BY <3>1, <3>3, <4>3
    <3> QED
      BY <3>2, <3>3
  <2>3. h = [x \in D |-> h[x]]
    OBVIOUS
  <2> HIDE DEF h, Body
  <2>4. Good(n + 1, h)
    BY <2>2, <2>3
  <2> QED
    BY <2>4
<1>3. B \in A
  <2> HIDE DEF A
  <2> QED
    BY <1>1, <1>2, InductiveSet
<1>4. PICK f : Good(B, f)
  BY <1>3
<1>5. \A x \in D : f[x] = Body(f, x)
  BY <1>4 DEF Falling
<1>6. f = [x \in D |-> Body(f, x)]
  <2> HIDE DEF Body
  <2> QED
    BY <1>4, <1>5
<1> QED
  BY <1>6 DEF Looping

\* What holds where the loop stops, and before each round after which it holds,
\* holds everywhere.
LEMMA LoopInduction ==
  ASSUME NEW D, NEW B \in Nat, NEW m, NEW stop, NEW next, Falling(D, B, m, stop, next),
         NEW A, \A x \in D : x \in stop \/ next[x] \in A => x \in A
  PROVE  D \subseteq A
<1> DEFINE N == {n \in Nat : \A x \in D : m[x] < n => x \in A}
<1>1. 0 \in N
  BY DEF Falling
<1>2. ASSUME NEW n \in Nat, n \in N PROVE n + 1 \in N
  <2>1. ASSUME NEW x \in D, m[x] < n + 1 PROVE x \in A
    <3>1. x \in stop \/ (next[x] \in D /\ m[next[x]] < m[x] /\ m[x] \in Nat /\ m[next[x]] \in Nat)
      BY DEF Falling
    <3>2. CASE x \in stop
      BY <3>2
    <3>3. CASE x \notin stop
      <4>1. next[x] \in D /\ m[next[x]] < n
        BY <2>1, <3>1, <3>3
      <4> QED
        BY <1>2, <4>1
    <3> QED
      BY <3>2, <3>3
  <2> QED
    BY <2>1
<1>3. B \in N
  <2> HIDE DEF N
  <2> QED
    BY <1>1, <1>2, InductiveSet
<1> QED
  BY <1>3 DEF Falling
=============================================================================
