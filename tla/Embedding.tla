----------------------------- MODULE Embedding -----------------------------
(***************************************************************************)
(* sapi_embedProblem (c-client/src/embed-problem.cpp) and                  *)
(* sapi_unembedAnswer (c-client/src/unembed-answer.cpp).                   *)
(*                                                                         *)
(* A problem over logical variables is laid on a graph of qubits: each     *)
(* variable becomes a chain of qubits.  The call validates the embedding,  *)
(* cleans it (drops qubits no coupling needs), smears it (adds qubits to   *)
(* chains with large fields) and spreads fields and couplings over qubits  *)
(* and couplers.  An answer for the qubits is then read back.              *)
(*                                                                         *)
(* Abstractions.  Numbers are integers and an embedded value is given as   *)
(* Scale times it, where Scale is divisible by every chain length and      *)
(* number of couplers that occurs.  Smearing is modelled for the default   *)
(* ranges, -1 to 1.  Where the code takes any element of an unordered set  *)
(* the model takes every one.  Calls that are refused change nothing.      *)
(***************************************************************************)
EXTENDS Integers, Sequences, FiniteSets, FiniteSetsExt, Functions

CONSTANTS
  Qubits,       \* vertices of the graph, numbers from 0
  Couplers,     \* its edges: sets of two qubits
  Problems,     \* records [h, j] that are tried: functions on the variables
                \* 0 .. n - 1 and on pairs <<u, v>> of them, u < v
  Scale

ASSUME EmbeddingAssumption ==
  /\ Qubits \subseteq Nat /\ IsFiniteSet(Qubits)
  /\ \A e \in Couplers : \E p, q \in Qubits : p # q /\ e = {p, q}
  /\ \A problem \in Problems :
       /\ IsFiniteSet(DOMAIN problem.h)
       /\ problem.h \in [0 .. Cardinality(DOMAIN problem.h) - 1 -> Int]
       /\ problem.j \in [DOMAIN problem.j -> Int]
       /\ \A e \in DOMAIN problem.j : \E u, v \in DOMAIN problem.h : u < v /\ e = <<u, v>>
  /\ Scale \in Int
  /\ \A n \in 1 .. Cardinality(Qubits) : Scale % n = 0
  /\ \A n \in 1 .. Cardinality(Couplers) : Scale % n = 0

VARIABLES
  hs,       \* h, a function on the logical variables
  js,       \* J, a function on pairs of variables <<u, v>> with u < v
  chains,   \* the embedding: the chain of each variable
  embedStage, \* "given", "cleaning", "smearing", "embedded", "refused"
  clean,    \* arguments of the call
  smear,
  order,    \* variables smearEmbedding has yet to look at, in its order
  avail     \* qubits it may add to the first of them

embeddingVars == <<hs, js, chains, embedStage, clean, smear, order, avail>>

Vars == DOMAIN hs
Adjacent(p, q) == {p, q} \in Couplers
Sign(x) == IF x > 0 THEN 1 ELSE IF x < 0 THEN -1 ELSE 0

\* decodeEmbeddings: every qubit names the variable it belongs to, or -1.
DecodeEmbeddings(of) ==
  [v \in 0 .. Max({of[q] : q \in Qubits}) |-> {q \in Qubits : of[q] = v}]

\* toIsingProblem: entries that cancel are no couplings.
NonZero(couplings) ==
  [e \in {e \in DOMAIN couplings : couplings[e] # 0} |-> couplings[e]]

-----------------------------------------------------------------------------
(* Validation *)

\* areConnected: a breadth first search that stays in the chain.
AreConnected(chain) ==
  LET Step(seen) == seen \cup {q \in chain : \E p \in seen : Adjacent(p, q)}
      reach[n \in 0 .. Cardinality(chain)] ==
        IF n = 0 THEN {Min(chain)} ELSE Step(reach[n - 1])
  IN  reach[Cardinality(chain)] = chain

\* A qubit without couplers is not in the adjacency matrix.
ValidateEmbVars(emb) ==
  \A v \in DOMAIN emb :
    /\ emb[v] # {}
    /\ emb[v] \subseteq UNION Couplers
    /\ AreConnected(emb[v])

CouplersOf(emb, e) ==
  {c \in emb[e[1]] \X emb[e[2]] : Adjacent(c[1], c[2])}

ValidateEmbEdges(emb, j) == \A e \in DOMAIN j : CouplersOf(emb, e) # {}

-----------------------------------------------------------------------------
(* sapi_embedProblem *)

\* Chains beyond the problem's variables get variables without a field.
Padded(h, emb) == [v \in DOMAIN emb |-> IF v \in DOMAIN h THEN h[v] ELSE 0]

\* The call as it comes, and whether it is refused.  Bound: at most one chain
\* more than the largest problem has variables.
EmbeddingInit ==
  \E problem \in Problems, of \in [Qubits -> -1 .. Max({Cardinality(DOMAIN p.h) : p \in Problems})] :
    LET emb == DecodeEmbeddings(of)
        ok == /\ DOMAIN problem.h \subseteq DOMAIN emb
              /\ ValidateEmbVars(emb) /\ ValidateEmbEdges(emb, NonZero(problem.j))
    IN
    /\ hs = IF ok THEN Padded(problem.h, emb) ELSE <<>>
    /\ js = IF ok THEN NonZero(problem.j) ELSE <<>>
    /\ chains = IF ok THEN emb ELSE <<>>
    /\ embedStage = IF ok THEN "given" ELSE "refused"
    /\ clean \in IF ok THEN BOOLEAN ELSE {FALSE}
    /\ smear \in IF ok THEN BOOLEAN ELSE {FALSE}
    /\ order = <<>>
    /\ avail = {}

UsedVars == {v \in Vars : hs[v] # 0 \/ \E e \in DOMAIN js : v \in {e[1], e[2]}}

\* cleanEmbedding up to its loop: a variable that the problem does not mention
\* keeps the first qubit of its chain.
StartCleaning ==
  /\ embedStage = "given" /\ clean
  /\ chains' = [v \in Vars |-> IF v \in UsedVars THEN chains[v] ELSE {Min(chains[v])}]
  /\ embedStage' = "cleaning"
  /\ UNCHANGED <<hs, js, clean, smear, order, avail>>

InterchainVars ==
  UNION {{c[1], c[2]} : c \in UNION {CouplersOf(chains, e) : e \in DOMAIN js}}

\* Mutant: leaves that carry couplings are pruned too.
Prunable_AnyLeaf(v, q) ==
  Cardinality({p \in chains[v] : Adjacent(p, q)}) = 1

\* A leaf of a chain that no coupling needs.
Prunable(v, q) ==
  /\ q \in chains[v] \ InterchainVars
  /\ Cardinality({p \in chains[v] : Adjacent(p, q)}) = 1

\* One round of the loop over leaves.
PruneLeaf(v, q) ==
  /\ embedStage = "cleaning"
  /\ Prunable(v, q)
  /\ chains' = [chains EXCEPT ![v] = @ \ {q}]
  /\ UNCHANGED <<hs, js, embedStage, clean, smear, order, avail>>

CleaningOver ==
  /\ embedStage = "cleaning" => \A v \in Vars : \A q \in chains[v] : ~Prunable(v, q)
  /\ embedStage = "given" => ~clean

\* Fractions <<n, d>>, d > 0.
Less(a, b) == a[1] * b[2] < b[1] * a[2]

\* jScale: the least number of couplers per unit of coupling.
JScale ==
  LET all == {<<Cardinality(CouplersOf(chains, e)), js[e] * Sign(js[e])>> : e \in DOMAIN js}
  IN  CHOOSE a \in all : \A b \in all : ~Less(b, a)

\* hScales divides by the field of variable 0, whichever variable it is for: the
\* quotient is infinite if that field is zero, and its sign is arbitrary.
HScale(v) ==
  LET n == Sign(hs[v]) * Cardinality(chains[v]) * Sign(hs[0]) IN
  IF hs[0] = 0 THEN <<Sign(hs[v]) * 1000000, 1>> ELSE <<n, hs[0] * Sign(hs[0])>>

\* The variables to smear: sorted by scale, up to the first that is not below
\* jScale.
SmearOrders ==
  LET below == {v \in Vars : hs[v] # 0 /\ Less(HScale(v), JScale)}
      Before(u, v) == Less(HScale(u), HScale(v)) \/ (~Less(HScale(v), HScale(u)) /\ u < v)
  IN  {o \in [1 .. Cardinality(below) -> below] :
         \A m, n \in 1 .. Cardinality(below) : m < n => Before(o[m], o[n])}

StartSmearing ==
  /\ embedStage \in {"given", "cleaning"} /\ CleaningOver /\ smear
  /\ embedStage' = "smearing"
  /\ order' \in IF DOMAIN js = {} THEN {<<>>} ELSE SmearOrders
  /\ UNCHANGED <<hs, js, chains, clean, smear, avail>>

\* targetSize asks whether the index of the variable, not its field, is positive.
BelowTarget(v) ==
  Cardinality(chains[v]) * JScale[2] < JScale[1] * hs[v] * (IF v > 0 THEN 1 ELSE -1)

Taken == UNION {chains[v] : v \in Vars}

\* avail is filled again only when it has been used up.
Available(v) ==
  IF avail # {} THEN avail ELSE {q \in Qubits \ Taken : \E p \in chains[v] : Adjacent(p, q)}

\* One qubit is added to the chain in turn.
Grow(q) ==
  /\ embedStage = "smearing" /\ order # <<>>
  /\ BelowTarget(Head(order))
  /\ q \in Available(Head(order))
  /\ chains' = [chains EXCEPT ![Head(order)] = @ \cup {q}]
  /\ avail' = Available(Head(order)) \ {q}
  /\ UNCHANGED <<hs, js, embedStage, clean, smear, order>>

NextToSmear ==
  /\ embedStage = "smearing" /\ order # <<>>
  /\ ~BelowTarget(Head(order)) \/ Available(Head(order)) = {}
  /\ order' = Tail(order)
  /\ avail' = {}
  /\ UNCHANGED <<hs, js, chains, embedStage, clean, smear>>

\* embedProblem and convertProblemResult.
Embed ==
  /\ \/ embedStage \in {"given", "cleaning"} /\ CleaningOver /\ ~smear
     \/ embedStage = "smearing" /\ order = <<>>
  /\ embedStage' = "embedded"
  /\ UNCHANGED <<hs, js, chains, clean, smear, order, avail>>

EmbeddingNext ==
  \/ StartCleaning
  \/ \E v \in Vars, q \in Qubits : PruneLeaf(v, q)
  \/ StartSmearing
  \/ \E q \in Qubits : Grow(q)
  \/ NextToSmear
  \/ Embed

EmbeddingSpec == EmbeddingInit /\ [][EmbeddingNext]_embeddingVars

\* The embedded problem, Scale times.
EmbeddedH(q) ==
  SumFunction([v \in {v \in Vars : q \in chains[v]} |-> (Scale \div Cardinality(chains[v])) * hs[v]])
EmbeddedJ(p, q) ==
  SumFunction([e \in {e \in DOMAIN js : <<p, q>> \in CouplersOf(chains, e)} |->
    (Scale \div Cardinality(CouplersOf(chains, e))) * js[e]])
Jc == {e \in Couplers : \E v \in Vars : e \subseteq chains[v]}

-----------------------------------------------------------------------------
(* sapi_unembedAnswer, for one sample of the qubits *)

Intact(sample, v) == \A p, q \in chains[v] : sample[p] = sample[q]
Ones(sample, v) == Cardinality({q \in chains[v] : sample[q] = 1})

\* The field that the others exert on v; broken chains not yet set count zero.
LocalField(answer, v) ==
  hs[v] + SumFunction([e \in {e \in DOMAIN js : v \in {e[1], e[2]}} |->
            js[e] * answer[IF e[1] = v THEN e[2] ELSE e[1]]])

\* Mutant: the fields are not brought up to date as chains are set.
MinimizeEnergy_StaleFields(sample) ==
  LET start == [v \in Vars |-> IF Intact(sample, v) THEN sample[Min(chains[v])] ELSE 0] IN
  [v \in Vars |-> IF start[v] # 0 THEN start[v] ELSE IF LocalField(start, v) > 0 THEN -1 ELSE 1]

\* unembedMinimizeEnergy: the broken chain with the largest field is set next
\* (of equal ones, some one), against its field.
MinimizeEnergy(sample) ==
  LET start == [v \in Vars |-> IF Intact(sample, v) THEN sample[Min(chains[v])] ELSE 0]
      Size(answer, v) == LocalField(answer, v) * Sign(LocalField(answer, v))
      Largest(answer) ==
        LET broken == {v \in Vars : answer[v] = 0}
        IN  CHOOSE v \in broken : \A u \in broken : Size(answer, u) <= Size(answer, v)
      Set(answer) ==
        IF \A v \in Vars : answer[v] # 0 THEN answer
        ELSE [answer EXCEPT ![Largest(answer)] = IF LocalField(answer, Largest(answer)) > 0 THEN -1 ELSE 1]
      after[n \in 0 .. Cardinality(Vars)] == IF n = 0 THEN start ELSE Set(after[n - 1])
  IN  after[Cardinality(Vars)]

\* unembedVote and unembedWeightedRandom: the values v may get.
Vote(sample, v) ==
  LET ones == Ones(sample, v)  others == Cardinality(chains[v]) - ones IN
  {s \in {-1, 1} : s * (ones - others) >= 0}
WeightedRandom(sample, v) ==
  {s \in {-1, 1} : s = 1 => Ones(sample, v) > 0} \ {s \in {-1} : Ones(sample, v) = Cardinality(chains[v])}

\* unembedDiscard drops the sample if a chain is broken.
Discard(sample) ==
  IF \A v \in Vars : Intact(sample, v)
  THEN {[v \in Vars |-> sample[Min(chains[v])]]} ELSE {}

-----------------------------------------------------------------------------
(* Properties *)

Spins(S) == [S -> {-1, 1}]
Energy(s) ==
  SumFunction([v \in Vars |-> hs[v] * s[v]])
    + SumFunction([e \in DOMAIN js |-> js[e] * s[e[1]] * s[e[2]]])
EmbeddedEnergy(sample) ==
  SumFunction([q \in Taken |-> EmbeddedH(q) * sample[q]])
    + SumFunction([e \in Taken \X Taken |-> EmbeddedJ(e[1], e[2]) * sample[e[1]] * sample[e[2]]])

\* Whatever cleaning and smearing do to the chains, in any order of the
\* unordered sets: every variable keeps a connected chain of its own, every
\* coupling keeps a coupler, and a sample in which no chain is broken has the
\* energy of the logical problem.
EmbeddingKeepsProblem ==
  embedStage = "embedded" =>
    /\ ValidateEmbVars(chains) /\ ValidateEmbEdges(chains, js)
    /\ \A u, v \in Vars : u # v => chains[u] \cap chains[v] = {}
    /\ \A s \in Spins(Vars) :
         EmbeddedEnergy([q \in Taken |-> s[CHOOSE v \in Vars : q \in chains[v]]]) = Scale * Energy(s)

\* Reading an answer back: every method agrees with the sample on the chains
\* that are intact, and minimizing the energy is no worse than leaving the
\* broken chains to chance (their mean energy is that with zeros for them).
UnembeddingRepairs ==
  embedStage = "embedded" => \A sample \in Spins(Taken) :
    LET start == [v \in Vars |-> IF Intact(sample, v) THEN sample[Min(chains[v])] ELSE 0]
        answer == MinimizeEnergy(sample)
    IN  /\ Energy(answer) <= Energy(start)
        /\ \A v \in Vars : Intact(sample, v) =>
             /\ answer[v] = start[v]
             /\ Vote(sample, v) = {start[v]} /\ WeightedRandom(sample, v) = {start[v]}
             /\ \A a \in Discard(sample) : a[v] = start[v]
=============================================================================
