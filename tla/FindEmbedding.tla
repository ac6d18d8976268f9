---------------------------- MODULE FindEmbedding ----------------------------
(***************************************************************************)
(* findEmbedding (find-embedding/src/find_embedding.cpp): looks for chains *)
(* of target vertices, one for each variable of a problem graph.           *)
(*                                                                         *)
(* The components of the problem graph are embedded one after the other in *)
(* what is left of the target.  The heuristic lets chains overlap: it      *)
(* places every variable next to the chains of its neighbours, which grow  *)
(* towards it, then takes variables out and places them again while that   *)
(* reduces the overlap.  Once no chains overlap it shortens them.  At the  *)
(* end verifyEmbedding looks at the result.                                *)
(*                                                                         *)
(* Vertices and variables are numbers; variables are numbered as after the *)
(* random relabelling of a try.  Where the code draws, any order or vertex *)
(* is taken.  The clock and the user may end each loop.                    *)
(***************************************************************************)
EXTENDS Integers, FiniteSets, FiniteSetsExt, SequencesExt

CONSTANTS
  Target,           \* edges of A: sets of two vertices
  Graphs,           \* edges of the problem graphs that are tried: sets of one
                    \* or two variables, which are numbered from 1
  Alpha,            \* base of the weights, drawn for each try from 2^2 to 2^10 in the code
  Tries, MaxNoImprovement,    \* parameters of the call
  MaxShuffle        \* 5 in the code

\* Rows and columns are numbered.
ASSUME FindAssumption ==
  /\ IsFiniteSet(Target)
  /\ \A e \in Target : e \subseteq Nat /\ \E p, q \in e : e = {p, q}
  /\ \A g \in Graphs :
       g # {} /\ IsFiniteSet(g) /\ \A e \in g : e \subseteq Nat \ {0} /\ \E u, v \in e : e = {u, v}
  /\ Alpha \in Nat \ {0}

VARIABLES
  graph,            \* edges of Q
  found,            \* the result: the chain of each variable
  workingSet,       \* vertices that are free
  todo,             \* components not embedded yet; the first is being tried
  tries,
  place,            \* where the call is
  orderQ,           \* the variables in the order they are visited in
  at,               \* the position in it
  emb, bestEmb,     \* vertexEmbedding, bestEmbedding
  previous, rounds, notImproved, patience, shuffle,    \* of the improvement
  edgePath, rootVertex    \* of the minimization

searchVars == <<previous, rounds, notImproved, patience, shuffle>>
pathVars == <<edgePath, rootVertex>>
outerVars == <<graph, found, workingSet, todo, tries>>
findVars == <<outerVars, place, orderQ, at, emb, bestEmb, searchVars, pathVars>>

TargetVertices == UNION Target

\* A number that no edge mentions is a variable too, as long as a larger one is.
SourceVars == 1 .. Max(UNION graph)
Component == Head(todo)
AdjacentVars(u) == {v \in Component : {u, v} \in graph}
Total(fun, S) == MapThenSumSet(LAMBDA x : fun[x], S)

-----------------------------------------------------------------------------
(* dijkstraShortestPath *)

\* The first of the vertices in C, nearest first and by number when as near.
Nearest(tree, C) ==
  CHOOSE v \in C : \A w \in C \ {v} :
    \/ tree[v].dist < tree[w].dist
    \/ tree[v].dist = tree[w].dist /\ v < w

\* The vertices next to those that are settled, with the best way to each; no
\* path goes on from a vertex that is shut.
Fringe(tree, within, weight, shut) ==
  LET before(v) == {w \in DOMAIN tree \ shut : {v, w} \in Target} IN
  [v \in {v \in within \ DOMAIN tree : before(v) # {}} |->
     LET w == Nearest(tree, before(v))
     IN  [dist |-> tree[w].dist + weight[v], path |-> Append(tree[w].path, v)]]

Settle(tree, within, weight, shut) ==
  LET fringe == Fringe(tree, within, weight, shut)
      new == Nearest(fringe, DOMAIN fringe)
  IN  IF DOMAIN fringe = {} THEN tree
      ELSE [v \in DOMAIN tree \cup {new} |-> IF v = new THEN fringe[v] ELSE tree[v]]

\* The shortest paths from the chain S to the vertices it reaches.
ShortestPaths(S, within, weight, shut) ==
  LET tree[n \in 0 .. Cardinality(within)] ==
        IF n = 0 THEN [v \in S |-> [dist |-> 0, path |-> <<v>>]]
        ELSE Settle(tree[n - 1], within, weight, shut)
  IN  tree[Cardinality(within)]

-----------------------------------------------------------------------------
(* findClosestVertex *)

Inner(p) == SubSeq(p, 2, Len(p) - 1)

\* Vertices that the paths to two neighbours share ("doubles").
Doubles(path) ==
  {v \in TargetVertices : \E i, j \in DOMAIN path :
    i # j /\ v \in ToSet(Inner(path[i])) \cap ToSet(Inner(path[j]))}
FirstIn(p, S) == Min({Len(p) + 1} \cup {i \in DOMAIN p : p[i] \in S})

\* A path belongs to the chain it comes from up to the first shared vertex ...
OwnPart(path, i) ==
  LET p == Inner(path[i]) IN SubSeq(p, 1, FirstIn(p, Doubles(path)) - 1)

\* ... and from there on to the new chain, until it meets that.
Lengthened(tree, path, i) ==
  LET p == Inner(path[i])
      upath == SubSeq(p, FirstIn(p, Doubles(path)), Len(p))
  IN  IF i \in DOMAIN path THEN tree \cup ToSet(SubSeq(upath, 1, FirstIn(upath, tree) - 1)) ELSE tree
UTree(root, path) ==
  LET tree[n \in 0 .. Max({0} \cup DOMAIN path)] ==
        IF n = 0 THEN {root} ELSE Lengthened(tree[n - 1], path, n)
  IN  tree[Max({0} \cup DOMAIN path)]

Overlap(embedding, v) == Cardinality({u \in Component : v \in embedding[u]})
\* The weight of a vertex that n chains share.
Power(n) == LET power[k \in 0 .. n] == IF k = 0 THEN 1 ELSE Alpha * power[k - 1] IN power[n]
Weights(embedding) == [v \in TargetVertices |-> Power(Overlap(embedding, v))]

\* The vertices nearest to the chains "sets" of some neighbours, each with the
\* paths from these: records [root, path].
ClosestVertices(sets, embedding, fullBags) ==
  LET weight == Weights(embedding)
      tree == [i \in DOMAIN sets |-> ShortestPaths(sets[i], workingSet, weight, fullBags \ sets[i])]
      reached == {v \in workingSet \ fullBags : \A i \in DOMAIN sets : v \in DOMAIN tree[i]}
      totalDist ==
        [v \in reached |-> MapThenSumSet(LAMBDA i :
           tree[i][v].dist + (IF v \in sets[i] THEN weight[v] ELSE 0), DOMAIN sets)]
  IN  {[root |-> v, path |-> [i \in DOMAIN sets |-> tree[i][v].path]] :
         v \in {v \in reached : \A w \in reached : totalDist[v] <= totalDist[w]}}

\* A variable with no neighbour yet goes to a vertex of least weight.
LeastUsed(embedding) ==
  {[root |-> v, path |-> <<>>] : v \in
    {v \in workingSet : \A w \in workingSet : Overlap(embedding, v) <= Overlap(embedding, w)}}

\* The places for u next to the chains of nbrs, when it has been taken out.
Places(u, nbrs, fullBags) ==
  LET without == [emb EXCEPT ![u] = {}] IN
  IF nbrs = {} THEN LeastUsed(without)
  ELSE ClosestVertices([i \in nbrs |-> emb[i]], without, fullBags)

Extended(embedding, path, own(_)) ==
  [v \in Component |-> embedding[v] \cup (IF v \in DOMAIN path THEN ToSet(own(v)) ELSE {})]

\* Mutant: the neighbours' chains do not grow towards u.
Placed_NoPath(u, p) == [emb EXCEPT ![u] = UTree(p.root, p.path)]

\* The new chain, and the longer chains of the neighbours.
Placed(u, p) ==
  Extended([emb EXCEPT ![u] = UTree(p.root, p.path)], p.path, LAMBDA i : OwnPart(p.path, i))

-----------------------------------------------------------------------------
(* How good an embedding is *)

BagWidth(e) == Max({Overlap(e, v) : v \in TargetVertices})
NumMaxBags(e) == Cardinality({v \in workingSet : Overlap(e, v) = BagWidth(e)})
MaxChainSize(e) == Max({Cardinality(e[u]) : u \in Component})
NumMaxChains(e) == Cardinality({u \in Component : Cardinality(e[u]) = MaxChainSize(e)})
QubitsUsed(e) == Total([u \in Component |-> Cardinality(e[u])], Component)

\* Compared by the first measure in which they differ.
Better(a, b) == \E i \in DOMAIN a : a[i] < b[i] /\ \A j \in 1 .. i - 1 : a[j] = b[j]
Bags(e) == <<BagWidth(e), NumMaxBags(e)>>
Chains(e) == <<MaxChainSize(e), NumMaxChains(e)>>

-----------------------------------------------------------------------------
(* findEmbedding *)

\* Components come largest first; equal ones in any order.
LargestFirst(S) ==
  {s \in [1 .. Cardinality(S) -> S] :
    \A i, j \in DOMAIN s : i < j => s[i] # s[j] /\ Cardinality(s[i]) >= Cardinality(s[j])}

\* The smallest sets that no edge leaves.
ComponentsOf(vertices, edges) ==
  LET closed == {C \in SUBSET vertices \ {{}} : \A e \in edges : e \cap C # {} => e \subseteq C}
  IN  {C \in closed : \A D \in closed : D \subseteq C => D = C}

FindInit ==
  /\ graph \in Graphs
  /\ found = [u \in SourceVars |-> {}]
  /\ workingSet = TargetVertices
  /\ todo \in LargestFirst(ComponentsOf(SourceVars, graph))
  /\ tries = 0
  /\ place = "component"
  /\ orderQ = <<>> /\ at = 0 /\ emb = <<>> /\ bestEmb = <<>>
  /\ previous = <<>> /\ rounds = 0 /\ notImproved = 0 /\ patience = 0 /\ shuffle = 0
  /\ edgePath = <<>> /\ rootVertex = <<>>

\* What a component leaves behind is forgotten.
Forget ==
  /\ orderQ' = <<>> /\ at' = 0 /\ emb' = <<>> /\ bestEmb' = <<>>
  /\ previous' = <<>> /\ rounds' = 0 /\ notImproved' = 0 /\ patience' = 0 /\ shuffle' = 0
  /\ edgePath' = <<>> /\ rootVertex' = <<>>

\* No room, no try left or no time.
Fail ==
  /\ place = "component" /\ todo # <<>>
  /\ found' = <<>>
  /\ place' = "verify"
  /\ UNCHANGED <<graph, workingSet, todo, tries, orderQ, at, emb, bestEmb, searchVars, pathVars>>

\* No time before a component has been tried.
TimeOut ==
  /\ place = "component" /\ todo # <<>> /\ tries = 0
  /\ place' = "verify"
  /\ UNCHANGED <<outerVars, orderQ, at, emb, bestEmb, searchVars, pathVars>>

StartTry ==
  /\ place = "component" /\ todo # <<>>
  /\ Cardinality(Component) <= Cardinality(workingSet) /\ tries < Tries
  /\ orderQ' \in SetToSeqs(Component)
  /\ \E v \in workingSet :
       emb' = [u \in Component |-> IF u = orderQ'[1] THEN {v} ELSE {}]
  /\ at' = 2
  /\ place' = "placing"
  /\ tries' = tries + 1
  /\ UNCHANGED <<graph, found, workingSet, todo, bestEmb, searchVars, pathVars>>

\* vertexAdditionHeuristic hands over an embedding: used if no chains overlap.
Accept(e, interrupted) ==
  IF BagWidth(e) > 1
  THEN /\ place' = IF interrupted THEN "verify" ELSE "component"
       /\ found' = IF interrupted THEN <<>> ELSE found
       /\ UNCHANGED <<graph, workingSet, todo, tries>>
  ELSE /\ place' = IF interrupted \/ Len(todo) = 1 THEN "verify" ELSE "component"
       /\ found' = [u \in DOMAIN found |-> IF u \in Component THEN e[u] ELSE found[u]]
       /\ workingSet' = workingSet \ UNION {e[u] : u \in Component}
       /\ todo' = Tail(todo)
       /\ tries' = 0
       /\ UNCHANGED graph

TryFails ==
  /\ place' = "component"
  /\ Forget
  /\ UNCHANGED outerVars

Current == orderQ[at]
Before == {orderQ[i] : i \in 1 .. at - 1}

\* The initial placement of the next variable.
Place ==
  /\ place = "placing" /\ at <= Len(orderQ)
  /\ LET places == Places(Current, AdjacentVars(Current) \cap Before, {}) IN
     \/ places = {} /\ TryFails
     \/ /\ \E p \in places : emb' = Placed(Current, p)
        /\ at' = at + 1
        /\ UNCHANGED <<outerVars, place, orderQ, bestEmb, searchVars, pathVars>>

AllPlaced ==
  /\ place = "placing" /\ at > Len(orderQ)
  /\ bestEmb' = emb
  /\ shuffle' = 0
  /\ place' = "shuffle"
  /\ UNCHANGED <<outerVars, orderQ, at, emb, previous, rounds, notImproved, patience, pathVars>>

StartShuffle ==
  /\ place = "shuffle" /\ shuffle < MaxShuffle
  /\ shuffle' = shuffle + 1
  /\ IF shuffle = 0 THEN UNCHANGED <<orderQ, emb>>
     ELSE orderQ' \in SetToSeqs(Component) /\ emb' = bestEmb
  /\ notImproved' = 1 /\ patience' = MaxNoImprovement /\ rounds' = 1
  /\ place' = "round"
  /\ UNCHANGED <<outerVars, at, bestEmb, previous, pathVars>>

StartRound ==
  /\ place = "round" /\ notImproved <= patience
  /\ previous' = emb
  /\ at' = 1
  /\ place' = "improving"
  /\ UNCHANGED <<outerVars, orderQ, emb, bestEmb, rounds, notImproved, patience, shuffle, pathVars>>

\* One variable is taken out and placed again.  There is a place: all chains lie
\* in one part of the target, else the initial placement had failed.
Rewire ==
  /\ place = "improving" /\ at <= Len(orderQ)
  /\ \E p \in Places(Current, AdjacentVars(Current), {}) :
       LET e == Placed(Current, p)
           disjoint == BagWidth(bestEmb) = 1
           Measure(x) == Append(Bags(x), MaxChainSize(x))
           improved == IF disjoint THEN BagWidth(e) = 1 /\ Better(Chains(e), Chains(bestEmb))
                       ELSE Better(Measure(e), Measure(bestEmb))
       IN  /\ bestEmb' = IF improved THEN e ELSE bestEmb
           /\ notImproved' = IF improved THEN 0 ELSE notImproved
           /\ patience' = IF disjoint THEN 2 ELSE patience
           /\ emb' = IF rounds = 1 /\ Better(Bags(bestEmb'), Bags(e)) THEN bestEmb' ELSE e
  /\ at' = at + 1
  /\ UNCHANGED <<outerVars, place, orderQ, previous, rounds, shuffle, pathVars>>

\* A round that changes nothing is the last, and the shuffles are over.  From
\* the second round on a worse embedding is kept.
EndRound ==
  /\ place = "improving" /\ at > Len(orderQ)
  /\ notImproved' = IF previous = emb THEN patience + 1 ELSE notImproved + 1
  /\ shuffle' = IF previous = emb THEN MaxShuffle ELSE shuffle
  /\ rounds' = 2
  /\ at' = 1
  /\ previous' = <<>>
  /\ place' = "round"
  /\ UNCHANGED <<outerVars, orderQ, emb, bestEmb, patience, pathVars>>

Stop == BagWidth(bestEmb) # 2 \/ NumMaxBags(bestEmb) > 5 \/ shuffle = MaxShuffle

\* No patience left, no time, or chains that do not overlap and fast_embedding.
EndShuffle ==
  /\ place = "round"
  /\ place' = IF Stop THEN "decide" ELSE "shuffle"
  /\ UNCHANGED <<outerVars, orderQ, at, emb, bestEmb, searchVars, pathVars>>

\* The user has interrupted the search.  Variables may have no chain yet.
Interrupt ==
  /\ \/ place = "placing" /\ at <= Len(orderQ) /\ Accept(emb, TRUE)
     \/ place \in {"improving", "firstPass", "pass"} /\ Accept(bestEmb, TRUE)
  /\ Forget

\* The chains overlap, fast_embedding is set or there is no time.
Decide ==
  /\ place = "decide"
  /\ Accept(bestEmb, FALSE)
  /\ Forget

-----------------------------------------------------------------------------
(* minimizeChainWidthWithPaths *)

StartMinimizing ==
  /\ place = "decide" /\ BagWidth(bestEmb) = 1
  /\ orderQ' \in {s \in SetToSeqs(Component) : \A i, j \in DOMAIN s : i < j => s[i] < s[j]}
  /\ at' = 1
  /\ emb' = bestEmb
  /\ edgePath' = [e \in {e \in graph : e \subseteq Component} |-> {}]
  /\ rootVertex' = [u \in Component |-> 0]
  /\ place' = "firstPass"
  /\ previous' = <<>> /\ rounds' = 0 /\ notImproved' = 0 /\ patience' = 2 /\ shuffle' = 0
  /\ UNCHANGED <<outerVars, bestEmb>>

\* From the second pass on a neighbour of u keeps what its paths to others need.
OwnChain(u, i) == emb[i] \cap UNION {edgePath[{i, t}] : t \in AdjacentVars(i) \ {u}}

\* How much of its part of a path a chain of the given size takes; u gets the rest.
Share(part, size) ==
  SubSeq(part, 1, Min({Len(part), Max({0, MaxChainSize(bestEmb) - size - 1})}))
Rest(part, size) == ToSet(part) \ ToSet(Share(part, size))

\* The chains when u is out, and those it is placed next to.
CutBack(u) ==
  [v \in Component |-> IF v = u THEN {}
                       ELSE IF v \in AdjacentVars(u) /\ place = "pass" THEN OwnChain(u, v) ELSE emb[v]]
Ends(u) == [i \in AdjacentVars(u) |-> IF place = "firstPass" THEN emb[i] ELSE CutBack(u)[i]]

\* Where u may go: where no other chain is.
ShortPlaces(u) ==
  ClosestVertices(Ends(u), CutBack(u), {v \in workingSet : Overlap(CutBack(u), v) >= 1})

Shortened(u, p) ==
  LET part(i) == OwnPart(p.path, i)
      size(i) == Cardinality(Ends(u)[i])
      chain == UTree(p.root, p.path) \cup UNION {Rest(part(i), size(i)) : i \in AdjacentVars(u)}
  IN  Extended([CutBack(u) EXCEPT ![u] = chain], p.path, LAMBDA i : Share(part(i), size(i)))

\* The path to a neighbour that has been placed begins at the root of that one
\* and goes on within its chain.
Inside(S, root, v) == ShortestPaths({root}, S, [w \in S |-> 1], {})[v].path

\* Mutant: the way within the neighbour's chain is forgotten.
EdgePaths_NoInside(u, p, e) ==
  LET known == {i \in AdjacentVars(u) : place = "pass" \/ i < u} IN
  [x \in DOMAIN edgePath |->
     IF x \in {{i, u} : i \in known} THEN UNION {ToSet(p.path[i]) : i \in {i \in known : {i, u} = x}}
     ELSE edgePath[x]]

EdgePaths(u, p, e) ==
  LET known == {i \in AdjacentVars(u) : place = "pass" \/ i < u}
      way(i) == ToSet(Inside(e[i], rootVertex[i], p.path[i][1])) \cup ToSet(p.path[i])
  IN  [x \in DOMAIN edgePath |->
         IF x \in {{i, u} : i \in known} THEN UNION {way(i) : i \in {i \in known : {i, u} = x}}
         ELSE edgePath[x]]

\* One variable is taken out and placed again.
Shorten ==
  /\ place \in {"firstPass", "pass"} /\ at <= Len(orderQ)
  /\ LET u == Current
         nbrs == AdjacentVars(u)
         places == ShortPlaces(u)
     IN
     \/ nbrs # {} /\ places = {} /\ Accept(bestEmb, FALSE) /\ Forget
     \/ /\ nbrs = {}
        /\ at' = at + 1
        /\ UNCHANGED <<outerVars, place, orderQ, emb, bestEmb, searchVars, pathVars>>
     \/ /\ nbrs # {}
        /\ \E p \in places :
             LET e == Shortened(u, p)
                 Measure(x) == IF place = "firstPass" THEN Chains(x) ELSE Append(Chains(x), QubitsUsed(x))
                 better == BagWidth(e) <= 1 /\ Better(Measure(e), Measure(bestEmb))
             IN  /\ emb' = e
                 /\ edgePath' = EdgePaths(u, p, e)
                 /\ rootVertex' = [rootVertex EXCEPT ![u] = p.root]
                 /\ bestEmb' = IF better THEN e ELSE bestEmb
                 /\ notImproved' = IF better THEN 0 ELSE notImproved
        /\ at' = at + 1
        /\ UNCHANGED <<outerVars, place, orderQ, previous, rounds, patience, shuffle>>

EndPass ==
  /\ place \in {"firstPass", "pass"} /\ at > Len(orderQ)
  /\ LET n == IF place = "firstPass" THEN 0 ELSE notImproved + 1 IN
     IF n > patience THEN Accept(bestEmb, FALSE) /\ Forget
     ELSE /\ notImproved' = n
          /\ at' = 1
          /\ place' = "pass"
          /\ UNCHANGED <<outerVars, orderQ, emb, bestEmb, previous, rounds, patience, shuffle, pathVars>>

-----------------------------------------------------------------------------
(* The end *)

\* verifyEmbedding: only the first edge of a variable has to be there, and the
\* vertices of a chain have to be connected in the whole target.
VerifyEmbedding(e) ==
  /\ e # <<>>
  /\ \A u, v \in DOMAIN e : u # v => e[u] \cap e[v] = {}
  /\ \A u \in DOMAIN e : e[u] # {} /\ \E C \in ComponentsOf(TargetVertices, Target) : e[u] \subseteq C
  /\ \A u \in UNION graph : \E x \in graph :
       u \in x /\ \E v \in x : {u, v} = x /\ \E p \in e[u], q \in e[v] : {p, q} \in Target

\* What does not pass is cleared only if the call is verbose.
Verify ==
  /\ place = "verify"
  /\ \E verbose \in BOOLEAN :
       found' = IF VerifyEmbedding(found) \/ ~verbose THEN found ELSE <<>>
  /\ place' = "returned"
  /\ UNCHANGED <<graph, workingSet, todo, tries, orderQ, at, emb, bestEmb, searchVars, pathVars>>

FindNext ==
  \/ Fail \/ TimeOut \/ StartTry \/ Place \/ AllPlaced
  \/ StartShuffle \/ StartRound \/ Rewire \/ EndRound \/ EndShuffle
  \/ Interrupt \/ Decide \/ StartMinimizing \/ Shorten \/ EndPass \/ Verify

FindEmbeddingSpec == FindInit /\ [][FindNext]_findVars

-----------------------------------------------------------------------------
(* Properties *)

Connected(S) ==
  \A T \in SUBSET S : T # {} /\ T # S => \E p \in T, q \in S \ T : {p, q} \in Target

\* A result that passes the verification is an embedding, although that does
\* not look at every edge nor inside the chains: however the variables are taken
\* out and placed again, cut back, shared between chains or interrupted, the
\* chains are connected and disjoint, and there is a coupler for every edge.
FoundEmbeddingValid ==
  place = "returned" /\ VerifyEmbedding(found) =>
    /\ \A u \in DOMAIN found : Connected(found[u])
    /\ \A u, v \in DOMAIN found : u # v /\ {u, v} \in graph =>
         \E p \in found[u], q \in found[v] : {p, q} \in Target

\* While chains are cut back, the root of a neighbour and the vertex its path
\* starts from are in its chain when they are looked up there ("rootIndex" and
\* "endIndex", which are only set if they are found).
RootsFound ==
  place \in {"firstPass", "pass"} /\ at <= Len(orderQ) =>
    \A p \in ShortPlaces(Current), i \in AdjacentVars(Current) :
      place = "pass" \/ i < Current =>
        {rootVertex[i], p.path[i][1]} \subseteq Shortened(Current, p)[i]

\* "If the algorithm fails, embeddings' len is 0" (dwave_sapi.h:1637): no
\* result leaves a variable without a chain.
FailureGivesNone ==
  place = "returned" => \A u \in DOMAIN found : found[u] # {}
=============================================================================
