------------------------ MODULE FindEmbedding_proofs ------------------------
(***************************************************************************)
(* Proofs about FindEmbedding, for every target, every set of problem      *)
(* graphs and all parameters: an embedding that passes the verification is *)
(* one, and the minimization finds in a chain what it looks up there.      *)
(*                                                                         *)
(* Every chain is connected, and chains of neighbours share a vertex or    *)
(* have a coupler between them, at every step (Fits).  A variable is       *)
(* placed at a vertex that shortest paths lead to from its neighbours'     *)
(* chains.  Each path is split: a first piece goes to the neighbour, the   *)
(* rest to the new chain.  That a neighbour's own part is no other's, and  *)
(* that the rest leads to the root, rests on the way Dijkstra's algorithm  *)
(* breaks ties: two paths to the root that meet in an inner vertex agree   *)
(* from there on (TailsAgree).                                             *)
(*                                                                         *)
(* The minimization cuts neighbours back to what their paths to others     *)
(* need.  That leaves them connected, and joined to those others, because  *)
(* each path that is kept lies in the two chains, is connected within each *)
(* of them, has the roots and joins its two halves (Threads).              *)
(***************************************************************************)
EXTENDS FindEmbedding, Induction_proofs, SequenceTheorems

-----------------------------------------------------------------------------
(* FindEmbedding: shortest paths *)

\* The order in which a heap hands vertices out.
Sooner(tree, v, w) == tree[v].dist < tree[w].dist \/ (tree[v].dist = tree[w].dist /\ v < w)

\* Nearest is the first in that order.
LEMMA NearestIs ==
  ASSUME NEW tree, NEW C, C # {}, C \subseteq Nat, \A v \in C : tree[v].dist \in Nat
  PROVE  Nearest(tree, C) \in C /\ \A w \in C : w = Nearest(tree, C) \/ Sooner(tree, Nearest(tree, C), w)
<1> DEFINE N == {tree[v].dist : v \in C}
<1>1. N \subseteq Nat /\ N # {}
  OBVIOUS
<1> HIDE DEF N
<1>2. PICK d \in N : \A e \in N : d <= e
  BY <1>1, LeastOfNat
<1> DEFINE M == {v \in C : tree[v].dist = d}
<1>3. M \subseteq Nat /\ M # {}
  BY <1>2 DEF N
<1> HIDE DEF M
<1>4. PICK v \in M : \A w \in M : v <= w
  BY <1>3, LeastOfNat
<1>5. v \in C /\ tree[v].dist = d /\ d \in Nat /\ v \in Nat
  BY <1>3, <1>4 DEF M
<1>6. ASSUME NEW w \in C \ {v} PROVE tree[v].dist < tree[w].dist \/ (tree[v].dist = tree[w].dist /\ v < w)
  <2>1. d <= tree[w].dist /\ tree[w].dist \in Nat /\ w \in Nat /\ w # v
    BY <1>2 DEF N
  <2>2. CASE tree[w].dist = d
    <3>1. v <= w
      BY <1>4, <2>2 DEF M
    <3> QED
      BY <1>5, <2>1, <2>2, <3>1
  <2> QED
    BY <1>5, <2>1, <2>2
<1>7. \E x \in C : \A w \in C \ {x} :
        \/ tree[x].dist < tree[w].dist
        \/ tree[x].dist = tree[w].dist /\ x < w
  BY <1>5, <1>6
<1>8. /\ Nearest(tree, C) \in C
      /\ \A w \in C \ {Nearest(tree, C)} :
        \/ tree[Nearest(tree, C)].dist < tree[w].dist
        \/ tree[Nearest(tree, C)].dist = tree[w].dist /\ Nearest(tree, C) < w
  BY <1>7 DEF Nearest
<1> QED
  BY <1>8 DEF Sooner

\* A set of vertices, a chain in it, weights and the vertices that are shut.
Net(S, within, weight, shut) ==
  /\ IsFiniteSet(within) /\ within \subseteq Nat /\ S \subseteq within
  /\ \A v \in within : weight[v] \in Nat \ {0}

\* The open vertices of a tree that are next to v.
Doors(tree, v, shut) == {w \in DOMAIN tree \ shut : {v, w} \in Target}

\* Records of the vertices of D.
Entries(tree, D, within) ==
  \A v \in D : /\ tree[v] = [dist |-> tree[v].dist, path |-> tree[v].path]
               /\ tree[v].dist \in Nat /\ tree[v].path \in Seq(within)

\* w is the best door to v in a tree.
Best(tree, v, w, shut) ==
  w \in Doors(tree, v, shut) /\ \A x \in Doors(tree, v, shut) : x = w \/ Sooner(tree, w, x)

\* Every vertex but those of the chain has been reached through the best door.
Rooted(tree, S, within, weight, shut) ==
  /\ tree = [v \in DOMAIN tree |-> tree[v]]
  /\ S \subseteq DOMAIN tree /\ DOMAIN tree \subseteq within
  /\ Entries(tree, DOMAIN tree, within)
  /\ \A v \in S : tree[v] = [dist |-> 0, path |-> <<v>>]
  /\ \A v \in DOMAIN tree \ S : \E w : Best(tree, v, w, shut) /\
       tree[v].dist = tree[w].dist + weight[v] /\ tree[v].path = Append(tree[w].path, v)

\* What can be reached from an open vertex has been reached.
Complete(tree, within, shut) ==
  \A v \in within : Doors(tree, v, shut) # {} => v \in DOMAIN tree

\* What is not settled is no nearer than what is.
InOrder(tree, fringe) ==
  \A v \in DOMAIN tree, c \in DOMAIN fringe :
    tree[v].dist < fringe[c].dist \/ (tree[v].dist = fringe[c].dist /\ v < c)

\* The best doors of the vertices next to the tree.
LEMMA FringeIs ==
  ASSUME NEW S, NEW within, NEW weight, NEW shut, Net(S, within, weight, shut),
         NEW tree, Rooted(tree, S, within, weight, shut),
         NEW fringe, fringe = Fringe(tree, within, weight, shut)
  PROVE  /\ \A c : c \in DOMAIN fringe <=> c \in within \ DOMAIN tree /\ Doors(tree, c, shut) # {}
         /\ Entries(fringe, DOMAIN fringe, within)
         /\ \A c \in DOMAIN fringe : \E w : Best(tree, c, w, shut) /\
              fringe[c].dist = tree[w].dist + weight[c] /\ fringe[c].path = Append(tree[w].path, c)
<1> DEFINE C == {c \in within \ DOMAIN tree : Doors(tree, c, shut) # {}}
           To(c) == LET w == Nearest(tree, Doors(tree, c, shut))
                    IN  [dist |-> tree[w].dist + weight[c], path |-> Append(tree[w].path, c)]
<1>1. fringe = [c \in C |-> To(c)]
  BY DEF Fringe, Doors
<1>2. ASSUME NEW c \in C
      PROVE  /\ Best(tree, c, Nearest(tree, Doors(tree, c, shut)), shut)
             /\ tree[Nearest(tree, Doors(tree, c, shut))].dist \in Nat
             /\ tree[Nearest(tree, Doors(tree, c, shut))].path \in Seq(within)
             /\ weight[c] \in Nat /\ c \in within
  <2> DEFINE D == Doors(tree, c, shut)
  <2>1. D # {} /\ D \subseteq DOMAIN tree /\ D \subseteq Nat /\ \A v \in D : tree[v].dist \in Nat
    BY DEF Doors, Rooted, Entries, Net
  <2> HIDE DEF D
  <2>2. Nearest(tree, D) \in D /\ \A w \in D : w = Nearest(tree, D) \/ Sooner(tree, Nearest(tree, D), w)
    BY <2>1, NearestIs
  <2>3. tree[Nearest(tree, D)].dist \in Nat /\ tree[Nearest(tree, D)].path \in Seq(within)
    BY <2>1, <2>2 DEF Rooted, Entries
  <2>4. weight[c] \in Nat /\ c \in within
    BY DEF Net
  <2> QED
    BY <2>2, <2>3, <2>4 DEF Best, D
<1>3. \A c \in C : fringe[c] = To(c)
  BY <1>1
<1>4. ASSUME NEW c \in C PROVE
        /\ fringe[c] = [dist |-> fringe[c].dist, path |-> fringe[c].path]
        /\ fringe[c].dist \in Nat /\ fringe[c].path \in Seq(within)
        /\ \E w : Best(tree, c, w, shut) /\
              fringe[c].dist = tree[w].dist + weight[c] /\ fringe[c].path = Append(tree[w].path, c)
  <2> DEFINE w == Nearest(tree, Doors(tree, c, shut))
  <2>1. fringe[c] = [dist |-> tree[w].dist + weight[c], path |-> Append(tree[w].path, c)]
    BY <1>3
  <2>2. Best(tree, c, w, shut) /\ tree[w].dist \in Nat /\ tree[w].path \in Seq(within) /\ weight[c] \in Nat /\ c \in within
    BY <1>2
  <2> HIDE DEF w
  <2> QED
    BY <2>1, <2>2
<1>5. DOMAIN fringe = C
  BY <1>1
<1> HIDE DEF To
<1> QED
  BY <1>4, <1>5 DEF Entries

\* One more vertex is settled.
LEMMA SettleIs ==
  ASSUME NEW S, NEW within, NEW weight, NEW shut, Net(S, within, weight, shut),
         NEW tree, Rooted(tree, S, within, weight, shut),
         InOrder(tree, Fringe(tree, within, weight, shut)),
         NEW next, next = Settle(tree, within, weight, shut)
  PROVE  /\ Rooted(next, S, within, weight, shut)
         /\ InOrder(next, Fringe(next, within, weight, shut))
         /\ \/ next = tree /\ Complete(tree, within, shut)
            \/ \E new : new \notin DOMAIN tree /\ DOMAIN next = DOMAIN tree \cup {new}
<1> DEFINE fringe == Fringe(tree, within, weight, shut)
           new == Nearest(fringe, DOMAIN fringe)
<1>1. next = IF DOMAIN fringe = {} THEN tree
             ELSE [v \in DOMAIN tree \cup {new} |-> IF v = new THEN fringe[v] ELSE tree[v]]
  BY DEF Settle
<1> HIDE DEF fringe
<1>f. /\ \A c : c \in DOMAIN fringe <=> c \in within \ DOMAIN tree /\ Doors(tree, c, shut) # {}
      /\ Entries(fringe, DOMAIN fringe, within)
      /\ \A c \in DOMAIN fringe : \E w : Best(tree, c, w, shut) /\
              fringe[c].dist = tree[w].dist + weight[c] /\ fringe[c].path = Append(tree[w].path, c)
  BY FringeIs DEF fringe
<1>o. InOrder(tree, fringe)
  BY DEF fringe
<1>2. CASE DOMAIN fringe = {}
  <2>1. next = tree
    BY <1>1, <1>2
  <2>2. Complete(tree, within, shut)
    BY <1>2, <1>f DEF Complete
  <2> QED
    BY <2>1, <2>2, <1>o DEF fringe
<1>3. CASE DOMAIN fringe # {}
  <2>1. DOMAIN fringe \subseteq Nat /\ \A c \in DOMAIN fringe : fringe[c].dist \in Nat
    BY <1>f DEF Net, Entries
  <2>2. new \in DOMAIN fringe /\ \A c \in DOMAIN fringe : c = new \/ Sooner(fringe, new, c)
    BY <1>3, <2>1, NearestIs
  <2> HIDE DEF new
  <2>3. next = [v \in DOMAIN tree \cup {new} |-> IF v = new THEN fringe[v] ELSE tree[v]]
    BY <1>1, <1>3
  <2>4. /\ DOMAIN next = DOMAIN tree \cup {new} /\ new \notin DOMAIN tree /\ new \in within
        /\ next[new] = fringe[new] /\ \A v \in DOMAIN tree : next[v] = tree[v]
    BY <2>2, <2>3, <1>f
  <2>5. next = [v \in DOMAIN next |-> next[v]]
    BY <2>3
  <2>6. Entries(next, DOMAIN next, within)
    BY <2>2, <2>4, <1>f DEF Entries, Rooted
  \* Best doors stay the best, for new comes after all that is settled.
  <2>7. ASSUME NEW v, NEW w, Best(tree, v, w, shut) PROVE Best(next, v, w, shut)
    <3>1. w \in Doors(tree, v, shut) /\ w \in DOMAIN tree /\ \A x \in Doors(tree, v, shut) : x = w \/ Sooner(tree, w, x)
      BY <2>7 DEF Best, Doors
    <3>2. Doors(tree, v, shut) \subseteq Doors(next, v, shut) /\ Doors(next, v, shut) \subseteq Doors(tree, v, shut) \cup {new}
      BY <2>4 DEF Doors
    <3>3. \A x \in Doors(tree, v, shut) : x = w \/ Sooner(next, w, x)
      BY <3>1, <2>4 DEF Sooner, Doors
    <3>4. Sooner(next, w, new)
      BY <3>1, <2>2, <2>4, <1>o DEF Sooner, InOrder
    <3> QED
      BY <3>1, <3>2, <3>3, <3>4 DEF Best
  <2>8. ASSUME NEW v \in DOMAIN next \ S PROVE
          \E w : Best(next, v, w, shut) /\
            next[v].dist = next[w].dist + weight[v] /\ next[v].path = Append(next[w].path, v)
    <3>1. PICK w : Best(tree, v, w, shut) /\
                   next[v].dist = tree[w].dist + weight[v] /\ next[v].path = Append(tree[w].path, v)
      <4>1. CASE v = new
        BY <4>1, <1>f, <2>2, <2>4
      <4>2. CASE v \in DOMAIN tree
        BY <4>2, <2>4 DEF Rooted
      <4> QED
        BY <4>1, <4>2, <2>4
    <3>2. w \in DOMAIN tree /\ next[w] = tree[w]
      BY <3>1, <2>4 DEF Best, Doors
    <3> QED
      BY <2>7, <3>1, <3>2
  <2>9. Rooted(next, S, within, weight, shut)
    <3>1. S \subseteq DOMAIN next /\ DOMAIN next \subseteq within /\ \A v \in S : next[v] = [dist |-> 0, path |-> <<v>>]
      BY <2>4 DEF Rooted
    <3> QED
      BY <3>1, <2>5, <2>6, <2>8 DEF Rooted
  <2> DEFINE front == Fringe(next, within, weight, shut)
  <2>g. /\ \A c : c \in DOMAIN front <=> c \in within \ DOMAIN next /\ Doors(next, c, shut) # {}
        /\ Entries(front, DOMAIN front, within)
        /\ \A c \in DOMAIN front : \E w : Best(next, c, w, shut) /\
                front[c].dist = next[w].dist + weight[c] /\ front[c].path = Append(next[w].path, c)
    BY <2>9, FringeIs
  <2> HIDE DEF front
  <2>10. ASSUME NEW c \in DOMAIN front, NEW v \in DOMAIN next
         PROVE  next[v].dist < front[c].dist \/ (next[v].dist = front[c].dist /\ v < c)
    <3>1. PICK w : Best(next, c, w, shut) /\ front[c].dist = next[w].dist + weight[c]
      BY <2>g
    <3>2. c \in within /\ c \notin DOMAIN next /\ weight[c] \in Nat \ {0} /\ c \in Nat /\ new \in Nat
      BY <2>g, <2>4 DEF Net
    <3>3. w \in DOMAIN next /\ next[w].dist \in Nat /\ next[new].dist \in Nat /\ next[v].dist \in Nat
      BY <3>1, <2>6, <2>4 DEF Best, Doors, Entries
    <3>v. v = new \/ next[v].dist < next[new].dist \/ (next[v].dist = next[new].dist /\ v < new)
      BY <2>4, <2>2, <1>o DEF InOrder
    <3>d. v \in Nat
      BY <2>4 DEF Rooted, Net
    <3>4. CASE w = new
      <4>1. next[new].dist < front[c].dist
        BY <3>1, <3>2, <3>3, <3>4
      <4>2. front[c].dist \in Nat
        BY <3>1, <3>2, <3>3
      <4> QED
        BY <3>3, <3>v, <4>1, <4>2
    <3>5. CASE w # new
      <4>1. w \in DOMAIN tree /\ w \in Doors(tree, c, shut)
        BY <3>1, <3>5, <2>4 DEF Best, Doors
      <4>2. c \in DOMAIN fringe /\ c # new
        BY <4>1, <3>2, <2>4, <1>f
      <4>3. PICK x : Best(tree, c, x, shut) /\ fringe[c].dist = tree[x].dist + weight[c]
        BY <4>2, <1>f
      <4>4. Best(next, c, x, shut) /\ x \in DOMAIN tree
        BY <4>3, <2>7 DEF Best, Doors
      <4>5. x \in Doors(next, c, shut) /\ (w = x \/ Sooner(next, w, x)) /\ (x = w \/ Sooner(next, x, w))
        BY <3>1, <4>4 DEF Best
      <4>6. x \in Nat /\ w \in Nat /\ next[x].dist \in Nat /\ next[w].dist \in Nat
        BY <4>1, <4>4, <2>4, <2>6 DEF Rooted, Net, Entries
      <4>7. x = w
        BY <4>5, <4>6 DEF Sooner
      <4>8. fringe[c].dist = front[c].dist
        BY <4>3, <4>7, <4>4, <3>1, <2>4
      <4>9. next[new].dist < front[c].dist \/ (next[new].dist = front[c].dist /\ new < c)
        BY <4>2, <4>8, <2>2, <2>4 DEF Sooner
      <4>10. front[c].dist \in Nat
        BY <3>1, <3>2, <3>3
      <4> QED
        BY <3>2, <3>3, <3>v, <3>d, <4>9, <4>10
    <3> QED
      BY <3>4, <3>5
  <2>11. InOrder(next, front)
    BY <2>10 DEF InOrder
  <2> QED
    BY <2>4, <2>9, <2>11 DEF front
<1> QED
  BY <1>2, <1>3

\* The trees Settle works on.
Trees(S, within, weight, shut) ==
  {tree \in UNION {[D -> [dist : Nat, path : Seq(within)]] : D \in SUBSET within} :
     Rooted(tree, S, within, weight, shut) /\ InOrder(tree, Fringe(tree, within, weight, shut))}

\* A tree is one of these when its paths are rooted and its vertices in order.
LEMMA TreesAre ==
  ASSUME NEW S, NEW within, NEW weight, NEW shut, NEW tree
  PROVE  tree \in Trees(S, within, weight, shut) <=>
           Rooted(tree, S, within, weight, shut) /\ InOrder(tree, Fringe(tree, within, weight, shut))
<1>1. ASSUME Rooted(tree, S, within, weight, shut)
      PROVE  tree \in UNION {[D -> [dist : Nat, path : Seq(within)]] : D \in SUBSET within}
  <2>1. tree = [v \in DOMAIN tree |-> tree[v]] /\ DOMAIN tree \in SUBSET within
    BY <1>1 DEF Rooted
  <2>2. \A v \in DOMAIN tree : tree[v] \in [dist : Nat, path : Seq(within)]
    BY <1>1 DEF Rooted, Entries
  <2>3. tree \in [DOMAIN tree -> [dist : Nat, path : Seq(within)]]
    BY <2>1, <2>2
  <2> QED
    BY <2>1, <2>3
<1> QED
  BY <1>1 DEF Trees

\* The chain by itself.
Bare(S) == [v \in S |-> [dist |-> 0, path |-> <<v>>]]

\* The tree that Settle starts from is one of them.
LEMMA BareIs ==
  ASSUME NEW S, NEW within, NEW weight, NEW shut, Net(S, within, weight, shut)
  PROVE  Bare(S) \in Trees(S, within, weight, shut)
<1> DEFINE tree == Bare(S)
           fringe == Fringe(tree, within, weight, shut)
<1>1. DOMAIN tree = S /\ tree = [v \in DOMAIN tree |-> tree[v]] /\ \A v \in S : tree[v] = [dist |-> 0, path |-> <<v>>]
  BY DEF Bare
<1> HIDE DEF tree, fringe
<1>2. \A v \in S : v \in within /\ <<v>> \in Seq(within)
  BY DEF Net
<1>3. Entries(tree, DOMAIN tree, within)
  <2> SUFFICES ASSUME NEW v \in S
      PROVE  /\ tree[v] = [dist |-> tree[v].dist, path |-> tree[v].path]
             /\ tree[v].dist \in Nat /\ tree[v].path \in Seq(within)
    BY <1>1 DEF Entries
  <2>1. tree[v] = [dist |-> 0, path |-> <<v>>] /\ <<v>> \in Seq(within)
    BY <1>1, <1>2
  <2>2. tree[v].dist = 0 /\ tree[v].path = <<v>>
    BY <2>1
  <2> QED
    BY <2>1, <2>2
<1>4. Rooted(tree, S, within, weight, shut)
  BY <1>1, <1>3 DEF Rooted, Net
<1>5. ASSUME NEW v \in DOMAIN tree, NEW c \in DOMAIN fringe PROVE tree[v].dist < fringe[c].dist
  <2>1. PICK w : Best(tree, c, w, shut) /\ fringe[c].dist = tree[w].dist + weight[c]
    BY <1>4, FringeIs DEF fringe
  <2>2. w \in S /\ tree[w].dist = 0 /\ tree[v].dist = 0
    BY <2>1, <1>1 DEF Best, Doors
  <2>3. c \in within
    BY <1>4, FringeIs DEF fringe
  <2>4. weight[c] \in Nat \ {0}
    BY <2>3 DEF Net
  <2> QED
    BY <2>1, <2>2, <2>4
<1>6. InOrder(tree, fringe)
  BY <1>5 DEF InOrder
<1> QED
  BY <1>4, <1>6, TreesAre DEF tree, fringe

\* dijkstraShortestPath settles all that can be reached, each through its best door.
LEMMA ShortestTree ==
  ASSUME NEW S, NEW within, NEW weight, NEW shut, Net(S, within, weight, shut),
         NEW T, T = ShortestPaths(S, within, weight, shut)
  PROVE  Rooted(T, S, within, weight, shut) /\ Complete(T, within, shut)
<1> DEFINE N == Cardinality(within)
           D == Trees(S, within, weight, shut)
           step(t) == Settle(t, within, weight, shut)
           tree == CHOOSE tree : tree = [n \in 0 .. N |->
             IF n = 0 THEN [v \in S |-> [dist |-> 0, path |-> <<v>>]]
             ELSE Settle(tree[n - 1], within, weight, shut)]
           F == [t \in D |-> Settle(t, within, weight, shut)]
<1>1. T = tree[N]
  BY DEF ShortestPaths
<1>2. N \in Nat
  BY FS_CardinalityType DEF Net
<1>3. Bare(S) \in D
  BY BareIs
<1>4. ASSUME NEW t \in D
      PROVE  /\ Settle(t, within, weight, shut) \in D
             /\ \/ Settle(t, within, weight, shut) = t /\ Complete(t, within, shut)
                \/ \E new : new \notin DOMAIN t /\ DOMAIN Settle(t, within, weight, shut) = DOMAIN t \cup {new}
  <2>1. Rooted(t, S, within, weight, shut) /\ InOrder(t, Fringe(t, within, weight, shut))
    BY TreesAre
  <2>2. PICK next : next = Settle(t, within, weight, shut)
    OBVIOUS
  <2>3. /\ Rooted(next, S, within, weight, shut)
        /\ InOrder(next, Fringe(next, within, weight, shut))
        /\ \/ next = t /\ Complete(t, within, shut)
           \/ \E new : new \notin DOMAIN t /\ DOMAIN next = DOMAIN t \cup {new}
    BY <2>1, <2>2, SettleIs
  <2>4. next \in D
    BY <2>3, TreesAre
  <2> QED
    BY <2>2, <2>3, <2>4
<1> HIDE DEF D
<1>5. F \in [D -> D]
  BY <1>4
<1> HIDE DEF F, N
<1>6. PICK g : Repeats(N, D, Bare(S), F, g)
  BY <1>2, <1>3, <1>5, Repeated
<1>7. g \in [0 .. N -> D] /\ g[0] = Bare(S) /\ \A n \in 1 .. N : g[n] = F[g[n - 1]]
  BY <1>6 DEF Repeats
<1>8. \A n \in 1 .. N : g[n] = Settle(g[n - 1], within, weight, shut)
  <2> SUFFICES ASSUME NEW n \in 1 .. N PROVE g[n] = Settle(g[n - 1], within, weight, shut)
    OBVIOUS
  <2>1. n - 1 \in 0 .. N
    BY <1>2
  <2>2. g[n - 1] \in D
    BY <1>7, <2>1
  <2> QED
    BY <2>2, <1>7 DEF F
<1>9. g = [n \in 0 .. N |-> IF n = 0 THEN Bare(S) ELSE Settle(g[n - 1], within, weight, shut)]
  <2> DEFINE h == [n \in 0 .. N |-> IF n = 0 THEN Bare(S) ELSE Settle(g[n - 1], within, weight, shut)]
  <2>1. \A n \in 0 .. N : h[n] = g[n]
    BY <1>2, <1>7, <1>8
  <2>2. g = [n \in 0 .. N |-> g[n]]
    BY <1>7
  <2> QED
    BY <2>1, <2>2
<1>10. tree = [n \in 0 .. N |-> IF n = 0 THEN Bare(S) ELSE Settle(tree[n - 1], within, weight, shut)]
  BY <1>9 DEF Bare
<1> HIDE DEF tree
<1> DEFINE A == {n \in Nat : n <= N => /\ tree[n] \in D
                                       /\ Complete(tree[n], within, shut) \/ n <= Cardinality(DOMAIN tree[n])}
<1>11. 0 \in A
  <2>1. tree[0] = Bare(S)
    BY <1>2, <1>10
  <2>2. DOMAIN Bare(S) = S /\ IsFiniteSet(S)
    BY FS_Subset DEF Bare, Net
  <2>3. Cardinality(DOMAIN tree[0]) \in Nat
    BY <2>1, <2>2, FS_CardinalityType
  <2> QED
    BY <2>1, <2>3, <1>3
<1>12. ASSUME NEW n \in Nat, n \in A PROVE n + 1 \in A
  <2> SUFFICES ASSUME n + 1 <= N
      PROVE  /\ tree[n + 1] \in D
             /\ Complete(tree[n + 1], within, shut) \/ n + 1 <= Cardinality(DOMAIN tree[n + 1])
    BY <1>2
  <2>1. tree[n] \in D /\ (Complete(tree[n], within, shut) \/ n <= Cardinality(DOMAIN tree[n]))
    BY <1>2, <1>12
  <2>2. tree[n + 1] = Settle(tree[n], within, weight, shut)
    <3>1. n + 1 \in 0 .. N /\ n + 1 # 0 /\ (n + 1) - 1 = n
      BY <1>2
    <3> QED
      BY <3>1, <1>10
  <2>3. /\ tree[n + 1] \in D
        /\ \/ tree[n + 1] = tree[n] /\ Complete(tree[n], within, shut)
           \/ \E new : new \notin DOMAIN tree[n] /\ DOMAIN tree[n + 1] = DOMAIN tree[n] \cup {new}
    BY <2>1, <2>2, <1>4
  <2>4. CASE tree[n + 1] = tree[n] /\ Complete(tree[n], within, shut)
    BY <2>3, <2>4
  <2>5. ASSUME NEW new, new \notin DOMAIN tree[n], DOMAIN tree[n + 1] = DOMAIN tree[n] \cup {new}
        PROVE  Complete(tree[n + 1], within, shut) \/ n + 1 <= Cardinality(DOMAIN tree[n + 1])
    <3>1. DOMAIN tree[n] \subseteq within /\ IsFiniteSet(within)
      BY <2>1, TreesAre DEF D, Rooted, Net
    <3>2. IsFiniteSet(DOMAIN tree[n])
      BY <3>1, FS_Subset
    <3>3. Cardinality(DOMAIN tree[n + 1]) = Cardinality(DOMAIN tree[n]) + 1 /\ Cardinality(DOMAIN tree[n]) \in Nat
      BY <3>2, <2>5, FS_AddElement, FS_CardinalityType
    <3>4. CASE n <= Cardinality(DOMAIN tree[n])
      BY <3>3, <3>4
    <3>5. CASE Complete(tree[n], within, shut)
      <4>1. new \in within
        BY <2>3, <2>5, TreesAre DEF D, Rooted
      <4>2. Doors(tree[n], new, shut) = {}
        BY <2>5, <3>5, <4>1 DEF Complete
      \* new has a best door, which was there already.
      <4>3. tree[n] \in Trees(S, within, weight, shut) /\ tree[n + 1] \in Trees(S, within, weight, shut)
        BY <2>1, <2>3 DEF D
      <4>4. Rooted(tree[n], S, within, weight, shut) /\ Rooted(tree[n + 1], S, within, weight, shut)
        BY <4>3, TreesAre
      <4>5. new \notin S /\ new \in DOMAIN tree[n + 1]
        BY <2>5, <4>4 DEF Rooted
      <4>6. PICK w : /\ Best(tree[n + 1], new, w, shut)
                     /\ tree[n + 1][new].dist = tree[n + 1][w].dist + weight[new]
        BY <4>4, <4>5 DEF Rooted
      <4>7. weight[new] \in Nat \ {0} /\ tree[n + 1][new].dist \in Nat /\ w \in Doors(tree[n + 1], new, shut)
        BY <4>1, <4>4, <4>5, <4>6 DEF Net, Rooted, Entries, Best
      <4>8. w # new
        BY <4>6, <4>7
      <4>9. w \in Doors(tree[n], new, shut)
        BY <4>7, <4>8, <2>5 DEF Doors
      <4> QED
        BY <4>2, <4>9
    <3> QED
      BY <2>1, <3>4, <3>5
  <2> QED
    BY <2>3, <2>4, <2>5
<1>13. N \in A
  <2> HIDE DEF A
  <2> QED
    BY <1>2, <1>11, <1>12, InductiveSet
<1>14. T \in D /\ (Complete(T, within, shut) \/ N <= Cardinality(DOMAIN T))
  BY <1>1, <1>2, <1>13
<1>15. Rooted(T, S, within, weight, shut)
  BY <1>14, TreesAre DEF D
<1>16. CASE N <= Cardinality(DOMAIN T)
  <2>1. DOMAIN T \subseteq within /\ IsFiniteSet(within)
    BY <1>15 DEF Rooted, Net
  <2>2. DOMAIN T = within
    BY <1>16, <2>1, FS_Subset, FS_CardinalityType DEF N
  <2> QED
    BY <1>15, <2>2 DEF Complete
<1> QED
  BY <1>14, <1>15, <1>16

\* What a path of a tree is: it starts in the chain, and each of its vertices is
\* the best door to the next, which it leads to by the same way.
Leads(T, S, weight, shut, v, p) ==
  /\ Len(p) \in Nat \ {0} /\ p \in Seq(DOMAIN T) /\ p[1] \in S /\ p[Len(p)] = v
  /\ \A k \in 1 .. Len(p) :
       Len(T[p[k]].path) = k /\ \A m \in 1 .. k : T[p[k]].path[m] = p[m]
  /\ \A k \in 1 .. Len(p) - 1 :
       /\ p[k + 1] \notin S /\ Best(T, p[k + 1], p[k], shut)
       /\ T[p[k + 1]].dist = T[p[k]].dist + weight[p[k + 1]]
       /\ T[p[k]].dist < T[v].dist

\* One vertex more.
LEMMA LeadsOn ==
  ASSUME NEW S, NEW within, NEW weight, NEW shut, Net(S, within, weight, shut),
         NEW T, Rooted(T, S, within, weight, shut),
         NEW v \in DOMAIN T \ S, NEW w \in DOMAIN T, Best(T, v, w, shut),
         T[v].dist = T[w].dist + weight[v], T[v].path = Append(T[w].path, v),
         Leads(T, S, weight, shut, w, T[w].path)
  PROVE  Leads(T, S, weight, shut, v, T[v].path)
<1> DEFINE q == T[w].path
           p == T[v].path
<1>1. /\ Len(q) \in Nat \ {0} /\ q \in Seq(DOMAIN T) /\ q[1] \in S /\ q[Len(q)] = w
      /\ \A k \in 1 .. Len(q) :
           Len(T[q[k]].path) = k /\ \A m \in 1 .. k : T[q[k]].path[m] = q[m]
      /\ \A k \in 1 .. Len(q) - 1 :
           /\ q[k + 1] \notin S /\ Best(T, q[k + 1], q[k], shut)
           /\ T[q[k + 1]].dist = T[q[k]].dist + weight[q[k + 1]]
           /\ T[q[k]].dist < T[w].dist
  BY DEF Leads
<1>2. p = Append(q, v) /\ v \in DOMAIN T
  OBVIOUS
<1> HIDE DEF p, q
<1>3. /\ p \in Seq(DOMAIN T) /\ Len(p) = Len(q) + 1 /\ p[Len(q) + 1] = v
      /\ \A k \in 1 .. Len(q) : p[k] = q[k]
  BY <1>1, <1>2
<1>4. Len(p) \in Nat \ {0} /\ p[1] \in S /\ p[Len(p)] = v
  BY <1>1, <1>3
<1>5. ASSUME NEW k \in 1 .. Len(p)
      PROVE  Len(T[p[k]].path) = k /\ \A m \in 1 .. k : T[p[k]].path[m] = p[m]
  <2>1. CASE k = Len(p)
    <3>1. T[p[k]].path = p
      BY <2>1, <1>4 DEF p
    <3> QED
      BY <2>1, <3>1
  <2>2. CASE k # Len(p)
    <3>1. k \in 1 .. Len(q) /\ p[k] = q[k] /\ \A m \in 1 .. k : p[m] = q[m]
      BY <2>2, <1>3, <1>1
    <3> QED
      BY <3>1, <1>1
  <2> QED
    BY <2>1, <2>2
<1>6. T[v].dist \in Nat /\ T[w].dist \in Nat /\ weight[v] \in Nat \ {0} /\ \A x \in DOMAIN T : T[x].dist \in Nat
  BY DEF Rooted, Entries, Net
<1>7. T[w].dist < T[v].dist
  BY <1>6
<1>8. ASSUME NEW k \in 1 .. Len(p) - 1
      PROVE  /\ p[k + 1] \notin S /\ Best(T, p[k + 1], p[k], shut)
             /\ T[p[k + 1]].dist = T[p[k]].dist + weight[p[k + 1]]
             /\ T[p[k]].dist < T[v].dist
  <2>1. CASE k = Len(q)
    <3>1. p[k] = w /\ p[k + 1] = v
      BY <2>1, <1>1, <1>3
    <3> QED
      BY <3>1, <1>7
  <2>2. CASE k # Len(q)
    <3>1. k \in 1 .. Len(q) - 1 /\ k \in 1 .. Len(q) /\ k + 1 \in 1 .. Len(q)
      BY <2>2, <1>1, <1>3
    <3>2. p[k] = q[k] /\ p[k + 1] = q[k + 1] /\ T[q[k]].dist < T[w].dist
      BY <3>1, <1>1, <1>3
    <3>4. q[k] \in DOMAIN T
      BY <3>1, <1>1
    <3>3. T[q[k]].dist \in Nat
      BY <3>4, <1>6
    <3>5. T[q[k]].dist < T[v].dist
      BY <3>2, <3>3, <1>6, <1>7
    <3> QED
      BY <3>1, <3>2, <3>5, <1>1
  <2> QED
    BY <2>1, <2>2
<1>9. Leads(T, S, weight, shut, v, p)
  BY <1>3, <1>4, <1>5, <1>8 DEF Leads
<1> QED
  BY <1>9 DEF p

\* So it is for all vertices of the tree.
LEMMA AllLead ==
  ASSUME NEW S, NEW within, NEW weight, NEW shut, Net(S, within, weight, shut),
         NEW T, Rooted(T, S, within, weight, shut)
  PROVE  \A v \in DOMAIN T : Leads(T, S, weight, shut, v, T[v].path)
<1> DEFINE Bad == {v \in DOMAIN T : ~ Leads(T, S, weight, shut, v, T[v].path)}
           N == {T[v].dist : v \in Bad}
<1> SUFFICES ASSUME Bad # {} PROVE FALSE
  OBVIOUS
<1>1. \A x \in DOMAIN T : T[x].dist \in Nat
  BY DEF Rooted, Entries
<1>2. N \subseteq Nat /\ N # {}
  BY <1>1
<1>3. PICK d \in N : \A e \in N : d <= e
  BY <1>2, LeastOfNat
<1>4. PICK v \in Bad : T[v].dist = d
  BY <1>3
<1>5. v \in DOMAIN T /\ ~ Leads(T, S, weight, shut, v, T[v].path) /\ T[v].dist \in Nat
  BY <1>4, <1>1
<1>6. v \notin S
  <2> SUFFICES ASSUME v \in S PROVE FALSE
    OBVIOUS
  <2>0. T[v] = [dist |-> 0, path |-> <<v>>]
    BY DEF Rooted
  <2>1. T[v].path = <<v>>
    BY <2>0
  <2>2. /\ <<v>> \in Seq(DOMAIN T) /\ Len(<<v>>) = 1 /\ <<v>>[1] = v
    BY <1>5
  <2> DEFINE q == <<v>>
  <2>3. q \in Seq(DOMAIN T) /\ Len(q) = 1 /\ q[1] = v /\ T[v].path = q
    BY <2>1, <2>2
  <2> HIDE DEF q
  <2>4. \A k \in 1 .. Len(q) : k = 1
    BY <2>3
  <2>5. \A k \in 1 .. Len(q) - 1 : FALSE
    BY <2>3
  <2>6. \A k \in 1 .. Len(q) :
           Len(T[q[k]].path) = k /\ \A m \in 1 .. k : T[q[k]].path[m] = q[m]
    BY <2>3, <2>4
  <2>8. q[1] \in S /\ q[Len(q)] = v /\ Len(q) \in Nat \ {0}
    BY <2>3
  <2>9. \A k \in 1 .. Len(q) - 1 :
           /\ q[k + 1] \notin S /\ Best(T, q[k + 1], q[k], shut)
           /\ T[q[k + 1]].dist = T[q[k]].dist + weight[q[k + 1]]
           /\ T[q[k]].dist < T[v].dist
    BY <2>5
  <2>7. Leads(T, S, weight, shut, v, q)
    BY <2>3, <2>6, <2>8, <2>9 DEF Leads
  <2> QED
    BY <2>3, <2>7, <1>5
<1>7. PICK w : /\ Best(T, v, w, shut)
               /\ T[v].dist = T[w].dist + weight[v] /\ T[v].path = Append(T[w].path, v)
  BY <1>5, <1>6 DEF Rooted
<1>8. w \in DOMAIN T
  BY <1>7 DEF Best, Doors
<1>9. weight[v] \in Nat \ {0}
  BY <1>5 DEF Rooted, Net
<1>10. T[w].dist < T[v].dist /\ T[w].dist \in Nat
  BY <1>1, <1>7, <1>8, <1>9
<1>11. w \notin Bad
  <2>1. w \in Bad => d <= T[w].dist
    BY <1>3
  <2> QED
    BY <2>1, <1>4, <1>5, <1>10
<1> HIDE DEF N
<1> QED
  BY <1>5, <1>6, <1>7, <1>8, <1>11, LeadsOn

\* No vertex comes twice, and what comes earlier is nearer.
Path(T, S, shut, v, p) ==
  /\ p \in Seq(DOMAIN T) /\ Len(p) \in Nat \ {0}
  /\ p[1] \in S /\ p[Len(p)] = v
  /\ \A k \in 1 .. Len(p) : p[k] \in DOMAIN T
  /\ \A k \in 2 .. Len(p) : p[k] \notin S
  /\ \A k \in 1 .. Len(p) - 1 : p[k] \notin shut /\ {p[k + 1], p[k]} \in Target
  /\ \A j, k \in 1 .. Len(p) : j < k => T[p[j]].dist < T[p[k]].dist
  /\ \A j, k \in 1 .. Len(p) : p[j] = p[k] => j = k

\* Every path of a tree is one of these.
LEMMA PathFacts ==
  ASSUME NEW S, NEW within, NEW weight, NEW shut, Net(S, within, weight, shut),
         NEW T, Rooted(T, S, within, weight, shut)
  PROVE  \A v \in DOMAIN T :
           Path(T, S, shut, v, T[v].path) /\ Leads(T, S, weight, shut, v, T[v].path)
<1> SUFFICES ASSUME NEW v \in DOMAIN T
    PROVE  Path(T, S, shut, v, T[v].path) /\ Leads(T, S, weight, shut, v, T[v].path)
  OBVIOUS
<1> DEFINE p == T[v].path
<1>1. \A x \in DOMAIN T : Leads(T, S, weight, shut, x, T[x].path)
  BY AllLead
<1>2. Leads(T, S, weight, shut, v, p)
  BY <1>1
<1>3. \A x \in DOMAIN T : T[x].dist \in Nat
  BY DEF Rooted, Entries
<1> HIDE DEF p
<1>4. Len(p) \in Nat \ {0} /\ p \in Seq(DOMAIN T) /\ p[1] \in S /\ p[Len(p)] = v
  BY <1>2 DEF Leads
<1>5. \A k \in 1 .. Len(p) : p[k] \in DOMAIN T
  BY <1>4
<1>6. \A k \in 2 .. Len(p) : p[k] \notin S
  <2> SUFFICES ASSUME NEW k \in 2 .. Len(p) PROVE p[k] \notin S
    OBVIOUS
  <2>1. k - 1 \in 1 .. Len(p) - 1 /\ (k - 1) + 1 = k
    BY <1>4
  <2> QED
    BY <2>1, <1>2 DEF Leads
<1>7. \A k \in 1 .. Len(p) - 1 : p[k] \notin shut /\ {p[k + 1], p[k]} \in Target
  BY <1>2 DEF Leads, Best, Doors
<1>8. ASSUME NEW j \in 1 .. Len(p), NEW k \in 1 .. Len(p), j < k PROVE T[p[j]].dist < T[p[k]].dist
  <2>1. Leads(T, S, weight, shut, p[k], T[p[k]].path)
    BY <1>1, <1>5
  <2>2. Len(T[p[k]].path) = k /\ T[p[k]].path[j] = p[j]
    BY <1>2, <1>4, <1>8 DEF Leads
  <2>3. j \in 1 .. k - 1
    BY <1>4, <1>8
  <2> QED
    BY <2>1, <2>2, <2>3 DEF Leads
<1>9. ASSUME NEW j \in 1 .. Len(p), NEW k \in 1 .. Len(p), p[j] = p[k] PROVE j = k
  <2>1. T[p[j]].dist \in Nat /\ j \in Nat /\ k \in Nat
    BY <1>5, <1>3, <1>4
  <2>2. ~ (j < k)
    BY <1>8, <1>9, <2>1
  <2>3. ~ (k < j)
    BY <1>8, <1>9, <2>1
  <2> QED
    BY <2>1, <2>2, <2>3
<1> QED
  BY <1>1, <1>4, <1>5, <1>6, <1>7, <1>8, <1>9 DEF p, Path

\* One way stays as much longer than another when both go on to the same vertex.
LEMMA StepLonger ==
  ASSUME NEW y1 \in Nat, NEW z1 \in Nat, NEW l1 \in Nat, NEW y2 \in Nat, NEW z2 \in Nat, NEW l2 \in Nat,
         NEW w \in Nat, z2 = y2 + w, z1 <= y1 + w, y1 + l2 <= l1 + y2
  PROVE  z1 + l2 <= l1 + z2
OBVIOUS

\* When each of two trees prefers its own door, the doors are equally far.
LEMMA AsLong ==
  ASSUME NEW a1 \in Nat, NEW b1 \in Nat, NEW x1 \in Nat, NEW v1 \in Nat,
         NEW a2 \in Nat, NEW b2 \in Nat, NEW x2 \in Nat, NEW v2 \in Nat, NEW w \in Nat,
         v1 = a1 + w, v2 = b2 + w, b1 + x2 <= x1 + b2, v2 + x1 <= x2 + v1
  PROVE  b1 <= a1
OBVIOUS

\* Along a path of one tree another tree finds a way that is no longer.
LEMMA Walk ==
  ASSUME NEW within, NEW weight,
         NEW S1, NEW shut1, Net(S1, within, weight, shut1),
         NEW T1, Rooted(T1, S1, within, weight, shut1), Complete(T1, within, shut1),
         NEW S2, NEW shut2, Net(S2, within, weight, shut2),
         NEW T2, Rooted(T2, S2, within, weight, shut2),
         NEW v \in DOMAIN T2, NEW q, q = T2[v].path,
         NEW l \in 1 .. Len(q), q[l] \in DOMAIN T1,
         \A m \in l .. Len(q) - 1 : q[m] \notin shut1
  PROVE  \A m \in l .. Len(q) : /\ q[m] \in DOMAIN T1
                                /\ T1[q[m]].dist + T2[q[l]].dist <= T1[q[l]].dist + T2[q[m]].dist
<1>1. /\ Len(q) \in Nat \ {0} /\ \A k \in 1 .. Len(q) : q[k] \in DOMAIN T2
      /\ \A k \in 1 .. Len(q) - 1 : {q[k + 1], q[k]} \in Target
  <2>1. Path(T2, S2, shut2, v, q)
    BY PathFacts
  <2> QED
    BY <2>1 DEF Path
<1>2. \A k \in 1 .. Len(q) - 1 : T2[q[k + 1]].dist = T2[q[k]].dist + weight[q[k + 1]]
  <2>1. Leads(T2, S2, weight, shut2, v, q)
    BY AllLead
  <2> QED
    BY <2>1 DEF Leads
<1>3. /\ \A x \in DOMAIN T1 : T1[x].dist \in Nat
      /\ \A x \in DOMAIN T2 : T2[x].dist \in Nat /\ x \in within
  BY DEF Rooted, Entries
<1>4. \A x \in within : weight[x] \in Nat \ {0}
  BY DEF Net
<1> DEFINE Fine(m) == /\ q[m] \in DOMAIN T1
                      /\ T1[q[m]].dist + T2[q[l]].dist <= T1[q[l]].dist + T2[q[m]].dist
           A == {n \in Nat : l + n <= Len(q) => Fine(l + n)}
<1>5. 0 \in A
  BY <1>1, <1>3
<1>6. ASSUME NEW n \in Nat, n \in A PROVE n + 1 \in A
  <2> SUFFICES ASSUME l + (n + 1) <= Len(q) PROVE Fine(l + (n + 1))
    BY DEF A
  <2>1. /\ l + n \in 1 .. Len(q) - 1 /\ l + n \in l .. Len(q) - 1 /\ l + n \in 1 .. Len(q)
        /\ l + (n + 1) = (l + n) + 1 /\ (l + n) + 1 \in 1 .. Len(q)
    BY <1>1
  <2> DEFINE y == q[l + n]
             z == q[(l + n) + 1]
  <2>2. Fine(l + n)
    BY <1>6, <2>1
  <2>3. y \in DOMAIN T1 \ shut1 /\ {z, y} \in Target /\ z \in DOMAIN T2 /\ z \in within
    BY <2>1, <2>2, <1>1, <1>3
  <2>4. z \in DOMAIN T1
    BY <2>3 DEF Complete, Doors
  <2>5. T2[z].dist = T2[y].dist + weight[z] /\ weight[z] \in Nat
    BY <2>1, <2>3, <1>2, <1>4
  <2>6. T1[z].dist <= T1[y].dist + weight[z]
    <3>1. CASE z \in S1
      <4>1. T1[z] = [dist |-> 0, path |-> <<z>>]
        BY <3>1 DEF Rooted
      <4>2. T1[z].dist = 0
        BY <4>1
      <4> QED
        BY <4>2, <2>3, <2>5, <1>3
    <3>2. CASE z \notin S1
      <4>1. PICK w : Best(T1, z, w, shut1) /\ T1[z].dist = T1[w].dist + weight[z]
        BY <3>2, <2>4 DEF Rooted
      <4>2. y \in Doors(T1, z, shut1)
        BY <2>3 DEF Doors
      <4>4. w \in DOMAIN T1 /\ (y = w \/ Sooner(T1, w, y))
        BY <4>1, <4>2 DEF Best, Doors
      <4>5. T1[w].dist \in Nat /\ T1[y].dist \in Nat
        BY <4>4, <1>3, <2>3
      <4>3. T1[w].dist <= T1[y].dist
        BY <4>4, <4>5 DEF Sooner
      <4> QED
        BY <4>1, <4>3, <4>5, <2>5
    <3> QED
      BY <3>1, <3>2
  <2>7. /\ T1[z].dist \in Nat /\ T1[y].dist \in Nat /\ T2[y].dist \in Nat /\ T2[z].dist \in Nat
        /\ T1[q[l]].dist \in Nat /\ T2[q[l]].dist \in Nat
    BY <1>1, <1>3, <2>1, <2>3, <2>4
  <2>8. T1[y].dist + T2[q[l]].dist <= T1[q[l]].dist + T2[y].dist
    BY <2>2
  <2> HIDE DEF y, z
  <2>9. T1[z].dist + T2[q[l]].dist <= T1[q[l]].dist + T2[z].dist
    BY <2>5, <2>6, <2>7, <2>8, StepLonger
  <2> QED
    BY <2>1, <2>4, <2>9 DEF z
<1>7. Nat \subseteq A
  <2> HIDE DEF A
  <2> QED
    BY <1>5, <1>6, InductiveSet
<1>8. ASSUME NEW m \in l .. Len(q) PROVE Fine(m)
  <2>1. m - l \in Nat /\ l + (m - l) = m /\ m <= Len(q)
    BY <1>1
  <2> QED
    BY <1>7, <2>1
<1> QED
  BY <1>8

\* The paths p to v and q to v go on together from where they have met.
Agree(p, q) ==
  \A k \in 2 .. Len(p), l \in 2 .. Len(q) :
    p[k] = q[l] => Len(p) - k = Len(q) - l /\ \A m \in 0 .. Len(p) - k : p[k + m] = q[l + m]

\* Two trees that differ in the chain they grow from.
Twins(within, weight, full, S1, T1, S2, T2) ==
  /\ Net(S1, within, weight, full \ S1) /\ Rooted(T1, S1, within, weight, full \ S1)
  /\ Complete(T1, within, full \ S1)
  /\ Net(S2, within, weight, full \ S2) /\ Rooted(T2, S2, within, weight, full \ S2)
  /\ Complete(T2, within, full \ S2)

\* The last vertex before v is the same on two paths that have met before v.
Joint(p, q) ==
  \A k \in 2 .. Len(p) - 1, l \in 2 .. Len(q) - 1 : p[k] = q[l] => p[Len(p) - 1] = q[Len(q) - 1]

\* From where they have met one is as long as the other, and the last vertex
\* but one is the same.
LEMMA SameDoor ==
  ASSUME NEW within, NEW weight, NEW full, NEW S1, NEW T1, NEW S2, NEW T2,
         Twins(within, weight, full, S1, T1, S2, T2)
  PROVE  \A v \in DOMAIN T1 \cap DOMAIN T2 : Joint(T1[v].path, T2[v].path)
<1> SUFFICES ASSUME NEW v \in DOMAIN T1, v \in DOMAIN T2,
                    NEW p, p = T1[v].path, NEW q, q = T2[v].path
    PROVE  Joint(p, q)
  OBVIOUS
<1> SUFFICES ASSUME NEW k \in 2 .. Len(p) - 1, NEW l \in 2 .. Len(q) - 1, p[k] = q[l]
    PROVE  p[Len(p) - 1] = q[Len(q) - 1]
  BY DEF Joint
<1>1. /\ Net(S1, within, weight, full \ S1) /\ Rooted(T1, S1, within, weight, full \ S1)
      /\ Complete(T1, within, full \ S1)
      /\ Net(S2, within, weight, full \ S2) /\ Rooted(T2, S2, within, weight, full \ S2)
      /\ Complete(T2, within, full \ S2)
  BY DEF Twins
<1>2. /\ Len(p) \in Nat \ {0} /\ p[Len(p)] = v
      /\ \A j \in 1 .. Len(p) : p[j] \in DOMAIN T1 /\ p[j] \in within
      /\ \A j \in 2 .. Len(p) : p[j] \notin S1
      /\ \A j \in 1 .. Len(p) - 1 : p[j] \notin full \ S1 /\ {p[j + 1], p[j]} \in Target
      /\ Leads(T1, S1, weight, full \ S1, v, p)
  <2>1. \A x \in DOMAIN T1 : x \in within
    BY <1>1 DEF Rooted
  <2>2. Leads(T1, S1, weight, full \ S1, v, p) /\ Path(T1, S1, full \ S1, v, p)
    BY <1>1, PathFacts
  <2> QED
    BY <2>1, <2>2 DEF Path
<1>3. /\ Len(q) \in Nat \ {0} /\ q[Len(q)] = v
      /\ \A j \in 1 .. Len(q) : q[j] \in DOMAIN T2 /\ q[j] \in within
      /\ \A j \in 2 .. Len(q) : q[j] \notin S2
      /\ \A j \in 1 .. Len(q) - 1 : q[j] \notin full \ S2 /\ {q[j + 1], q[j]} \in Target
      /\ Leads(T2, S2, weight, full \ S2, v, q)
  <2>1. \A x \in DOMAIN T2 : x \in within
    BY <1>1 DEF Rooted
  <2>2. Leads(T2, S2, weight, full \ S2, v, q) /\ Path(T2, S2, full \ S2, v, q)
    BY <1>1, PathFacts
  <2> QED
    BY <2>1, <2>2 DEF Path
<1>4. /\ \A j \in k .. Len(p) - 1 : p[j] \notin full /\ p[j] \notin full \ S2
      /\ \A j \in l .. Len(q) - 1 : q[j] \notin full /\ q[j] \notin full \ S1
  <2>1. ASSUME NEW j \in k .. Len(p) - 1 PROVE p[j] \notin full
    <3>1. j \in 2 .. Len(p) /\ j \in 1 .. Len(p) - 1
      BY <1>2
    <3> QED
      BY <3>1, <1>2
  <2>2. ASSUME NEW j \in l .. Len(q) - 1 PROVE q[j] \notin full
    <3>1. j \in 2 .. Len(q) /\ j \in 1 .. Len(q) - 1
      BY <1>3
    <3> QED
      BY <3>1, <1>3
  <2> QED
    BY <2>1, <2>2
<1>5. /\ k \in 1 .. Len(p) /\ l \in 1 .. Len(q) /\ p[k] \in DOMAIN T2 /\ q[l] \in DOMAIN T1
      /\ Len(p) \in k .. Len(p) /\ Len(p) - 1 \in k .. Len(p) /\ Len(p) - 1 \in k .. Len(p) - 1
      /\ Len(q) \in l .. Len(q) /\ Len(q) - 1 \in l .. Len(q) /\ Len(q) - 1 \in l .. Len(q) - 1
      /\ Len(p) - 1 \in 1 .. Len(p) - 1 /\ Len(q) - 1 \in 1 .. Len(q) - 1
      /\ (Len(p) - 1) + 1 = Len(p) /\ (Len(q) - 1) + 1 = Len(q)
  BY <1>2, <1>3
<1>6. \A m \in l .. Len(q) : /\ q[m] \in DOMAIN T1
                             /\ T1[q[m]].dist + T2[q[l]].dist <= T1[q[l]].dist + T2[q[m]].dist
  <2>1. l \in 1 .. Len(q) /\ q[l] \in DOMAIN T1
    BY <1>5
  <2>2. \A m \in l .. Len(q) - 1 : q[m] \notin full \ S1
    BY <1>4
  <2> QED
    BY <1>1, <2>1, <2>2, Walk
<1>7. \A m \in k .. Len(p) : /\ p[m] \in DOMAIN T2
                             /\ T2[p[m]].dist + T1[p[k]].dist <= T2[p[k]].dist + T1[p[m]].dist
  <2>1. k \in 1 .. Len(p) /\ p[k] \in DOMAIN T2
    BY <1>5
  <2>2. \A m \in k .. Len(p) - 1 : p[m] \notin full \ S2
    BY <1>4
  <2> QED
    BY <1>1, <2>1, <2>2, Walk
<1> DEFINE a == p[Len(p) - 1]
           b == q[Len(q) - 1]
           x == p[k]
<1>8. /\ b \in DOMAIN T1 /\ T1[b].dist + T2[x].dist <= T1[x].dist + T2[b].dist
      /\ T1[v].dist + T2[x].dist <= T1[x].dist + T2[v].dist
      /\ a \in DOMAIN T2 /\ T2[a].dist + T1[x].dist <= T2[x].dist + T1[a].dist
      /\ T2[v].dist + T1[x].dist <= T2[x].dist + T1[v].dist
  BY <1>2, <1>3, <1>5, <1>6, <1>7
<1>9. /\ Best(T1, v, a, full \ S1) /\ T1[v].dist = T1[a].dist + weight[v]
      /\ Best(T2, v, b, full \ S2) /\ T2[v].dist = T2[b].dist + weight[v]
  <2>1. p[(Len(p) - 1) + 1] = v /\ q[(Len(q) - 1) + 1] = v
    BY <1>2, <1>3, <1>5
  <2>2. Best(T1, p[(Len(p) - 1) + 1], a, full \ S1) /\ Best(T2, q[(Len(q) - 1) + 1], b, full \ S2)
    BY <1>2, <1>3, <1>5 DEF Leads
  <2>3. /\ T1[p[(Len(p) - 1) + 1]].dist = T1[a].dist + weight[p[(Len(p) - 1) + 1]]
        /\ T2[q[(Len(q) - 1) + 1]].dist = T2[b].dist + weight[q[(Len(q) - 1) + 1]]
    BY <1>2, <1>3, <1>5 DEF Leads
  <2> QED
    BY <2>1, <2>2, <2>3
<1>10. /\ a \notin full /\ b \notin full /\ {v, a} \in Target /\ {v, b} \in Target
       /\ a \in DOMAIN T1 /\ b \in DOMAIN T2 /\ x \in DOMAIN T1 /\ x \in DOMAIN T2 /\ v \in within
       /\ a \in within /\ b \in within
  <2>1. {p[Len(p)], p[Len(p) - 1]} \in Target /\ {q[Len(q)], q[Len(q) - 1]} \in Target
    BY <1>2, <1>3, <1>5
  <2>2. Len(p) - 1 \in 1 .. Len(p) /\ Len(q) - 1 \in 1 .. Len(q) /\ Len(p) \in 1 .. Len(p)
    BY <1>2, <1>3, <1>5
  <2> QED
    BY <2>1, <2>2, <1>2, <1>3, <1>4, <1>5
<1>11. b \in Doors(T1, v, full \ S1) /\ a \in Doors(T2, v, full \ S2)
  BY <1>8, <1>10 DEF Doors
<1>12. (a = b \/ Sooner(T1, a, b)) /\ (a = b \/ Sooner(T2, b, a))
  BY <1>9, <1>11 DEF Best
<1>13. /\ T1[a].dist \in Nat /\ T1[b].dist \in Nat /\ T1[x].dist \in Nat /\ T1[v].dist \in Nat
       /\ T2[a].dist \in Nat /\ T2[b].dist \in Nat /\ T2[x].dist \in Nat /\ T2[v].dist \in Nat
  BY <1>1, <1>8, <1>10 DEF Rooted, Entries
<1>14. weight[v] \in Nat /\ a \in Nat /\ b \in Nat
  BY <1>1, <1>10 DEF Net
<1> HIDE DEF a, b, x
<1>15. T1[b].dist <= T1[a].dist /\ T2[a].dist <= T2[b].dist
  <2>1. T1[v].dist = T1[a].dist + weight[v] /\ T2[v].dist = T2[b].dist + weight[v]
    BY <1>9
  <2>2. T1[b].dist <= T1[a].dist
    BY <2>1, <1>8, <1>13, <1>14, AsLong
  <2>3. T2[a].dist <= T2[b].dist
    BY <2>1, <1>8, <1>13, <1>14, AsLong
  <2> QED
    BY <2>2, <2>3
<1>16. a = b
  <2> SUFFICES ASSUME a # b PROVE FALSE
    OBVIOUS
  <2>1. Sooner(T1, a, b) /\ Sooner(T2, b, a)
    BY <1>12
  <2>2. a < b /\ b < a
    BY <2>1, <1>13, <1>15 DEF Sooner
  <2> QED
    BY <2>2, <1>14
<1> QED
  BY <1>16 DEF a, b

\* The tails of two paths to the same vertex are the same once they have met.
LEMMA TailsAgree ==
  ASSUME NEW within, NEW weight, NEW full, NEW S1, NEW T1, NEW S2, NEW T2,
         Twins(within, weight, full, S1, T1, S2, T2)
  PROVE  \A v \in DOMAIN T1 \cap DOMAIN T2 : Agree(T1[v].path, T2[v].path)
<1>1. /\ Net(S1, within, weight, full \ S1) /\ Rooted(T1, S1, within, weight, full \ S1)
      /\ Net(S2, within, weight, full \ S2) /\ Rooted(T2, S2, within, weight, full \ S2)
  BY DEF Twins
<1> DEFINE Bad == {v \in DOMAIN T1 \cap DOMAIN T2 : ~ Agree(T1[v].path, T2[v].path)}
           N == {T1[v].dist : v \in Bad}
<1> SUFFICES ASSUME Bad # {} PROVE FALSE
  OBVIOUS
<1>2. \A x \in DOMAIN T1 : T1[x].dist \in Nat
  BY <1>1 DEF Rooted, Entries
<1>3. N \subseteq Nat /\ N # {}
  BY <1>2
<1>4. PICK d \in N : \A e \in N : d <= e
  BY <1>3, LeastOfNat
<1>5. PICK v \in Bad : T1[v].dist = d
  BY <1>4
<1> DEFINE p == T1[v].path
           q == T2[v].path
<1>6. v \in DOMAIN T1 /\ v \in DOMAIN T2 /\ ~ Agree(p, q)
  BY <1>5
<1>t. Path(T1, S1, full \ S1, v, p) /\ Leads(T1, S1, weight, full \ S1, v, p)
  BY <1>1, <1>6, PathFacts
<1>u. Path(T2, S2, full \ S2, v, q) /\ Leads(T2, S2, weight, full \ S2, v, q)
  BY <1>1, <1>6, PathFacts
<1>d. p = T1[v].path /\ q = T2[v].path
  OBVIOUS
<1> HIDE DEF p, q
<1>p. /\ Len(p) \in Nat \ {0} /\ p[Len(p)] = v /\ Leads(T1, S1, weight, full \ S1, v, p)
      /\ \A i, j \in 1 .. Len(p) : p[i] = p[j] => i = j
      /\ \A i \in 1 .. Len(p) : p[i] \in DOMAIN T1
      /\ \A i, j \in 1 .. Len(p) : i < j => T1[p[i]].dist < T1[p[j]].dist
  BY <1>t DEF Path
<1>q. /\ Len(q) \in Nat \ {0} /\ q[Len(q)] = v /\ Leads(T2, S2, weight, full \ S2, v, q)
      /\ \A i, j \in 1 .. Len(q) : q[i] = q[j] => i = j
      /\ \A i \in 1 .. Len(q) : q[i] \in DOMAIN T2
  BY <1>u DEF Path
<1>7. ASSUME NEW k \in 2 .. Len(p), NEW l \in 2 .. Len(q), p[k] = q[l]
      PROVE  Len(p) - k = Len(q) - l /\ \A m \in 0 .. Len(p) - k : p[k + m] = q[l + m]
  <2>0. /\ k \in 1 .. Len(p) /\ l \in 1 .. Len(q) /\ Len(p) \in 1 .. Len(p) /\ Len(q) \in 1 .. Len(q)
        /\ k \in Nat /\ l \in Nat /\ Len(p) \in Nat /\ Len(q) \in Nat
    BY <1>p, <1>q
  <2>1. CASE k = Len(p) \/ l = Len(q)
    <3>1. k = Len(p) /\ l = Len(q)
      BY <2>0, <2>1, <1>7, <1>p, <1>q
    <3>2. \A m \in 0 .. Len(p) - k : m = 0
      BY <3>1, <1>p
    <3> QED
      BY <3>1, <3>2, <1>7, <1>p, <1>q
  <2>2. CASE ~ (k = Len(p) \/ l = Len(q))
    <3>1. k \in 2 .. Len(p) - 1 /\ l \in 2 .. Len(q) - 1
      BY <2>2, <1>p, <1>q
    <3> DEFINE i == Len(p) - 1
               j == Len(q) - 1
    <3>2. p[i] = q[j]
      <4>1. p[Len(p) - 1] = q[Len(q) - 1]
        <5> HIDE DEF Bad, N, i, j
        <5>1. Joint(p, q)
          BY <1>6, <1>d, SameDoor
        <5> QED
          BY <5>1, <3>1, <1>7 DEF Joint
      <4> QED
        BY <4>1
    <3>3. i \in 1 .. Len(p) /\ j \in 1 .. Len(q) /\ i < Len(p) /\ k \in 2 .. i /\ l \in 2 .. j
      BY <3>1, <2>0
    <3>4. /\ Len(T1[p[i]].path) = i /\ \A m \in 1 .. i : T1[p[i]].path[m] = p[m]
          /\ Len(T2[q[j]].path) = j /\ \A m \in 1 .. j : T2[q[j]].path[m] = q[m]
      BY <3>3, <1>p, <1>q DEF Leads
    <3>5. p[i] \in DOMAIN T1 /\ p[i] \in DOMAIN T2 /\ T1[p[i]].dist < T1[v].dist
      BY <3>2, <3>3, <2>0, <1>p, <1>q
    <3>6. Agree(T1[p[i]].path, T2[q[j]].path)
      <4>1. p[i] \in Bad => d <= T1[p[i]].dist
        BY <1>4
      <4>2. p[i] \notin Bad
        BY <4>1, <3>5, <1>2, <1>5, <1>6
      <4> QED
        BY <4>2, <3>2, <3>5
    <3>7. k \in 1 .. i /\ l \in 1 .. j
      BY <3>3
    <3> HIDE DEF i, j, Bad, N
    <3>8. T1[p[i]].path[k] = T2[q[j]].path[l]
      BY <3>4, <3>7, <1>7
    <3>9. i - k = j - l /\ \A m \in 0 .. i - k : T1[p[i]].path[k + m] = T2[q[j]].path[l + m]
      <4>1. PICK r : r = T1[p[i]].path
        OBVIOUS
      <4>2. PICK t : t = T2[q[j]].path
        OBVIOUS
      <4>3. Agree(r, t) /\ r[k] = t[l] /\ Len(r) = i /\ Len(t) = j
        BY <4>1, <4>2, <3>4, <3>6, <3>8
      <4>4. i - k = j - l /\ \A m \in 0 .. i - k : r[k + m] = t[l + m]
        BY <4>3, <3>3 DEF Agree
      <4> QED
        BY <4>1, <4>2, <4>4
    <3>10. i = Len(p) - 1 /\ j = Len(q) - 1 /\ i \in Nat /\ j \in Nat
      BY <1>p, <1>q, <3>3 DEF i, j
    <3>11. Len(p) - k = Len(q) - l
      BY <3>9, <3>10, <2>0, <1>p, <1>q
    <3>12. ASSUME NEW m \in 0 .. Len(p) - k PROVE p[k + m] = q[l + m]
      <4>1. CASE m = Len(p) - k
        <5>1. k + m = Len(p)
          BY <4>1, <2>0
        <5>2. l + m = Len(q)
          BY <4>1, <3>11, <2>0
        <5> QED
          BY <5>1, <5>2, <1>p, <1>q
      <4>2. CASE m # Len(p) - k
        <5>1. m \in 0 .. i - k /\ k + m \in 1 .. i /\ l + m \in 1 .. j
          BY <4>2, <3>10, <3>9, <2>0, <1>p, <1>q
        <5> QED
          BY <5>1, <3>4, <3>9
      <4> QED
        BY <4>1, <4>2
    <3> QED
      BY <3>11, <3>12
  <2> QED
    BY <2>1, <2>2
<1>8. Agree(p, q)
  <2> HIDE DEF Bad, N
  <2> QED
    BY <1>7 DEF Agree
<1> QED
  BY <1>6, <1>8

-----------------------------------------------------------------------------
(* FindEmbedding: connected sets *)

\* Connected sets that share a vertex make up a connected set.
LEMMA ConnectedFamily ==
  ASSUME NEW F, NEW x, \A A \in F : x \in A /\ Connected(A)
  PROVE  Connected(UNION F)
<1> SUFFICES ASSUME NEW T \in SUBSET (UNION F), T # {}, T # UNION F
    PROVE  \E p \in T, q \in (UNION F) \ T : {p, q} \in Target
  BY DEF Connected
<1>1. \E A \in F : T \cap A # {} /\ A \ T # {}
  <2>1. CASE x \in T
    <3>1. PICK y : y \in UNION F /\ y \notin T
      BY Zenon
    <3>2. PICK A \in F : y \in A
      BY <3>1
    <3> QED
      BY <2>1, <3>1, <3>2
  <2>2. CASE x \notin T
    <3>1. PICK y \in T : TRUE
      OBVIOUS
    <3>2. PICK A \in F : y \in A
      BY <3>1
    <3> QED
      BY <2>2, <3>1, <3>2
  <2> QED
    BY <2>1, <2>2
<1>2. PICK A \in F : T \cap A # {} /\ A \ T # {}
  BY <1>1
<1>3. T \cap A \in SUBSET A /\ T \cap A # {} /\ T \cap A # A /\ Connected(A)
  BY <1>2
<1>4. PICK p \in T \cap A, q \in A \ (T \cap A) : {p, q} \in Target
  BY <1>3 DEF Connected
<1> QED
  BY <1>4

\* Two connected sets that share a vertex.
LEMMA ConnectedTwo ==
  ASSUME NEW A, NEW B, NEW x, x \in A, x \in B, Connected(A), Connected(B)
  PROVE  Connected(A \cup B)
<1>1. \A C \in {A, B} : x \in C /\ Connected(C)
  OBVIOUS
<1>2. Connected(UNION {A, B})
  BY <1>1, ConnectedFamily
<1>3. UNION {A, B} = A \cup B
  OBVIOUS
<1> QED
  BY <1>2, <1>3

\* A vertex by itself, and none.
LEMMA ConnectedOne ==
  ASSUME NEW x
  PROVE  Connected({x}) /\ Connected({})
<1>1. \A T \in SUBSET {x} : T = {} \/ T = {x}
  OBVIOUS
<1>2. \A T \in SUBSET {} : T = {}
  OBVIOUS
<1> QED
  BY <1>1, <1>2 DEF Connected

\* What lies on a path.
Stretch(p, a, b) == {p[k] : k \in a .. b}

\* It is connected.
LEMMA ConnectedStretch ==
  ASSUME NEW p, NEW a \in Int, NEW b \in Int, \A k \in a .. b - 1 : {p[k + 1], p[k]} \in Target
  PROVE  Connected(Stretch(p, a, b))
<1> SUFFICES ASSUME NEW T \in SUBSET Stretch(p, a, b), T # {}, T # Stretch(p, a, b),
                    \A x \in T, y \in Stretch(p, a, b) \ T : {x, y} \notin Target
    PROVE  FALSE
  BY DEF Connected
<1>1. \A k \in a .. b : p[k] \in Stretch(p, a, b)
  BY DEF Stretch
<1>2. ASSUME NEW k \in a .. b - 1 PROVE p[k] \in T <=> p[k + 1] \in T
  <2>1. k \in a .. b /\ k + 1 \in a .. b
    OBVIOUS
  <2>2. {p[k + 1], p[k]} \in Target /\ {p[k + 1], p[k]} = {p[k], p[k + 1]}
    OBVIOUS
  <2> QED
    BY <2>1, <2>2, <1>1
<1> DEFINE A == {n \in Nat : a + n <= b => (p[a + n] \in T <=> p[a] \in T)}
<1>3. 0 \in A
  OBVIOUS
<1>4. ASSUME NEW n \in Nat, n \in A PROVE n + 1 \in A
  <2> SUFFICES ASSUME a + (n + 1) <= b PROVE p[a + (n + 1)] \in T <=> p[a] \in T
    OBVIOUS
  <2>1. a + n \in a .. b - 1 /\ a + n <= b /\ (a + n) + 1 = a + (n + 1)
    OBVIOUS
  <2> QED
    BY <2>1, <1>2, <1>4
<1>5. Nat \subseteq A
  <2> HIDE DEF A
  <2> QED
    BY <1>3, <1>4, InductiveSet
<1>6. \A k \in a .. b : p[k] \in T <=> p[a] \in T
  <2> SUFFICES ASSUME NEW k \in a .. b PROVE p[k] \in T <=> p[a] \in T
    OBVIOUS
  <2>1. k - a \in Nat /\ a + (k - a) = k /\ k <= b
    OBVIOUS
  <2> QED
    BY <1>5, <2>1
<1>7. PICK x \in T : TRUE
  OBVIOUS
<1>8. PICK y : y \in Stretch(p, a, b) /\ y \notin T
  BY Zenon
<1>9. PICK i \in a .. b : p[i] = x
  BY <1>7 DEF Stretch
<1>10. PICK j \in a .. b : p[j] = y
  BY <1>8 DEF Stretch
<1> QED
  BY <1>6, <1>7, <1>8, <1>9, <1>10

-----------------------------------------------------------------------------
(* FindEmbedding: what the paths to a root become *)

\* The first place of a sequence that is in a set, or the one after the last.
LEMMA FirstInIs ==
  ASSUME NEW q, Len(q) \in Nat, DOMAIN q = 1 .. Len(q), NEW S
  PROVE  /\ FirstIn(q, S) \in 1 .. Len(q) + 1
         /\ FirstIn(q, S) <= Len(q) => q[FirstIn(q, S)] \in S
         /\ \A k \in 1 .. FirstIn(q, S) - 1 : q[k] \notin S
<1> DEFINE M == {Len(q) + 1} \cup {i \in DOMAIN q : q[i] \in S}
           f == Min(M)
<1>1. M \subseteq Int /\ M # {} /\ \A x \in M : 1 <= x
  OBVIOUS
<1>m. Len(q) + 1 \in M /\ \A x \in M : x = Len(q) + 1 \/ (x \in 1 .. Len(q) /\ q[x] \in S)
  OBVIOUS
<1>n. \A k \in 1 .. Len(q) : q[k] \in S => k \in M
  OBVIOUS
<1> HIDE DEF M
<1>2. f \in M /\ \A y \in M : f <= y
  <2>1. M \subseteq Int /\ M # {} /\ 1 \in Int /\ \A x \in M : 1 <= x
    BY <1>1
  <2> QED
    BY <2>1, MinOfBounded, Zenon
<1>3. f = FirstIn(q, S)
  BY DEF FirstIn, M
<1> HIDE DEF f
<1>4. f \in 1 .. Len(q) + 1 /\ (f <= Len(q) => q[f] \in S)
  BY <1>2, <1>m
<1>5. ASSUME NEW k \in 1 .. f - 1 PROVE q[k] \notin S
  <2>1. k \in 1 .. Len(q) /\ ~ (f <= k)
    BY <1>4
  <2> QED
    BY <2>1, <1>2, <1>n
<1> QED
  BY <1>3, <1>4, <1>5

\* A path to a root.
Way(root, p) ==
  /\ p \in Seq(TargetVertices) /\ Len(p) \in Nat \ {0} /\ p[Len(p)] = root
  /\ \A j, k \in 1 .. Len(p) : p[j] = p[k] => j = k
  /\ \A k \in 1 .. Len(p) - 1 : {p[k + 1], p[k]} \in Target

\* Paths to one root that go on together once they have met.
Bundle(root, path) ==
  /\ DOMAIN path \subseteq Nat \ {0} /\ IsFiniteSet(DOMAIN path)
  /\ \A i \in DOMAIN path : Way(root, path[i])
  /\ \A i, j \in DOMAIN path : Agree(path[i], path[j])

\* The last place of a path that the chain it comes from may have.
Cut(path, i) == FirstIn(Inner(path[i]), Doubles(path))

\* What ToSet makes of the part of a sequence from a to b.
LEMMA PartIs ==
  ASSUME NEW S, NEW q \in Seq(S), NEW a \in 1 .. Len(q) + 1, NEW b \in 0 .. Len(q)
  PROVE  /\ SubSeq(q, a, b) \in Seq(S) /\ DOMAIN SubSeq(q, a, b) = 1 .. Len(SubSeq(q, a, b))
         /\ Len(SubSeq(q, a, b)) = (IF a <= b THEN b - a + 1 ELSE 0)
         /\ \A k \in 1 .. Len(SubSeq(q, a, b)) : SubSeq(q, a, b)[k] = q[a + k - 1]
OBVIOUS

\* A path without its ends.
LEMMA InnerIs ==
  ASSUME NEW root, NEW p, Way(root, p)
  PROVE  /\ Len(Inner(p)) = (IF Len(p) = 1 THEN 0 ELSE Len(p) - 2)
         /\ Inner(p) \in Seq(TargetVertices) /\ DOMAIN Inner(p) = 1 .. Len(Inner(p))
         /\ \A k \in 1 .. Len(Inner(p)) : Inner(p)[k] = p[k + 1]
<1>1. p \in Seq(TargetVertices) /\ Len(p) \in Nat /\ Len(p) # 0
  BY DEF Way
<1>2. PICK n \in Nat : n = Len(p) /\ n # 0
  BY <1>1
<1>3. 2 \in 1 .. n + 1 /\ n - 1 \in 0 .. n
  BY <1>2
<1>4. Inner(p) = SubSeq(p, 2, n - 1)
  BY <1>2 DEF Inner
<1>5. /\ SubSeq(p, 2, n - 1) \in Seq(TargetVertices)
      /\ DOMAIN SubSeq(p, 2, n - 1) = 1 .. Len(SubSeq(p, 2, n - 1))
      /\ Len(SubSeq(p, 2, n - 1)) = (IF 2 <= n - 1 THEN (n - 1) - 2 + 1 ELSE 0)
      /\ \A k \in 1 .. Len(SubSeq(p, 2, n - 1)) : SubSeq(p, 2, n - 1)[k] = p[2 + k - 1]
  BY <1>1, <1>2, <1>3, PartIs
<1>6. Len(SubSeq(p, 2, n - 1)) = (IF n = 1 THEN 0 ELSE n - 2)
  <2>1. (IF 2 <= n - 1 THEN (n - 1) - 2 + 1 ELSE 0) = (IF n = 1 THEN 0 ELSE n - 2)
    BY <1>2
  <2> QED
    BY <1>5, <2>1
<1>7. Len(SubSeq(p, 2, n - 1)) \in Nat
  BY <1>2, <1>6
<1>8. \A k \in 1 .. Len(SubSeq(p, 2, n - 1)) : 2 + k - 1 = k + 1
  BY <1>7
<1>9. \A k \in 1 .. Len(SubSeq(p, 2, n - 1)) : SubSeq(p, 2, n - 1)[k] = p[k + 1]
  BY <1>5, <1>8
<1> QED
  BY <1>2, <1>4, <1>5, <1>6, <1>9

\* The own part of a path, and that no other path goes through it.
LEMMA OwnPartIs ==
  ASSUME NEW root, NEW path, Bundle(root, path), NEW i \in DOMAIN path
  PROVE  /\ Cut(path, i) \in 1 .. Len(path[i])
         /\ Len(path[i]) # 1 => Cut(path, i) < Len(path[i])
         /\ OwnPart(path, i) \in Seq(TargetVertices)
         /\ Len(OwnPart(path, i)) = Cut(path, i) - 1
         /\ \A k \in 1 .. Cut(path, i) - 1 : OwnPart(path, i)[k] = path[i][k + 1]
         /\ \A k \in 2 .. Cut(path, i) : \A j \in DOMAIN path \ {i} :
              \A l \in 2 .. Len(path[j]) - 1 : path[j][l] # path[i][k]
<1> DEFINE p == path[i]
           q == Inner(p)
           c == FirstIn(q, Doubles(path))
<1>0. \A j \in DOMAIN path : Way(root, path[j]) /\ Len(path[j]) \in Nat
  BY DEF Bundle, Way
<1>1. Way(root, p) /\ Len(p) \in Nat \ {0} /\ p \in Seq(TargetVertices)
  BY DEF Bundle, Way
<1>2. /\ Len(q) = (IF Len(p) = 1 THEN 0 ELSE Len(p) - 2)
      /\ q \in Seq(TargetVertices) /\ DOMAIN q = 1 .. Len(q)
      /\ \A k \in 1 .. Len(q) : q[k] = p[k + 1]
  BY <1>1, InnerIs
<1>d. OwnPart(path, i) = SubSeq(q, 1, c - 1) /\ Cut(path, i) = c
  BY DEF OwnPart, Cut
<1>j. \A j \in DOMAIN path : \A l \in 2 .. Len(path[j]) - 1 : path[j][l] \in ToSet(Inner(path[j]))
  <2> SUFFICES ASSUME NEW j \in DOMAIN path, NEW l \in 2 .. Len(path[j]) - 1
      PROVE  path[j][l] \in ToSet(Inner(path[j]))
    OBVIOUS
  <2>1. /\ Len(Inner(path[j])) = (IF Len(path[j]) = 1 THEN 0 ELSE Len(path[j]) - 2)
        /\ DOMAIN Inner(path[j]) = 1 .. Len(Inner(path[j]))
        /\ \A k \in 1 .. Len(Inner(path[j])) : Inner(path[j])[k] = path[j][k + 1]
    BY <1>0, InnerIs
  <2>2. l - 1 \in 1 .. Len(Inner(path[j])) /\ (l - 1) + 1 = l
    <3>1. Len(path[j]) \in Nat /\ l \in 2 .. Len(path[j]) - 1
      BY <1>0
    <3>3. Len(path[j]) # 1
      <4>1. \A n \in Nat : l \in 2 .. n - 1 => n # 1
        OBVIOUS
      <4> QED
        BY <3>1, <4>1
    <3>2. Len(Inner(path[j])) = Len(path[j]) - 2
      BY <3>3, <2>1
    <3> QED
      BY <3>1, <3>2
  <2> QED
    BY <2>1, <2>2 DEF ToSet
<1> HIDE DEF q, c
<1>3. Len(q) \in Nat
  BY <1>1, <1>2
<1>4. c \in 1 .. Len(q) + 1 /\ \A k \in 1 .. c - 1 : q[k] \notin Doubles(path)
  BY <1>2, <1>3, FirstInIs DEF c
<1>5. c \in 1 .. Len(p) /\ (Len(p) # 1 => c < Len(p))
  BY <1>1, <1>2, <1>4
<1>6. /\ SubSeq(q, 1, c - 1) \in Seq(TargetVertices) /\ Len(SubSeq(q, 1, c - 1)) = c - 1
      /\ \A k \in 1 .. c - 1 : SubSeq(q, 1, c - 1)[k] = p[k + 1]
  <2>1. 1 \in 1 .. Len(q) + 1 /\ c - 1 \in 0 .. Len(q) /\ c \in Nat
    BY <1>3, <1>4
  <2>2. /\ SubSeq(q, 1, c - 1) \in Seq(TargetVertices)
        /\ Len(SubSeq(q, 1, c - 1)) = (IF 1 <= c - 1 THEN (c - 1) - 1 + 1 ELSE 0)
        /\ \A k \in 1 .. Len(SubSeq(q, 1, c - 1)) : SubSeq(q, 1, c - 1)[k] = q[1 + k - 1]
    BY <1>2, <2>1, PartIs
  <2>3. Len(SubSeq(q, 1, c - 1)) = c - 1
    BY <2>1, <2>2, <1>4
  <2>4. ASSUME NEW k \in 1 .. c - 1 PROVE SubSeq(q, 1, c - 1)[k] = p[k + 1]
    <3>1. k \in 1 .. Len(q) /\ 1 + k - 1 = k
      BY <2>1
    <3> QED
      BY <2>2, <2>3, <3>1, <1>2
  <2> QED
    BY <2>2, <2>3, <2>4
<1>7. ASSUME NEW k \in 2 .. c, NEW j \in DOMAIN path \ {i}, NEW l \in 2 .. Len(path[j]) - 1
      PROVE  path[j][l] # p[k]
  <2> SUFFICES ASSUME path[j][l] = p[k] PROVE FALSE
    OBVIOUS
  <2>1. /\ k - 1 \in 1 .. c - 1 /\ k - 1 \in 1 .. Len(q) /\ (k - 1) + 1 = k
        /\ k \in 2 .. Len(p) - 1
    BY <1>1, <1>2, <1>4
  <2>2. p[k] \in ToSet(Inner(path[j])) /\ p[k] \in ToSet(Inner(path[i]))
    BY <2>1, <1>j
  <2>3. p[k] \in TargetVertices
    BY <2>1, <1>1, ElementOfSeq
  <2>4. p[k] \in Doubles(path)
    BY <2>2, <2>3 DEF Doubles
  <2>5. q[k - 1] = p[k]
    BY <2>1, <1>2
  <2> QED
    BY <2>1, <2>4, <2>5, <1>4
<1> QED
  BY <1>d, <1>5, <1>6, <1>7

\* Max of a finite set of numbers.
LEMMA MaxIs ==
  ASSUME NEW S, IsFiniteSet(S), S # {}, S \subseteq Int
  PROVE  Max(S) \in S /\ \A y \in S : y <= Max(S)
<1> DEFINE f == [x \in S |-> x]
<1>1. \A x \in S : f[x] \in Int /\ f[x] = x
  OBVIOUS
<1> HIDE DEF f
<1>2. PICK x \in S : \A y \in S : f[y] <= f[x]
  BY <1>1, LargestExists
<1>3. \E z \in S : \A y \in S : z >= y
  BY <1>1, <1>2
<1>4. Max(S) \in S /\ \A y \in S : Max(S) >= y
  BY <1>3 DEF Max
<1> QED
  BY <1>4

\* The new chain takes a path from the first shared vertex to where it meets the chain.
LEMMA LengthenedIs ==
  ASSUME NEW root, NEW path, Bundle(root, path), NEW i \in DOMAIN path,
         NEW tree, root \in tree
  PROVE  \E r \in Cut(path, i) + 1 .. Len(path[i]) + 1 :
           /\ Lengthened(tree, path, i) = tree \cup Stretch(path[i], Cut(path, i) + 1, r - 1)
           /\ IF Len(path[i]) = 1 THEN r = Cut(path, i) + 1 ELSE r <= Len(path[i]) /\ path[i][r] \in tree
<1> DEFINE p == path[i]
           q == Inner(p)
           c == FirstIn(q, Doubles(path))
           u == SubSeq(q, c, Len(q))
           f == FirstIn(u, tree)
<1>1. Way(root, p) /\ Len(p) \in Nat \ {0} /\ p \in Seq(TargetVertices) /\ p[Len(p)] = root
  BY DEF Bundle, Way
<1>2. /\ Len(q) = (IF Len(p) = 1 THEN 0 ELSE Len(p) - 2)
      /\ q \in Seq(TargetVertices) /\ DOMAIN q = 1 .. Len(q)
      /\ \A k \in 1 .. Len(q) : q[k] = p[k + 1]
  BY <1>1, InnerIs
<1>3. Cut(path, i) = c
  BY DEF Cut
<1>4. Lengthened(tree, path, i) = tree \cup ToSet(SubSeq(u, 1, f - 1))
  BY DEF Lengthened
<1> HIDE DEF q, c
<1>5. Len(q) \in Nat
  BY <1>1, <1>2
<1>6. c \in 1 .. Len(q) + 1
  BY <1>2, <1>5, FirstInIs DEF c
<1>7. /\ u \in Seq(TargetVertices) /\ DOMAIN u = 1 .. Len(u)
      /\ Len(u) = (IF c <= Len(q) THEN Len(q) - c + 1 ELSE 0)
      /\ \A k \in 1 .. Len(u) : u[k] = q[c + k - 1]
  <2>1. Len(q) \in 0 .. Len(q)
    BY <1>5
  <2> QED
    BY <1>2, <1>6, <2>1, PartIs
<1> HIDE DEF u
<1>8. Len(u) = Len(q) - c + 1 /\ Len(u) \in Nat /\ c \in Nat
  BY <1>5, <1>6, <1>7
<1>9. \A k \in 1 .. Len(u) : u[k] = p[c + k]
  <2> SUFFICES ASSUME NEW k \in 1 .. Len(u) PROVE u[k] = p[c + k]
    OBVIOUS
  <2>1. c + k - 1 \in 1 .. Len(q) /\ (c + k - 1) + 1 = c + k
    BY <1>5, <1>6, <1>8
  <2> QED
    BY <2>1, <1>2, <1>7
<1>10. f \in 1 .. Len(u) + 1 /\ (f <= Len(u) => u[f] \in tree)
  BY <1>7, <1>8, FirstInIs
<1> HIDE DEF f
<1>11. ToSet(SubSeq(u, 1, f - 1)) = Stretch(p, c + 1, (c + f) - 1)
  <2>1. 1 \in 1 .. Len(u) + 1 /\ f - 1 \in 0 .. Len(u) /\ f \in Nat /\ f # 0
    BY <1>8, <1>10
  <2> DEFINE t == SubSeq(u, 1, f - 1)
  <2>2. /\ DOMAIN t = 1 .. Len(t) /\ Len(t) = (IF 1 <= f - 1 THEN (f - 1) - 1 + 1 ELSE 0)
        /\ \A k \in 1 .. Len(t) : t[k] = u[1 + k - 1]
    BY <1>7, <2>1, PartIs
  <2> HIDE DEF t
  <2>3. Len(t) = f - 1
    BY <2>1, <2>2
  <2>4. \A k \in 1 .. f - 1 : t[k] = p[c + k]
    <3> SUFFICES ASSUME NEW k \in 1 .. f - 1 PROVE t[k] = p[c + k]
      OBVIOUS
    <3>1. 1 + k - 1 = k /\ k \in 1 .. Len(u) /\ k \in 1 .. Len(t)
      BY <2>1, <2>3
    <3>2. t[k] = u[k]
      BY <3>1, <2>2
    <3> QED
      BY <3>1, <3>2, <1>9
  <2>5. ToSet(t) = {t[k] : k \in 1 .. f - 1}
    BY <2>2, <2>3 DEF ToSet
  <2>6. ASSUME NEW k \in c + 1 .. (c + f) - 1 PROVE k - c \in 1 .. f - 1 /\ c + (k - c) = k
    BY <1>8, <2>1
  <2>7. ASSUME NEW k \in 1 .. f - 1 PROVE c + k \in c + 1 .. (c + f) - 1
    BY <1>8, <2>1
  <2>8. Stretch(p, c + 1, (c + f) - 1) = {t[k] : k \in 1 .. f - 1}
    BY <2>4, <2>6, <2>7 DEF Stretch
  <2> QED
    BY <2>5, <2>8 DEF t
<1>12. /\ c + f \in c + 1 .. Len(p) + 1
       /\ IF Len(p) = 1 THEN c + f = c + 1 ELSE c + f <= Len(p) /\ p[c + f] \in tree
  <2>1. CASE Len(p) = 1
    <3>1. Len(q) = 0
      BY <2>1, <1>2
    <3>2. c = 1 /\ f = 1
      BY <3>1, <1>6, <1>8, <1>10
    <3> QED
      BY <2>1, <3>2
  <2>2. CASE Len(p) # 1
    <3>1. Len(q) = Len(p) - 2 /\ Len(p) \in Nat /\ f \in Nat
      BY <2>2, <1>1, <1>2, <1>8, <1>10
    <3>2. c + f \in c + 1 .. Len(p) /\ c + f \in c + 1 .. Len(p) + 1
      BY <3>1, <1>8, <1>10
    <3>3. CASE f <= Len(u)
      <4>1. f \in 1 .. Len(u)
        BY <3>3, <1>8, <1>10
      <4> QED
        BY <2>2, <3>2, <3>3, <4>1, <1>9, <1>10, <3>1
    <3>4. CASE ~ (f <= Len(u))
      <4>1. c + f = Len(p)
        BY <3>1, <3>4, <1>8, <1>10
      <4> QED
        BY <2>2, <3>2, <3>1, <4>1, <1>1
    <3> QED
      BY <3>3, <3>4
  <2> QED
    BY <2>1, <2>2
<1> QED
  BY <1>3, <1>4, <1>11, <1>12

\* What a new chain holds when the first n paths have been looked at: it is
\* connected, it goes on to the root from each of its vertices along the path
\* this vertex comes from, and it has all that the paths leave to it.
Branches(root, path, tree) ==
  \A x \in tree \ {root} : \E i \in DOMAIN path : \E k \in 2 .. Len(path[i]) - 1 :
    path[i][k] = x /\ k > Cut(path, i) /\ \A m \in k .. Len(path[i]) : path[i][m] \in tree
Tree(root, path, n, tree) ==
  /\ tree \subseteq TargetVertices /\ root \in tree /\ Connected(tree)
  /\ Branches(root, path, tree)
  /\ \A i \in DOMAIN path : i <= n => \A k \in Cut(path, i) + 1 .. Len(path[i]) : path[i][k] \in tree

\* Each path adds a connected piece to the tree.
LEMMA TreeGrows ==
  ASSUME NEW root, NEW path, Bundle(root, path), NEW n \in Nat, NEW tree, Tree(root, path, n, tree)
  PROVE  Tree(root, path, n + 1, Lengthened(tree, path, n + 1))
<1> DEFINE i == n + 1
           next == Lengthened(tree, path, i)
<1>t. /\ tree \subseteq TargetVertices /\ root \in tree /\ Connected(tree) /\ Branches(root, path, tree)
      /\ \A j \in DOMAIN path : j <= n => \A k \in Cut(path, j) + 1 .. Len(path[j]) : path[j][k] \in tree
  BY DEF Tree
<1>n. DOMAIN path \subseteq Nat
  BY DEF Bundle
<1>1. CASE i \notin DOMAIN path
  <2>1. next = tree
    BY <1>1 DEF Lengthened
  <2>2. \A j \in DOMAIN path : j <= i => j <= n
    BY <1>1, <1>n
  <2> QED
    BY <2>1, <2>2, <1>t DEF Tree
<1>2. CASE i \in DOMAIN path
  <2> DEFINE p == path[i]
             c == Cut(path, i)
  <2>1. PICK r \in c + 1 .. Len(p) + 1 :
           /\ next = tree \cup Stretch(p, c + 1, r - 1)
           /\ IF Len(p) = 1 THEN r = c + 1 ELSE r <= Len(p) /\ p[r] \in tree
    BY <1>2, <1>t, LengthenedIs
  <2>w. /\ p \in Seq(TargetVertices) /\ Len(p) \in Nat \ {0} /\ p[Len(p)] = root
        /\ \A j, k \in 1 .. Len(p) : p[j] = p[k] => j = k
        /\ \A k \in 1 .. Len(p) - 1 : {p[k + 1], p[k]} \in Target
    BY <1>2 DEF Bundle, Way
  <2>c. c \in 1 .. Len(p) /\ (Len(p) # 1 => c < Len(p))
    BY <1>2, OwnPartIs
  <2> HIDE DEF next, p, c
  <2>2. CASE Len(p) = 1
    <3>1. next = tree
      <4>1. c \in Int /\ r - 1 = c /\ c + 1 .. c = {}
        BY <2>2, <2>1, <2>c
      <4>2. Stretch(p, c + 1, r - 1) = {}
        BY <4>1 DEF Stretch
      <4> QED
        BY <2>1, <4>2
    <3>2. \A k \in c + 1 .. Len(p) : FALSE
      BY <2>2, <2>c
    <3>3. \A j \in DOMAIN path : j <= i => j <= n \/ j = i
      BY <1>n
    <3> QED
      BY <3>1, <3>2, <3>3, <1>t DEF Tree, p, c, next
  <2>3. CASE Len(p) # 1
    <3>1. r \in c + 1 .. Len(p) /\ p[r] \in tree /\ c \in 1 .. Len(p) - 1 /\ r \in Nat /\ c \in Nat
      BY <2>1, <2>3, <2>c, <2>w
    <3> DEFINE new == Stretch(p, c + 1, r - 1)
    <3>2. next = tree \cup new
      BY <2>1
    <3>3. \A k \in 1 .. Len(p) : p[k] \in TargetVertices
      BY <2>w, ElementOfSeq
    \* From where the path meets the chain it stays in it.
    <3>4. \A m \in r .. Len(p) : p[m] \in tree
      <4>1. CASE p[r] = root
        <5>1. r = Len(p)
          BY <4>1, <3>1, <2>w
        <5>2. \A m \in r .. Len(p) : m = r
          BY <5>1, <3>1
        <5> QED
          BY <5>2, <3>1
      <4>2. CASE p[r] # root
        <5>1. PICK j \in DOMAIN path : \E k \in 2 .. Len(path[j]) - 1 :
                path[j][k] = p[r] /\ k > Cut(path, j) /\ \A m \in k .. Len(path[j]) : path[j][m] \in tree
          BY <4>2, <3>1, <1>t DEF Branches
        <5> DEFINE q == path[j]
        <5>q. Len(q) \in Nat
          BY DEF Bundle, Way
        <5>2. PICK k \in 2 .. Len(q) - 1 : q[k] = p[r] /\ \A m \in k .. Len(q) : q[m] \in tree
          BY <5>1
        <5>3. Agree(p, q)
          BY <1>2 DEF Bundle, p
        <5> HIDE DEF q
        <5>4. r \in 2 .. Len(p) /\ k \in 2 .. Len(q)
          BY <3>1, <2>w, <5>q
        <5>5. Len(p) - r = Len(q) - k /\ \A m \in 0 .. Len(p) - r : p[r + m] = q[k + m]
          BY <5>2, <5>3, <5>4 DEF Agree
        <5>6. ASSUME NEW m \in r .. Len(p) PROVE p[m] \in tree
          <6>1. m - r \in 0 .. Len(p) - r /\ r + (m - r) = m
            BY <3>1, <2>w
          <6>2. k + (m - r) \in k .. Len(q)
            BY <6>1, <5>4, <5>5, <5>q, <3>1, <2>w
          <6> QED
            BY <6>1, <6>2, <5>2, <5>5
        <5> QED
          BY <5>6
      <4> QED
        BY <4>1, <4>2
    <3>5. \A k \in c + 1 .. Len(p) : p[k] \in next
      <4> SUFFICES ASSUME NEW k \in c + 1 .. Len(p) PROVE p[k] \in next
        OBVIOUS
      <4>1. k \in c + 1 .. r - 1 \/ k \in r .. Len(p)
        BY <3>1, <2>w
      <4> QED
        BY <4>1, <3>2, <3>4 DEF Stretch
    <3>6. next \subseteq TargetVertices
      <4>1. \A k \in c + 1 .. r - 1 : k \in 1 .. Len(p)
        BY <3>1, <2>w
      <4> QED
        BY <4>1, <3>2, <3>3, <1>t DEF Stretch
    <3>7. Connected(next)
      <4>1. \A k \in c + 1 .. r - 1 : k \in 1 .. Len(p) - 1
        BY <3>1, <2>w
      <4>2. \A k \in c + 1 .. r - 1 : {p[k + 1], p[k]} \in Target
        BY <4>1, <2>w
      <4>3. c + 1 \in Int /\ r \in Int /\ r \in c + 1 .. r
        BY <3>1
      <4>4. Connected(Stretch(p, c + 1, r))
        BY <4>2, <4>3, ConnectedStretch
      <4>5. p[r] \in Stretch(p, c + 1, r)
        BY <4>3 DEF Stretch
      <4>6. Connected(tree \cup Stretch(p, c + 1, r))
        BY <4>4, <4>5, <3>1, <1>t, ConnectedTwo
      <4>7. tree \cup Stretch(p, c + 1, r) = next
        <5>1. \A k \in c + 1 .. r : k = r \/ k \in c + 1 .. r - 1
          BY <3>1
        <5>2. \A k \in c + 1 .. r - 1 : k \in c + 1 .. r
          BY <3>1
        <5> QED
          BY <5>1, <5>2, <3>1, <3>2 DEF Stretch
      <4> QED
        BY <4>6, <4>7
    <3>8. Branches(root, path, next)
      <4> SUFFICES ASSUME NEW x \in next \ {root}
          PROVE  \E j \in DOMAIN path : \E k \in 2 .. Len(path[j]) - 1 :
                   path[j][k] = x /\ k > Cut(path, j) /\ \A m \in k .. Len(path[j]) : path[j][m] \in next
        BY DEF Branches
      <4>1. CASE x \in tree
        BY <4>1, <3>2, <1>t DEF Branches
      <4>2. CASE x \in new
        <5>1. PICK k \in c + 1 .. r - 1 : x = p[k]
          BY <4>2 DEF Stretch
        <5>2. k \in 2 .. Len(p) - 1 /\ k > c
          BY <5>1, <3>1, <2>w
        <5>3. \A m \in k .. Len(p) : m \in c + 1 .. Len(p)
          BY <5>2, <3>1, <2>w
        <5> QED
          BY <5>1, <5>2, <5>3, <3>5, <1>2 DEF p, c
      <4> QED
        BY <4>1, <4>2, <3>2
    <3>9. \A j \in DOMAIN path : j <= i => \A k \in Cut(path, j) + 1 .. Len(path[j]) : path[j][k] \in next
      <4>1. \A j \in DOMAIN path : j <= i => j <= n \/ j = i
        BY <1>n
      <4> QED
        BY <4>1, <3>2, <3>5, <1>t DEF p, c
    <3> QED
      BY <3>2, <3>6, <3>7, <3>8, <3>9, <1>t DEF Tree, next
  <2> QED
    BY <2>2, <2>3
<1> QED
  BY <1>1, <1>2

\* So is the new chain.
LEMMA UTreeIs ==
  ASSUME NEW root \in TargetVertices, NEW path, Bundle(root, path)
  PROVE  \A n \in {0} \cup DOMAIN path : Tree(root, path, n, UTree(root, path))
<1> DEFINE N == Max({0} \cup DOMAIN path)
           D == SUBSET TargetVertices
           tree == CHOOSE tree : tree = [n \in 0 .. N |-> IF n = 0 THEN {root} ELSE Lengthened(tree[n - 1], path, n)]
           F == [n \in 1 .. N |-> [t \in D |-> Lengthened(t, path, n)]]
<1>1. UTree(root, path) = tree[N]
  BY DEF UTree
<1>2. N \in Nat /\ \A n \in DOMAIN path : n <= N
  <2>1. IsFiniteSet({0} \cup DOMAIN path) /\ {0} \cup DOMAIN path # {} /\ {0} \cup DOMAIN path \subseteq Nat
    BY FS_AddElement DEF Bundle
  <2>2. N \in {0} \cup DOMAIN path /\ \A y \in {0} \cup DOMAIN path : y <= N
    BY <2>1, MaxIs
  <2> QED
    BY <2>1, <2>2
<1> HIDE DEF N
<1>3. ASSUME NEW t \in D, NEW n \in Nat PROVE Lengthened(t, path, n) \in D
  <2>1. CASE n \notin DOMAIN path
    BY <2>1 DEF Lengthened
  <2>2. CASE n \in DOMAIN path
    <3> DEFINE q == Inner(path[n])
               c == FirstIn(q, Doubles(path))
               u == SubSeq(q, c, Len(q))
               f == FirstIn(u, t)
    <3>1. Way(root, path[n])
      BY <2>2 DEF Bundle
    <3>2. q \in Seq(TargetVertices) /\ DOMAIN q = 1 .. Len(q)
      BY <3>1, InnerIs
    <3>3. Lengthened(t, path, n) = t \cup ToSet(SubSeq(u, 1, f - 1))
      BY <2>2 DEF Lengthened
    <3> HIDE DEF q, c
    <3>4. Len(q) \in Nat
      BY <3>2
    <3>5. c \in 1 .. Len(q) + 1
      BY <3>2, <3>4, FirstInIs DEF c
    <3>6. u \in Seq(TargetVertices) /\ DOMAIN u = 1 .. Len(u)
      BY <3>2, <3>4, <3>5, PartIs
    <3> HIDE DEF u
    <3>7. Len(u) \in Nat
      BY <3>6
    <3>8. f \in 1 .. Len(u) + 1
      BY <3>6, <3>7, FirstInIs
    <3> HIDE DEF f
    <3>9. SubSeq(u, 1, f - 1) \in Seq(TargetVertices)
      BY <3>6, <3>7, <3>8, PartIs
    <3>10. ToSet(SubSeq(u, 1, f - 1)) \subseteq TargetVertices
      <4> DEFINE s == SubSeq(u, 1, f - 1)
      <4>1. s \in Seq(TargetVertices)
        BY <3>9
      <4> HIDE DEF s
      <4>2. DOMAIN s = 1 .. Len(s) /\ \A k \in 1 .. Len(s) : s[k] \in TargetVertices
        BY <4>1, ElementOfSeq
      <4>3. ToSet(s) \subseteq TargetVertices
        BY <4>2 DEF ToSet
      <4> QED
        BY <4>3 DEF s
    <3> QED
      BY <3>3, <3>10
  <2> QED
    BY <2>1, <2>2
<1>4. {root} \in D
  OBVIOUS
<1> HIDE DEF D
<1>5. F \in [1 .. N -> [D -> D]] /\ \A n \in 1 .. N, t \in D : F[n][t] = Lengthened(t, path, n)
  BY <1>2, <1>3
<1> HIDE DEF F
<1>6. PICK g : Rounds(N, D, {root}, F, g)
  BY <1>2, <1>4, <1>5, Iterates
<1>7. g \in [0 .. N -> D] /\ g[0] = {root} /\ \A n \in 1 .. N : g[n] = F[n][g[n - 1]]
  BY <1>6 DEF Rounds
<1>8. g = [n \in 0 .. N |-> IF n = 0 THEN {root} ELSE Lengthened(g[n - 1], path, n)]
  <2> DEFINE h == [n \in 0 .. N |-> IF n = 0 THEN {root} ELSE Lengthened(g[n - 1], path, n)]
  <2>1. ASSUME NEW n \in 1 .. N PROVE g[n] = Lengthened(g[n - 1], path, n)
    <3>1. n - 1 \in 0 .. N
      BY <1>2
    <3>2. g[n - 1] \in D
      BY <3>1, <1>7
    <3> QED
      BY <3>2, <1>5, <1>7
  <2>2. \A n \in 0 .. N : h[n] = g[n]
    BY <1>2, <1>7, <2>1
  <2>3. g = [n \in 0 .. N |-> g[n]]
    BY <1>7
  <2> QED
    BY <2>2, <2>3
<1>9. tree = [n \in 0 .. N |-> IF n = 0 THEN {root} ELSE Lengthened(tree[n - 1], path, n)]
  BY <1>8
<1> HIDE DEF tree
<1> DEFINE A == {n \in Nat : n <= N => Tree(root, path, n, tree[n])}
<1>10. 0 \in A
  <2>1. tree[0] = {root}
    BY <1>2, <1>9
  <2>2. \A i \in DOMAIN path : ~ (i <= 0)
    BY DEF Bundle
  <2>3. Branches(root, path, {root})
    BY DEF Branches
  <2>4. Tree(root, path, 0, {root})
    BY <2>2, <2>3, ConnectedOne DEF Tree
  <2> QED
    BY <2>1, <2>4
<1>11. ASSUME NEW n \in Nat, n \in A PROVE n + 1 \in A
  <2> SUFFICES ASSUME n + 1 <= N PROVE Tree(root, path, n + 1, tree[n + 1])
    OBVIOUS
  <2>1. n <= N /\ n + 1 \in 0 .. N /\ n + 1 # 0 /\ (n + 1) - 1 = n
    BY <1>2
  <2>2. tree[n + 1] = Lengthened(tree[n], path, n + 1)
    BY <2>1, <1>9
  <2> QED
    BY <2>1, <2>2, <1>11, TreeGrows
<1>12. Tree(root, path, N, tree[N])
  <2>1. Nat \subseteq A
    <3> HIDE DEF A
    <3> QED
      BY <1>10, <1>11, InductiveSet
  <2> QED
    BY <2>1, <1>2
<1>13. \A n \in {0} \cup DOMAIN path : Tree(root, path, n, tree[N])
  <2>1. DOMAIN path \subseteq Nat
    BY DEF Bundle
  <2>2. \A n \in {0} \cup DOMAIN path, i \in DOMAIN path : i <= n => i <= N
    BY <1>2
  <2> QED
    BY <1>12, <2>2 DEF Tree
<1> QED
  BY <1>1, <1>13

-----------------------------------------------------------------------------
(* FindEmbedding: a variable is placed *)

\* Neighbour i gets its path up to the place c[i], the new chain gets the rest.
Cuts(path, c) == \A i \in DOMAIN path : c[i] \in 1 .. Cut(path, i)
Piece(path, c, i) == Stretch(path[i], 2, c[i])
NewChain(root, path, c) ==
  UTree(root, path) \cup UNION {Stretch(path[i], c[i] + 1, Cut(path, i)) : i \in DOMAIN path}

\* The new chain is connected, also with a piece; it goes on where the pieces
\* end and has no vertex of theirs.
Grown(root, path, c, K) ==
  /\ root \in K /\ Connected(K)
  /\ \A x \in K : x = root \/ \E i \in DOMAIN path : \E k \in 2 .. Len(path[i]) : x = path[i][k]
  /\ \A i \in DOMAIN path :
       /\ Connected(K \cup Piece(path, c, i))
       /\ \A k \in c[i] + 1 .. Len(path[i]) : path[i][k] \in K
       /\ Piece(path, c, i) \cap K = {}
       /\ \A j \in DOMAIN path \ {i} : Piece(path, c, i) \cap Piece(path, c, j) = {}

\* Where the pieces of a path end.
LEMMA CutSorts ==
  ASSUME NEW n \in Nat \ {0}, NEW t \in Nat, NEW d \in Nat, 1 <= d, d <= t, t <= n, n # 1 => t < n
  PROVE  /\ n = 1 => d + 1 > n /\ d < 2
         /\ \A k \in d + 1 .. t : k \in d + 1 .. n /\ n # 1 /\ k \in 2 .. n - 1 /\ k > d
         /\ 2 \in Int /\ n \in Int /\ d + 1 \in Int
OBVIOUS

\* The new chain of a placement has grown in this way.
LEMMA NewChainIs ==
  ASSUME NEW root \in TargetVertices, NEW path, Bundle(root, path), NEW c, Cuts(path, c)
  PROVE  Grown(root, path, c, NewChain(root, path, c))
<1> DEFINE U == UTree(root, path)
           K == NewChain(root, path, c)
           Long == {i \in DOMAIN path : Len(path[i]) # 1}
           Tail0(i) == Stretch(path[i], c[i] + 1, Len(path[i]))
<1>n. DOMAIN path \subseteq Nat \ {0}
  BY DEF Bundle
<1>u. root \in U /\ Connected(U) /\ Branches(root, path, U)
  BY UTreeIs DEF Tree
<1>r. \A i \in DOMAIN path : \A k \in Cut(path, i) + 1 .. Len(path[i]) : path[i][k] \in U
  <2> TAKE i \in DOMAIN path
  <2>1. Tree(root, path, i, U)
    BY UTreeIs
  <2> QED
    BY <2>1, <1>n DEF Tree
<1> HIDE DEF U
<1>w. \A i \in DOMAIN path : Way(root, path[i])
  BY DEF Bundle
<1>o. \A i \in DOMAIN path :
        /\ Cut(path, i) \in 1 .. Len(path[i])
        /\ Len(path[i]) # 1 => Cut(path, i) < Len(path[i])
        /\ \A k \in 2 .. Cut(path, i) : \A j \in DOMAIN path \ {i} :
              \A l \in 2 .. Len(path[j]) - 1 : path[j][l] # path[i][k]
  BY OwnPartIs
<1>c. \A i \in DOMAIN path :
        /\ Len(path[i]) \in Nat \ {0} /\ Cut(path, i) \in Nat /\ c[i] \in Nat
        /\ 1 <= c[i] /\ c[i] <= Cut(path, i) /\ Cut(path, i) <= Len(path[i])
        /\ Len(path[i]) # 1 => c[i] < Len(path[i]) /\ Cut(path, i) < Len(path[i])
  <2> TAKE i \in DOMAIN path
  <2>1. Len(path[i]) \in Nat \ {0}
    BY <1>w DEF Way
  <2>2. c[i] \in 1 .. Cut(path, i)
    BY DEF Cuts
  <2>3. Cut(path, i) \in 1 .. Len(path[i]) /\ (Len(path[i]) # 1 => Cut(path, i) < Len(path[i]))
    BY <1>o
  <2> QED
    BY <2>1, <2>2, <2>3
<1>d. \A i \in DOMAIN path :
        /\ Len(path[i]) = 1 => c[i] + 1 > Len(path[i]) /\ c[i] < 2
        /\ \A k \in c[i] + 1 .. Cut(path, i) :
             k \in c[i] + 1 .. Len(path[i]) /\ Len(path[i]) # 1 /\ k \in 2 .. Len(path[i]) - 1 /\ k > c[i]
        /\ 2 \in Int /\ Len(path[i]) \in Int /\ c[i] + 1 \in Int
  BY <1>c, CutSorts
<1> HIDE DEF K
<1>1. \A i \in DOMAIN path : Tail0(i) \subseteq K
  <2> SUFFICES ASSUME NEW i \in DOMAIN path, NEW k \in c[i] + 1 .. Len(path[i]) PROVE path[i][k] \in K
    BY DEF Stretch
  <2>1. CASE k <= Cut(path, i)
    <3>1. k \in c[i] + 1 .. Cut(path, i)
      BY <2>1, <1>c
    <3> QED
      BY <3>1 DEF K, NewChain, Stretch
  <2>2. CASE k > Cut(path, i)
    <3>1. k \in Cut(path, i) + 1 .. Len(path[i])
      BY <2>2, <1>c
    <3>2. path[i][k] \in U
      BY <3>1, <1>r
    <3> QED
      BY <3>2 DEF K, NewChain, U
  <2> QED
    BY <2>1, <2>2, <1>c
<1>2. \A x \in K : x \in U \/ \E i \in DOMAIN path : \E k \in c[i] + 1 .. Cut(path, i) : x = path[i][k]
  BY DEF K, NewChain, U, Stretch
<1>3. \A x \in U : x = root \/ \E i \in DOMAIN path : \E k \in 2 .. Len(path[i]) - 1 : x = path[i][k] /\ k > Cut(path, i)
  BY <1>u, Zenon DEF Branches
<1>4. \A i \in DOMAIN path : Len(path[i]) # 1 => root \in Tail0(i) /\ Connected(Tail0(i))
  <2> TAKE i \in DOMAIN path
  <2> HAVE Len(path[i]) # 1
  <2>1. Len(path[i]) \in c[i] + 1 .. Len(path[i]) /\ path[i][Len(path[i])] = root
    BY <1>c, <1>w DEF Way
  <2>2. \A k \in c[i] + 1 .. Len(path[i]) - 1 : {path[i][k + 1], path[i][k]} \in Target
    <3>1. \A k \in c[i] + 1 .. Len(path[i]) - 1 : k \in 1 .. Len(path[i]) - 1
      BY <1>c
    <3> QED
      BY <3>1, <1>w DEF Way
  <2>3. Connected(Tail0(i))
    BY <2>2, <1>d, ConnectedStretch
  <2> QED
    BY <2>1, <2>3 DEF Stretch
<1>5. \A i \in DOMAIN path : Len(path[i]) = 1 => Tail0(i) = {} /\ Piece(path, c, i) = {}
  BY <1>c, <1>d DEF Stretch, Piece
<1>6. Connected(K)
  <2> DEFINE F == {U} \cup {Tail0(i) : i \in Long}
  <2>1. \A A \in F : root \in A /\ Connected(A)
    BY <1>u, <1>4
  <2>2. Connected(UNION F)
    <3> HIDE DEF F
    <3> QED
      BY <2>1, ConnectedFamily
  <2>3. UNION F \subseteq K
    BY <1>1 DEF K, NewChain, U
  <2>4. K \subseteq UNION F
    <3> SUFFICES ASSUME NEW x \in K, x \notin U PROVE x \in UNION F
      OBVIOUS
    <3>0. PICK i \in DOMAIN path : \E k \in c[i] + 1 .. Cut(path, i) : x = path[i][k]
      BY <1>2
    <3>1. PICK k \in c[i] + 1 .. Cut(path, i) : x = path[i][k]
      BY <3>0
    <3>2. k \in c[i] + 1 .. Len(path[i]) /\ Len(path[i]) # 1
      BY <1>d
    <3>3. x \in Tail0(i) /\ i \in Long
      BY <3>1, <3>2 DEF Stretch
    <3> QED
      BY <3>3
  <2>5. K = UNION F
    BY <2>3, <2>4
  <2> QED
    BY <2>2, <2>5
<1>7. root \in K
  BY <1>u DEF K, NewChain, U
<1>8. \A x \in K : x = root \/ \E i \in DOMAIN path : \E k \in 2 .. Len(path[i]) : x = path[i][k]
  <2> TAKE x \in K
  <2> SUFFICES ASSUME x # root PROVE \E i \in DOMAIN path : \E k \in 2 .. Len(path[i]) : x = path[i][k]
    OBVIOUS
  <2>1. CASE x \in U
    <3>0. PICK i \in DOMAIN path : \E k \in 2 .. Len(path[i]) - 1 : x = path[i][k]
      BY <2>1, <1>3
    <3>1. PICK k \in 2 .. Len(path[i]) - 1 : x = path[i][k]
      BY <3>0
    <3>2. k \in 2 .. Len(path[i])
      BY <1>c
    <3> QED
      BY <3>1, <3>2
  <2>2. CASE x \notin U
    <3>0. PICK i \in DOMAIN path : \E k \in c[i] + 1 .. Cut(path, i) : x = path[i][k]
      BY <1>2, <2>2
    <3>1. PICK k \in c[i] + 1 .. Cut(path, i) : x = path[i][k]
      BY <3>0
    <3>2. k \in 2 .. Len(path[i])
      BY <1>c
    <3> QED
      BY <3>1, <3>2
  <2> QED
    BY <2>1, <2>2
\* No vertex of a piece is in the new chain or in another piece.
<1>9. \A i \in DOMAIN path : \A k \in 2 .. c[i] : path[i][k] \notin K
  <2> SUFFICES ASSUME NEW i \in DOMAIN path, NEW k \in 2 .. c[i], path[i][k] \in K PROVE FALSE
    OBVIOUS
  <2>l. k \in 2 .. Cut(path, i) /\ k \in 1 .. Len(path[i]) /\ k < Len(path[i]) /\ k <= c[i]
    BY <1>c
  <2>1. path[i][k] # root
    <3>1. Len(path[i]) \in 1 .. Len(path[i]) /\ k # Len(path[i])
      BY <1>c, <2>l
    <3> QED
      BY <3>1, <2>l, <1>w DEF Way
  <2>2. ASSUME NEW j \in DOMAIN path, NEW m \in 2 .. Len(path[j]) - 1, m > c[j], path[i][k] = path[j][m] PROVE FALSE
    <3>1. CASE i = j
      <4>1. m \in 1 .. Len(path[i]) /\ m # k
        BY <3>1, <2>2, <1>c, <2>l
      <4> QED
        BY <4>1, <2>l, <2>2, <3>1, <1>w DEF Way
    <3>2. CASE i # j
      BY <3>2, <2>2, <2>l, <1>o
    <3> QED
      BY <3>1, <3>2
  <2>3. CASE path[i][k] \in U
    <3>0. PICK j \in DOMAIN path : \E m \in 2 .. Len(path[j]) - 1 : path[i][k] = path[j][m] /\ m > Cut(path, j)
      BY <2>3, <2>1, <1>3
    <3>1. PICK m \in 2 .. Len(path[j]) - 1 : path[i][k] = path[j][m] /\ m > Cut(path, j)
      BY <3>0
    <3>2. m > c[j]
      BY <3>1, <1>c
    <3> QED
      BY <3>1, <3>2, <2>2
  <2>4. CASE path[i][k] \notin U
    <3>0. PICK j \in DOMAIN path : \E m \in c[j] + 1 .. Cut(path, j) : path[i][k] = path[j][m]
      BY <2>4, <1>2
    <3>1. PICK m \in c[j] + 1 .. Cut(path, j) : path[i][k] = path[j][m]
      BY <3>0
    <3>2. m \in 2 .. Len(path[j]) - 1 /\ m > c[j]
      BY <1>d
    <3> QED
      BY <3>1, <3>2, <2>2
  <2> QED
    BY <2>3, <2>4
<1>10. \A i \in DOMAIN path : \A j \in DOMAIN path \ {i} : Piece(path, c, i) \cap Piece(path, c, j) = {}
  <2> SUFFICES ASSUME NEW i \in DOMAIN path, NEW j \in DOMAIN path \ {i}, NEW k \in 2 .. c[i], NEW m \in 2 .. c[j],
                      path[i][k] = path[j][m]
      PROVE  FALSE
    BY DEF Piece, Stretch
  <2>1. k \in 2 .. Cut(path, i) /\ m \in 2 .. Len(path[j]) - 1
    BY <1>c
  <2> QED
    BY <2>1, <1>o
<1>11. \A i \in DOMAIN path : Connected(K \cup Piece(path, c, i))
  <2> TAKE i \in DOMAIN path
  <2>1. CASE Len(path[i]) = 1
    <3>1. K \cup Piece(path, c, i) = K
      BY <2>1, <1>5
    <3> QED
      BY <3>1, <1>6
  <2>2. CASE Len(path[i]) # 1
    <3> DEFINE A == Stretch(path[i], 2, Len(path[i]))
    <3>1. \A k \in 2 .. Len(path[i]) - 1 : {path[i][k + 1], path[i][k]} \in Target
      <4>1. \A k \in 2 .. Len(path[i]) - 1 : k \in 1 .. Len(path[i]) - 1
        BY <1>c
      <4> QED
        BY <4>1, <1>w DEF Way
    <3>2. Connected(A)
      BY <3>1, <1>d, ConnectedStretch
    <3>3. root \in A
      <4>1. Len(path[i]) \in 2 .. Len(path[i]) /\ path[i][Len(path[i])] = root
        BY <2>2, <1>c, <1>w DEF Way
      <4> QED
        BY <4>1 DEF Stretch
    <3>4. Connected(K \cup A)
      BY <3>2, <3>3, <1>6, <1>7, ConnectedTwo
    <3>5. \A k \in 2 .. Len(path[i]) : k \in 2 .. c[i] \/ k \in c[i] + 1 .. Len(path[i])
      BY <1>c
    <3>6. \A k \in 2 .. c[i] : k \in 2 .. Len(path[i])
      BY <1>c
    <3>7. A \subseteq K \cup Piece(path, c, i)
      BY <3>5, <1>1 DEF Piece, Stretch
    <3>8. Piece(path, c, i) \subseteq A
      BY <3>6 DEF Piece, Stretch
    <3>9. K \cup A = K \cup Piece(path, c, i)
      BY <3>7, <3>8
    <3> QED
      BY <3>4, <3>9
  <2> QED
    BY <2>1, <2>2
<1>12. \A i \in DOMAIN path : Piece(path, c, i) \cap K = {}
  BY <1>9 DEF Piece, Stretch
<1>13. \A i \in DOMAIN path : \A k \in c[i] + 1 .. Len(path[i]) : path[i][k] \in K
  BY <1>1 DEF Stretch
<1> QED
  BY <1>6, <1>7, <1>8, <1>10, <1>11, <1>12, <1>13, Zenon DEF Grown, K

-----------------------------------------------------------------------------
(* FindEmbedding: the places for a variable *)

\* A weight is positive.
LEMMA PowerIs ==
  ASSUME NEW n \in Nat
  PROVE  Power(n) \in Nat \ {0}
<1> DEFINE D == Nat \ {0}
           power == CHOOSE power : power = [k \in 0 .. n |-> IF k = 0 THEN 1 ELSE Alpha * power[k - 1]]
           F == [x \in D |-> Alpha * x]
           A == {k \in Nat : k <= n => power[k] \in D}
<1>1. F \in [D -> D]
  BY FindAssumption
<1>2. PICK g : Repeats(n, D, 1, F, g)
  <2>1. 1 \in D
    OBVIOUS
  <2> HIDE DEF F, D
  <2> QED
    BY <1>1, <2>1, Repeated
<1>3. g \in [0 .. n -> D] /\ g[0] = 1 /\ \A k \in 1 .. n : g[k] = Alpha * g[k - 1]
  <2>1. \A k \in 1 .. n : k - 1 \in 0 .. n
    OBVIOUS
  <2>2. g \in [0 .. n -> D] /\ g[0] = 1 /\ \A k \in 1 .. n : g[k] = F[g[k - 1]]
    BY <1>2 DEF Repeats
  <2>3. \A k \in 1 .. n : g[k - 1] \in D
    BY <2>1, <2>2
  <2> QED
    BY <2>2, <2>3
<1>4. g = [k \in 0 .. n |-> IF k = 0 THEN 1 ELSE Alpha * g[k - 1]]
  <2>1. \A k \in 0 .. n : g[k] = IF k = 0 THEN 1 ELSE Alpha * g[k - 1]
    BY <1>3
  <2>2. g = [k \in 0 .. n |-> g[k]]
    BY <1>3
  <2> QED
    BY <2>1, <2>2
<1>5. power = [k \in 0 .. n |-> IF k = 0 THEN 1 ELSE Alpha * power[k - 1]]
  BY <1>4
<1> HIDE DEF power
<1>6. 0 \in A
  BY <1>5
<1>7. ASSUME NEW k \in Nat, k \in A PROVE k + 1 \in A
  <2> SUFFICES ASSUME k + 1 <= n PROVE power[k + 1] \in D
    OBVIOUS
  <2>1. power[k + 1] = Alpha * power[k] /\ power[k] \in Nat \ {0}
    <3>1. k + 1 \in 0 .. n /\ k + 1 # 0 /\ (k + 1) - 1 = k /\ k <= n
      OBVIOUS
    <3> QED
      BY <3>1, <1>5, <1>7
  <2> QED
    BY <2>1, FindAssumption
<1>8. power[n] \in D
  <2>1. Nat \subseteq A
    <3> HIDE DEF A
    <3> QED
      BY <1>6, <1>7, InductiveSet
  <2> QED
    BY <2>1
<1>9. Power(n) = power[n]
  BY DEF Power, power
<1> QED
  BY <1>8, <1>9

\* How many chains share a vertex.
LEMMA OverlapIs ==
  ASSUME NEW embedding, IsFiniteSet(Component), NEW v
  PROVE  /\ Overlap(embedding, v) \in Nat
         /\ \A w \in Component : v \in embedding[w] => Overlap(embedding, v) >= 1
         /\ Overlap(embedding, v) <= 1 =>
              \A w, x \in Component : v \in embedding[w] /\ v \in embedding[x] => w = x
<1> DEFINE C == {u \in Component : v \in embedding[u]}
<1>1. IsFiniteSet(C) /\ Cardinality(C) \in Nat /\ Overlap(embedding, v) = Cardinality(C)
  BY FS_Subset, FS_CardinalityType DEF Overlap
<1>2. ASSUME NEW w \in C PROVE Cardinality({w}) <= Cardinality(C) /\ Cardinality({w}) = 1
  BY <1>1, FS_Subset, FS_Singleton
<1>3. ASSUME NEW w \in C, NEW x \in C, w # x PROVE Cardinality(C) >= 2
  <2>1. IsFiniteSet({w}) /\ Cardinality({w}) = 1
    BY FS_Singleton
  <2>2. IsFiniteSet({w} \cup {x}) /\ Cardinality({w} \cup {x}) = 2
    <3>1. x \notin {w}
      BY <1>3
    <3> DEFINE W == {w}
    <3>2. IsFiniteSet(W) /\ Cardinality(W) = 1 /\ x \notin W
      BY <2>1, <3>1
    <3> HIDE DEF W
    <3>3. IsFiniteSet(W \cup {x}) /\ Cardinality(W \cup {x}) = 2
      BY <3>2, FS_AddElement
    <3> QED
      BY <3>3 DEF W
  <2>3. Cardinality({w} \cup {x}) <= Cardinality(C)
    BY <1>1, FS_Subset
  <2> QED
    BY <1>1, <2>2, <2>3
<1>4. \A w \in Component : v \in embedding[w] => Cardinality(C) >= 1
  BY <1>1, <1>2
<1>5. Cardinality(C) <= 1 => \A w, x \in Component : v \in embedding[w] /\ v \in embedding[x] => w = x
  BY <1>1, <1>3
<1> QED
  BY <1>1, <1>4, <1>5

\* The target is finite.
LEMMA TargetFinite == IsFiniteSet(TargetVertices) /\ TargetVertices \subseteq Nat
<1>1. \A e \in Target : IsFiniteSet(e)
  <2> TAKE e \in Target
  <2>1. PICK p, q \in e : e = {p, q}
    BY FindAssumption
  <2>2. IsFiniteSet({p} \cup {q})
    BY FS_Singleton, FS_AddElement
  <2>3. e = {p} \cup {q}
    BY <2>1
  <2> QED
    BY <2>2, <2>3
<1> QED
  BY <1>1, FS_UNION, FindAssumption DEF TargetVertices

\* Weights are positive numbers.
LEMMA WeightsAre ==
  ASSUME NEW embedding, IsFiniteSet(Component)
  PROVE  \A v \in TargetVertices : Weights(embedding)[v] \in Nat \ {0}
BY OverlapIs, PowerIs DEF Weights

\* A vertex that is free, the paths to it from the chains, each through free
\* vertices, and that these go on together once they have met.
Close(sets, full, root, path) ==
  /\ root \in workingSet \ full
  /\ DOMAIN path = DOMAIN sets /\ Bundle(root, path)
  /\ \A i \in DOMAIN sets :
       path[i][1] \in sets[i] /\ \A k \in 2 .. Len(path[i]) : path[i][k] \in workingSet \ full

\* The places that ClosestVertices finds are close.
LEMMA ClosestIs ==
  ASSUME IsFiniteSet(Component), workingSet \subseteq TargetVertices,
         NEW sets, IsFiniteSet(DOMAIN sets), DOMAIN sets \subseteq Nat \ {0},
         \A i \in DOMAIN sets : sets[i] \subseteq workingSet,
         NEW embedding, NEW full, NEW p \in ClosestVertices(sets, embedding, full)
  PROVE  Close(sets, full, p.root, p.path)
<1> DEFINE weight == Weights(embedding)
           T(i) == ShortestPaths(sets[i], workingSet, weight, full \ sets[i])
           tree == [i \in DOMAIN sets |-> T(i)]
<1>0. PICK v \in {v \in workingSet \ full : \A i \in DOMAIN sets : v \in DOMAIN tree[i]} :
        p = [root |-> v, path |-> [i \in DOMAIN sets |-> tree[i][v].path]]
  BY Zenon DEF ClosestVertices
<1>1. /\ v \in workingSet \ full
      /\ \A i \in DOMAIN sets : v \in DOMAIN T(i)
      /\ p.root = v /\ p.path = [i \in DOMAIN sets |-> T(i)[v].path]
  <2>1. \A i \in DOMAIN sets : tree[i] = T(i)
    OBVIOUS
  <2> HIDE DEF T, tree
  <2> QED
    BY <1>0, <2>1
<1> HIDE DEF tree
<1>2. \A i \in DOMAIN sets : Net(sets[i], workingSet, weight, full \ sets[i])
  <2>1. IsFiniteSet(workingSet) /\ workingSet \subseteq Nat
    BY TargetFinite, FS_Subset
  <2>2. \A x \in workingSet : weight[x] \in Nat \ {0}
    BY WeightsAre
  <2> QED
    BY <2>1, <2>2 DEF Net
<1> HIDE DEF weight
<1>3. \A i \in DOMAIN sets : /\ Rooted(T(i), sets[i], workingSet, weight, full \ sets[i])
                             /\ Complete(T(i), workingSet, full \ sets[i])
  BY <1>2, ShortestTree
<1> HIDE DEF T
<1>t. \A i \in DOMAIN sets : DOMAIN T(i) \subseteq workingSet
  BY <1>3 DEF Rooted
<1>4. \A i \in DOMAIN sets : Path(T(i), sets[i], full \ sets[i], v, T(i)[v].path) /\ DOMAIN T(i) \subseteq workingSet
  BY <1>1, <1>2, <1>3, <1>t, PathFacts
<1>5. \A i, j \in DOMAIN sets : Agree(T(i)[v].path, T(j)[v].path)
  <2> TAKE i, j \in DOMAIN sets
  <2>1. Twins(workingSet, weight, full, sets[i], T(i), sets[j], T(j))
    BY <1>2, <1>3 DEF Twins
  <2> QED
    BY <2>1, <1>1, TailsAgree
<1>6. \A i \in DOMAIN sets : Way(v, T(i)[v].path)
  <2> TAKE i \in DOMAIN sets
  <2>1. Path(T(i), sets[i], full \ sets[i], v, T(i)[v].path) /\ DOMAIN T(i) \subseteq TargetVertices
    BY <1>4
  <2> DEFINE q == T(i)[v].path
  <2>2. q \in Seq(DOMAIN T(i)) /\ Len(q) \in Nat \ {0} /\ q[Len(q)] = v
    BY <2>1 DEF Path
  <2>3. q \in Seq(TargetVertices)
    <3> HIDE DEF q
    <3>1. Len(q) \in Nat /\ \A k \in 1 .. Len(q) : q[k] \in DOMAIN T(i)
      BY <2>2, ElementOfSeq
    <3>2. q \in [1 .. Len(q) -> TargetVertices]
      BY <2>2, <3>1, <2>1
    <3> QED
      BY <3>1, <3>2, AsSeq
  <2> QED
    BY <2>1, <2>2, <2>3 DEF Path, Way
<1>7. \A i \in DOMAIN sets : /\ T(i)[v].path[1] \in sets[i]
                             /\ \A k \in 2 .. Len(T(i)[v].path) : T(i)[v].path[k] \in workingSet \ full
  <2> TAKE i \in DOMAIN sets
  <2> DEFINE q == T(i)[v].path
  <2>1. /\ q[1] \in sets[i] /\ q[Len(q)] = v /\ Len(q) \in Nat \ {0}
        /\ \A k \in 1 .. Len(q) : q[k] \in DOMAIN T(i)
        /\ \A k \in 2 .. Len(q) : q[k] \notin sets[i]
        /\ \A k \in 1 .. Len(q) - 1 : q[k] \notin full \ sets[i]
    BY <1>4 DEF Path
  <2> HIDE DEF q
  <2>2. ASSUME NEW k \in 2 .. Len(q) PROVE q[k] \in workingSet \ full
    <3>1. CASE k = Len(q)
      BY <3>1, <2>1, <1>1
    <3>2. CASE k # Len(q)
      <4>1. k \in 1 .. Len(q) - 1 /\ k \in 1 .. Len(q)
        BY <3>2, <2>1
      <4> QED
        BY <4>1, <2>1, <1>4
    <3> QED
      BY <3>1, <3>2
  <2> QED
    BY <2>1, <2>2 DEF q
<1>8. DOMAIN p.path = DOMAIN sets /\ \A i \in DOMAIN sets : p.path[i] = T(i)[v].path
  BY <1>1
<1>9. Bundle(v, p.path)
  BY <1>8, <1>5, <1>6 DEF Bundle
<1> QED
  BY <1>1, <1>7, <1>8, <1>9 DEF Close

-----------------------------------------------------------------------------
(* FindEmbedding: what a placement keeps *)

\* Two chains share a vertex or have a coupler between them.
Joined(S, R) == S \cap R # {} \/ \E p \in S, q \in R : {p, q} \in Target

\* The chains are connected, and those of neighbours joined.
Fits(e) ==
  /\ e \in [Component -> SUBSET workingSet]
  /\ \A u \in Component : Connected(e[u])
  /\ \A u, v \in Component :
       u # v /\ {u, v} \in graph /\ e[u] # {} /\ e[v] # {} => Joined(e[u], e[v])

\* An embedding with a new chain for u and pieces of the paths for its neighbours.
PutIn(cut, u, root, path, c) ==
  [w \in Component |->
     (IF w = u THEN NewChain(root, path, c) ELSE cut[w])
       \cup (IF w \in DOMAIN path THEN Piece(path, c, w) ELSE {})]

\* The chains next to which u is placed: those of all neighbours that have one.
Surround(u, cut, sets) ==
  /\ DOMAIN sets \subseteq AdjacentVars(u)
  /\ \A i \in AdjacentVars(u) \ {u} : IF i \in DOMAIN sets THEN sets[i] = cut[i] ELSE cut[i] = {}

\* A chain that has grown is connected, and joined to the new one.
LEMMA GrownChain ==
  ASSUME NEW root \in TargetVertices, NEW path, Bundle(root, path), NEW c, Cuts(path, c),
         NEW K, Grown(root, path, c, K), NEW i \in DOMAIN path,
         NEW S, Connected(S), path[i][1] \in S
  PROVE  Connected(S \cup Piece(path, c, i)) /\ Joined(S \cup Piece(path, c, i), K)
<1> DEFINE p == path[i]
<1>1. /\ Len(p) \in Nat \ {0} /\ p[Len(p)] = root /\ \A k \in 1 .. Len(p) - 1 : {p[k + 1], p[k]} \in Target
  BY DEF Bundle, Way
<1>2. /\ c[i] \in Int /\ 1 <= c[i] /\ c[i] <= Len(p) /\ (Len(p) # 1 => c[i] < Len(p))
  <2>1. c[i] \in 1 .. Cut(path, i) /\ Cut(path, i) \in 1 .. Len(p) /\ (Len(p) # 1 => Cut(path, i) < Len(p))
    BY OwnPartIs DEF Cuts
  <2> HIDE DEF p
  <2> QED
    BY <2>1, <1>1
<1> HIDE DEF p
<1>3. Connected(Stretch(p, 1, c[i]))
  <2>1. \A k \in 1 .. c[i] - 1 : {p[k + 1], p[k]} \in Target
    BY <1>1, <1>2
  <2>2. 1 \in Int /\ c[i] \in Int
    BY <1>2
  <2> HIDE DEF p
  <2> QED
    BY <2>1, <2>2, ConnectedStretch
<1>4. p[1] \in Stretch(p, 1, c[i])
  BY <1>2 DEF Stretch
<1>5. S \cup Stretch(p, 1, c[i]) = S \cup Stretch(p, 2, c[i])
  <2>1. \A k \in 1 .. c[i] : k = 1 \/ k \in 2 .. c[i]
    BY <1>2
  <2>2. \A k \in 2 .. c[i] : k \in 1 .. c[i]
    BY <1>2
  <2>3. p[1] \in S
    BY DEF p
  <2> QED
    BY <2>1, <2>2, <2>3 DEF Stretch
<1>6. Connected(S \cup Stretch(p, 2, c[i]))
  <2>1. p[1] \in S
    BY DEF p
  <2>2. Connected(S \cup Stretch(p, 1, c[i]))
    BY <2>1, <1>3, <1>4, ConnectedTwo
  <2> QED
    BY <2>2, <1>5
<1>7. Joined(S \cup Stretch(p, 2, c[i]), K)
  <2>1. CASE Len(p) = 1
    <3>1. p[1] = root /\ root \in K /\ p[1] \in S
      BY <2>1, <1>1 DEF Grown, p
    <3> QED
      BY <3>1 DEF Joined
  <2>2. CASE Len(p) # 1
    <3>1. c[i] \in 1 .. Len(p) - 1 /\ c[i] + 1 \in c[i] + 1 .. Len(p)
      BY <2>2, <1>1, <1>2
    <3>2. p[c[i] + 1] \in K
      BY <3>1 DEF Grown, p
    <3>3. p[c[i]] \in S \cup Stretch(p, 1, c[i])
      <4>1. c[i] \in 1 .. c[i]
        BY <1>2
      <4> QED
        BY <4>1 DEF Stretch
    <3>4. {p[c[i]], p[c[i] + 1]} \in Target
      <4>1. {p[c[i] + 1], p[c[i]]} \in Target
        BY <3>1, <1>1
      <4>2. {p[c[i] + 1], p[c[i]]} = {p[c[i]], p[c[i] + 1]}
        OBVIOUS
      <4> QED
        BY <4>1, <4>2
    <3> QED
      BY <3>2, <3>3, <3>4, <1>5 DEF Joined
  <2> QED
    BY <2>1, <2>2
<1> QED
  BY <1>6, <1>7 DEF Piece, p

\* Being joined goes both ways, and larger chains stay joined.
LEMMA JoinedIs ==
  ASSUME NEW S, NEW R, Joined(S, R)
  PROVE  /\ Joined(R, S)
         /\ \A S1, R1 : S \subseteq S1 /\ R \subseteq R1 => Joined(S1, R1)
<1>1. Joined(R, S)
  <2>1. ASSUME NEW p \in S, NEW q \in R, {p, q} \in Target PROVE Joined(R, S)
    <3>1. {q, p} = {p, q}
      OBVIOUS
    <3> QED
      BY <2>1, <3>1 DEF Joined
  <2> QED
    BY <2>1 DEF Joined
<1> QED
  BY <1>1 DEF Joined

\* A placement keeps the chains connected and joined.
LEMMA PutInFits ==
  ASSUME workingSet \subseteq TargetVertices, NEW cut, Fits(cut), NEW u \in Component,
         NEW sets, Surround(u, cut, sets), NEW full, NEW root, NEW path, Close(sets, full, root, path),
         NEW c, Cuts(path, c)
  PROVE  Fits(PutIn(cut, u, root, path, c)) /\ root \in PutIn(cut, u, root, path, c)[u]
<1> DEFINE K == NewChain(root, path, c)
           e == PutIn(cut, u, root, path, c)
<1>1. root \in TargetVertices /\ root \in workingSet /\ Bundle(root, path) /\ DOMAIN path = DOMAIN sets
  BY DEF Close
<1>2. Grown(root, path, c, K)
  BY <1>1, NewChainIs
<1> HIDE DEF K
<1>3. /\ e[u] = K \cup (IF u \in DOMAIN path THEN Piece(path, c, u) ELSE {})
      /\ \A w \in Component \ {u} : w \notin DOMAIN path => e[w] = cut[w]
      /\ \A w \in Component \ {u} : w \in DOMAIN path => e[w] = cut[w] \cup Piece(path, c, w)
  BY DEF PutIn, K
<1>4. e = [w \in Component |-> e[w]]
  BY DEF PutIn
<1> HIDE DEF e
<1>5. \A i \in DOMAIN path : i \in Component /\ Piece(path, c, i) \subseteq workingSet
  <2> TAKE i \in DOMAIN path
  <2>1. c[i] \in 1 .. Cut(path, i) /\ Cut(path, i) \in 1 .. Len(path[i]) /\ Len(path[i]) \in Nat
    BY <1>1, OwnPartIs DEF Cuts, Bundle, Way
  <2>2. \A k \in 2 .. c[i] : k \in 2 .. Len(path[i])
    BY <2>1
  <2>3. \A k \in 2 .. Len(path[i]) : path[i][k] \in workingSet
    BY <1>1 DEF Close
  <2> QED
    BY <2>2, <2>3, <1>1 DEF Piece, Stretch, Surround, AdjacentVars
<1>6. K \subseteq workingSet
  <2> SUFFICES ASSUME NEW x \in K PROVE x \in workingSet
    OBVIOUS
  <2>1. \A i \in DOMAIN path : \A k \in 2 .. Len(path[i]) : path[i][k] \in workingSet
    BY <1>1 DEF Close
  <2> QED
    BY <2>1, <1>1, <1>2 DEF Grown
<1>7. ASSUME NEW i \in DOMAIN path, i # u
      PROVE  cut[i] # {} /\ Connected(e[i]) /\ Joined(e[i], K)
  <2>1. i \in AdjacentVars(u) /\ sets[i] = cut[i] /\ i \in Component
    BY <1>1, <1>7 DEF Surround, AdjacentVars
  <2>2. path[i][1] \in cut[i]
    BY <2>1, <1>1 DEF Close
  <2>3. Connected(cut[i])
    BY <2>1 DEF Fits
  <2>4. Connected(cut[i] \cup Piece(path, c, i)) /\ Joined(cut[i] \cup Piece(path, c, i), K)
    BY <2>2, <2>3, <1>1, <1>2, GrownChain
  <2> QED
    BY <2>1, <2>2, <2>4, <1>3, <1>7
<1>8. e \in [Component -> SUBSET workingSet]
  <2>1. \A w \in Component : cut[w] \subseteq workingSet
    BY DEF Fits
  <2>2. \A w \in Component : e[w] \subseteq workingSet
    BY <2>1, <1>3, <1>5, <1>6
  <2> QED
    BY <2>2, <1>4
<1>9. Connected(e[u]) /\ K \subseteq e[u]
  <2>1. Connected(K) /\ \A i \in DOMAIN path : Connected(K \cup Piece(path, c, i))
    BY <1>2 DEF Grown
  <2>2. CASE u \in DOMAIN path
    <3>1. e[u] = K \cup Piece(path, c, u)
      BY <1>3, <2>2
    <3> QED
      BY <3>1, <2>1, <2>2
  <2>3. CASE u \notin DOMAIN path
    <3>1. e[u] = K
      BY <1>3, <2>3
    <3> QED
      BY <3>1, <2>1
  <2> QED
    BY <2>2, <2>3
<1>10. \A w \in Component : Connected(e[w])
  <2> TAKE w \in Component
  <2>1. CASE w = u
    BY <2>1, <1>9
  <2>2. CASE w # u /\ w \in DOMAIN path
    BY <2>2, <1>7
  <2>3. CASE w # u /\ w \notin DOMAIN path
    BY <2>3, <1>3 DEF Fits
  <2> QED
    BY <2>1, <2>2, <2>3
<1>11. ASSUME NEW w \in Component \ {u} PROVE cut[w] \subseteq e[w] /\ (cut[w] = {} => e[w] = {})
  BY <1>3, <1>7
<1>12. ASSUME NEW w \in Component \ {u}, {u, w} \in graph, e[w] # {} PROVE Joined(e[w], e[u])
  <2>1. w \in AdjacentVars(u)
    BY <1>12 DEF AdjacentVars
  <2>2. w \in DOMAIN path
    BY <2>1, <1>1, <1>11, <1>12 DEF Surround
  <2>3. Joined(e[w], K)
    BY <2>2, <1>7
  <2> QED
    BY <2>3, <1>9, JoinedIs
<1>13. ASSUME NEW w \in Component, NEW v \in Component, w # v, {w, v} \in graph, e[w] # {}, e[v] # {}
       PROVE  Joined(e[w], e[v])
  <2>1. CASE v = u
    <3>1. {u, w} \in graph /\ w \in Component \ {u}
      <4>1. {w, v} = {v, w}
        OBVIOUS
      <4> QED
        BY <4>1, <2>1, <1>13
    <3> QED
      BY <3>1, <2>1, <1>12, <1>13
  <2>2. CASE w = u
    <3>1. Joined(e[v], e[w])
      BY <2>2, <1>12, <1>13
    <3> QED
      BY <3>1, JoinedIs
  <2>3. CASE w # u /\ v # u
    <3>1. cut[w] # {} /\ cut[v] # {} /\ cut[w] \subseteq e[w] /\ cut[v] \subseteq e[v]
      BY <2>3, <1>11, <1>13
    <3>2. Joined(cut[w], cut[v])
      BY <3>1, <1>13 DEF Fits
    <3> QED
      BY <3>1, <3>2, JoinedIs
  <2> QED
    BY <2>1, <2>2, <2>3
<1>14. root \in e[u]
  BY <1>2, <1>9 DEF Grown
<1> QED
  BY <1>8, <1>10, <1>13, <1>14 DEF Fits, e

-----------------------------------------------------------------------------
(* FindEmbedding: the paths that the minimization keeps *)

\* No two chains overlap.
Disjoint(e) == \A u, v \in Component : u # v => e[u] \cap e[v] = {}

\* What the chain of i holds of its path to t is connected and has the root.
Half(e, paths, roots, i, t) ==
  roots[i] \in paths[{i, t}] \cap e[i] /\ Connected(paths[{i, t}] \cap e[i])

\* The path between neighbours is in their chains and joins them.
Thread(e, paths, roots, i, t) ==
  /\ paths[{i, t}] \subseteq e[i] \cup e[t]
  /\ Half(e, paths, roots, i, t)
  /\ Joined(paths[{i, t}] \cap e[i], paths[{i, t}] \cap e[t])

\* That holds between the variables of P, whose roots are in their chains.
Threads(e, P, paths, roots) ==
  /\ Disjoint(e)
  /\ \A i \in P : AdjacentVars(i) # {} => roots[i] \in e[i]
  /\ \A i, t \in P : i # t /\ {i, t} \in graph => Thread(e, paths, roots, i, t)

\* A path within a chain, from one vertex to another.
Within(S, r, x, p) ==
  /\ ToSet(p) \subseteq S /\ r \in ToSet(p) /\ x \in ToSet(p) /\ Connected(ToSet(p))

\* A shortest path within a chain is one.
LEMMA WithinIs ==
  ASSUME NEW S, IsFiniteSet(S), S \subseteq Nat, Connected(S), NEW r \in S, NEW x \in S
  PROVE  Within(S, r, x, ShortestPaths({r}, S, [v \in S |-> 1], {})[x].path)
<1> DEFINE T == ShortestPaths({r}, S, [v \in S |-> 1], {})
           one == [v \in S |-> 1]
           p == T[x].path
<1>1. Net({r}, S, one, {})
  BY DEF Net
<1> HIDE DEF one
<1>2. Rooted(T, {r}, S, one, {}) /\ Complete(T, S, {})
  BY <1>1, ShortestTree DEF one
<1> HIDE DEF T
<1>3. r \in DOMAIN T /\ DOMAIN T \subseteq S
  BY <1>2 DEF Rooted
<1>4. x \in DOMAIN T
  <2> SUFFICES ASSUME DOMAIN T # S PROVE FALSE
    OBVIOUS
  <2>1. PICK v \in DOMAIN T, w \in S \ DOMAIN T : {v, w} \in Target
    BY <1>3 DEF Connected
  <2>2. {w, v} \in Target
    <3>1. {w, v} = {v, w}
      OBVIOUS
    <3> QED
      BY <2>1, <3>1
  <2>3. v \in Doors(T, w, {})
    BY <2>2 DEF Doors
  <2> QED
    BY <2>3, <1>2 DEF Complete
<1>5. Path(T, {r}, {}, x, p)
  BY <1>1, <1>2, <1>4, PathFacts
<1> HIDE DEF p
<1>6. /\ p \in Seq(DOMAIN T) /\ Len(p) \in Nat \ {0} /\ p[1] = r /\ p[Len(p)] = x
      /\ \A k \in 1 .. Len(p) : p[k] \in S
      /\ \A k \in 1 .. Len(p) - 1 : {p[k + 1], p[k]} \in Target
  BY <1>5, <1>3 DEF Path
<1>7. ToSet(p) = Stretch(p, 1, Len(p))
  <2>1. DOMAIN p = 1 .. Len(p)
    BY <1>6
  <2> QED
    BY <2>1 DEF ToSet, Stretch
<1>8. Connected(ToSet(p))
  <2>1. 1 \in Int /\ Len(p) \in Int
    BY <1>6
  <2> QED
    BY <2>1, <1>6, <1>7, ConnectedStretch
<1>9. 1 \in 1 .. Len(p) /\ Len(p) \in 1 .. Len(p)
  BY <1>6
<1> QED
  BY <1>6, <1>7, <1>8, <1>9 DEF Within, Stretch, p, T

\* The new paths of u and its root; the rest is as it was.
Rethreaded(e, P, u, root, path, paths, roots, newPaths, newRoots) ==
  /\ newRoots[u] = root /\ \A w \in P \ {u} : newRoots[w] = roots[w]
  /\ \A i, t \in P \ {u} : {i, t} \in graph => newPaths[{i, t}] = paths[{i, t}]
  /\ \A i \in P \ {u} : {i, u} \in graph => \E S :
       /\ S \subseteq e[i] /\ roots[i] \in S /\ path[i][1] \in S /\ Connected(S)
       /\ newPaths[{i, u}] = S \cup Stretch(path[i], 1, Len(path[i]))

\* What u adds to a chain.
Added(u, root, path, c, w) ==
  (IF w = u THEN NewChain(root, path, c) ELSE {}) \cup (IF w \in DOMAIN path THEN Piece(path, c, w) ELSE {})

\* It is new, and no vertex is added twice.
LEMMA AddedIs ==
  ASSUME workingSet \subseteq TargetVertices, NEW u, NEW sets, NEW full, NEW root, NEW path,
         Close(sets, full, root, path), NEW c, Cuts(path, c)
  PROVE  \A w : /\ Added(u, root, path, c, w) \subseteq workingSet \ full
                /\ \A v : v # w => Added(u, root, path, c, w) \cap Added(u, root, path, c, v) = {}
<1> DEFINE K == NewChain(root, path, c)
           N(w) == Added(u, root, path, c, w)
<1>1. root \in TargetVertices /\ root \in workingSet \ full /\ Bundle(root, path) /\ DOMAIN path = DOMAIN sets
  BY DEF Close
<1>2. Grown(root, path, c, K)
  BY <1>1, NewChainIs
<1> HIDE DEF K
<1>3. \A i \in DOMAIN path : Piece(path, c, i) \subseteq workingSet \ full
  <2> TAKE i \in DOMAIN path
  <2>1. c[i] \in 1 .. Cut(path, i) /\ Cut(path, i) \in 1 .. Len(path[i]) /\ Len(path[i]) \in Nat
    BY <1>1, OwnPartIs DEF Cuts, Bundle, Way
  <2>2. \A k \in 2 .. c[i] : k \in 2 .. Len(path[i])
    BY <2>1
  <2>3. \A k \in 2 .. Len(path[i]) : path[i][k] \in workingSet \ full
    BY <1>1 DEF Close
  <2> QED
    BY <2>2, <2>3 DEF Piece, Stretch
<1>4. K \subseteq workingSet \ full
  <2> SUFFICES ASSUME NEW x \in K PROVE x \in workingSet \ full
    OBVIOUS
  <2>1. \A i \in DOMAIN path : \A k \in 2 .. Len(path[i]) : path[i][k] \in workingSet \ full
    BY <1>1 DEF Close
  <2> QED
    BY <2>1, <1>1, <1>2 DEF Grown
<1>5. \A i \in DOMAIN path : Piece(path, c, i) \cap K = {} /\
        \A j \in DOMAIN path \ {i} : Piece(path, c, i) \cap Piece(path, c, j) = {}
  BY <1>2 DEF Grown
<1>6. \A w : N(w) \subseteq workingSet \ full
  BY <1>3, <1>4 DEF Added, K
<1>7. ASSUME NEW w, NEW v, v # w, NEW x, x \in N(w), x \in N(v) PROVE FALSE
  <2>1. (w = u /\ x \in K) \/ (w \in DOMAIN path /\ x \in Piece(path, c, w))
    BY <1>7 DEF Added, K
  <2>2. (v = u /\ x \in K) \/ (v \in DOMAIN path /\ x \in Piece(path, c, v))
    BY <1>7 DEF Added, K
  <2> QED
    BY <2>1, <2>2, <1>5, <1>7
<1> QED
  BY <1>6, <1>7

\* A placement keeps the paths between the other variables and adds those of u.
LEMMA PutInThreads ==
  ASSUME workingSet \subseteq TargetVertices, NEW cut, Fits(cut), NEW u \in Component, cut[u] = {},
         NEW sets, Surround(u, cut, sets), AdjacentVars(u) \subseteq DOMAIN sets,
         NEW full, \A w \in Component : cut[w] \subseteq full,
         NEW root, NEW path, Close(sets, full, root, path), NEW c, Cuts(path, c),
         NEW P \in SUBSET Component, NEW paths, NEW roots, Threads(cut, P \ {u}, paths, roots),
         NEW e, e = PutIn(cut, u, root, path, c), NEW newPaths, NEW newRoots,
         Rethreaded(e, P, u, root, path, paths, roots, newPaths, newRoots)
  PROVE  Threads(e, P \cup {u}, newPaths, newRoots)
<1> DEFINE K == NewChain(root, path, c)
           N(w) == Added(u, root, path, c, w)
<1>1. root \in TargetVertices /\ root \in workingSet \ full /\ Bundle(root, path) /\ DOMAIN path = DOMAIN sets
  BY DEF Close
<1>2. Grown(root, path, c, K)
  BY <1>1, NewChainIs
<1>3. \A w \in Component : e[w] = cut[w] \cup N(w)
  BY DEF PutIn, Added
<1>4. \A w : N(w) \subseteq workingSet \ full
  BY AddedIs
<1>5. \A w, v : v # w => N(w) \cap N(v) = {}
  BY AddedIs
<1>6. K \subseteq N(u) /\ \A i \in DOMAIN path : Piece(path, c, i) \subseteq N(i)
  BY DEF Added
<1> HIDE DEF K, N
<1>7. Disjoint(e)
  <2> SUFFICES ASSUME NEW w \in Component, NEW v \in Component, w # v, NEW x, x \in e[w], x \in e[v] PROVE FALSE
    BY DEF Disjoint
  <2>1. cut[w] \cap cut[v] = {} /\ cut[w] \subseteq full /\ cut[v] \subseteq full
    BY DEF Threads, Disjoint
  <2>2. N(w) \cap full = {} /\ N(v) \cap full = {} /\ N(w) \cap N(v) = {}
    BY <1>4, <1>5
  <2>3. x \in cut[w] \cup N(w) /\ x \in cut[v] \cup N(v)
    BY <1>3
  <2> QED
    BY <2>1, <2>2, <2>3
<1>8. root \in e[u] /\ K \subseteq e[u]
  BY <1>2, <1>3, <1>6 DEF Grown
<1>9. ASSUME NEW w \in P \cup {u}, AdjacentVars(w) # {} PROVE newRoots[w] \in e[w]
  <2>1. CASE w = u
    BY <2>1, <1>8 DEF Rethreaded
  <2>2. CASE w # u
    <3>1. newRoots[w] = roots[w] /\ roots[w] \in cut[w]
      BY <2>2, <1>9 DEF Rethreaded, Threads
    <3> QED
      BY <3>1, <1>3
  <2> QED
    BY <2>1, <2>2
<1>10. ASSUME NEW i \in P \ {u}, NEW t \in P \ {u}, i # t, {i, t} \in graph
       PROVE  Thread(e, newPaths, newRoots, i, t)
  <2> DEFINE S == paths[{i, t}]
  <2>1. newPaths[{i, t}] = S /\ newRoots[i] = roots[i]
    BY <1>10 DEF Rethreaded
  <2>2. Thread(cut, paths, roots, i, t)
    BY <1>10 DEF Threads
  <2>3. S \subseteq cut[i] \cup cut[t] /\ cut[i] \subseteq full /\ cut[t] \subseteq full
    BY <2>2 DEF Thread
  <2>4. e[i] = cut[i] \cup N(i) /\ e[t] = cut[t] \cup N(t)
    BY <1>3
  <2>5. S \cap e[i] = S \cap cut[i] /\ S \cap e[t] = S \cap cut[t] /\ S \subseteq e[i] \cup e[t]
    BY <2>3, <2>4, <1>4
  <2>6. /\ roots[i] \in S \cap cut[i] /\ Connected(S \cap cut[i]) /\ Joined(S \cap cut[i], S \cap cut[t])
    BY <2>2 DEF Thread, Half
  <2> HIDE DEF S
  <2> QED
    BY <2>1, <2>5, <2>6 DEF Thread, Half
<1>11. ASSUME NEW i \in P \ {u}, {i, u} \in graph
       PROVE  Thread(e, newPaths, newRoots, i, u) /\ Thread(e, newPaths, newRoots, u, i)
  <2> DEFINE p == path[i]
             M == newPaths[{i, u}]
  <2>1. {u, i} = {i, u}
    OBVIOUS
  <2>2. i \in Component /\ i \in AdjacentVars(u) /\ i \in DOMAIN path /\ sets[i] = cut[i] /\ newRoots[i] = roots[i]
    <3>1. i \in Component /\ i \in AdjacentVars(u)
      BY <2>1, <1>11 DEF AdjacentVars
    <3> QED
      BY <3>1, <1>1 DEF Surround, Rethreaded
  <2>3. PICK S : /\ S \subseteq e[i] /\ roots[i] \in S /\ p[1] \in S /\ Connected(S)
                 /\ M = S \cup Stretch(p, 1, Len(p))
    BY <1>11 DEF Rethreaded
  <2>4. p[1] \in cut[i] /\ p[1] \in full
    BY <2>2 DEF Close
  <2>5. /\ Len(p) \in Nat \ {0} /\ p[Len(p)] = root /\ \A k \in 1 .. Len(p) - 1 : {p[k + 1], p[k]} \in Target
    BY <1>1, <2>2 DEF Bundle, Way
  <2>6. Len(p) # 1
    BY <2>4, <2>5, <1>1
  <2>7. /\ c[i] \in Int /\ 1 <= c[i] /\ c[i] < Len(p)
    <3>1. c[i] \in 1 .. Cut(path, i) /\ Cut(path, i) \in 1 .. Len(p) /\ (Len(p) # 1 => Cut(path, i) < Len(p))
      BY <1>1, <2>2, OwnPartIs DEF Cuts
    <3> HIDE DEF p
    <3> QED
      BY <3>1, <2>5, <2>6
  <2>8. \A k \in 2 .. c[i] : p[k] \in e[i]
    <3>1. Piece(path, c, i) \subseteq e[i]
      BY <1>3, <1>6, <2>2
    <3> QED
      BY <3>1 DEF Piece, Stretch
  <2>9. \A k \in c[i] + 1 .. Len(p) : p[k] \in e[u]
    BY <1>2, <1>8, <2>2 DEF Grown
  <2>10. p[1] \in e[i]
    BY <2>3
  <2> HIDE DEF p, M
  <2>11. e[i] \cap e[u] = {}
    BY <1>7, <2>2 DEF Disjoint
  <2>12. /\ \A k \in 1 .. Len(p) : k = 1 \/ k \in 2 .. c[i] \/ k \in c[i] + 1 .. Len(p)
         /\ \A k \in 1 .. c[i] : (k = 1 \/ k \in 2 .. c[i]) /\ k \in 1 .. Len(p)
         /\ \A k \in c[i] + 1 .. Len(p) : k \in 1 .. Len(p)
    BY <2>5, <2>7
  <2>13. M \cap e[i] = S \cup Stretch(p, 1, c[i])
    <3>1. S \cup Stretch(p, 1, c[i]) \subseteq M \cap e[i]
      BY <2>3, <2>8, <2>10, <2>12 DEF Stretch
    <3>2. ASSUME NEW x \in M, x \in e[i] PROVE x \in S \cup Stretch(p, 1, c[i])
      <4> SUFFICES ASSUME x \notin S PROVE x \in Stretch(p, 1, c[i])
        OBVIOUS
      <4>1. PICK k \in 1 .. Len(p) : x = p[k]
        BY <2>3, <3>2 DEF Stretch
      <4>2. k \notin c[i] + 1 .. Len(p)
        BY <4>1, <3>2, <2>9, <2>11
      <4>3. k \in 1 .. c[i]
        BY <4>2, <2>5, <2>7
      <4> QED
        BY <4>1, <4>3 DEF Stretch
    <3> QED
      BY <3>1, <3>2
  <2>14. M \cap e[u] = Stretch(p, c[i] + 1, Len(p))
    <3>1. Stretch(p, c[i] + 1, Len(p)) \subseteq M \cap e[u]
      BY <2>3, <2>9, <2>12 DEF Stretch
    <3>2. ASSUME NEW x \in M, x \in e[u] PROVE x \in Stretch(p, c[i] + 1, Len(p))
      <4>1. x \notin S
        BY <2>3, <3>2, <2>11
      <4>2. PICK k \in 1 .. Len(p) : x = p[k]
        BY <2>3, <3>2, <4>1 DEF Stretch
      <4>3. k \in c[i] + 1 .. Len(p)
        BY <4>2, <3>2, <2>8, <2>10, <2>11, <2>12
      <4> QED
        BY <4>2, <4>3 DEF Stretch
    <3> QED
      BY <3>1, <3>2
  <2>15. Connected(Stretch(p, 1, c[i])) /\ Connected(Stretch(p, c[i] + 1, Len(p)))
    <3>1. /\ \A k \in 1 .. c[i] - 1 : {p[k + 1], p[k]} \in Target
          /\ \A k \in c[i] + 1 .. Len(p) - 1 : {p[k + 1], p[k]} \in Target
      <4>1. /\ \A k \in 1 .. c[i] - 1 : k \in 1 .. Len(p) - 1
            /\ \A k \in c[i] + 1 .. Len(p) - 1 : k \in 1 .. Len(p) - 1
        BY <2>5, <2>7
      <4> QED
        BY <4>1, <2>5
    <3>2. 1 \in Int /\ c[i] \in Int /\ c[i] + 1 \in Int /\ Len(p) \in Int
      BY <2>5, <2>7
    <3> QED
      BY <3>1, <3>2, ConnectedStretch
  <2>16. Connected(M \cap e[i]) /\ roots[i] \in M \cap e[i]
    <3>1. p[1] \in Stretch(p, 1, c[i])
      BY <2>7 DEF Stretch
    <3>2. Connected(S \cup Stretch(p, 1, c[i]))
      BY <3>1, <2>3, <2>15, ConnectedTwo
    <3> QED
      BY <3>2, <2>3, <2>13
  <2>17. Connected(M \cap e[u]) /\ root \in M \cap e[u]
    <3>1. Len(p) \in c[i] + 1 .. Len(p)
      BY <2>5, <2>7
    <3> QED
      BY <3>1, <2>5, <2>14, <2>15 DEF Stretch
  <2>18. Joined(M \cap e[i], M \cap e[u])
    <3>1. c[i] \in 1 .. c[i] /\ c[i] + 1 \in c[i] + 1 .. Len(p) /\ c[i] \in 1 .. Len(p) - 1
      BY <2>5, <2>7
    <3>2. p[c[i]] \in M \cap e[i] /\ p[c[i] + 1] \in M \cap e[u]
      BY <3>1, <2>13, <2>14 DEF Stretch
    <3>3. {p[c[i]], p[c[i] + 1]} \in Target
      <4>1. {p[c[i] + 1], p[c[i]]} \in Target
        BY <3>1, <2>5
      <4>2. {p[c[i] + 1], p[c[i]]} = {p[c[i]], p[c[i] + 1]}
        OBVIOUS
      <4> QED
        BY <4>1, <4>2
    <3> QED
      BY <3>2, <3>3 DEF Joined
  <2>19. Joined(M \cap e[u], M \cap e[i])
    BY <2>18, JoinedIs
  <2>20. M \subseteq e[i] \cup e[u]
    <3>1. S \subseteq e[i] /\ \A k \in 1 .. Len(p) : p[k] \in e[i] \cup e[u]
      BY <2>3, <2>8, <2>9, <2>10, <2>12
    <3> QED
      BY <3>1, <2>3 DEF Stretch
  <2>21. newRoots[u] = root
    BY DEF Rethreaded
  <2> QED
    BY <2>1, <2>2, <2>16, <2>17, <2>18, <2>19, <2>20, <2>21 DEF Thread, Half, M
<1>12. ASSUME NEW i \in P \cup {u}, NEW t \in P \cup {u}, i # t, {i, t} \in graph
       PROVE  Thread(e, newPaths, newRoots, i, t)
  <2>1. CASE i # u /\ t # u
    BY <2>1, <1>10, <1>12
  <2>2. CASE t = u
    BY <2>2, <1>11, <1>12
  <2>3. CASE i = u
    <3>1. {t, i} = {i, t}
      OBVIOUS
    <3> QED
      BY <3>1, <2>3, <1>11, <1>12
  <2> QED
    BY <2>1, <2>2, <2>3
<1> QED
  BY <1>7, <1>9, <1>12 DEF Threads

\* A variable is out, and the other chains keep what their paths need.
Trimmed(e, P, paths, roots, u, cut) ==
  /\ cut \in [Component -> SUBSET workingSet] /\ cut[u] = {}
  /\ \A w \in Component \ {u} :
       /\ cut[w] \subseteq e[w] /\ Connected(cut[w])
       /\ w \in P /\ AdjacentVars(w) # {} => roots[w] \in cut[w]
  /\ \A i, t \in Component \ {u} : i # t /\ {i, t} \in graph =>
       /\ i \in P /\ t \in P => paths[{i, t}] \cap e[i] \subseteq cut[i]
       /\ cut[i] # {} /\ cut[t] # {} => Joined(cut[i], cut[t])

\* What is left fits, and keeps the paths between the others.
LEMMA TrimmedKeeps ==
  ASSUME NEW e, Fits(e), NEW P \in SUBSET Component, NEW paths, NEW roots, Threads(e, P, paths, roots),
         NEW u \in Component, NEW cut, Trimmed(e, P, paths, roots, u, cut)
  PROVE  Fits(cut) /\ Threads(cut, P \ {u}, paths, roots)
<1>1. Fits(cut)
  <2>1. \A w \in Component : Connected(cut[w])
    BY ConnectedOne DEF Trimmed
  <2>2. ASSUME NEW i \in Component, NEW t \in Component, i # t, {i, t} \in graph, cut[i] # {}, cut[t] # {}
        PROVE  Joined(cut[i], cut[t])
    BY <2>2 DEF Trimmed
  <2> QED
    BY <2>1, <2>2 DEF Fits, Trimmed
<1>2. Disjoint(cut)
  <2> SUFFICES ASSUME NEW w \in Component, NEW v \in Component, w # v PROVE cut[w] \cap cut[v] = {}
    BY DEF Disjoint
  <2>1. e[w] \cap e[v] = {}
    BY DEF Threads, Disjoint
  <2>2. cut[w] \subseteq e[w] /\ cut[v] \subseteq e[v]
    BY DEF Trimmed
  <2> QED
    BY <2>1, <2>2
<1>3. ASSUME NEW i \in P \ {u}, NEW t \in P \ {u}, i # t, {i, t} \in graph
      PROVE  Thread(cut, paths, roots, i, t)
  <2> DEFINE S == paths[{i, t}]
  <2>1. {t, i} = {i, t}
    OBVIOUS
  <2>2. Thread(e, paths, roots, i, t)
    BY <1>3 DEF Threads
  <2>3. cut[i] \subseteq e[i] /\ cut[t] \subseteq e[t]
    BY DEF Trimmed
  <2>4. S \cap e[i] \subseteq cut[i]
    BY <1>3 DEF Trimmed
  <2>5. S \cap e[t] \subseteq cut[t]
    BY <1>3, <2>1 DEF Trimmed
  <2>6. S \cap e[i] = S \cap cut[i] /\ S \cap e[t] = S \cap cut[t]
    BY <2>3, <2>4, <2>5
  <2>7. S \subseteq e[i] \cup e[t]
    BY <2>2 DEF Thread
  <2>8. S \subseteq cut[i] \cup cut[t]
    BY <2>7, <2>4, <2>5
  <2> QED
    BY <2>2, <2>6, <2>8 DEF Thread, Half
<1>4. ASSUME NEW w \in P \ {u}, AdjacentVars(w) # {} PROVE roots[w] \in cut[w]
  BY <1>4 DEF Trimmed
<1> QED
  BY <1>1, <1>2, <1>3, <1>4 DEF Threads

\* In the first pass nothing is cut back.
LEMMA FirstTrim ==
  ASSUME NEW e, Fits(e), NEW P \in SUBSET Component, NEW paths, NEW roots, Threads(e, P, paths, roots),
         NEW u \in Component, NEW cut, cut = [v \in Component |-> IF v = u THEN {} ELSE e[v]]
  PROVE  Trimmed(e, P, paths, roots, u, cut)
<1>1. cut \in [Component -> SUBSET workingSet] /\ cut[u] = {} /\ \A w \in Component \ {u} : cut[w] = e[w]
  BY DEF Fits
<1>2. \A w \in Component : w \in P /\ AdjacentVars(w) # {} => roots[w] \in e[w]
  BY DEF Threads
<1>3. ASSUME NEW i \in Component \ {u}, NEW t \in Component \ {u}, i # t, {i, t} \in graph
      PROVE  /\ i \in P /\ t \in P => paths[{i, t}] \cap e[i] \subseteq cut[i]
             /\ cut[i] # {} /\ cut[t] # {} => Joined(cut[i], cut[t])
  BY <1>1, <1>3 DEF Fits
<1>4. \A w \in Component \ {u} : /\ cut[w] \subseteq e[w] /\ Connected(cut[w])
                                 /\ w \in P /\ AdjacentVars(w) # {} => roots[w] \in cut[w]
  BY <1>1, <1>2 DEF Fits
<1> QED
  BY <1>1, <1>3, <1>4 DEF Trimmed

\* What the paths of a neighbour to others than u need is connected.
LEMMA OwnChainIs ==
  ASSUME Threads(emb, Component, edgePath, rootVertex),
         \A w \in Component : {w} \in graph => edgePath[{w}] = {},
         NEW u \in Component, NEW i \in Component, OwnChain(u, i) # {}
  PROVE  Connected(OwnChain(u, i)) /\ rootVertex[i] \in OwnChain(u, i)
<1> DEFINE Others == {t \in AdjacentVars(i) \ {u} : t # i}
           F == {edgePath[{i, t}] \cap emb[i] : t \in Others}
<1>1. \A t \in AdjacentVars(i) \ {u} : t = i => edgePath[{i, t}] = {}
  <2> SUFFICES ASSUME i \in AdjacentVars(i) PROVE edgePath[{i, i}] = {}
    OBVIOUS
  <2>1. {i, i} = {i}
    OBVIOUS
  <2> QED
    BY <2>1 DEF AdjacentVars
<1>2. OwnChain(u, i) = UNION F
  <2>1. ASSUME NEW x \in OwnChain(u, i) PROVE x \in UNION F
    <3>1. PICK t \in AdjacentVars(i) \ {u} : x \in edgePath[{i, t}] /\ x \in emb[i]
      BY <2>1 DEF OwnChain
    <3>2. t \in Others
      BY <3>1, <1>1
    <3>3. edgePath[{i, t}] \cap emb[i] \in F
      BY <3>2
    <3>4. x \in edgePath[{i, t}] \cap emb[i]
      BY <3>1
    <3> HIDE DEF F
    <3> QED
      BY <3>3, <3>4
  <2>2. UNION F \subseteq OwnChain(u, i)
    BY DEF OwnChain
  <2> QED
    BY <2>1, <2>2
<1>3. \A A \in F : rootVertex[i] \in A /\ Connected(A)
  <2> SUFFICES ASSUME NEW t \in Others
      PROVE  rootVertex[i] \in edgePath[{i, t}] \cap emb[i] /\ Connected(edgePath[{i, t}] \cap emb[i])
    OBVIOUS
  <2>1. Thread(emb, edgePath, rootVertex, i, t)
    <3>1. t \in Component /\ i # t /\ {i, t} \in graph
      BY DEF AdjacentVars
    <3> QED
      BY <3>1 DEF Threads
  <2> QED
    BY <2>1 DEF Thread, Half
<1>4. Connected(UNION F)
  <2> HIDE DEF F
  <2> QED
    BY <1>3, ConnectedFamily
<1>5. F # {}
  BY <1>2
<1> QED
  BY <1>2, <1>3, <1>4, <1>5

\* From the second pass on the neighbours are cut back to that.
LEMMA PassTrim ==
  ASSUME Fits(emb), Threads(emb, Component, edgePath, rootVertex),
         \A w \in Component : {w} \in graph => edgePath[{w}] = {},
         NEW u \in Component, \A i \in AdjacentVars(u) \ {u} : OwnChain(u, i) # {},
         NEW cut, cut = [v \in Component |->
           IF v = u THEN {} ELSE IF v \in AdjacentVars(u) THEN OwnChain(u, v) ELSE emb[v]]
  PROVE  Trimmed(emb, Component, edgePath, rootVertex, u, cut)
<1>1. /\ cut[u] = {}
      /\ \A w \in Component \ {u} : w \in AdjacentVars(u) => cut[w] = OwnChain(u, w)
      /\ \A w \in Component \ {u} : w \notin AdjacentVars(u) => cut[w] = emb[w]
  OBVIOUS
<1>2. \A w : OwnChain(u, w) \subseteq emb[w]
  BY DEF OwnChain
<1>3. ASSUME NEW w \in Component \ {u}
      PROVE  /\ cut[w] \subseteq emb[w] /\ Connected(cut[w])
             /\ AdjacentVars(w) # {} => rootVertex[w] \in cut[w]
  <2>1. CASE w \in AdjacentVars(u)
    <3>1. OwnChain(u, w) # {}
      BY <2>1
    <3>2. Connected(OwnChain(u, w)) /\ rootVertex[w] \in OwnChain(u, w)
      BY <3>1, OwnChainIs
    <3> QED
      BY <2>1, <3>2, <1>1, <1>2
  <2>2. CASE w \notin AdjacentVars(u)
    <3>1. Connected(emb[w]) /\ (AdjacentVars(w) # {} => rootVertex[w] \in emb[w])
      BY DEF Fits, Threads
    <3> QED
      BY <2>2, <3>1, <1>1
  <2> QED
    BY <2>1, <2>2
<1>4. ASSUME NEW i \in Component \ {u}, NEW t \in Component \ {u}, i # t, {i, t} \in graph
      PROVE  edgePath[{i, t}] \cap emb[i] \subseteq cut[i]
  <2>1. t \in AdjacentVars(i) \ {u}
    BY <1>4 DEF AdjacentVars
  <2>2. edgePath[{i, t}] \cap emb[i] \subseteq OwnChain(u, i)
    BY <2>1 DEF OwnChain
  <2> QED
    BY <2>2, <1>1
<1>5. ASSUME NEW i \in Component \ {u}, NEW t \in Component \ {u}, i # t, {i, t} \in graph
      PROVE  Joined(cut[i], cut[t])
  <2>1. {t, i} = {i, t}
    OBVIOUS
  <2>2. edgePath[{i, t}] \cap emb[i] \subseteq cut[i] /\ edgePath[{i, t}] \cap emb[t] \subseteq cut[t]
    BY <2>1, <1>4, <1>5
  <2>3. Thread(emb, edgePath, rootVertex, i, t)
    BY <1>5 DEF Threads
  <2> DEFINE A == edgePath[{i, t}] \cap emb[i]
             B == edgePath[{i, t}] \cap emb[t]
  <2>4. Joined(A, B) /\ A \subseteq cut[i] /\ B \subseteq cut[t]
    BY <2>2, <2>3 DEF Thread
  <2> HIDE DEF A, B
  <2> QED
    BY <2>4, JoinedIs
<1>6. cut \in [Component -> SUBSET workingSet]
  <2>1. \A w \in Component : emb[w] \subseteq workingSet
    BY DEF Fits
  <2>2. \A w \in Component : cut[w] \subseteq workingSet
    BY <2>1, <1>1, <1>3
  <2> QED
    BY <2>2
<1> QED
  BY <1>1, <1>3, <1>4, <1>5, <1>6 DEF Trimmed

-----------------------------------------------------------------------------
(* FindEmbedding: the steps of the search *)

\* The first n vertices of a path's own part.
LEMMA OwnPiece ==
  ASSUME NEW p, NEW n \in Nat, NEW s \in Seq(TargetVertices), Len(s) = n, \A k \in 1 .. n : s[k] = p[k + 1]
  PROVE  ToSet(s) = Stretch(p, 2, n + 1)
<1>1. DOMAIN s = 1 .. n
  OBVIOUS
<1>2. ToSet(s) = {s[k] : k \in 1 .. n}
  BY <1>1 DEF ToSet
<1>3. ASSUME NEW k \in 2 .. n + 1 PROVE p[k] \in {s[j] : j \in 1 .. n}
  <2>1. k - 1 \in 1 .. n /\ (k - 1) + 1 = k
    OBVIOUS
  <2> QED
    BY <2>1
<1>4. ASSUME NEW j \in 1 .. n PROVE s[j] \in {p[k] : k \in 2 .. n + 1}
  <2>1. j + 1 \in 2 .. n + 1
    OBVIOUS
  <2> QED
    BY <2>1
<1>5. {s[j] : j \in 1 .. n} = {p[k] : k \in 2 .. n + 1}
  BY <1>3, <1>4
<1> QED
  BY <1>2, <1>5 DEF Stretch

\* A placement of the search takes the own parts whole.
WholeCuts(path) == [i \in DOMAIN path |-> Cut(path, i)]

\* Placed hands each neighbour the whole of its own part.
LEMMA PlacedIs ==
  ASSUME emb \in [Component -> SUBSET workingSet], NEW u \in Component, NEW p, Bundle(p.root, p.path)
  PROVE  /\ Placed(u, p) = PutIn(emb, u, p.root, p.path, WholeCuts(p.path))
         /\ Cuts(p.path, WholeCuts(p.path))
<1> DEFINE path == p.path
           root == p.root
           K == NewChain(root, path, WholeCuts(path))
<1>1. \A i \in DOMAIN path : /\ Cut(path, i) \in Nat /\ Cut(path, i) >= 1
                             /\ ToSet(OwnPart(path, i)) = Piece(path, WholeCuts(path), i)
  <2> TAKE i \in DOMAIN path
  <2>1. /\ Cut(path, i) \in 1 .. Len(path[i]) /\ Len(path[i]) \in Nat
        /\ OwnPart(path, i) \in Seq(TargetVertices) /\ Len(OwnPart(path, i)) = Cut(path, i) - 1
        /\ \A k \in 1 .. Cut(path, i) - 1 : OwnPart(path, i)[k] = path[i][k + 1]
    BY OwnPartIs DEF Bundle, Way
  <2>2. Cut(path, i) \in Nat /\ Cut(path, i) >= 1 /\ Cut(path, i) - 1 \in Nat /\ (Cut(path, i) - 1) + 1 = Cut(path, i)
    BY <2>1
  <2>3. ToSet(OwnPart(path, i)) = Stretch(path[i], 2, (Cut(path, i) - 1) + 1)
    <3> DEFINE n == Cut(path, i) - 1
    <3>1. n \in Nat /\ Len(OwnPart(path, i)) = n /\ \A k \in 1 .. n : OwnPart(path, i)[k] = path[i][k + 1]
      BY <2>1, <2>2
    <3> HIDE DEF n
    <3>2. ToSet(OwnPart(path, i)) = Stretch(path[i], 2, n + 1)
      BY <3>1, <2>1, OwnPiece
    <3> QED
      BY <3>2 DEF n
  <2> QED
    BY <2>2, <2>3 DEF Piece, WholeCuts
<1>2. K = UTree(root, path)
  <2>1. \A i \in DOMAIN path : Stretch(path[i], WholeCuts(path)[i] + 1, Cut(path, i)) = {}
    <3> TAKE i \in DOMAIN path
    <3>1. Cut(path, i) + 1 .. Cut(path, i) = {}
      BY <1>1
    <3> QED
      BY <3>1 DEF Stretch, WholeCuts
  <2> QED
    BY <2>1 DEF NewChain
<1>3. Cuts(path, WholeCuts(path))
  BY <1>1 DEF Cuts, WholeCuts
<1>4. \A w \in Component : [emb EXCEPT ![u] = UTree(root, path)][w] = IF w = u THEN UTree(root, path) ELSE emb[w]
  OBVIOUS
<1>5. Placed(u, p) = [w \in Component |-> (IF w = u THEN UTree(root, path) ELSE emb[w])
                        \cup (IF w \in DOMAIN path THEN ToSet(OwnPart(path, w)) ELSE {})]
  BY <1>4, Zenon DEF Placed, Extended
<1>6. PutIn(emb, u, root, path, WholeCuts(path))
        = [w \in Component |-> (IF w = u THEN UTree(root, path) ELSE emb[w])
             \cup (IF w \in DOMAIN path THEN ToSet(OwnPart(path, w)) ELSE {})]
  <2>1. \A w \in Component : (IF w \in DOMAIN path THEN ToSet(OwnPart(path, w)) ELSE {})
                               = (IF w \in DOMAIN path THEN Piece(path, WholeCuts(path), w) ELSE {})
    BY <1>1
  <2> HIDE DEF path, root
  <2> QED
    BY <2>1, <1>2 DEF PutIn
<1> QED
  BY <1>3, <1>5, <1>6

\* A variable without neighbours goes to a free vertex.
LEMMA LeastUsedIs ==
  ASSUME NEW embedding, NEW p \in LeastUsed(embedding)
  PROVE  p.root \in workingSet /\ p.path = <<>>
BY DEF LeastUsed

\* Where a variable may go, and that the chains of the others still fit.
LEMMA PlacesFit ==
  ASSUME workingSet \subseteq TargetVertices, Component \subseteq Nat \ {0}, IsFiniteSet(Component),
         Fits(emb), NEW u \in Component, NEW nbrs \in SUBSET AdjacentVars(u),
         \A i \in AdjacentVars(u) \ {u} : i \notin nbrs => emb[i] = {},
         NEW p \in Places(u, nbrs, {})
  PROVE  /\ Fits(Placed(u, p))
         /\ \A w \in Component : w # u /\ w \notin nbrs => Placed(u, p)[w] = emb[w]
<1> DEFINE sets == [i \in nbrs |-> emb[i]]
           c == WholeCuts(p.path)
<1>1. emb \in [Component -> SUBSET workingSet]
  BY DEF Fits
<1>2. Close(sets, {}, p.root, p.path)
  <2>1. CASE nbrs = {}
    <3>1. p.root \in workingSet /\ p.path = <<>>
      BY <2>1, LeastUsedIs DEF Places
    <3>2. DOMAIN <<>> = {} /\ DOMAIN sets = {}
      BY <2>1
    <3>3. Bundle(p.root, p.path)
      BY <3>1, <3>2, FS_EmptySet DEF Bundle
    <3> QED
      BY <3>1, <3>2, <3>3 DEF Close
  <2>2. CASE nbrs # {}
    <3>1. PICK without : p \in ClosestVertices(sets, without, {})
      BY <2>2 DEF Places
    <3>2. DOMAIN sets = nbrs /\ nbrs \subseteq Component
      BY DEF AdjacentVars
    <3>3. IsFiniteSet(DOMAIN sets) /\ DOMAIN sets \subseteq Nat \ {0}
      BY <3>2, FS_Subset
    <3>4. \A i \in DOMAIN sets : sets[i] \subseteq workingSet
      BY <3>2, <1>1
    <3> HIDE DEF sets
    <3> QED
      BY <3>1, <3>3, <3>4, ClosestIs
  <2> QED
    BY <2>1, <2>2
<1>3. Surround(u, emb, sets)
  BY DEF Surround
<1>4. Bundle(p.root, p.path) /\ DOMAIN p.path = nbrs
  BY <1>2 DEF Close
<1>5. Placed(u, p) = PutIn(emb, u, p.root, p.path, c) /\ Cuts(p.path, c)
  BY <1>1, <1>4, PlacedIs
<1>6. Fits(PutIn(emb, u, p.root, p.path, c))
  <2> HIDE DEF sets, c
  <2> QED
    BY <1>2, <1>3, <1>5, PutInFits
<1>7. \A w \in Component : w # u /\ w \notin nbrs => PutIn(emb, u, p.root, p.path, c)[w] = emb[w]
  <2> HIDE DEF c
  <2> QED
    BY <1>4 DEF PutIn
<1> QED
  BY <1>5, <1>6, <1>7

-----------------------------------------------------------------------------
(* FindEmbedding: the steps of the minimization *)

\* The largest chain has a size.
LEMMA MaxChainIs ==
  ASSUME NEW e, IsFiniteSet(Component), Component # {}, \A u \in Component : IsFiniteSet(e[u])
  PROVE  MaxChainSize(e) \in Int
<1> DEFINE f == [u \in Component |-> Cardinality(e[u])]
           S == {f[u] : u \in Component}
<1>1. IsFiniteSet(S)
  <2> HIDE DEF f
  <2> QED
    BY ImageFinite
<1>2. S # {} /\ S \subseteq Int
  BY FS_CardinalityType
<1>3. S = {Cardinality(e[u]) : u \in Component}
  OBVIOUS
<1>4. Max(S) \in Int
  <2> HIDE DEF S
  <2> QED
    BY <1>1, <1>2, MaxIs
<1> QED
  BY <1>3, <1>4 DEF MaxChainSize

\* A chain takes the first part of a path.
LEMMA ShareIs ==
  ASSUME NEW part, Len(part) \in Nat, NEW size \in Int, MaxChainSize(bestEmb) \in Int
  PROVE  \E m \in 0 .. Len(part) : Share(part, size) = SubSeq(part, 1, m)
<1> DEFINE x == MaxChainSize(bestEmb) - size - 1
           y == Max({0, x})
           m == Min({Len(part), y})
<1>1. x \in Int
  OBVIOUS
<1> HIDE DEF x
<1>2. y \in Int /\ 0 <= y
  <2> DEFINE S == {0} \cup {x}
  <2>1. IsFiniteSet(S) /\ S # {} /\ S \subseteq Int /\ 0 \in S
    <3>1. IsFiniteSet({0})
      BY FS_Singleton
    <3>2. IsFiniteSet(S)
      BY <3>1, FS_AddElement, Zenon
    <3>3. S # {} /\ S \subseteq Int /\ 0 \in S
      BY <1>1
    <3> HIDE DEF S
    <3> QED
      BY <3>2, <3>3
  <2>2. S = {0, x}
    OBVIOUS
  <2> HIDE DEF S
  <2>3. Max(S) \in S /\ \A z \in S : z <= Max(S)
    BY <2>1, MaxIs
  <2> QED
    BY <2>1, <2>2, <2>3
<1> HIDE DEF y
<1>3. m \in {Len(part), y} /\ m <= Len(part)
  <2> DEFINE S == {Len(part), y}
  <2>1. S \subseteq Int /\ S # {} /\ 0 \in Int /\ \A z \in S : 0 <= z
    BY <1>2
  <2>2. Len(part) \in S
    OBVIOUS
  <2>3. Min(S) \in S /\ \A z \in S : Min(S) <= z
    <3> HIDE DEF S
    <3> QED
      BY <2>1, MinOfBounded
  <2> QED
    BY <2>2, <2>3
<1>4. m \in 0 .. Len(part)
  BY <1>2, <1>3
<1>5. Share(part, size) = SubSeq(part, 1, m)
  BY DEF Share, m, y, x
<1> QED
  BY <1>4, <1>5

\* How far the pieces go, and that they and the rest are those of a placement.
ShareCuts(u, path) == [i \in DOMAIN path |-> Len(Share(OwnPart(path, i), Cardinality(Ends(u)[i]))) + 1]

\* The shares of the paths' own parts cut the paths.
LEMMA SharesAre ==
  ASSUME NEW u, NEW root, NEW path, Bundle(root, path), NEW i \in DOMAIN path,
         MaxChainSize(bestEmb) \in Int, Cardinality(Ends(u)[i]) \in Int
  PROVE  /\ ShareCuts(u, path)[i] \in 1 .. Cut(path, i)
         /\ ToSet(Share(OwnPart(path, i), Cardinality(Ends(u)[i]))) = Stretch(path[i], 2, ShareCuts(u, path)[i])
         /\ Rest(OwnPart(path, i), Cardinality(Ends(u)[i]))
              = Stretch(path[i], ShareCuts(u, path)[i] + 1, Cut(path, i))
<1> DEFINE s == OwnPart(path, i)
           q == Share(s, Cardinality(Ends(u)[i]))
           p == path[i]
           n == Cut(path, i)
<1>1. /\ n \in 1 .. Len(p) /\ s \in Seq(TargetVertices) /\ Len(s) = n - 1 /\ Len(s) \in Nat
      /\ \A k \in 1 .. n - 1 : s[k] = p[k + 1]
  BY OwnPartIs
<1>2. Len(p) \in Nat /\ \A j, k \in 1 .. Len(p) : p[j] = p[k] => j = k
  BY DEF Bundle, Way
<1>3. n \in Nat /\ n >= 1 /\ n <= Len(p)
  BY <1>1, <1>2
<1>4. \E m \in 0 .. Len(s) : q = SubSeq(s, 1, m)
  <2> HIDE DEF s
  <2> QED
    BY <1>1, ShareIs
<1>5. PICK m \in 0 .. Len(s) : q = SubSeq(s, 1, m)
  BY <1>4
<1>6. ShareCuts(u, path)[i] = Len(q) + 1
  BY DEF ShareCuts
<1>7. Rest(s, Cardinality(Ends(u)[i])) = ToSet(s) \ ToSet(q)
  BY DEF Rest
<1> HIDE DEF q, s, p, n
<1>8. m \in Nat /\ m <= n - 1 /\ m <= Len(s)
  BY <1>1, <1>3, <1>5
<1>9. q \in Seq(TargetVertices) /\ Len(q) = m /\ \A k \in 1 .. m : q[k] = s[k]
  <2>1. 1 \in 1 .. Len(s) + 1 /\ m \in 0 .. Len(s)
    BY <1>1, <1>5
  <2>2. /\ SubSeq(s, 1, m) \in Seq(TargetVertices)
        /\ Len(SubSeq(s, 1, m)) = (IF 1 <= m THEN m - 1 + 1 ELSE 0)
        /\ \A k \in 1 .. Len(SubSeq(s, 1, m)) : SubSeq(s, 1, m)[k] = s[1 + k - 1]
    BY <1>1, <2>1, PartIs
  <2>3. Len(q) = m
    BY <1>5, <1>8, <2>2
  <2>4. \A k \in 1 .. m : 1 + k - 1 = k
    BY <1>8
  <2> QED
    BY <1>5, <2>2, <2>3, <2>4
<1>10. \A k \in 1 .. m : q[k] = p[k + 1]
  <2>1. \A k \in 1 .. m : k \in 1 .. n - 1
    BY <1>3, <1>8
  <2> QED
    BY <2>1, <1>1, <1>9
<1>11. ToSet(q) = Stretch(p, 2, m + 1)
  BY <1>8, <1>9, <1>10, OwnPiece
<1>12. ToSet(s) = Stretch(p, 2, n)
  <2>1. n - 1 \in Nat /\ (n - 1) + 1 = n
    BY <1>3
  <2>2. ToSet(s) = Stretch(p, 2, (n - 1) + 1)
    BY <1>1, <2>1, OwnPiece
  <2> QED
    BY <2>1, <2>2
<1>13. Stretch(p, 2, n) \ Stretch(p, 2, m + 1) = Stretch(p, m + 2, n)
  <2>1. \A k \in 2 .. n : k \in 1 .. Len(p) /\ (k \in 2 .. m + 1 \/ k \in m + 2 .. n)
    BY <1>2, <1>3, <1>8
  <2>2. \A k \in m + 2 .. n : k \in 2 .. n /\ k \notin 2 .. m + 1
    BY <1>3, <1>8
  <2>3. \A k \in 2 .. m + 1 : k \in 1 .. Len(p)
    BY <1>2, <1>3, <1>8
  <2>4. ASSUME NEW k \in m + 2 .. n, NEW j \in 2 .. m + 1, p[k] = p[j] PROVE FALSE
    BY <2>1, <2>2, <2>3, <2>4, <1>2
  <2>5. Stretch(p, m + 2, n) \subseteq Stretch(p, 2, n) \ Stretch(p, 2, m + 1)
    BY <2>2, <2>4 DEF Stretch
  <2>6. Stretch(p, 2, n) \ Stretch(p, 2, m + 1) \subseteq Stretch(p, m + 2, n)
    BY <2>1 DEF Stretch
  <2> QED
    BY <2>5, <2>6
<1>14. ShareCuts(u, path)[i] = m + 1 /\ m + 1 \in 1 .. n /\ (m + 1) + 1 = m + 2
  BY <1>3, <1>6, <1>8, <1>9
<1> QED
  BY <1>7, <1>11, <1>12, <1>13, <1>14 DEF q, s, p, n

\* Shortened hands each neighbour a share of its own part.
LEMMA ShortenedIs ==
  ASSUME NEW u, NEW p, Bundle(p.root, p.path), DOMAIN p.path = AdjacentVars(u), MaxChainSize(bestEmb) \in Int,
         \A i \in AdjacentVars(u) : Cardinality(Ends(u)[i]) \in Int
  PROVE  /\ Shortened(u, p) = PutIn(CutBack(u), u, p.root, p.path, ShareCuts(u, p.path))
         /\ Cuts(p.path, ShareCuts(u, p.path))
<1> DEFINE path == p.path
           root == p.root
           cut == CutBack(u)
           part(i) == OwnPart(path, i)
           size(i) == Cardinality(Ends(u)[i])
           c == ShareCuts(u, path)
           chain == UTree(root, path) \cup UNION {Rest(part(i), size(i)) : i \in AdjacentVars(u)}
           K == NewChain(root, path, c)
<1>1. \A i \in DOMAIN path : /\ c[i] \in 1 .. Cut(path, i)
                             /\ ToSet(Share(part(i), size(i))) = Piece(path, c, i)
                             /\ Rest(part(i), size(i)) = Stretch(path[i], c[i] + 1, Cut(path, i))
  BY SharesAre DEF Piece
<1>2. chain = K
  <2>1. {Rest(part(i), size(i)) : i \in AdjacentVars(u)}
          = {Stretch(path[i], c[i] + 1, Cut(path, i)) : i \in DOMAIN path}
    <3> HIDE DEF c, part, size
    <3> QED
      BY <1>1
  <2> QED
    BY <2>1 DEF NewChain
<1>3. \A w \in Component : [cut EXCEPT ![u] = chain][w] = IF w = u THEN chain ELSE cut[w]
  BY DEF CutBack
<1>4. Shortened(u, p) = [w \in Component |-> [cut EXCEPT ![u] = chain][w]
                           \cup (IF w \in DOMAIN path THEN ToSet(Share(part(w), size(w))) ELSE {})]
  BY Zenon DEF Shortened, Extended
<1> HIDE DEF chain, K, cut, c, part, size
<1>5. PutIn(cut, u, root, path, c)
        = [w \in Component |-> (IF w = u THEN chain ELSE cut[w])
             \cup (IF w \in DOMAIN path THEN ToSet(Share(part(w), size(w))) ELSE {})]
  <2>1. \A w \in Component : (IF w \in DOMAIN path THEN ToSet(Share(part(w), size(w))) ELSE {})
                               = (IF w \in DOMAIN path THEN Piece(path, c, w) ELSE {})
    BY <1>1
  <2> HIDE DEF path, root
  <2> QED
    BY <2>1, <1>2 DEF PutIn, K
<1>6. Cuts(path, c)
  BY <1>1 DEF Cuts
<1> QED
  BY <1>3, <1>4, <1>5, <1>6 DEF cut, c

\* What the minimization keeps of the paths.
Paths(paths, roots) ==
  /\ DOMAIN paths = {x \in graph : x \subseteq Component} /\ DOMAIN roots = Component
  /\ \A w \in Component : {w} \in graph => paths[{w}] = {}

\* The paths of u are new, the others stay.
LEMMA EdgePathsAre ==
  ASSUME NEW u \in Component, NEW P \in SUBSET Component, place \in {"firstPass", "pass"},
         place = "pass" => u \notin AdjacentVars(u), place = "firstPass" => u \in Int /\ \A i \in P \ {u} : i < u,
         Paths(edgePath, rootVertex), NEW p, NEW e,
         \A i \in P \ {u} : {i, u} \in graph =>
           Within(e[i], rootVertex[i], p.path[i][1], Inside(e[i], rootVertex[i], p.path[i][1]))
             /\ ToSet(p.path[i]) = Stretch(p.path[i], 1, Len(p.path[i]))
  PROVE  /\ Rethreaded(e, P, u, p.root, p.path, edgePath, rootVertex,
                       EdgePaths(u, p, e), [rootVertex EXCEPT ![u] = p.root])
         /\ Paths(EdgePaths(u, p, e), [rootVertex EXCEPT ![u] = p.root])
<1> DEFINE known == {i \in AdjacentVars(u) : place = "pass" \/ i < u}
           way(i) == ToSet(Inside(e[i], rootVertex[i], p.path[i][1])) \cup ToSet(p.path[i])
           E == EdgePaths(u, p, e)
           r == [rootVertex EXCEPT ![u] = p.root]
<1>1. E = [x \in DOMAIN edgePath |->
             IF x \in {{i, u} : i \in known} THEN UNION {way(i) : i \in {i \in known : {i, u} = x}} ELSE edgePath[x]]
  BY Zenon DEF EdgePaths
<1>2. DOMAIN edgePath = {x \in graph : x \subseteq Component} /\ DOMAIN rootVertex = Component
  BY DEF Paths
<1>3. u \notin known
  BY DEF known
<1>4. \A i \in P \ {u} : {i, u} \in graph => i \in known
  <2> TAKE i \in P \ {u}
  <2> HAVE {i, u} \in graph
  <2>1. {u, i} = {i, u}
    OBVIOUS
  <2>2. i \in AdjacentVars(u)
    BY <2>1 DEF AdjacentVars
  <2> QED
    BY <2>2
<1> HIDE DEF known, way, E
<1>5. ASSUME NEW i \in P \ {u}, NEW t \in P \ {u}, {i, t} \in graph PROVE E[{i, t}] = edgePath[{i, t}]
  <2>1. {i, t} \in DOMAIN edgePath
    BY <1>2, <1>5
  <2>2. {i, t} \notin {{j, u} : j \in known}
    OBVIOUS
  <2> QED
    BY <2>1, <2>2, <1>1
<1>6. ASSUME NEW i \in P \ {u}, {i, u} \in graph PROVE E[{i, u}] = way(i)
  <2>1. {i, u} \in DOMAIN edgePath
    BY <1>2, <1>6
  <2>2. {i, u} \in {{j, u} : j \in known} /\ {j \in known : {j, u} = {i, u}} = {i}
    BY <1>4, <1>6
  <2>3. E[{i, u}] = UNION {way(j) : j \in {j \in known : {j, u} = {i, u}}}
    BY <2>1, <2>2, <1>1
  <2>4. {way(j) : j \in {i}} = {way(i)}
    OBVIOUS
  <2> QED
    BY <2>2, <2>3, <2>4
<1>7. ASSUME NEW w \in Component, {w} \in graph PROVE E[{w}] = {}
  <2>1. {w} \in DOMAIN edgePath
    BY <1>2, <1>7
  <2>2. {w} \notin {{j, u} : j \in known}
    BY <1>3
  <2>3. E[{w}] = edgePath[{w}]
    BY <2>1, <2>2, <1>1
  <2> QED
    BY <2>3, <1>7 DEF Paths
<1>8. DOMAIN E = DOMAIN edgePath
  BY <1>1
<1>9. Paths(E, r)
  BY <1>2, <1>7, <1>8 DEF Paths
<1>10. r[u] = p.root /\ \A w \in P \ {u} : r[w] = rootVertex[w]
  BY <1>2
<1>11. ASSUME NEW i \in P \ {u}, {i, u} \in graph
       PROVE  \E S : /\ S \subseteq e[i] /\ rootVertex[i] \in S /\ p.path[i][1] \in S /\ Connected(S)
                     /\ E[{i, u}] = S \cup Stretch(p.path[i], 1, Len(p.path[i]))
  <2> DEFINE S == ToSet(Inside(e[i], rootVertex[i], p.path[i][1]))
  <2>1. /\ S \subseteq e[i] /\ rootVertex[i] \in S /\ p.path[i][1] \in S /\ Connected(S)
        /\ ToSet(p.path[i]) = Stretch(p.path[i], 1, Len(p.path[i]))
    BY <1>11 DEF Within
  <2>2. E[{i, u}] = S \cup Stretch(p.path[i], 1, Len(p.path[i]))
    BY <2>1, <1>6, <1>11 DEF way
  <2> QED
    BY <2>1, <2>2
<1>12. Rethreaded(e, P, u, p.root, p.path, edgePath, rootVertex, E, r)
  <2> HIDE DEF r
  <2> QED
    BY <1>5, <1>10, <1>11 DEF Rethreaded
<1> QED
  BY <1>9, <1>12 DEF E

\* The neighbours of u in P have their roots, and the paths to u start in them.
RootsIn(e, P, u, p) ==
  \A i \in AdjacentVars(u) : i \in P \ {u} => {rootVertex[i], p.path[i][1]} \subseteq e[i]

\* A step of the minimization keeps all of that.
LEMMA ShortenKeeps ==
  ASSUME workingSet \subseteq TargetVertices, Component \subseteq Nat \ {0}, IsFiniteSet(Component),
         Fits(emb), Fits(bestEmb), place \in {"firstPass", "pass"},
         NEW u \in Component, AdjacentVars(u) # {}, NEW P \in SUBSET Component,
         place = "pass" => P = Component, place = "firstPass" => \A i \in P \ {u} : i < u,
         Threads(emb, P, edgePath, rootVertex), Paths(edgePath, rootVertex),
         NEW p \in ShortPlaces(u), NEW e, e = Shortened(u, p)
  PROVE  /\ Fits(e)
         /\ Threads(e, P \cup {u}, EdgePaths(u, p, e), [rootVertex EXCEPT ![u] = p.root])
         /\ Paths(EdgePaths(u, p, e), [rootVertex EXCEPT ![u] = p.root])
         /\ RootsIn(e, P, u, p)
         /\ place = "pass" => u \notin AdjacentVars(u)
<1> DEFINE cut == CutBack(u)
           sets == Ends(u)
           full == {v \in workingSet : Overlap(cut, v) >= 1}
           path == p.path
           root == p.root
           c == ShareCuts(u, path)
<1>1. /\ cut[u] = {} /\ DOMAIN sets = AdjacentVars(u) /\ AdjacentVars(u) \subseteq Component
      /\ place = "firstPass" => cut = [v \in Component |-> IF v = u THEN {} ELSE emb[v]]
      /\ place = "firstPass" => \A i \in AdjacentVars(u) : sets[i] = emb[i]
      /\ place = "pass" => cut = [v \in Component |->
           IF v = u THEN {} ELSE IF v \in AdjacentVars(u) THEN OwnChain(u, v) ELSE emb[v]]
      /\ place = "pass" => \A i \in AdjacentVars(u) : sets[i] = cut[i]
  BY DEF CutBack, Ends, AdjacentVars
<1>2. p \in ClosestVertices(sets, cut, full)
  BY DEF ShortPlaces
<1>3. IsFiniteSet(workingSet) /\ workingSet \subseteq Nat
  BY TargetFinite, FS_Subset
<1>4. \A w \in Component : emb[w] \subseteq workingSet /\ cut[w] \subseteq workingSet
  <2>1. \A w \in Component : emb[w] \subseteq workingSet
    BY DEF Fits
  <2>2. \A w \in Component : cut[w] \subseteq emb[w]
    BY DEF CutBack, OwnChain
  <2> QED
    BY <2>1, <2>2
<1> HIDE DEF cut, sets, full
<1>5. \A i \in DOMAIN sets : sets[i] \subseteq workingSet
  BY <1>1, <1>4
<1>6. Close(sets, full, root, path)
  <2>1. IsFiniteSet(DOMAIN sets) /\ DOMAIN sets \subseteq Nat \ {0}
    BY <1>1, FS_Subset
  <2> QED
    BY <2>1, <1>2, <1>5, ClosestIs
<1>7. Bundle(root, path) /\ DOMAIN path = AdjacentVars(u) /\ \A i \in AdjacentVars(u) : path[i][1] \in sets[i]
  BY <1>1, <1>6 DEF Close
<1>8. place = "pass" => u \notin AdjacentVars(u) /\ \A i \in AdjacentVars(u) \ {u} : OwnChain(u, i) # {}
  <2> SUFFICES ASSUME place = "pass" PROVE u \notin AdjacentVars(u) /\ \A i \in AdjacentVars(u) \ {u} : OwnChain(u, i) # {}
    OBVIOUS
  <2>1. \A i \in AdjacentVars(u) : cut[i] # {}
    BY <1>1, <1>7
  <2> QED
    BY <2>1, <1>1
<1>9. Trimmed(emb, P, edgePath, rootVertex, u, cut)
  <2>1. CASE place = "firstPass"
    BY <2>1, <1>1, FirstTrim
  <2>2. CASE place = "pass"
    <3>1. Threads(emb, Component, edgePath, rootVertex)
      BY <2>2
    <3>2. \A w \in Component : {w} \in graph => edgePath[{w}] = {}
      BY DEF Paths
    <3>3. Trimmed(emb, Component, edgePath, rootVertex, u, cut)
      BY <2>2, <3>1, <3>2, <1>1, <1>8, PassTrim
    <3> QED
      BY <2>2, <3>3
  <2> QED
    BY <2>1, <2>2
<1>10. Fits(cut) /\ Threads(cut, P \ {u}, edgePath, rootVertex)
  BY <1>9, TrimmedKeeps
<1>11. \A i \in AdjacentVars(u) \ {u} : sets[i] = cut[i]
  <2>1. \A i \in AdjacentVars(u) \ {u} : i \in Component
    BY <1>1
  <2> QED
    BY <2>1, <1>1
<1>12. Surround(u, cut, sets)
  BY <1>1, <1>11 DEF Surround
<1>13. MaxChainSize(bestEmb) \in Int /\ \A i \in AdjacentVars(u) : Cardinality(sets[i]) \in Int
  <2>1. \A w \in Component : bestEmb[w] \subseteq workingSet
    BY DEF Fits
  <2>2. \A w \in Component : IsFiniteSet(bestEmb[w])
    BY <2>1, <1>3, FS_Subset
  <2>3. \A i \in AdjacentVars(u) : IsFiniteSet(sets[i])
    BY <1>1, <1>3, <1>5, FS_Subset
  <2> QED
    BY <2>2, <2>3, MaxChainIs, FS_CardinalityType
<1>14. e = PutIn(cut, u, root, path, c) /\ Cuts(path, c)
  <2>1. \A i \in AdjacentVars(u) : Cardinality(Ends(u)[i]) \in Int
    BY <1>13 DEF sets
  <2> QED
    BY <2>1, <1>7, <1>13, ShortenedIs DEF cut
<1> HIDE DEF c
<1>15. Fits(e) /\ root \in e[u]
  BY <1>6, <1>10, <1>12, <1>14, PutInFits
<1>16. \A w \in Component : cut[w] \subseteq full
  <2> SUFFICES ASSUME NEW w \in Component, NEW v \in cut[w] PROVE v \in full
    OBVIOUS
  <2>1. v \in workingSet
    BY <1>4
  <2>2. Overlap(cut, v) >= 1
    BY OverlapIs
  <2> QED
    BY <2>1, <2>2 DEF full
<1>17. \A w \in Component \ {u} : cut[w] \subseteq e[w]
  BY <1>14 DEF PutIn
<1>18. ASSUME NEW i \in P \ {u}, {i, u} \in graph
       PROVE  /\ rootVertex[i] \in e[i] /\ path[i][1] \in e[i]
              /\ Within(e[i], rootVertex[i], path[i][1], Inside(e[i], rootVertex[i], path[i][1]))
              /\ ToSet(path[i]) = Stretch(path[i], 1, Len(path[i]))
  <2>1. i \in Component /\ i \in AdjacentVars(u) /\ u \in AdjacentVars(i)
    <3>1. {u, i} = {i, u}
      OBVIOUS
    <3> QED
      BY <3>1, <1>18 DEF AdjacentVars
  <2>2. rootVertex[i] \in e[i]
    <3>1. rootVertex[i] \in cut[i]
      BY <1>10, <2>1 DEF Threads
    <3> QED
      BY <3>1, <2>1, <1>17
  <2>3. path[i][1] \in e[i]
    BY <2>1, <1>7, <1>11, <1>17
  <2>4. IsFiniteSet(e[i]) /\ e[i] \subseteq Nat /\ Connected(e[i])
    <3>1. e[i] \subseteq workingSet /\ Connected(e[i])
      BY <2>1, <1>15 DEF Fits
    <3> QED
      BY <3>1, <1>3, FS_Subset
  <2>5. Within(e[i], rootVertex[i], path[i][1], Inside(e[i], rootVertex[i], path[i][1]))
    <3> DEFINE x == path[i][1]
    <3>1. x \in e[i]
      BY <2>3
    <3> HIDE DEF x
    <3>2. Within(e[i], rootVertex[i], x, ShortestPaths({rootVertex[i]}, e[i], [v \in e[i] |-> 1], {})[x].path)
      BY <3>1, <2>2, <2>4, WithinIs
    <3>3. Within(e[i], rootVertex[i], x, Inside(e[i], rootVertex[i], x))
      BY <3>2 DEF Inside
    <3> QED
      BY <3>3 DEF x
  <2>6. ToSet(path[i]) = Stretch(path[i], 1, Len(path[i]))
    <3> DEFINE q == path[i]
    <3>1. q \in Seq(TargetVertices)
      BY <2>1, <1>7 DEF Bundle, Way
    <3> HIDE DEF q
    <3>2. DOMAIN q = 1 .. Len(q)
      BY <3>1
    <3>3. ToSet(q) = Stretch(q, 1, Len(q))
      BY <3>2 DEF ToSet, Stretch
    <3> QED
      BY <3>3 DEF q
  <2> QED
    BY <2>2, <2>3, <2>5, <2>6
<1>19. place = "firstPass" => u \in Int
  OBVIOUS
<1>20. /\ Rethreaded(e, P, u, root, path, edgePath, rootVertex,
                     EdgePaths(u, p, e), [rootVertex EXCEPT ![u] = p.root])
       /\ Paths(EdgePaths(u, p, e), [rootVertex EXCEPT ![u] = p.root])
  BY <1>8, <1>18, <1>19, EdgePathsAre
<1>21. Threads(e, P \cup {u}, EdgePaths(u, p, e), [rootVertex EXCEPT ![u] = p.root])
  <2>1. AdjacentVars(u) \subseteq DOMAIN sets
    BY <1>1
  <2>2. cut[u] = {}
    BY <1>1
  <2> DEFINE newPaths == EdgePaths(u, p, e)
             newRoots == [rootVertex EXCEPT ![u] = p.root]
  <2>3. Rethreaded(e, P, u, root, path, edgePath, rootVertex, newPaths, newRoots)
    BY <1>20
  <2> HIDE DEF newPaths, newRoots, path, root
  <2>4. Threads(e, P \cup {u}, newPaths, newRoots)
    BY <2>1, <2>2, <2>3, <1>6, <1>10, <1>12, <1>14, <1>16, PutInThreads
  <2> QED
    BY <2>4 DEF newPaths, newRoots
<1>22. ASSUME NEW i \in AdjacentVars(u), i \in P \ {u} PROVE {rootVertex[i], path[i][1]} \subseteq e[i]
  <2>1. {i, u} = {u, i}
    OBVIOUS
  <2>2. {i, u} \in graph
    BY <2>1 DEF AdjacentVars
  <2> QED
    BY <2>2, <1>18, <1>22
<1> QED
  BY <1>8, <1>15, <1>20, <1>21, <1>22 DEF RootsIn

-----------------------------------------------------------------------------
(* FindEmbedding: the invariant *)

\* No edge leaves a component.
Closed(C) == \A x \in graph : x \cap C # {} => x \subseteq C

\* What has been found is connected, and joined where both variables have a chain.
FoundHolds(f) ==
  /\ \A u \in DOMAIN f : Connected(f[u])
  /\ \A u, v \in DOMAIN f : u # v /\ {u, v} \in graph /\ f[u] # {} /\ f[v] # {} => Joined(f[u], f[v])

\* What is left of the target and of the components, and what has been found.
ResultInv ==
  /\ graph \in Graphs
  /\ workingSet \subseteq TargetVertices
  /\ todo \in Seq(SUBSET SourceVars)
  /\ \A k \in 1 .. Len(todo) : Closed(todo[k])
  /\ FoundHolds(found)

\* The order in which variables are visited, and the position in it.
Visiting == orderQ \in Seq(Component) /\ at \in Nat \ {0}

\* The variables of the component in their order, which all of them are in.
Ascending ==
  /\ \A i, j \in 1 .. Len(orderQ) : i < j => orderQ[i] < orderQ[j]
  /\ \A w \in Component : \E k \in 1 .. Len(orderQ) : orderQ[k] = w

\* The variables whose paths are known.
Done == IF place = "pass" THEN Component ELSE Before

\* The places of the improvement and of the minimization.
Searching == {"shuffle", "round", "improving"}
Minimizing == {"firstPass", "pass"}

\* The chains of the component fit at every step; while variables are placed for
\* the first time the others have none; while chains are shortened none overlap
\* and the paths between them are kept.
SearchInv ==
  /\ place \in {"placing", "decide"} \cup Searching \cup Minimizing => todo # <<>>
  /\ place \in {"placing"} \cup Searching \cup Minimizing => Visiting /\ Fits(emb)
  /\ place = "placing" => \A w \in Component \ Before : emb[w] = {}
  /\ place \in {"decide"} \cup Searching \cup Minimizing => Fits(bestEmb)
  /\ place \in Minimizing =>
       Ascending /\ Threads(emb, Done, edgePath, rootVertex) /\ Paths(edgePath, rootVertex)

FindInv == ResultInv /\ SearchInv

\* A component is a finite set of variables.
LEMMA ComponentIs ==
  ASSUME ResultInv, todo # <<>>
  PROVE  /\ Component \subseteq Nat \ {0} /\ IsFiniteSet(Component) /\ Closed(Component)
         /\ Tail(todo) \in Seq(SUBSET SourceVars) /\ \A k \in 1 .. Len(Tail(todo)) : Closed(Tail(todo)[k])
<1>1. IsFiniteSet(SourceVars) /\ SourceVars \subseteq Nat \ {0}
  <2>1. /\ graph # {} /\ IsFiniteSet(graph)
        /\ \A x \in graph : x \subseteq Nat \ {0} /\ \E u, v \in x : x = {u, v}
    BY FindAssumption DEF ResultInv
  <2>2. IsFiniteSet(UNION graph)
    <3>1. \A x \in graph : IsFiniteSet(x)
      <4> TAKE x \in graph
      <4>1. PICK u, v \in x : x = {u, v}
        BY <2>1
      <4>2. IsFiniteSet({u} \cup {v})
        BY FS_Singleton, FS_AddElement, Zenon
      <4>3. x = {u} \cup {v}
        BY <4>1
      <4> QED
        BY <4>2, <4>3, Zenon
    <3> QED
      BY <2>1, <3>1, FS_UNION
  <2>3. UNION graph # {} /\ UNION graph \subseteq Nat
    BY <2>1
  <2>4. Max(UNION graph) \in Nat
    <3> DEFINE S == UNION graph
    <3>1. IsFiniteSet(S) /\ S # {} /\ S \subseteq Nat /\ S \subseteq Int
      BY <2>2, <2>3
    <3> HIDE DEF S
    <3>2. Max(S) \in S
      BY <3>1, MaxIs
    <3> QED
      BY <3>1, <3>2 DEF S
  <2>5. IsFiniteSet(1 .. Max(UNION graph))
    <3>1. 1 \in Int /\ Max(UNION graph) \in Int
      BY <2>4
    <3> QED
      BY <3>1, FS_Interval
  <2> QED
    BY <2>4, <2>5 DEF SourceVars
<1>2. /\ Len(todo) \in Nat /\ Len(todo) >= 1 /\ Component = todo[1] /\ todo[1] \in SUBSET SourceVars
      /\ Tail(todo) \in Seq(SUBSET SourceVars) /\ Len(Tail(todo)) = Len(todo) - 1
      /\ \A k \in 1 .. Len(todo) - 1 : Tail(todo)[k] = todo[k + 1]
  <2> DEFINE S == SUBSET SourceVars
  <2>1. todo \in Seq(S) /\ todo # <<>>
    BY DEF ResultInv
  <2> HIDE DEF S
  <2>2. /\ Len(todo) \in Nat /\ Len(todo) >= 1 /\ Head(todo) = todo[1] /\ todo[1] \in S
        /\ Tail(todo) \in Seq(S) /\ Len(Tail(todo)) = Len(todo) - 1
        /\ \A k \in 1 .. Len(todo) - 1 : Tail(todo)[k] = todo[k + 1]
    BY <2>1
  <2> QED
    BY <2>2 DEF S, Component
<1>3. \A k \in 1 .. Len(Tail(todo)) : Closed(Tail(todo)[k])
  <2>1. \A k \in 1 .. Len(todo) - 1 : k + 1 \in 1 .. Len(todo)
    BY <1>2
  <2> QED
    BY <2>1, <1>2 DEF ResultInv
<1>4. Closed(Component)
  <2>1. 1 \in 1 .. Len(todo)
    BY <1>2
  <2> QED
    BY <2>1, <1>2 DEF ResultInv
<1> QED
  BY <1>1, <1>2, <1>3, <1>4, FS_Subset

\* The result with the chains of one more component.
LEMMA FoundGrows ==
  ASSUME FoundHolds(found), Closed(Component), NEW e, Fits(e)
  PROVE  FoundHolds([u \in DOMAIN found |-> IF u \in Component THEN e[u] ELSE found[u]])
<1> DEFINE f == [u \in DOMAIN found |-> IF u \in Component THEN e[u] ELSE found[u]]
<1>1. DOMAIN f = DOMAIN found
  OBVIOUS
<1>2. \A u \in DOMAIN found : /\ u \in Component => f[u] = e[u]
                              /\ u \notin Component => f[u] = found[u]
  OBVIOUS
<1> HIDE DEF f
<1>3. \A u \in DOMAIN found : Connected(f[u])
  BY <1>2 DEF Fits, FoundHolds
<1>4. ASSUME NEW u \in DOMAIN found, NEW v \in DOMAIN found, u # v, {u, v} \in graph, f[u] # {}, f[v] # {}
      PROVE  Joined(f[u], f[v])
  <2>1. u \in Component <=> v \in Component
    BY <1>4 DEF Closed
  <2>2. CASE u \in Component
    BY <2>1, <2>2, <1>2, <1>4 DEF Fits
  <2>3. CASE u \notin Component
    BY <2>1, <2>3, <1>2, <1>4 DEF FoundHolds
  <2> QED
    BY <2>2, <2>3
<1> QED
  BY <1>1, <1>3, <1>4 DEF FoundHolds, f

\* Nothing has been found.
LEMMA FoundNone == FoundHolds(<<>>)
<1>1. DOMAIN <<>> = {}
  OBVIOUS
<1> QED
  BY <1>1 DEF FoundHolds

\* What vertexAdditionHeuristic hands over fits.
LEMMA AcceptKeeps ==
  ASSUME ResultInv, todo # <<>>, NEW e, Fits(e), NEW interrupted \in BOOLEAN
  PROVE  Accept(e, interrupted) => ResultInv' /\ place' \in {"component", "verify"}
<1> SUFFICES ASSUME Accept(e, interrupted) PROVE ResultInv' /\ place' \in {"component", "verify"}
  OBVIOUS
<1>1. /\ Closed(Component)
      /\ Tail(todo) \in Seq(SUBSET SourceVars) /\ \A k \in 1 .. Len(Tail(todo)) : Closed(Tail(todo)[k])
  BY ComponentIs
<1>2. graph' = graph /\ place' \in {"component", "verify"} /\ workingSet' \subseteq workingSet
  BY DEF Accept
<1>3. todo' \in Seq(SUBSET SourceVars) /\ \A k \in 1 .. Len(todo') : Closed(todo'[k])
  BY <1>1 DEF Accept, ResultInv
<1>4. FoundHolds(found')
  <2>1. found' \in {<<>>, found, [u \in DOMAIN found |-> IF u \in Component THEN e[u] ELSE found[u]]}
    BY DEF Accept
  <2>2. FoundHolds(found)
    BY DEF ResultInv
  <2>3. FoundHolds([u \in DOMAIN found |-> IF u \in Component THEN e[u] ELSE found[u]])
    BY <1>1, <2>2, FoundGrows
  <2> QED
    BY <2>1, <2>2, <2>3, FoundNone
<1>5. SourceVars' = SourceVars
  BY <1>2 DEF SourceVars
<1>6. ResultInv'
  BY <1>2, <1>3, <1>4, <1>5 DEF ResultInv, FoundHolds, Closed
<1> QED
  BY <1>2, <1>6

\* The invariant holds at the start.
LEMMA FindInitHolds ==
  FindInit => FindInv
<1> SUFFICES ASSUME FindInit PROVE FindInv
  OBVIOUS
<1> DEFINE S == ComponentsOf(SourceVars, graph)
<1>1. graph \in Graphs /\ workingSet \subseteq TargetVertices /\ place = "component"
  BY DEF FindInit
<1>2. \A C \in S : C \in SUBSET SourceVars /\ Closed(C)
  BY DEF ComponentsOf, Closed
<1>3. todo \in [1 .. Cardinality(S) -> S]
  BY DEF FindInit, LargestFirst
<1>4. Cardinality(S) \in Nat
  <2>1. IsFiniteSet(SourceVars)
    <3>1. /\ graph # {} /\ IsFiniteSet(graph)
          /\ \A x \in graph : x \subseteq Nat \ {0} /\ \E u, v \in x : x = {u, v}
      BY <1>1, FindAssumption
    <3>2. \A x \in graph : IsFiniteSet(x)
      <4> TAKE x \in graph
      <4>1. PICK u, v \in x : x = {u, v}
        BY <3>1
      <4>2. IsFiniteSet({u} \cup {v})
        BY FS_Singleton, FS_AddElement, Zenon
      <4>3. x = {u} \cup {v}
        BY <4>1
      <4> QED
        BY <4>2, <4>3, Zenon
    <3> DEFINE U == UNION graph
    <3>3. IsFiniteSet(U)
      BY <3>1, <3>2, FS_UNION
    <3>4. U # {} /\ U \subseteq Nat /\ U \subseteq Int
      BY <3>1
    <3> HIDE DEF U
    <3>5. Max(U) \in Int
      BY <3>3, <3>4, MaxIs
    <3>6. IsFiniteSet(1 .. Max(U))
      <4>1. 1 \in Int
        OBVIOUS
      <4> QED
        BY <4>1, <3>5, FS_Interval
    <3> QED
      BY <3>6 DEF SourceVars, U
  <2>2. IsFiniteSet(SUBSET SourceVars)
    BY <2>1, FS_SUBSET
  <2>3. S \subseteq SUBSET SourceVars
    BY <1>2
  <2>4. IsFiniteSet(S)
    <3> HIDE DEF S
    <3> QED
      BY <2>2, <2>3, FS_Subset
  <2> QED
    BY <2>4, FS_CardinalityType
<1> HIDE DEF S
<1>5. todo \in Seq(SUBSET SourceVars) /\ \A k \in 1 .. Len(todo) : Closed(todo[k])
  <2> DEFINE D == SUBSET SourceVars
             n == Cardinality(S)
  <2>1. todo \in [1 .. n -> D] /\ n \in Nat /\ \A k \in 1 .. n : Closed(todo[k])
    BY <1>2, <1>3, <1>4
  <2> HIDE DEF D, n
  <2>2. todo \in Seq(D) /\ Len(todo) = n
    BY <2>1
  <2> QED
    BY <2>1, <2>2 DEF D
<1>6. FoundHolds(found)
  <2>1. found = [u \in SourceVars |-> {}]
    BY DEF FindInit
  <2> QED
    BY <2>1, ConnectedOne DEF FoundHolds
<1> QED
  BY <1>1, <1>5, <1>6 DEF FindInv, ResultInv, SearchInv, Searching, Minimizing

\* A step that leaves the outer state alone.
LEMMA OuterStays ==
  ASSUME ResultInv, UNCHANGED <<graph, workingSet, todo>>, FoundHolds(found')
  PROVE  ResultInv'
BY DEF ResultInv, FoundHolds, Closed, SourceVars

\* Chains fit as long as the component and the vertices stay.
LEMMA FitsStays ==
  ASSUME UNCHANGED <<graph, workingSet, todo>>
  PROVE  /\ Fits(emb') => Fits(emb)'
         /\ Fits(bestEmb') => Fits(bestEmb)'
         /\ Component' = Component
         /\ orderQ' \in Seq(Component) /\ at' \in Nat \ {0} => Visiting'
BY DEF Fits, Component, Visiting

\* The steps that give up, and the verification.
LEMMA QuietSteps ==
  ASSUME FindInv
  PROVE  Fail \/ TimeOut \/ Verify => FindInv'
<1>0. FoundHolds(found)
  BY DEF FindInv, ResultInv
<1>1. CASE Fail
  <2>1. UNCHANGED <<graph, workingSet, todo>> /\ found' = <<>> /\ place' = "verify"
    BY <1>1 DEF Fail
  <2>2. ResultInv'
    BY <2>1, FoundNone, OuterStays DEF FindInv
  <2> QED
    BY <2>1, <2>2 DEF FindInv, SearchInv, Searching, Minimizing
<1>2. CASE TimeOut
  <2>1. UNCHANGED <<graph, workingSet, todo>> /\ found' = found /\ place' = "verify"
    BY <1>2 DEF TimeOut, outerVars
  <2>2. ResultInv'
    BY <2>1, <1>0, OuterStays DEF FindInv
  <2> QED
    BY <2>1, <2>2 DEF FindInv, SearchInv, Searching, Minimizing
<1>3. CASE Verify
  <2>1. UNCHANGED <<graph, workingSet, todo>> /\ found' \in {found, <<>>} /\ place' = "returned"
    BY <1>3 DEF Verify
  <2>2. FoundHolds(found')
    BY <2>1, <1>0, FoundNone
  <2>3. ResultInv'
    BY <2>1, <2>2, OuterStays DEF FindInv
  <2> QED
    BY <2>1, <2>3 DEF FindInv, SearchInv, Searching, Minimizing
<1> QED
  BY <1>1, <1>2, <1>3

\* A try begins with a single vertex.
LEMMA StartTryKeeps ==
  ASSUME FindInv, StartTry
  PROVE  FindInv'
<1>1. /\ UNCHANGED <<graph, workingSet, todo>> /\ found' = found /\ place' = "placing" /\ todo # <<>>
      /\ orderQ' \in SetToSeqs(Component) /\ at' = 2
  BY DEF StartTry
<1>2. PICK v \in workingSet : emb' = [u \in Component |-> IF u = orderQ'[1] THEN {v} ELSE {}]
  BY DEF StartTry
<1>3. ResultInv'
  BY <1>1, OuterStays DEF FindInv, ResultInv
<1>4. orderQ' \in Seq(Component)
  <2>1. IsFiniteSet(Component)
    BY <1>1, ComponentIs DEF FindInv
  <2>2. Cardinality(Component) \in Nat
    BY <2>1, FS_CardinalityType
  <2>3. orderQ' \in [1 .. Cardinality(Component) -> Component]
    BY <1>1 DEF SetToSeqs
  <2> QED
    BY <2>2, <2>3, AsSeq
<1>5. Fits(emb')
  <2>1. \A u \in Component : emb'[u] = {v} \/ emb'[u] = {}
    BY <1>2
  <2>2. \A u, w \in Component : u # w => emb'[u] = {} \/ emb'[w] = {}
    BY <1>2
  <2>3. \A u \in Component : Connected(emb'[u])
    BY <2>1, ConnectedOne
  <2>4. emb' \in [Component -> SUBSET workingSet]
    BY <1>2
  <2> QED
    BY <2>2, <2>3, <2>4 DEF Fits
<1>6. \A w \in Component \ Before' : emb'[w] = {}
  <2>1. orderQ'[1] \in Before'
    <3>1. 1 \in 1 .. at' - 1
      BY <1>1
    <3> QED
      BY <3>1 DEF Before
  <2> QED
    BY <2>1, <1>2
<1>7. (\A w \in Component \ Before : emb[w] = {})' /\ Visiting' /\ Fits(emb)' /\ (todo # <<>>)'
  <2>1. at' \in Nat \ {0}
    BY <1>1
  <2> QED
    BY <2>1, <1>1, <1>4, <1>5, <1>6, FitsStays
<1> QED
  BY <1>1, <1>3, <1>7 DEF FindInv, SearchInv, Searching, Minimizing

\* The initial placement of a variable keeps the invariant.
LEMMA PlaceKeeps ==
  ASSUME FindInv, Place
  PROVE  FindInv'
<1>0. ResultInv /\ place = "placing" /\ at <= Len(orderQ) /\ FoundHolds(found)
  BY DEF FindInv, ResultInv, Place
<1>1. todo # <<>> /\ Visiting /\ Fits(emb) /\ \A w \in Component \ Before : emb[w] = {}
  BY <1>0 DEF FindInv, SearchInv
<1>2. CASE TryFails
  <2>1. UNCHANGED <<graph, workingSet, todo>> /\ found' = found /\ place' = "component"
    BY <1>2 DEF TryFails, outerVars
  <2>2. ResultInv'
    BY <2>1, <1>0, OuterStays
  <2> QED
    BY <2>1, <2>2 DEF FindInv, SearchInv, Searching, Minimizing
<1>3. CASE ~ TryFails
  <2> DEFINE u == Current
             nbrs == AdjacentVars(u) \cap Before
  <2>1. PICK p \in Places(u, nbrs, {}) : emb' = Placed(u, p)
    BY <1>3, Zenon DEF Place
  <2>2. /\ UNCHANGED <<graph, workingSet, todo, orderQ>> /\ found' = found
        /\ at' = at + 1 /\ place' = "placing"
    BY <1>0, <1>3 DEF Place, outerVars
  <2>3. u \in Component /\ at \in Nat \ {0} /\ orderQ \in Seq(Component)
    <3>1. orderQ \in Seq(Component) /\ at \in 1 .. Len(orderQ) /\ at \in Nat \ {0}
      BY <1>0, <1>1 DEF Visiting
    <3> QED
      BY <3>1, ElementOfSeq DEF Current
  <2>4. /\ workingSet \subseteq TargetVertices /\ Component \subseteq Nat \ {0} /\ IsFiniteSet(Component)
    BY <1>0, <1>1, ComponentIs DEF ResultInv
  <2>5. \A i \in AdjacentVars(u) \ {u} : i \notin nbrs => emb[i] = {}
    BY <1>1 DEF AdjacentVars
  <2>6. /\ Fits(Placed(u, p))
        /\ \A w \in Component : w # u /\ w \notin nbrs => Placed(u, p)[w] = emb[w]
    <3> HIDE DEF u
    <3> QED
      BY <2>1, <2>3, <2>4, <2>5, <1>1, PlacesFit
  <2>7. Before' = Before \cup {u}
    <3>1. 1 .. at' - 1 = (1 .. at - 1) \cup {at}
      BY <2>2, <2>3
    <3> QED
      BY <3>1, <2>2 DEF Before, Current
  <2>8. \A w \in Component \ Before' : emb'[w] = {}
    BY <2>1, <2>6, <2>7, <1>1
  <2>9. ResultInv'
    BY <2>2, <1>0, OuterStays
  <2>10. Visiting' /\ Fits(emb)' /\ (todo # <<>>)' /\ (\A w \in Component \ Before : emb[w] = {})'
    <3>1. at' \in Nat \ {0}
      BY <2>2, <2>3
    <3> QED
      BY <3>1, <2>1, <2>2, <2>3, <2>6, <2>8, <1>1, FitsStays
  <2> QED
    BY <2>2, <2>9, <2>10 DEF FindInv, SearchInv, Searching, Minimizing
<1> QED
  BY <1>2, <1>3

\* The steps that only change what the search looks at next.
LEMMA SearchSteps ==
  ASSUME FindInv
  PROVE  AllPlaced \/ StartShuffle \/ StartRound \/ EndRound \/ EndShuffle => FindInv'
<1> SUFFICES ASSUME AllPlaced \/ StartShuffle \/ StartRound \/ EndRound \/ EndShuffle PROVE FindInv'
  OBVIOUS
<1>1. /\ UNCHANGED <<graph, workingSet, todo>> /\ found' = found
      /\ place \in {"placing"} \cup Searching
      /\ place' \in {"decide"} \cup Searching
  BY DEF AllPlaced, StartShuffle, StartRound, EndRound, EndShuffle, outerVars, Searching
<1>2. /\ ResultInv /\ FoundHolds(found) /\ todo # <<>> /\ Visiting /\ Fits(emb)
      /\ place \in Searching => Fits(bestEmb)
  BY <1>1 DEF FindInv, SearchInv, ResultInv
<1>3. ResultInv'
  BY <1>1, <1>2, OuterStays
<1>4. IsFiniteSet(Component)
  BY <1>2, ComponentIs
<1>5. orderQ' \in Seq(Component)
  <2>1. orderQ \in Seq(Component)
    BY <1>2 DEF Visiting
  <2>2. SetToSeqs(Component) \subseteq Seq(Component)
    <3>1. Cardinality(Component) \in Nat
      BY <1>4, FS_CardinalityType
    <3>2. \A s \in SetToSeqs(Component) : s \in [1 .. Cardinality(Component) -> Component]
      BY DEF SetToSeqs
    <3> QED
      BY <3>1, <3>2, AsSeq
  <2>3. orderQ' = orderQ \/ orderQ' \in SetToSeqs(Component)
    BY DEF AllPlaced, StartShuffle, StartRound, EndRound, EndShuffle
  <2> QED
    BY <2>1, <2>2, <2>3
<1>6. at' \in Nat \ {0}
  <2>1. at' = at \/ at' = 1
    BY DEF AllPlaced, StartShuffle, StartRound, EndRound, EndShuffle
  <2> QED
    BY <2>1, <1>2 DEF Visiting
<1>7. Fits(emb') /\ Fits(bestEmb')
  <2>1. CASE AllPlaced
    <3>1. emb' = emb /\ bestEmb' = emb
      BY <2>1 DEF AllPlaced
    <3> QED
      BY <3>1, <1>2
  <2>2. CASE ~ AllPlaced
    <3>1. bestEmb' = bestEmb /\ emb' \in {emb, bestEmb} /\ place \in Searching
      BY <2>2 DEF StartShuffle, StartRound, EndRound, EndShuffle, Searching
    <3> QED
      BY <3>1, <1>2
  <2> QED
    BY <2>1, <2>2
<1>8. Visiting' /\ Fits(emb)' /\ Fits(bestEmb)' /\ (todo # <<>>)'
  BY <1>1, <1>2, <1>5, <1>6, <1>7, FitsStays
<1> QED
  BY <1>1, <1>3, <1>8 DEF FindInv, SearchInv, Searching, Minimizing

\* So does a new placement.
LEMMA RewireKeeps ==
  ASSUME FindInv, Rewire
  PROVE  FindInv'
<1> DEFINE u == Current
           nbrs == AdjacentVars(u)
<1>1. /\ UNCHANGED <<graph, workingSet, todo, orderQ, place>> /\ found' = found
      /\ place = "improving" /\ at <= Len(orderQ) /\ at' = at + 1
  BY DEF Rewire, outerVars
<1>2. ResultInv /\ FoundHolds(found) /\ todo # <<>> /\ Visiting /\ Fits(emb) /\ Fits(bestEmb)
  BY <1>1 DEF FindInv, SearchInv, ResultInv, Searching
<1>3. ResultInv'
  BY <1>1, <1>2, OuterStays
<1>4. u \in Component /\ at \in Nat \ {0} /\ orderQ \in Seq(Component)
  <2>1. orderQ \in Seq(Component) /\ at \in 1 .. Len(orderQ) /\ at \in Nat \ {0}
    BY <1>1, <1>2 DEF Visiting
  <2> QED
    BY <2>1, ElementOfSeq DEF Current
<1>5. workingSet \subseteq TargetVertices /\ Component \subseteq Nat \ {0} /\ IsFiniteSet(Component)
  BY <1>2, ComponentIs DEF ResultInv
<1>6. PICK p \in Places(u, nbrs, {}) :
        /\ bestEmb' \in {Placed(u, p), bestEmb}
        /\ emb' \in {Placed(u, p), bestEmb'}
  BY DEF Rewire
<1>7. Fits(Placed(u, p))
  <2>1. \A i \in AdjacentVars(u) \ {u} : i \notin nbrs => emb[i] = {}
    OBVIOUS
  <2> HIDE DEF u
  <2> QED
    BY <2>1, <1>2, <1>4, <1>5, <1>6, PlacesFit
<1>8. Fits(bestEmb') /\ Fits(emb')
  BY <1>2, <1>6, <1>7
<1>9. Visiting' /\ Fits(emb)' /\ Fits(bestEmb)' /\ (todo # <<>>)'
  <2>1. at' \in Nat \ {0}
    BY <1>1, <1>4
  <2> QED
    BY <2>1, <1>1, <1>2, <1>4, <1>8, FitsStays
<1> QED
  BY <1>1, <1>3, <1>9 DEF FindInv, SearchInv, Searching, Minimizing

\* The search is over with what it has.
LEMMA HandedOver ==
  ASSUME FindInv, Interrupt \/ Decide
  PROVE  FindInv'
<1>1. ResultInv' /\ place' \in {"component", "verify"}
  <2>1. CASE Decide
    <3>1. todo # <<>> /\ Fits(bestEmb) /\ ResultInv
      BY <2>1 DEF FindInv, SearchInv, Decide
    <3>2. Accept(bestEmb, FALSE)
      BY <2>1 DEF Decide
    <3> QED
      BY <3>1, <3>2, AcceptKeeps
  <2>2. CASE Interrupt /\ place = "placing"
    <3>1. todo # <<>> /\ Fits(emb) /\ ResultInv
      BY <2>2 DEF FindInv, SearchInv
    <3>2. Accept(emb, TRUE)
      BY <2>2 DEF Interrupt
    <3> QED
      BY <3>1, <3>2, AcceptKeeps
  <2>3. CASE Interrupt /\ place # "placing"
    <3>1. Accept(bestEmb, TRUE) /\ place \in {"improving", "firstPass", "pass"}
      BY <2>3 DEF Interrupt
    <3>2. todo # <<>> /\ Fits(bestEmb) /\ ResultInv
      BY <3>1 DEF FindInv, SearchInv, Searching, Minimizing
    <3> QED
      BY <3>1, <3>2, AcceptKeeps
  <2> QED
    BY <2>1, <2>2, <2>3
<1> QED
  BY <1>1 DEF FindInv, SearchInv, Searching, Minimizing

\* Chains none of which shares a vertex do not overlap.
LEMMA NoOverlap ==
  ASSUME workingSet \subseteq TargetVertices, IsFiniteSet(Component), NEW e, Fits(e), BagWidth(e) = 1
  PROVE  Disjoint(e)
<1> SUFFICES ASSUME NEW u \in Component, NEW w \in Component, u # w, NEW v, v \in e[u], v \in e[w] PROVE FALSE
  BY DEF Disjoint
<1> DEFINE f == [x \in TargetVertices |-> Overlap(e, x)]
           S == {f[x] : x \in TargetVertices}
<1>1. v \in TargetVertices
  <2>1. e[u] \subseteq workingSet
    BY DEF Fits
  <2> QED
    BY <2>1
<1>2. IsFiniteSet(S)
  <2> HIDE DEF f
  <2> QED
    BY TargetFinite, ImageFinite
<1>3. S \subseteq Int /\ S = {Overlap(e, x) : x \in TargetVertices} /\ Overlap(e, v) \in S
  BY <1>1, OverlapIs
<1>4. \A y \in S : y <= Max(S)
  <2> HIDE DEF S
  <2> QED
    BY <1>2, <1>3, MaxIs
<1>5. Overlap(e, v) <= 1
  BY <1>3, <1>4 DEF BagWidth
<1> QED
  BY <1>5, OverlapIs

\* Paths are kept as long as the component and the vertices stay.
LEMMA ThreadsStay ==
  ASSUME UNCHANGED <<graph, workingSet, todo>>
  PROVE  /\ Threads(emb', Done', edgePath', rootVertex') => Threads(emb, Done, edgePath, rootVertex)'
         /\ Paths(edgePath', rootVertex') => Paths(edgePath, rootVertex)'
<1>1. Component' = Component
  BY DEF Component
<1>2. Threads(emb', Done', edgePath', rootVertex') => Threads(emb, Done, edgePath, rootVertex)'
  BY <1>1 DEF Threads, Thread, Half, Disjoint, AdjacentVars
<1>3. Paths(edgePath', rootVertex') => Paths(edgePath, rootVertex)'
  BY <1>1 DEF Paths
<1> QED
  BY <1>2, <1>3

\* The minimization starts with no path.
LEMMA StartMinimizingKeeps ==
  ASSUME FindInv, StartMinimizing
  PROVE  FindInv'
<1>1. /\ UNCHANGED <<graph, workingSet, todo, bestEmb>> /\ found' = found /\ place = "decide" /\ place' = "firstPass"
      /\ orderQ' \in SetToSeqs(Component) /\ (\A i, j \in DOMAIN orderQ' : i < j => orderQ'[i] < orderQ'[j])
      /\ at' = 1 /\ emb' = bestEmb /\ BagWidth(bestEmb) = 1
      /\ edgePath' = [e \in {e \in graph : e \subseteq Component} |-> {}] /\ rootVertex' = [u \in Component |-> 0]
  BY DEF StartMinimizing, outerVars
<1>2. ResultInv /\ FoundHolds(found) /\ todo # <<>> /\ Fits(bestEmb) /\ workingSet \subseteq TargetVertices
  BY <1>1 DEF FindInv, SearchInv, ResultInv
<1>3. ResultInv'
  BY <1>1, <1>2, OuterStays
<1>4. IsFiniteSet(Component)
  BY <1>2, ComponentIs
<1>5. /\ orderQ' \in Seq(Component) /\ \A i, j \in 1 .. Len(orderQ') : i < j => orderQ'[i] < orderQ'[j]
      /\ \A w \in Component : \E k \in 1 .. Len(orderQ') : orderQ'[k] = w
  <2> DEFINE n == Cardinality(Component)
             s == orderQ'
  <2>1. n \in Nat
    BY <1>4, FS_CardinalityType
  <2>2. s \in [1 .. n -> Component] /\ (\A i, j \in 1 .. n : i # j => s[i] # s[j])
    BY <1>1 DEF SetToSeqs
  <2>3. s \in Injection(1 .. n, Component)
    <3> HIDE DEF s, n
    <3>1. \A i, j \in 1 .. n : s[i] = s[j] => i = j
      BY <2>2
    <3> QED
      BY <2>2, <3>1 DEF Injection, IsInjective
  <2>4. Cardinality(1 .. n) = n
    <3>1. 1 \in Int /\ n \in Int /\ n - 1 + 1 = n
      BY <2>1
    <3>2. Cardinality(1 .. n) = IF 1 > n THEN 0 ELSE n - 1 + 1
      BY <3>1, FS_Interval
    <3> QED
      BY <2>1, <3>2
  <2> HIDE DEF s
  <2>5. s \in Surjection(1 .. n, Component)
    <3>1. Cardinality(1 .. n) = Cardinality(Component)
      BY <2>4
    <3> QED
      BY <2>3, <3>1, <1>4, FS_Injection
  <2>6. \A w \in Component : \E k \in 1 .. n : s[k] = w
    BY <2>5 DEF Surjection
  <2>7. s \in Seq(Component) /\ Len(s) = n /\ DOMAIN s = 1 .. n
    <3> HIDE DEF n
    <3> QED
      BY <2>1, <2>2
  <2> QED
    BY <2>6, <2>7, <1>1 DEF s
<1>6. Before' = {}
  <2>1. 1 .. at' - 1 = {}
    BY <1>1
  <2> QED
    BY <2>1 DEF Before
<1>7. Threads(emb', Before', edgePath', rootVertex')
  <2>1. Disjoint(emb')
    BY <1>1, <1>2, <1>4, NoOverlap
  <2> QED
    BY <2>1, <1>6 DEF Threads
<1>8. Paths(edgePath', rootVertex')
  <2>1. \A w \in Component : {w} \in graph => edgePath'[{w}] = {}
    BY <1>1
  <2> QED
    BY <2>1, <1>1 DEF Paths
<1>9. Visiting' /\ Fits(emb)' /\ Fits(bestEmb)' /\ (todo # <<>>)' /\ Component' = Component
  <2>1. at' \in Nat \ {0}
    BY <1>1
  <2> QED
    BY <2>1, <1>1, <1>2, <1>5, FitsStays
<1>10. Ascending'
  BY <1>5, <1>9 DEF Ascending
<1>11. Threads(emb, Done, edgePath, rootVertex)' /\ Paths(edgePath, rootVertex)'
  <2>1. Done' = Before'
    BY <1>1 DEF Done
  <2> QED
    BY <2>1, <1>1, <1>7, <1>8, ThreadsStay
<1> QED
  BY <1>1, <1>3, <1>9, <1>10, <1>11 DEF FindInv, SearchInv, Searching, Minimizing

\* What is known of all variables is known of some.
LEMMA FewerThreads ==
  ASSUME NEW e, NEW P, NEW Q, Q \subseteq P, NEW paths, NEW roots, Threads(e, P, paths, roots)
  PROVE  Threads(e, Q, paths, roots)
BY DEF Threads

\* After a pass all variables have their paths.
LEMMA EndPassKeeps ==
  ASSUME FindInv, EndPass
  PROVE  FindInv'
<1>1. place \in Minimizing /\ at > Len(orderQ)
  BY DEF EndPass, Minimizing
<1>2. /\ ResultInv /\ FoundHolds(found) /\ todo # <<>> /\ Visiting /\ Fits(emb) /\ Fits(bestEmb)
      /\ Ascending /\ Threads(emb, Done, edgePath, rootVertex) /\ Paths(edgePath, rootVertex)
  BY <1>1 DEF FindInv, SearchInv, ResultInv
<1>3. CASE Accept(bestEmb, FALSE)
  <2>1. ResultInv' /\ place' \in {"component", "verify"}
    BY <1>2, <1>3, AcceptKeeps
  <2> QED
    BY <2>1 DEF FindInv, SearchInv, Searching, Minimizing
<1>4. CASE ~ Accept(bestEmb, FALSE)
  <2>1. /\ UNCHANGED <<graph, workingSet, todo, orderQ, emb, bestEmb, edgePath, rootVertex>> /\ found' = found
        /\ place' = "pass" /\ at' = 1
    BY <1>4 DEF EndPass, outerVars, pathVars
  <2>2. ResultInv'
    BY <2>1, <1>2, OuterStays
  <2>3. Component \subseteq Done
    <3>1. CASE place = "pass"
      BY <3>1 DEF Done
    <3>2. CASE place # "pass"
      <4>1. \A k \in 1 .. Len(orderQ) : k \in 1 .. at - 1
        <5>1. Len(orderQ) \in Nat /\ at \in Nat
          BY <1>2 DEF Visiting
        <5> QED
          BY <5>1, <1>1
      <4> QED
        BY <4>1, <3>2, <1>2 DEF Done, Before, Ascending
    <3> QED
      BY <3>1, <3>2
  <2>4. Threads(emb, Component, edgePath, rootVertex)
    BY <2>3, <1>2, FewerThreads
  <2>5. Visiting' /\ Fits(emb)' /\ Fits(bestEmb)' /\ (todo # <<>>)' /\ Component' = Component
    <3>1. at' \in Nat \ {0} /\ orderQ' \in Seq(Component)
      BY <2>1, <1>2 DEF Visiting
    <3> QED
      BY <3>1, <2>1, <1>2, FitsStays
  <2>6. Ascending'
    BY <2>1, <2>5, <1>2 DEF Ascending
  <2>7. Threads(emb, Done, edgePath, rootVertex)' /\ Paths(edgePath, rootVertex)'
    <3>1. Done' = Component
      BY <2>1, <2>5 DEF Done
    <3>2. Threads(emb', Done', edgePath', rootVertex') /\ Paths(edgePath', rootVertex')
      BY <3>1, <2>1, <2>4, <1>2
    <3> QED
      BY <3>2, <2>1, ThreadsStay
  <2> QED
    BY <2>1, <2>2, <2>5, <2>6, <2>7 DEF FindInv, SearchInv, Searching, Minimizing
<1> QED
  BY <1>3, <1>4

\* A variable that is taken out and placed again while chains are shortened.
LEMMA ShortenStep ==
  ASSUME FindInv, Shorten
  PROVE  FindInv'
<1> DEFINE u == Current
           nbrs == AdjacentVars(u)
<1>1. place \in Minimizing /\ at <= Len(orderQ)
  BY DEF Shorten, Minimizing
<1>2. /\ ResultInv /\ FoundHolds(found) /\ todo # <<>> /\ Visiting /\ Fits(emb) /\ Fits(bestEmb)
      /\ Ascending /\ Threads(emb, Done, edgePath, rootVertex) /\ Paths(edgePath, rootVertex)
  BY <1>1 DEF FindInv, SearchInv, ResultInv
<1>3. at \in 1 .. Len(orderQ) /\ orderQ \in Seq(Component) /\ at \in Nat \ {0}
  BY <1>1, <1>2 DEF Visiting
<1>4. u \in Component
  BY <1>3, ElementOfSeq DEF Current
<1>5. /\ workingSet \subseteq TargetVertices /\ Component \subseteq Nat \ {0} /\ IsFiniteSet(Component)
  BY <1>2, ComponentIs DEF ResultInv
<1>6. /\ Done \in SUBSET Component
      /\ place = "pass" => Done = Component
      /\ place = "firstPass" => \A i \in Done \ {u} : i < u
  <2>1. \A k \in 1 .. at - 1 : k \in 1 .. Len(orderQ) /\ k < at
    BY <1>3
  <2>2. \A k \in 1 .. at - 1 : orderQ[k] \in Component /\ orderQ[k] < orderQ[at]
    BY <2>1, <1>2, <1>3, ElementOfSeq DEF Ascending
  <2> QED
    BY <2>2 DEF Done, Before, Current
<1>7. CASE Accept(bestEmb, FALSE)
  <2>1. ResultInv' /\ place' \in {"component", "verify"}
    BY <1>2, <1>7, AcceptKeeps
  <2> QED
    BY <2>1 DEF FindInv, SearchInv, Searching, Minimizing
<1>8. CASE ~ Accept(bestEmb, FALSE)
  <2>1. /\ UNCHANGED <<graph, workingSet, todo, orderQ, place>> /\ found' = found /\ at' = at + 1
    BY <1>8 DEF Shorten, outerVars
  <2>2. ResultInv'
    BY <2>1, <1>2, OuterStays
  <2>3. Component' = Component /\ (todo # <<>>)' /\ Visiting'
    <3>1. at' \in Nat \ {0} /\ orderQ' \in Seq(Component)
      BY <2>1, <1>3
    <3> QED
      BY <3>1, <2>1, <1>2, FitsStays
  <2>4. Ascending'
    BY <2>1, <2>3, <1>2 DEF Ascending
  <2>5. Done' = Done \cup {u}
    <3>1. 1 .. at' - 1 = (1 .. at - 1) \cup {at}
      BY <2>1, <1>3
    <3>2. Before' = Before \cup {u}
      BY <3>1, <2>1 DEF Before, Current
    <3> QED
      BY <3>2, <2>1, <2>3, <1>4 DEF Done
  <2>6. /\ Fits(emb') /\ Fits(bestEmb')
        /\ Threads(emb', Done \cup {u}, edgePath', rootVertex') /\ Paths(edgePath', rootVertex')
    <3>1. CASE nbrs = {}
      <4>1. UNCHANGED <<emb, bestEmb, edgePath, rootVertex>>
        BY <3>1, <1>8 DEF Shorten, pathVars
      <4>2. ASSUME NEW i \in Done \cup {u}, NEW t \in Done \cup {u}, i # t, {i, t} \in graph
            PROVE  Thread(emb, edgePath, rootVertex, i, t)
        <5>1. {t, i} = {i, t} /\ i \in Component /\ t \in Component
          BY <1>4, <1>6
        <5>2. i # u /\ t # u
          BY <5>1, <3>1, <4>2 DEF AdjacentVars
        <5> QED
          BY <5>2, <4>2, <1>2 DEF Threads
      <4>3. \A i \in Done \cup {u} : AdjacentVars(i) # {} => rootVertex[i] \in emb[i]
        BY <3>1, <1>2 DEF Threads
      <4>4. Threads(emb, Done \cup {u}, edgePath, rootVertex)
        BY <4>2, <4>3, <1>2 DEF Threads
      <4> QED
        BY <4>1, <4>4, <1>2
    <3>2. CASE nbrs # {}
      <4>1. PICK p \in ShortPlaces(u) :
              /\ emb' = Shortened(u, p)
              /\ edgePath' = EdgePaths(u, p, Shortened(u, p))
              /\ rootVertex' = [rootVertex EXCEPT ![u] = p.root]
              /\ bestEmb' \in {Shortened(u, p), bestEmb}
        BY <3>2, <1>8 DEF Shorten
      <4> DEFINE e == Shortened(u, p)
                 P == Done
      <4>2. place \in {"firstPass", "pass"}
        BY <1>1 DEF Minimizing
      <4> HIDE DEF u, P
      <4>3. /\ P \in SUBSET Component
            /\ place = "pass" => P = Component
            /\ place = "firstPass" => \A i \in P \ {u} : i < u
            /\ Threads(emb, P, edgePath, rootVertex)
        BY <1>2, <1>6 DEF P
      <4>4. /\ Fits(e)
            /\ Threads(e, P \cup {u}, EdgePaths(u, p, e), [rootVertex EXCEPT ![u] = p.root])
            /\ Paths(EdgePaths(u, p, e), [rootVertex EXCEPT ![u] = p.root])
        <5> HIDE DEF e
        <5>1. e = Shortened(u, p)
          BY DEF e
        <5> QED
          BY <5>1, <4>2, <4>3, <1>2, <1>4, <1>5, <3>2, ShortenKeeps
      <4> QED
        BY <4>1, <4>4, <1>2 DEF P
    <3> QED
      BY <3>1, <3>2
  <2>7. Fits(emb)' /\ Fits(bestEmb)'
    BY <2>1, <2>6, FitsStays
  <2>8. Threads(emb, Done, edgePath, rootVertex)' /\ Paths(edgePath, rootVertex)'
    BY <2>1, <2>5, <2>6, ThreadsStay
  <2> QED
    BY <2>1, <2>2, <2>3, <2>4, <2>7, <2>8, <1>1 DEF FindInv, SearchInv, Searching, Minimizing
<1> QED
  BY <1>7, <1>8

\* Every step keeps the invariant.
LEMMA FindStep ==
  FindInv /\ [FindNext]_findVars => FindInv'
<1> SUFFICES ASSUME FindInv, [FindNext]_findVars PROVE FindInv'
  OBVIOUS
<1>1. CASE UNCHANGED findVars
  <2>1. /\ UNCHANGED <<graph, workingSet, todo>> /\ found' = found /\ place' = place
        /\ orderQ' = orderQ /\ at' = at /\ emb' = emb /\ bestEmb' = bestEmb
        /\ edgePath' = edgePath /\ rootVertex' = rootVertex
    BY <1>1 DEF findVars, outerVars, searchVars, pathVars
  <2>2. ResultInv'
    BY <2>1, OuterStays DEF FindInv, ResultInv
  <2>3. Component' = Component /\ Before' = Before /\ Done' = Done
    BY <2>1 DEF Component, Before, Done
  <2>4. (Fits(emb) => Fits(emb)') /\ (Fits(bestEmb) => Fits(bestEmb)')
    BY <2>1, FitsStays
  <2>5. /\ Threads(emb, Done, edgePath, rootVertex) => Threads(emb, Done, edgePath, rootVertex)'
        /\ Paths(edgePath, rootVertex) => Paths(edgePath, rootVertex)'
    BY <2>1, <2>3, ThreadsStay
  <2>6. (Visiting => Visiting') /\ (Ascending => Ascending')
    BY <2>1, <2>3 DEF Visiting, Ascending
  <2>7. SearchInv'
    BY <2>1, <2>3, <2>4, <2>5, <2>6 DEF FindInv, SearchInv
  <2> QED
    BY <2>2, <2>7 DEF FindInv
<1> QED
  BY <1>1, QuietSteps, StartTryKeeps, PlaceKeeps, SearchSteps, RewireKeeps, HandedOver,
     StartMinimizingKeeps, EndPassKeeps, ShortenStep DEF FindNext

\* What has been found and passes the verification is an embedding: chains that
\* are joined and share no vertex have a coupler between them.
LEMMA FoundIsEmbedding ==
  FindInv => FoundEmbeddingValid
<1> SUFFICES ASSUME FindInv, VerifyEmbedding(found)
    PROVE  /\ \A u \in DOMAIN found : Connected(found[u])
           /\ \A u, v \in DOMAIN found : u # v /\ {u, v} \in graph =>
                \E p \in found[u], q \in found[v] : {p, q} \in Target
  BY DEF FoundEmbeddingValid
<1>1. FoundHolds(found)
  BY DEF FindInv, ResultInv
<1>2. ASSUME NEW u \in DOMAIN found, NEW v \in DOMAIN found, u # v, {u, v} \in graph
      PROVE  \E p \in found[u], q \in found[v] : {p, q} \in Target
  <2>1. found[u] # {} /\ found[v] # {} /\ found[u] \cap found[v] = {}
    BY <1>2 DEF VerifyEmbedding
  <2>2. Joined(found[u], found[v])
    BY <2>1, <1>1, <1>2 DEF FoundHolds
  <2> QED
    BY <2>1, <2>2 DEF Joined
<1> QED
  BY <1>1, <1>2 DEF FoundHolds

\* Whatever findEmbedding returns, if it passes verifyEmbedding, has connected
\* chains and a coupler for every edge of the problem (FoundEmbeddingValid).
THEOREM FoundIsValid == FindEmbeddingSpec => []FoundEmbeddingValid
<1>1. FindInit => FindInv
  BY FindInitHolds
<1>2. FindInv /\ [FindNext]_findVars => FindInv'
  BY FindStep
<1>3. FindInv => FoundEmbeddingValid
  BY FoundIsEmbedding
<1> QED
  BY <1>1, <1>2, <1>3, PTL DEF FindEmbeddingSpec

\* The neighbours that have been placed keep their roots when a variable is out.
LEMMA RootsAreThere ==
  FindInv => RootsFound
<1> DEFINE u == Current
<1> SUFFICES ASSUME FindInv, place \in {"firstPass", "pass"}, at <= Len(orderQ),
                    NEW p \in ShortPlaces(u), NEW i \in AdjacentVars(u), place = "pass" \/ i < u
    PROVE  {rootVertex[i], p.path[i][1]} \subseteq Shortened(u, p)[i]
  BY DEF RootsFound
<1>1. /\ ResultInv /\ todo # <<>> /\ Visiting /\ Fits(emb) /\ Fits(bestEmb)
      /\ Ascending /\ Threads(emb, Done, edgePath, rootVertex) /\ Paths(edgePath, rootVertex)
  BY DEF FindInv, SearchInv, Minimizing
<1>2. at \in 1 .. Len(orderQ) /\ orderQ \in Seq(Component) /\ at \in Nat \ {0}
  BY <1>1 DEF Visiting
<1>3. u \in Component /\ u = orderQ[at]
  BY <1>2, ElementOfSeq DEF Current
<1>4. /\ workingSet \subseteq TargetVertices /\ Component \subseteq Nat \ {0} /\ IsFiniteSet(Component)
  BY <1>1, ComponentIs DEF ResultInv
<1> HIDE DEF u
<1>5. /\ Done \in SUBSET Component
      /\ place = "pass" => Done = Component
      /\ place = "firstPass" => \A w \in Done \ {u} : w < u
  <2>1. \A k \in 1 .. at - 1 : k \in 1 .. Len(orderQ) /\ k < at
    BY <1>2
  <2>2. \A k \in 1 .. at - 1 : orderQ[k] \in Component /\ orderQ[k] < u
    BY <2>1, <1>1, <1>2, <1>3, ElementOfSeq DEF Ascending
  <2> QED
    BY <2>2 DEF Done, Before
<1>6. i \in Component /\ AdjacentVars(u) # {}
  BY DEF AdjacentVars
<1> DEFINE e == Shortened(u, p)
           P == Done
<1>7. /\ RootsIn(e, P, u, p)
      /\ place = "pass" => u \notin AdjacentVars(u)
  <2>1. e = Shortened(u, p)
    OBVIOUS
  <2> HIDE DEF e, P
  <2>2. /\ P \in SUBSET Component
        /\ place = "pass" => P = Component
        /\ place = "firstPass" => \A w \in P \ {u} : w < u
        /\ Threads(emb, P, edgePath, rootVertex)
    BY <1>1, <1>5 DEF P
  <2>3. u \in Component /\ AdjacentVars(u) # {} /\ p \in ShortPlaces(u) /\ place \in {"firstPass", "pass"}
    BY <1>3, <1>6
  <2>4. Fits(emb) /\ Fits(bestEmb) /\ Paths(edgePath, rootVertex)
    BY <1>1
  <2> QED
    BY <2>1, <2>2, <2>3, <2>4, <1>4, ShortenKeeps
<1>8. CASE i # u
  <2>1. i \in P
    <3>1. CASE place = "pass"
      BY <3>1, <1>5, <1>6
    <3>2. CASE place = "firstPass"
      <4>1. PICK k \in 1 .. Len(orderQ) : orderQ[k] = i
        BY <1>1, <1>6 DEF Ascending
      <4>2. i < u /\ u \in Nat /\ i \in Nat
        BY <3>2, <1>3, <1>4, <1>6
      <4>3. at < k => u < i
        BY <4>1, <1>1, <1>2, <1>3 DEF Ascending
      <4>4. k # at
        BY <4>1, <4>2, <1>3
      <4>5. k \in 1 .. at - 1
        BY <4>1, <4>2, <4>3, <4>4, <1>2
      <4> QED
        BY <4>1, <4>5, <3>2 DEF Done, Before
    <3> QED
      BY <3>1, <3>2
  <2> HIDE DEF e, P
  <2>2. {rootVertex[i], p.path[i][1]} \subseteq e[i]
    BY <2>1, <1>7, <1>8 DEF RootsIn
  <2> QED
    BY <2>2 DEF e
<1>9. CASE i = u
  <2>1. place = "pass"
    BY <1>9, <1>3, <1>4
  <2> QED
    BY <2>1, <1>7, <1>9
<1> QED
  BY <1>8, <1>9

\* The root of a neighbour and the start of the path from it are in its chain
\* whenever the minimization looks them up there (RootsFound).
THEOREM RootsAreFound == FindEmbeddingSpec => []RootsFound
<1>1. FindInit => FindInv
  BY FindInitHolds
<1>2. FindInv /\ [FindNext]_findVars => FindInv'
  BY FindStep
<1>3. FindInv => RootsFound
  BY RootsAreThere
<1> QED
  BY <1>1, <1>2, <1>3, PTL DEF FindEmbeddingSpec
=============================================================================
