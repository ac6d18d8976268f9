------------------------------ MODULE Chimera -------------------------------
(***************************************************************************)
(* Graphs of qubits: sapi_getChimeraAdjacency and sapi_getHardwareAdjacency*)
(* (c-client/src/dwave_sapi.cpp), and the tables of the local C4 solvers   *)
(* (c-client/src/local.cpp).                                               *)
(***************************************************************************)
EXTENDS Integers, FiniteSets, Sequences, SequencesExt

CONSTANTS
  MaxRows, MaxCols, MaxSide   \* bounds of the sizes that are asked for

ASSUME SizesAssumption == MaxRows \in Nat /\ MaxCols \in Nat /\ MaxSide \in Nat

VARIABLES
  size,       \* M, N and L of the call
  adjacency   \* the pairs returned, in order

chimeraVars == <<size, adjacency>>

\* A pair in both directions.
Both(from, to) == <<<<from, to>>, <<to, from>>>>

\* All the pairs of a family of edges, loop by loop.
Concat(f, n) == FlattenSeq([k \in 1 .. n |-> f[k - 1]])

\* Mutant: a row of cells is taken to be as long as a column.
VerticalEdges_RowOfM(M, N, L) ==
  Concat([j \in 0 .. N - 1 |-> Concat([i \in 0 .. M - 2 |-> Concat([t \in 0 .. L - 1 |->
    LET fm == L * 2 * j + i * M * L * 2 + t IN Both(fm, fm + M * L * 2)], L)], M - 1)], N)

\* "vertical edges": start goes down a column of cells.
VerticalEdges(M, N, L) ==
  Concat([j \in 0 .. N - 1 |-> Concat([i \in 0 .. M - 2 |-> Concat([t \in 0 .. L - 1 |->
    LET fm == L * 2 * j + i * N * L * 2 + t IN Both(fm, fm + N * L * 2)], L)], M - 1)], N)

\* "horizontal edges"
HorizontalEdges(M, N, L) ==
  Concat([i \in 0 .. M - 1 |-> Concat([j \in 0 .. N - 2 |-> Concat([t \in 0 .. L - 1 |->
    LET fm == L * (2 * N * i + 1) + j * L * 2 + t IN Both(fm, fm + L * 2)], L)], N - 1)], M)

\* "inside-cell edges"
CellEdges(M, N, L) ==
  Concat([i \in 0 .. M - 1 |-> Concat([j \in 0 .. N - 1 |-> Concat([t \in 0 .. L - 1 |->
    Concat([u \in 0 .. L - 1 |->
      LET add == (i * N + j) * L * 2 IN Both(t + add, u + L + add)], L)], L)], N)], M)

ChimeraAdjacency(M, N, L) ==
  VerticalEdges(M, N, L) \o HorizontalEdges(M, N, L) \o CellEdges(M, N, L)

\* sapi_getHardwareAdjacency: each coupler in both directions.
HardwareAdjacency(couplers) == FlattenSeq([k \in DOMAIN couplers |-> Both(couplers[k][1], couplers[k][2])])

-----------------------------------------------------------------------------
(* The tables of the C4 solvers.                                           *)

C4Qubits == 0 .. 127

C4VarOrder ==
  <<0, 32, 64, 96, 1, 33, 65, 97, 2, 34, 66, 98, 3, 35, 67, 99, 8, 40, 72, 104,
    9, 41, 73, 105, 10, 42, 74, 106, 11, 43, 75, 107, 16, 48, 80, 112, 17, 49, 81, 113,
    18, 50, 82, 114, 19, 51, 83, 115, 24, 56, 88, 120, 25, 57, 89, 121, 26, 58, 90, 122,
    27, 59, 91, 123, 4, 5, 6, 7, 36, 37, 38, 39, 68, 69, 70, 71, 100, 101, 102, 103,
    12, 13, 14, 15, 44, 45, 46, 47, 76, 77, 78, 79, 108, 109, 110, 111, 20, 21, 22, 23,
    52, 53, 54, 55, 84, 85, 86, 87, 116, 117, 118, 119, 28, 29, 30, 31, 60, 61, 62, 63,
    92, 93, 94, 95, 124, 125, 126, 127>>

\* The couplers of each qubit to qubits of a larger number; 124 .. 127 have none.
C4Partners ==
  <<<<4,5,6,7,32>>, <<4,5,6,7,33>>, <<4,5,6,7,34>>, <<4,5,6,7,35>>, <<12>>, <<13>>,
    <<14>>, <<15>>, <<12,13,14,15,40>>, <<12,13,14,15,41>>, <<12,13,14,15,42>>, <<12,13,14,15,43>>,
    <<20>>, <<21>>, <<22>>, <<23>>, <<20,21,22,23,48>>, <<20,21,22,23,49>>,
    <<20,21,22,23,50>>, <<20,21,22,23,51>>, <<28>>, <<29>>, <<30>>, <<31>>,
    <<28,29,30,31,56>>, <<28,29,30,31,57>>, <<28,29,30,31,58>>, <<28,29,30,31,59>>, <<>>, <<>>,
    <<>>, <<>>, <<36,37,38,39,64>>, <<36,37,38,39,65>>, <<36,37,38,39,66>>, <<36,37,38,39,67>>,
    <<44>>, <<45>>, <<46>>, <<47>>, <<44,45,46,47,72>>, <<44,45,46,47,73>>,
    <<44,45,46,47,74>>, <<44,45,46,47,75>>, <<52>>, <<53>>, <<54>>, <<55>>,
    <<52,53,54,55,80>>, <<52,53,54,55,81>>, <<52,53,54,55,82>>, <<52,53,54,55,83>>, <<60>>, <<61>>,
    <<62>>, <<63>>, <<60,61,62,63,88>>, <<60,61,62,63,89>>, <<60,61,62,63,90>>, <<60,61,62,63,91>>,
    <<>>, <<>>, <<>>, <<>>, <<68,69,70,71,96>>, <<68,69,70,71,97>>,
    <<68,69,70,71,98>>, <<68,69,70,71,99>>, <<76>>, <<77>>, <<78>>, <<79>>,
    <<76,77,78,79,104>>, <<76,77,78,79,105>>, <<76,77,78,79,106>>, <<76,77,78,79,107>>, <<84>>, <<85>>,
    <<86>>, <<87>>, <<84,85,86,87,112>>, <<84,85,86,87,113>>, <<84,85,86,87,114>>, <<84,85,86,87,115>>,
    <<92>>, <<93>>, <<94>>, <<95>>, <<92,93,94,95,120>>, <<92,93,94,95,121>>,
    <<92,93,94,95,122>>, <<92,93,94,95,123>>, <<>>, <<>>, <<>>, <<>>,
    <<100,101,102,103>>, <<100,101,102,103>>, <<100,101,102,103>>, <<100,101,102,103>>, <<108>>, <<109>>,
    <<110>>, <<111>>, <<108,109,110,111>>, <<108,109,110,111>>, <<108,109,110,111>>, <<108,109,110,111>>,
    <<116>>, <<117>>, <<118>>, <<119>>, <<116,117,118,119>>, <<116,117,118,119>>,
    <<116,117,118,119>>, <<116,117,118,119>>, <<124>>, <<125>>, <<126>>, <<127>>,
    <<124,125,126,127>>, <<124,125,126,127>>, <<124,125,126,127>>, <<124,125,126,127>>>>

C4Couplers ==
  FlattenSeq([k \in 1 .. 124 |-> [n \in DOMAIN C4Partners[k] |-> <<k - 1, C4Partners[k][n]>>]])

-----------------------------------------------------------------------------
ChimeraInit ==
  /\ size \in ((0 .. MaxRows) \X (0 .. MaxCols) \X (1 .. MaxSide)) \cup {<<4, 4, 4>>}
  /\ adjacency = <<>>

GetChimeraAdjacency ==
  /\ adjacency = <<>>
  /\ adjacency' = ChimeraAdjacency(size[1], size[2], size[3])
  /\ UNCHANGED size

\* For the local exact solvers.
GetHardwareAdjacency ==
  /\ size = <<4, 4, 4>> /\ adjacency = <<>>
  /\ adjacency' = HardwareAdjacency(C4Couplers)
  /\ UNCHANGED size

ChimeraNext == GetChimeraAdjacency \/ GetHardwareAdjacency

ChimeraSpec == ChimeraInit /\ [][ChimeraNext]_chimeraVars

-----------------------------------------------------------------------------
(* Properties.                                                             *)

\* Row, column, side and place of a qubit.
Row(q) == (q \div (2 * size[3])) \div size[2]
Col(q) == (q \div (2 * size[3])) % size[2]
Side(q) == (q \div size[3]) % 2
PlaceOf(q) == q % size[3]

Step(a, b) == a - b \in {1, -1}
GridAdjacent(p, q) ==
  \/ Row(p) = Row(q) /\ Col(p) = Col(q) /\ Side(p) # Side(q)
  \/ /\ Side(p) = Side(q) /\ PlaceOf(p) = PlaceOf(q)
     /\ \/ Side(p) = 0 /\ Col(p) = Col(q) /\ Step(Row(p), Row(q))
        \/ Side(p) = 1 /\ Row(p) = Row(q) /\ Step(Col(p), Col(q))

(***************************************************************************)
(* The pairs computed loop by loop are those of a grid of complete         *)
(* bipartite cells, left sides joined down the columns and right sides     *)
(* along the rows, each pair once in each direction; the couplers written  *)
(* down for the C4 solvers are those of the 4 by 4 grid with sides of 4,   *)
(* and their elimination order has every qubit once.                       *)
(***************************************************************************)
ChimeraIsGrid ==
  adjacency # <<>> =>
    /\ ToSet(adjacency) =
         {pq \in (0 .. 2 * size[1] * size[2] * size[3] - 1) \X (0 .. 2 * size[1] * size[2] * size[3] - 1) :
            GridAdjacent(pq[1], pq[2])}
    /\ Len(adjacency) = Cardinality(ToSet(adjacency))
    /\ ToSet(C4VarOrder) = C4Qubits /\ Len(C4VarOrder) = Cardinality(C4Qubits)
=============================================================================
