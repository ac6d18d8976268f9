-------------------------- MODULE CompressedMatrix --------------------------
(***************************************************************************)
(* CompressedMatrix and its iterators (find-embedding/include and          *)
(* fix-variables/include/compressed_matrix.hpp, the same file twice): the  *)
(* entries of all rows one after the other, found by bisection.            *)
(*                                                                         *)
(* Indices are from 0 as in the code; sequences start at 1.                *)
(***************************************************************************)
EXTENDS Integers, FiniteSets, Sequences, SequencesExt

CONSTANTS NumRows, NumCols, EntryValues

VARIABLES
  rowOffsets,   \* where each row begins
  colIndices, values,
  currRow, currIndex,   \* the iterator's
  iterating,            \* there is an iterator
  read                  \* what get() returned

matrixVars == <<rowOffsets, colIndices, values, currRow, currIndex, iterating, read>>

ASSUME MatrixAssumption == NumRows \in Nat /\ NumCols \in Nat

Cells == (0 .. NumRows - 1) \X (0 .. NumCols - 1)

\* The order of std::map: the k-th position has k - 1 before it.
Precedes(p, q) == p[1] < q[1] \/ (p[1] = q[1] /\ p[2] < q[2])
InRowOrder(S) ==
  [k \in 1 .. Cardinality(S) |->
    CHOOSE p \in S : Cardinality({q \in S : Precedes(q, p)}) = k - 1]

\* The constructor from a map.
MatrixInit ==
  /\ \E S \in SUBSET Cells : \E given \in [S -> EntryValues] :
       /\ rowOffsets = [r \in 0 .. NumRows |-> Cardinality({p \in S : p[1] < r})]
       /\ colIndices = [k \in DOMAIN InRowOrder(S) |-> InRowOrder(S)[k][2]]
       /\ values = [k \in DOMAIN InRowOrder(S) |-> given[InRowOrder(S)[k]]]
  /\ currRow = 0 /\ currIndex = 0 /\ iterating = FALSE
  /\ read = <<>>

Ranges(n) == {x \in (0 .. n) \X (0 .. n) : x[1] <= x[2]}
Middle(x) == x[1] + (x[2] - x[1]) \div 2

\* The loop of get() and operator(): the last index it looks at, which has the
\* column if the row has it; the row's begin if the row is empty.
LastProbe(row, col) ==
  LET half(x) == IF colIndices[Middle(x) + 1] < col
                 THEN <<Middle(x) + 1, x[2]>> ELSE <<x[1], Middle(x) - 1>>
      probe[x \in Ranges(Len(values) - 1)] ==
        IF colIndices[Middle(x) + 1] = col \/ half(x)[1] > half(x)[2]
        THEN Middle(x) ELSE probe[half(x)]
  IN  IF rowOffsets[row] = rowOffsets[row + 1] THEN rowOffsets[row]
      ELSE probe[<<rowOffsets[row], rowOffsets[row + 1] - 1>>]

Holds(row, col, k) == rowOffsets[row] < rowOffsets[row + 1] /\ colIndices[k + 1] = col

\* Mutant: a new entry goes where the search ended.
InsertionIndex_AtProbe(row, col) == LastProbe(row, col)

InsertionIndex(row, col) ==
  LET mid == LastProbe(row, col)
  IN  IF rowOffsets[row] < rowOffsets[row + 1] /\ colIndices[mid + 1] < col THEN mid + 1 ELSE mid

\* operator()(row, col) = value; iterators become invalid.
Subscript(row, col, value) ==
  /\ LET mid == LastProbe(row, col)
         at == InsertionIndex(row, col)
     IN  IF Holds(row, col, mid)
         THEN /\ values' = [values EXCEPT ![mid + 1] = value]
              /\ UNCHANGED <<rowOffsets, colIndices>>
         ELSE /\ rowOffsets' = [r \in 0 .. NumRows |-> rowOffsets[r] + (IF r > row THEN 1 ELSE 0)]
              /\ colIndices' = InsertAt(colIndices, at + 1, col)
              /\ values' = InsertAt(values, at + 1, value)
  /\ currRow' = 0 /\ currIndex' = 0 /\ iterating' = FALSE
  /\ read' = <<>>

Get(row, col) ==
  /\ LET mid == LastProbe(row, col)
     IN  read' = <<IF Holds(row, col, mid) THEN values[mid + 1] ELSE 0>>
  /\ UNCHANGED <<rowOffsets, colIndices, values, currRow, currIndex, iterating>>

\* The last row from "from" on that begins at the offset: the rows before it
\* are empty.
LastRowAt(from, offset) ==
  LET mid(x) == x[1] + (x[2] - x[1] + 1) \div 2
      bisect[x \in Ranges(NumRows)] ==
        IF x[1] = x[2] THEN x[1]
        ELSE bisect[IF rowOffsets[mid(x)] = offset THEN <<mid(x), x[2]>> ELSE <<x[1], mid(x) - 1>>]
  IN  bisect[<<from, NumRows>>]

BeginIteration ==
  /\ currRow' = LastRowAt(0, 0) /\ currIndex' = 0 /\ iterating' = TRUE
  /\ read' = <<>>
  /\ UNCHANGED <<rowOffsets, colIndices, values>>

\* operator++, not at the end
Increment ==
  /\ iterating /\ currRow # NumRows
  /\ currIndex' = currIndex + 1
  /\ currRow' = IF currIndex' = rowOffsets[currRow + 1]
                THEN LastRowAt(currRow + 1, currIndex') ELSE currRow
  /\ read' = <<>>
  /\ UNCHANGED <<rowOffsets, colIndices, values, iterating>>

MatrixNext ==
  \/ \E row \in 0 .. NumRows - 1, col \in 0 .. NumCols - 1 :
       Get(row, col) \/ \E value \in EntryValues : Subscript(row, col, value)
  \/ BeginIteration
  \/ Increment

MatrixSpec == MatrixInit /\ [][MatrixNext]_matrixVars

-----------------------------------------------------------------------------
(* Refinement *)

\* compressedMatrixToMap
RowOf(k) == CHOOSE row \in 0 .. NumRows - 1 : rowOffsets[row] < k /\ k <= rowOffsets[row + 1]
Entries ==
  [p \in {<<RowOf(k), colIndices[k]>> : k \in DOMAIN values} |->
    values[CHOOSE k \in DOMAIN values : p = <<RowOf(k), colIndices[k]>>]]

Cursor ==
  IF ~iterating THEN <<>>
  ELSE IF currRow = NumRows THEN <<NumRows, 0>> ELSE <<currRow, colIndices[currIndex + 1]>>

Sparse == INSTANCE SparseMatrix WITH entries <- Entries, cursor <- Cursor

\* Rows, offsets and columns behave as one map: an entry is put in its place
\* whatever the order of the calls, lookups by bisection miss none, and an
\* iterator visits every entry once, over any number of empty rows.
IsSparseMatrix == Sparse!SparseSpec
=============================================================================
