---------------------------- MODULE SparseMatrix ----------------------------
(***************************************************************************)
(* What a sparse matrix promises: a map from positions to values, which    *)
(* are zero where there is none, and iterators that visit the positions    *)
(* row by row.  CompressedMatrix implements it.                            *)
(***************************************************************************)
EXTENDS Integers

CONSTANTS NumRows, NumCols, EntryValues     \* values that are put

VARIABLES
  entries,    \* the map: a function on some positions <<row, col>>
  cursor,     \* the iterator's position, End, or <<>> when there is none
  read        \* what the last lookup gave, <<>> if something else came since

sparseVars == <<entries, cursor, read>>

Positions == (0 .. NumRows - 1) \X (0 .. NumCols - 1)
End == <<NumRows, 0>>
InOrder(p, q) == p[1] < q[1] \/ (p[1] = q[1] /\ p[2] < q[2])

\* The first of the positions S in the order of the matrix.
FirstOf(S) == IF S = {} THEN End ELSE CHOOSE p \in S : \A q \in S : p = q \/ InOrder(p, q)

SparseInit ==
  /\ \E S \in SUBSET Positions : entries \in [S -> EntryValues]
  /\ cursor = <<>>
  /\ read = <<>>

Put(r, c, value) ==
  /\ entries' = [p \in DOMAIN entries \cup {<<r, c>>} |->
       IF p = <<r, c>> THEN value ELSE entries[p]]
  /\ cursor' = <<>> /\ read' = <<>>

Lookup(r, c) ==
  /\ read' = <<IF <<r, c>> \in DOMAIN entries THEN entries[<<r, c>>] ELSE 0>>
  /\ UNCHANGED <<entries, cursor>>

Begin ==
  /\ cursor' = FirstOf(DOMAIN entries)
  /\ read' = <<>>
  /\ UNCHANGED entries

Advance ==
  /\ cursor \in DOMAIN entries
  /\ cursor' = FirstOf({p \in DOMAIN entries : InOrder(cursor, p)})
  /\ read' = <<>>
  /\ UNCHANGED entries

SparseNext ==
  \/ \E r \in 0 .. NumRows - 1, c \in 0 .. NumCols - 1 :
       Lookup(r, c) \/ \E value \in EntryValues : Put(r, c, value)
  \/ Begin
  \/ Advance

SparseSpec == SparseInit /\ [][SparseNext]_sparseVars
=============================================================================
