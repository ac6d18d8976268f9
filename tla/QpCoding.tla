------------------------------ MODULE QpCoding ------------------------------
(***************************************************************************)
(* How a problem travels to a remote solver and its answer comes back in   *)
(* the "qp" format: encodeQpProblem (remote/src/encode-qp.cpp), the        *)
(* solver's side, which is external, base64 (remote/src/base64.cpp) and    *)
(* decodeQpAnswer (remote/src/decode-qp.cpp).                              *)
(*                                                                         *)
(* Neither side names qubits: coefficients come in the order of the        *)
(* solver's qubits and couplers, and a solution is a row of bits in the    *)
(* order of the active variables, filled up to whole bytes.                *)
(***************************************************************************)
EXTENDS Integers, FiniteSets, FiniteSetsExt, Sequences, SequencesExt

CONSTANTS
  QpQubits,       \* the solver's "qubits" property, a sequence
  QpCouplers,     \* its "couplers", a sequence of ascending pairs without repetition
  NumQubits,      \* num_variables of an answer
  QpProblems,     \* problems: sequences of [i, j, value]
  QpSpins         \* solutions the solver may find: sets of qubits that are 1

VARIABLES
  asked,          \* the problem and its type: [type, entries]
  lin, quad,      \* the coefficients sent; lin has no NaN entries
  foundSpins,     \* the solver's solutions
  answerEnergy,   \* and their energies, as the solver computes them
  text,           \* the solutions in base64: digits 0 .. 63 and other characters
  damaged,        \* the end of the text was lost
  transfer,       \* "asked", "sent", "answered", "decoded", "refused", "rejected"
  solutions       \* the decoded solutions

qpVars == <<asked, lin, quad, foundSpins, answerEnergy, text, damaged, transfer, solutions>>

\* Characters that are no digits.
Pad == 64
Newline == 65
Unset == 3

-----------------------------------------------------------------------------
(* encodeQpProblem *)

\* Entries may repeat: values are added.
SumEntries(chosen(_)) ==
  FoldSeq(LAMBDA e, sum : sum + e.value, 0, SelectSeq(asked.entries, chosen))

UsedQubits == UNION {{asked.entries[n].i, asked.entries[n].j} : n \in DOMAIN asked.entries}
Couples(c, e) == {c[1], c[2]} = {e.i, e.j}
CouplersInUse == SelectSeq(QpCouplers, LAMBDA c : {c[1], c[2]} \subseteq UsedQubits)

Encodable ==
  /\ UsedQubits \subseteq ToSet(QpQubits)
  /\ \A n \in DOMAIN asked.entries : LET e == asked.entries[n] IN
       e.i # e.j => \E k \in DOMAIN CouplersInUse : Couples(CouplersInUse[k], e)

QpInit ==
  /\ asked \in [type : {"ising", "qubo"}, entries : QpProblems]
  /\ lin = <<>> /\ quad = <<>> /\ foundSpins = <<>> /\ answerEnergy = <<>> /\ text = <<>>
  /\ damaged = FALSE
  /\ transfer = "asked"
  /\ solutions = <<>>

EncodeQpProblem ==
  /\ transfer = "asked" /\ Encodable
  /\ lin' = [n \in {n \in DOMAIN QpQubits : QpQubits[n] \in UsedQubits} |->
       SumEntries(LAMBDA e : e.i = e.j /\ e.i = QpQubits[n])]
  /\ quad' = [k \in DOMAIN CouplersInUse |->
       SumEntries(LAMBDA e : e.i # e.j /\ Couples(CouplersInUse[k], e))]
  /\ transfer' = "sent"
  /\ UNCHANGED <<asked, foundSpins, answerEnergy, text, damaged, solutions>>

\* BadQubitException, BadCouplerException
Refuse ==
  /\ transfer = "asked" /\ ~Encodable
  /\ transfer' = "refused"
  /\ UNCHANGED <<asked, lin, quad, foundSpins, answerEnergy, text, damaged, solutions>>

-----------------------------------------------------------------------------
(* base64 *)

\* Blocks of three bytes, four digits each; a digit of no byte is padding.
EncodeBase64(bytes) ==
  LET byte(n) == IF n \in DOMAIN bytes THEN bytes[n] ELSE 0
      block(k) == 65536 * byte(3 * k + 1) + 256 * byte(3 * k + 2) + byte(3 * k + 3)
  IN  [c \in 1 .. 4 * ((Len(bytes) + 2) \div 3) |->
        LET k == (c - 1) \div 4
            d == (c - 1) % 4
        IN  IF 3 * k + d > Len(bytes) THEN Pad ELSE (block(k) \div (64 ^ (3 - d))) % 64]

\* One character of decodeBase64.
TakeCharacter(st, c) ==
  LET digit == IF c = Pad THEN 0 ELSE c
      block == st.block * 64 + digit
      padding == st.padding + (IF c = Pad THEN 1 ELSE 0)
      full == st.index = 3
      complete == <<block \div 65536, (block \div 256) % 256, (block % 256)>>
  IN  IF c = Newline \/ st.bad THEN st
      ELSE IF st.finished \/ (c = Pad /\ st.padding = 0 /\ st.index < 2) \/ (c # Pad /\ st.padding > 0)
      THEN [st EXCEPT !.bad = TRUE]
      ELSE [bytes |-> st.bytes \o (IF full THEN SubSeq(complete, 1, 3 - padding) ELSE <<>>),
            block |-> IF full THEN 0 ELSE block,
            index |-> (st.index + 1) % 4,
            padding |-> padding,
            finished |-> full /\ padding > 0,
            bad |-> FALSE]

Decoded64(chars) ==
  FoldLeft(TakeCharacter,
    [bytes |-> <<>>, block |-> 0, index |-> 0, padding |-> 0, finished |-> FALSE, bad |-> FALSE],
    chars)

-----------------------------------------------------------------------------
(* The solver *)

\* active_variables: ascending.
ActiveVars ==
  SelectSeq([q \in 1 .. NumQubits |-> q - 1], LAMBDA q : \E n \in DOMAIN lin : QpQubits[n] = q)
RowBytes == (Len(ActiveVars) + 7) \div 8

Spin(ones, q) == IF q \in ones THEN 1 ELSE IF asked.type = "ising" THEN -1 ELSE 0

\* The solver reads quad in the order of its couplers between active qubits.
SolverEnergy(ones) ==
  LET active == SelectSeq(QpCouplers, LAMBDA c : {c[1], c[2]} \subseteq ToSet(ActiveVars))
  IN  MapThenSumSet(LAMBDA n : lin[n] * Spin(ones, QpQubits[n]), DOMAIN lin)
        + MapThenSumSet(LAMBDA k : quad[k] * Spin(ones, active[k][1]) * Spin(ones, active[k][2]),
            DOMAIN quad)

PackedRow(ones) ==
  [b \in 1 .. RowBytes |->
    MapThenSumSet(LAMBDA m : IF ActiveVars[m] \in ones THEN 2 ^ (7 - ((m - 1) % 8)) ELSE 0,
      {m \in DOMAIN ActiveVars : (m - 1) \div 8 = b - 1})]

\* The answer's text may have line breaks, or its end may be lost.
SolverAnswers ==
  /\ transfer = "sent"
  /\ \E sols \in SeqOf(QpSpins, 2), broken, lossy \in BOOLEAN :
       LET chars == EncodeBase64(FlattenSeq([k \in DOMAIN sols |-> PackedRow(sols[k])]))
           lines == IF broken /\ Len(chars) > 0 THEN InsertAt(chars, 3, Newline) ELSE chars
       IN  /\ foundSpins' = sols
           /\ answerEnergy' = [k \in DOMAIN sols |-> SolverEnergy(sols[k])]
           /\ damaged' = (lossy /\ Len(chars) > 0)
           /\ IF damaged'
              THEN \E n \in 0 .. Len(lines) - 1 : text' = SubSeq(lines, 1, n)
              ELSE text' = lines
  /\ transfer' = "answered"
  /\ UNCHANGED <<asked, lin, quad, solutions>>

-----------------------------------------------------------------------------
(* decodeQpAnswer *)

\* Mutant: the rows of bits follow each other without filling.
BitOf_Packed(bytes, k, m) ==
  LET n == (k - 1) * Len(ActiveVars) + m - 1
  IN  (bytes[n \div 8 + 1] \div (2 ^ (7 - (n % 8)))) % 2

\* The highest bit comes first, and every solution starts at a new byte.
BitOf(bytes, k, m) ==
  (bytes[(k - 1) * RowBytes + (m - 1) \div 8 + 1] \div (2 ^ (7 - ((m - 1) % 8)))) % 2

Acceptable ==
  LET result == Decoded64(text) IN
  ~result.bad /\ result.index = 0 /\ Len(result.bytes) = Len(answerEnergy) * RowBytes

DecodeQpAnswer ==
  /\ transfer = "answered" /\ Acceptable
  /\ LET bytes == Decoded64(text).bytes IN
       solutions' = [k \in DOMAIN answerEnergy |-> [q \in 0 .. NumQubits - 1 |->
         IF q \in ToSet(ActiveVars)
         THEN IF BitOf(bytes, k, CHOOSE m \in DOMAIN ActiveVars : ActiveVars[m] = q) = 1
              THEN 1 ELSE IF asked.type = "ising" THEN -1 ELSE 0
         ELSE Unset]]
  /\ transfer' = "decoded"
  /\ UNCHANGED <<asked, lin, quad, foundSpins, answerEnergy, text, damaged>>

\* Base64Exception, BadAnswerValueException
Reject ==
  /\ transfer = "answered" /\ ~Acceptable
  /\ transfer' = "rejected"
  /\ UNCHANGED <<asked, lin, quad, foundSpins, answerEnergy, text, damaged, solutions>>

QpNext == EncodeQpProblem \/ Refuse \/ SolverAnswers \/ DecodeQpAnswer \/ Reject

-----------------------------------------------------------------------------
(* Properties *)

\* What comes back is an answer to what was asked: the energy that the solver
\* worked out from bare rows of coefficients is the energy of the solution that
\* the client puts together, in the problem that the caller gave, and a solution
\* has values for the caller's qubits only.  A text with line breaks is read as
\* one without, and one whose end is lost is never taken for an answer.
AnswerFitsProblem ==
  /\ transfer = "decoded" =>
       \A k \in DOMAIN solutions :
         /\ \A q \in DOMAIN solutions[k] : solutions[k][q] = Unset <=> q \notin UsedQubits
         /\ answerEnergy[k] =
              FoldSeq(LAMBDA e, sum : sum + e.value *
                  (IF e.i = e.j THEN solutions[k][e.i] ELSE solutions[k][e.i] * solutions[k][e.j]),
                0, asked.entries)
  /\ transfer = "decoded" => ~damaged
  /\ transfer = "rejected" => damaged
=============================================================================
