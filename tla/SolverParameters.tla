-------------------------- MODULE SolverParameters --------------------------
(***************************************************************************)
(* What a remote solver of the C client makes of the server's description  *)
(* of the solver, of the user's parameters and of an answer's timing       *)
(* (c-client/src/remote.cpp), and what the local solvers make of theirs    *)
(* (c-client/src/local.cpp).                                               *)
(*                                                                         *)
(* A field of the description is absent, not of its type or its size       *)
(* ("odd"), or fits; numbers are left out.  A parameter is at its default  *)
(* or set; values only matter where they may be invalid.                   *)
(***************************************************************************)
EXTENDS Integers, FiniteSets, FiniteSetsExt, Sequences, SequencesExt

CONSTANTS
  ParamQubits,   \* bound: length of chains
  ChainNumbers,  \* numbers that chains may hold
  PlainParams    \* the names that may be set, of parameters copied as they are

ASSUME ParamAssumption == ParamQubits \in Nat /\ ChainNumbers \subseteq Int

VARIABLES
  description,   \* the solver's properties, as the server sent them
  params,         \* the user's parameters
  sent,          \* what was submitted, or how it was refused
  timing         \* of the answer

paramVars == <<description, params, sent, timing>>

-----------------------------------------------------------------------------
(* Properties of a solver.                                                 *)

\* The groups of sapi_SolverProperties whose fields must all fit.
Groups ==
  [supported_problem_types |-> {"supported_problem_types"},
   quantum_solver   |-> {"num_qubits", "qubits", "couplers"},
   ising_ranges     |-> {"h_range", "j_range"},
   anneal_offset    |-> {"anneal_offset_ranges"},
   virtual_graph    |-> {"extended_j_range", "per_qubit_coupling_range"}]

Fields == UNION {Groups[g] : g \in DOMAIN Groups}
            \cup {"max_anneal_schedule_points", "annealing_time_range"}

\* The constructors of the groups: a group that is not valid is null.
Offered(fits) ==
  {g \in DOMAIN Groups : Groups[g] \subseteq fits}
    \cup (IF {"max_anneal_schedule_points", "annealing_time_range"} \cap fits # {}
          THEN {"anneal_schedule"} ELSE {})

\* RemoteParametersProperty: the names the user sees, or null.
HasNames(d) == d.parameters.kind = "fits"
ListedNames(d) == d.parameters.names

\* RemoteParameterValidator
Validated(d, names) == HasNames(d) => names \subseteq ListedNames(d)

-----------------------------------------------------------------------------
(* quantumParametersToJson                                                 *)

\* Mutant: qubits that are in no chain are taken for one.
InChain_Any(number) == TRUE

\* "if (ci < 0) continue"
InChain(number) == number >= 0

\* The chains in the order of their first qubits, each with its qubits in order.
ChainsOf(numbers) ==
  LET add(chains, i) ==
        IF ~InChain(numbers[i]) THEN chains
        ELSE LET same == {k \in DOMAIN chains : numbers[chains[k][1]] = numbers[i]} IN
             IF same = {} THEN Append(chains, <<i>>)
             ELSE LET k == CHOOSE k \in same : TRUE IN [chains EXCEPT ![k] = Append(@, i)]
      made[i \in 0 .. Len(numbers)] == IF i = 0 THEN <<>> ELSE add(made[i - 1], i)
  IN  made[Len(numbers)]

\* A reverse anneal becomes two parameters.
NamesOf(a) ==
  a.plain \cup (IF a.chains.set THEN {"chains"} ELSE {})
    \cup (IF a.reverse THEN {"initial_state", "reinitialize_state"} ELSE {})
    \cup (IF a.mode # "default" THEN {"answer_mode"} ELSE {})
    \cup (IF a.postprocess # "default" THEN {"postprocess"} ELSE {})

\* RemoteSolver::submitImpl up to the submission itself: the problem is
\* encoded (QpCoding) before the parameters are looked at.
Refused == [names |-> {}, chains |-> <<>>]
RemoteSubmit(d, a) ==
  CASE a.kind # "quantum"    -> [outcome |-> "InvalidParameter", request |-> Refused]
    [] a.type = "other"      -> [outcome |-> "InvalidParameter", request |-> Refused]
    [] a.problem = "foreign" -> [outcome |-> "Encoding", request |-> Refused]
    [] OTHER ->
         IF a.mode = "invalid" \/ a.postprocess = "invalid" \/ ~Validated(d, NamesOf(a))
         THEN [outcome |-> "InvalidParameter", request |-> Refused]
         ELSE [outcome |-> "submitted",
               request |-> [names |-> NamesOf(a),
                            chains |-> IF a.chains.set THEN ChainsOf(a.chains.numbers) ELSE <<>>]]

\* The constructors of the local submitted problems: only the exact solvers
\* have an answer mode, and no problem is refused yet.
LocalSubmit(solver, a) ==
  [outcome |->
     IF \/ a.type = "other" \/ a.kind # solver
        \/ solver \in {"sample", "optimize"} /\ a.mode = "invalid"
     THEN "InvalidParameter" ELSE "submitted",
   request |-> Refused]

-----------------------------------------------------------------------------
(* extractTiming: what is missing is -1; the old names get the new values. *)

NewName ==
  [run_time_chip |-> "qpu_sampling_time",
   anneal_time_per_run |-> "qpu_anneal_time_per_sample",
   readout_time_per_run |-> "qpu_readout_time_per_sample",
   total_real_time |-> "qpu_access_time"]

TimingNames ==
  DOMAIN NewName \cup {NewName[n] : n \in DOMAIN NewName}
    \cup {"qpu_programming_time", "qpu_delay_time_per_sample", "total_post_processing_time",
          "post_processing_overhead_time"}

\* given: the integers of the answer's timing, a function on some of the names.
Timing(given) ==
  LET value(n) == IF n \in DOMAIN given THEN given[n] ELSE -1 IN
  [n \in TimingNames |->
     IF n \in DOMAIN NewName /\ value(n) = -1 THEN value(NewName[n]) ELSE value(n)]

-----------------------------------------------------------------------------
ParamKinds == {"quantum", "sample", "optimize", "heuristic"}
NotSent == [outcome |-> "none", request |-> Refused]
Names == PlainParams \cup {"chains", "initial_state", "answer_mode"}

\* All fields, or all but one; some list of names, or none.
Descriptions ==
  [offered : {Offered(Fields)},
   parameters : {[kind |-> "fits", names |-> names] : names \in SUBSET Names}]
    \cup [offered : {Offered(Fields \ {f}) : f \in Fields},
          parameters : {[kind |-> kind, names |-> {}] : kind \in {"absent", "odd"}}]

\* Defaults, or one thing set to something else.
DefaultParams ==
  [kind |-> "quantum", type |-> "ising", problem |-> "fits", mode |-> "default",
   postprocess |-> "default", plain |-> {}, reverse |-> FALSE,
   chains |-> [set |-> FALSE, numbers |-> <<>>]]
Askable ==
  {[DefaultParams EXCEPT !.kind = kind] : kind \in ParamKinds}
    \cup {[DefaultParams EXCEPT !.kind = kind, !.mode = "histogram"] : kind \in ParamKinds}
    \cup {[DefaultParams EXCEPT !.kind = kind, !.mode = "invalid"] : kind \in ParamKinds}
    \cup {[DefaultParams EXCEPT !.postprocess = p] : p \in {"sampling", "invalid"}}
    \cup {[DefaultParams EXCEPT !.type = "other"], [DefaultParams EXCEPT !.problem = "foreign"]}

ParamInit ==
  /\ description \in Descriptions
  /\ params \in Askable
  /\ sent = NotSent
  /\ timing = Timing(<<>>)

\* The user sets a parameter.
SetPlain(p) ==
  /\ sent = NotSent
  /\ params' = [params EXCEPT !.plain = @ \cup {p}]
  /\ UNCHANGED <<description, sent, timing>>
SetReverse ==
  /\ sent = NotSent
  /\ params' = [params EXCEPT !.reverse = TRUE]
  /\ UNCHANGED <<description, sent, timing>>
SetChains(numbers) ==
  /\ sent = NotSent /\ ~params.chains.set
  /\ params' = [params EXCEPT !.chains = [set |-> TRUE, numbers |-> numbers]]
  /\ UNCHANGED <<description, sent, timing>>

\* The user submits to a remote solver or to a local one.
SubmitRemote ==
  /\ sent = NotSent
  /\ sent' = RemoteSubmit(description, params)
  /\ UNCHANGED <<description, params, timing>>
SubmitLocal(solver) ==
  /\ sent = NotSent
  /\ sent' = LocalSubmit(solver, params)
  /\ UNCHANGED <<description, params, timing>>

\* decodeRemoteIsingResult: the answer comes with some of its times.
AnswerArrives(names) ==
  /\ sent.outcome = "submitted" /\ timing = Timing(<<>>)
  /\ timing' = Timing([n \in names |-> 1])
  /\ UNCHANGED <<description, params, sent>>

ParamNext ==
  \/ \E p \in PlainParams : SetPlain(p)
  \/ SetReverse
  \/ \E n \in 0 .. ParamQubits : \E numbers \in [1 .. n -> ChainNumbers] : SetChains(numbers)
  \/ SubmitRemote
  \/ \E solver \in ParamKinds \ {"quantum"} : SubmitLocal(solver)
  \/ \E names \in {{n, NewName[n]} : n \in DOMAIN NewName} \cup {{NewName[n]} : n \in DOMAIN NewName} :
       AnswerArrives(names)

ParamSpec == ParamInit /\ [][ParamNext]_paramVars

-----------------------------------------------------------------------------
(* Properties.                                                             *)

(***************************************************************************)
(* What goes to the server is what the user asks for and the solver's      *)
(* description allows: names are among those listed for the user whenever  *)
(* some list is shown, even an empty one; the chains sent are the classes  *)
(* of the qubits with the same number, each qubit in one chain, qubits     *)
(* with a negative number in none.                                         *)
(***************************************************************************)
RequestIsAsAsked ==
  LET req == sent.request
      ns == params.chains.numbers IN
  /\ HasNames(description) => req.names \subseteq ListedNames(description)
  /\ req.names # {} /\ params.chains.set =>
       /\ {ToSet(req.chains[k]) : k \in DOMAIN req.chains}
            = {{i \in DOMAIN ns : ns[i] = n} : n \in {m \in ToSet(ns) : m >= 0}}
       /\ \A k \in DOMAIN req.chains :
            Len(req.chains[k]) = Cardinality(ToSet(req.chains[k]))
=============================================================================
