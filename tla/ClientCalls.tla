---------------------------- MODULE ClientCalls -----------------------------
(***************************************************************************)
(* The C client's calls on submitted problems (c-client/src/sapi-impl.cpp, *)
(* internal.cpp, remote.cpp, local.cpp): submit, solve, status, done,      *)
(* result, retry, cancel and await, for remote and local problems alike.   *)
(*                                                                         *)
(* A remote problem's record is the one of SubmittedProblem with what that *)
(* module abstracts from: each remote status and the exception that was    *)
(* kept.  The problem manager, which delivers statuses and errors at any   *)
(* time, is modelled by the steps it makes of the record (ProblemManager   *)
(* shows which ones these are).                                            *)
(***************************************************************************)
EXTENDS SubmittedProblem, Integers, FiniteSets

CONSTANTS
  Handles   \* problems the user may submit

ASSUME HandlesAssumption == IsFiniteSet(Handles)

VARIABLES
  subs,     \* the submitted problems
  told,     \* what the last sapi_asyncStatus said; forgotten by a retry
  gave,     \* what the call that has just returned gave, and told at the time
  wait      \* the user's call of sapi_awaitCompletion

callsVars == <<subs, told, gave, wait>>

\* Exceptions that reach handleException, by class.
Exceptions ==
  {"BlackBox", "FixVariables", "FindEmbedding", "Authentication", "Communication", "Decoding",
   "Encoding", "Network", "NoAnswer", "ProblemCancelled", "Solve", "ServiceShutdown",
   "Internal", "Local", "InvalidParameter", "NotInitialized", "bad_alloc", "runtime_error"}

\* The classes derived from SolveException.
SolveExceptions == {"Solve", "ProblemCancelled", "NoAnswer"}

\* Mutant: the handler of the base class comes before those derived from it.
HandleException_BaseFirst(e) ==
  CASE e \in SolveExceptions -> "SOLVE_FAILED"
    [] e = "Authentication" -> "AUTHENTICATION"
    [] e \in {"Communication", "Decoding"} -> "COMMUNICATION"
    [] e \in {"Encoding", "InvalidParameter"} -> "INVALID_PARAMETER"
    [] e = "Network" -> "NETWORK"
    [] e \in {"ServiceShutdown", "NotInitialized"} -> "NO_INIT"
    [] e = "bad_alloc" -> "OUT_OF_MEMORY"
    [] OTHER -> "SOLVE_FAILED"

\* handleException: the first handler whose class fits; all that are not
\* named here end as SOLVE_FAILED.
HandleException(e) ==
  CASE e = "Authentication" -> "AUTHENTICATION"
    [] e \in {"Communication", "Decoding"} -> "COMMUNICATION"
    [] e \in {"Encoding", "InvalidParameter"} -> "INVALID_PARAMETER"
    [] e = "Network" -> "NETWORK"
    [] e = "NoAnswer" -> "ASYNC_NOT_DONE"
    [] e = "ProblemCancelled" -> "PROBLEM_CANCELLED"
    [] e \in {"ServiceShutdown", "NotInitialized"} -> "NO_INIT"
    [] e = "bad_alloc" -> "OUT_OF_MEMORY"
    [] OTHER -> "SOLVE_FAILED"

-----------------------------------------------------------------------------
(* Submitted problems.  kind: "none", "local" or "remote"; "solving" is a  *)
(* remote problem inside sapi_solveIsing or sapi_solveQubo.                *)

NoSub ==
  [kind |-> "none", state |-> "NEW", lastGood |-> "NEW", remote |-> "UNKNOWN",
   error |-> "INTERNAL", ex |-> "none", cancelled |-> FALSE, wasDone |-> FALSE]

NewSub(kind) == [NoSub EXCEPT !.kind = kind, !.state = "SUBMITTING", !.lastGood = "SUBMITTING"]

Remote(s) == s.kind \in {"remote", "solving"}

\* The catch clauses of setError, in their order.
ErrorType(e) ==
  CASE e = "bad_alloc" -> "MEMORY"
    [] e = "Network" -> "NETWORK"
    [] e = "Communication" -> "PROTOCOL"
    [] e = "Authentication" -> "AUTH"
    [] e \in SolveExceptions -> "SOLVE"
    [] OTHER -> "INTERNAL"

\* Note that a problem has been done: a retry may take it back.
Noted(s) == [s EXCEPT !.wasDone = @ \/ Final(s)]

\* Mutant: a cancelled problem is not told from one that could not be sent.
SetError_CancelFails(s, e, retry) ==
  LET type == ErrorType(e) IN
  Noted(IF e = "Solve"
        THEN [s EXCEPT !.state = "DONE", !.lastGood = "DONE", !.error = type, !.ex = e]
        ELSE [s EXCEPT !.state = IF retry THEN "RETRYING" ELSE "FAILED", !.error = type, !.ex = e])

\* setError
SetError(s, e, retry) ==
  LET type == ErrorType(e)
      retries == retry /\ type \in {"NETWORK", "PROTOCOL", "AUTH"} IN
  Noted(IF type = "SOLVE"
        THEN [s EXCEPT !.state = "DONE", !.lastGood = "DONE", !.error = type, !.ex = e]
        ELSE [s EXCEPT !.state = IF retries THEN "RETRYING" ELSE "FAILED",
                       !.error = type, !.ex = e])

\* updateStatus; memory may run out after the state has been set.
UpdateStatus(s, status, noMemory) ==
  LET r == [s EXCEPT !.remote = status] IN
  CASE status \in {"PENDING", "IN_PROGRESS"} ->
         [r EXCEPT !.state = "SUBMITTED", !.lastGood = "SUBMITTED"]
    [] status = "CANCELED" -> SetError(r, "ProblemCancelled", FALSE)
    [] status = "FAILED"   -> SetError(r, "Solve", FALSE)
    [] status = "COMPLETED" ->
         LET d == [r EXCEPT !.state = "DONE", !.lastGood = "DONE"] IN
         IF noMemory THEN SetError(d, "bad_alloc", FALSE) ELSE Noted(d)

-----------------------------------------------------------------------------
(* What the calls return.                                                  *)

ErrorCode(type) ==
  CASE type = "AUTH" -> "AUTHENTICATION"
    [] type = "MEMORY" -> "OUT_OF_MEMORY"
    [] type = "NETWORK" -> "NETWORK"
    [] type = "PROTOCOL" -> "COMMUNICATION"
    [] OTHER -> "SOLVE_FAILED"

\* sapi_asyncStatus
Status(s) ==
  IF ~Remote(s)
  THEN [state |-> "DONE", lastGood |-> "DONE", remote |-> "COMPLETED", code |-> "OK"]
  ELSE [state |-> s.state, lastGood |-> s.lastGood, remote |-> s.remote,
        code |-> IF \/ s.state \in {"FAILED", "RETRYING"}
                    \/ s.state = "DONE" /\ s.remote # "COMPLETED"
                 THEN ErrorCode(s.error) ELSE "OK"]

\* sapi_asyncDone
AsyncDone(s) == ~Remote(s) \/ Final(s)

\* What fetching an answer of the server and decoding it may end in: other
\* formats than qp are a runtime_error.
FetchOutcomes ==
  {"fine", "Network", "Authentication", "Communication", "Decoding", "ServiceShutdown",
   "bad_alloc", "runtime_error"}

\* answerImpl and decodeRemoteIsingResult: how a result() may end.
ResultOutcomes(s) ==
  CASE ~Remote(s) -> {"fine", "Local", "bad_alloc"}
    [] Remote(s) /\ ~Final(s) -> {"NoAnswer"}
    [] Remote(s) /\ Final(s) /\ ~Answerable(s) -> {s.ex}
    [] OTHER -> FetchOutcomes

ResultCodes(s) == {IF e = "fine" THEN "OK" ELSE HandleException(e) : e \in ResultOutcomes(s)}

-----------------------------------------------------------------------------
(* Calls of the user.                                                      *)

NotTold == [state |-> "none", lastGood |-> "none", remote |-> "none", code |-> "none"]
NotGiven == [told |-> NotTold, done |-> FALSE, code |-> "none"]
NoWait == [on |-> {}, minDone |-> 0, outcome |-> "none"]

CallsInit ==
  /\ subs = [h \in Handles |-> NoSub]
  /\ told = [h \in Handles |-> NotTold]
  /\ gave = NotGiven
  /\ wait = NoWait

Put(h, s) == subs' = [subs EXCEPT ![h] = s]
Give(h, code) == gave' = [told |-> told[h], done |-> AsyncDone(subs[h]), code |-> code]
GiveNothing == gave' = NotGiven

\* What RemoteSolver::submitImpl and the local problems' constructors throw:
\* wrong parameters, a problem that cannot be encoded, no memory.
SubmitFailures == {"InvalidParameter", "Encoding", "bad_alloc"}

\* sapi_asyncSolveIsing, sapi_asyncSolveQubo, sapi_solveIsing, sapi_solveQubo.
Submit(h, kind) ==
  /\ subs[h] = NoSub
  /\ Put(h, NewSub(kind))
  /\ UNCHANGED <<told, wait>> /\ GiveNothing
SubmitFails(h, e) ==
  /\ subs[h] = NoSub
  /\ Give(h, HandleException(e))
  /\ UNCHANGED <<subs, told, wait>>

\* The rest of RemoteSolver::solveImpl once its wait is over.
SolveReturns(h) ==
  /\ subs[h].kind = "solving" /\ subs[h].wasDone
  /\ \E code \in ResultCodes(subs[h]) : Give(h, code)
  /\ Put(h, NoSub)
  /\ UNCHANGED <<told, wait>>

\* A problem's handle is the user's own.
Mine(h) == subs[h].kind \in {"local", "remote"}

AsyncStatus(h) ==
  /\ Mine(h)
  /\ told' = [told EXCEPT ![h] = Status(subs[h])]
  /\ UNCHANGED <<subs, wait>> /\ GiveNothing

AsyncResult(h) ==
  /\ Mine(h)
  /\ \E code \in ResultCodes(subs[h]) : Give(h, code)
  /\ UNCHANGED <<subs, told, wait>>

\* sapi_asyncRetry: addSubmittedProblem may run out of memory.
AsyncRetry(h) ==
  /\ Mine(h) /\ Remote(subs[h]) /\ Retryable(subs[h])
  /\ \/ Put(h, WithRetry(subs[h]))
     \/ Put(h, SetError(WithRetry(subs[h]), "bad_alloc", FALSE))
  /\ told' = [told EXCEPT ![h] = NotTold]
  /\ UNCHANGED wait /\ GiveNothing

\* sapi_cancelSubmittedProblem: local problems cannot be cancelled.
Cancel(h) ==
  /\ Mine(h) /\ Remote(subs[h])
  /\ Put(h, [subs[h] EXCEPT !.cancelled = TRUE])
  /\ UNCHANGED <<told, wait>> /\ GiveNothing

\* Mutant: every problem lowers the number to wait for.
Needed_AllCount(hs, minDone) == minDone - Cardinality(hs)

\* How many remote problems sapi_awaitCompletion waits for: local ones are
\* done.  minDone0 is cut to the number of problems (and to an int).
Needed(hs, minDone0) ==
  (IF minDone0 > Cardinality(hs) THEN Cardinality(hs) ELSE minDone0)
    - Cardinality({h \in hs : ~Remote(subs[h])})

StartWait(hs, minDone0) ==
  /\ wait.outcome # "waiting" /\ \A h \in hs : Mine(h)
  /\ wait' = [on |-> hs, minDone |-> minDone0,
              outcome |-> IF (\A h \in hs : ~Remote(subs[h])) \/ Needed(hs, minDone0) <= 0
                          THEN "enough" ELSE "waiting"]
  /\ UNCHANGED <<subs, told>> /\ GiveNothing

\* awaitCompletion of the remote problems, as Await specifies it: each counts
\* once it has been done; it may also time out.
WaitReturns ==
  /\ wait.outcome = "waiting"
  /\ \/ /\ Cardinality({h \in wait.on : Remote(subs[h]) /\ subs[h].wasDone})
             >= Needed(wait.on, wait.minDone)
        /\ wait' = [wait EXCEPT !.outcome = "enough"]
     \/ wait' = [wait EXCEPT !.outcome = "timeout"]
  /\ UNCHANGED <<subs, told>> /\ GiveNothing

-----------------------------------------------------------------------------
(* The problem manager: a reply or a network error for a problem it holds. *)

Held(h) == Remote(subs[h]) /\ Pending(subs[h])

StatusArrives(h, status, noMemory) ==
  /\ Held(h)
  /\ noMemory => status = "COMPLETED"
  /\ Put(h, UpdateStatus(subs[h], status, noMemory))
  /\ UNCHANGED <<told, wait>> /\ GiveNothing

\* Only network errors are retried by the manager itself.
ErrorArrives(h, e, retry) ==
  /\ Held(h)
  /\ retry => e = "Network"
  /\ Put(h, SetError(subs[h], e, retry))
  /\ UNCHANGED <<told, wait>> /\ GiveNothing

ReplyErrors == {"Network", "Communication", "Authentication", "ServiceShutdown", "Internal",
                "bad_alloc"}

CallsNext ==
  \/ WaitReturns
  \/ \E hs \in SUBSET Handles, n \in 0 .. Cardinality(Handles) + 1 : StartWait(hs, n)
  \/ \E h \in Handles :
       \/ \E kind \in {"local", "remote", "solving"} : Submit(h, kind)
       \/ \E e \in SubmitFailures : SubmitFails(h, e)
       \/ SolveReturns(h) \/ AsyncStatus(h) \/ AsyncResult(h) \/ AsyncRetry(h) \/ Cancel(h)
       \/ \E status \in Statuses \cup {"IN_PROGRESS", "CANCELED"}, noMemory \in BOOLEAN :
            status # "UNKNOWN" /\ StatusArrives(h, status, noMemory)
       \/ \E e \in ReplyErrors, retry \in BOOLEAN : ErrorArrives(h, e, retry)

CallsSpec == CallsInit /\ [][CallsNext]_callsVars

-----------------------------------------------------------------------------
(* Properties.                                                             *)

(***************************************************************************)
(* Status and result come from two translations of the same record, one    *)
(* by error type and one by exception, at two times.  Still, once a status *)
(* has said that a problem is over, and it has not been retried, a result  *)
(* is never "not done"; a failure comes back with the code the status gave *)
(* or, where that was the unspecific SOLVE_FAILED, with its own; and a     *)
(* problem the server has cancelled comes back as cancelled.  A solve      *)
(* never returns "not done" at all.                                        *)
(***************************************************************************)
StatusForetellsResult ==
  gave.code # "none" =>
    /\ gave.told.state \in {"DONE", "FAILED"} => gave.code # "ASYNC_NOT_DONE"
    /\ gave.told.state \in {"DONE", "FAILED"} /\ gave.told.code # "OK" =>
         gave.code # "OK" /\ gave.told.code \in {gave.code, "SOLVE_FAILED"}
    /\ gave.told.remote = "CANCELED" => gave.code = "PROBLEM_CANCELLED"
    /\ gave.done => gave.code # "ASYNC_NOT_DONE"

(***************************************************************************)
(* "1 if returning because enough problems completed": of the problems     *)
(* waited for at least min_done, or all, have been done, however many of   *)
(* them are local and however large min_done is.                           *)
(***************************************************************************)
AwaitMeansDone ==
  wait.outcome = "enough" =>
    \/ \A h \in wait.on : ~Remote(subs[h]) \/ subs[h].wasDone
    \/ Cardinality({h \in wait.on : ~Remote(subs[h]) \/ subs[h].wasDone}) >= wait.minDone

\* The record of SubmittedProblem that a remote problem's record stands for.
Abstract(s) ==
  [state |-> s.state, lastGood |-> s.lastGood, hasId |-> FALSE, cancelled |-> s.cancelled,
   remote |-> CASE s.remote = "IN_PROGRESS" -> "PENDING" [] s.remote = "CANCELED" -> "FAILED"
                [] OTHER -> s.remote,
   error  |-> CASE s.ex = "none" -> "NONE"
                [] s.ex # "none" /\ s.error \in {"NETWORK", "SOLVE"} -> s.error
                [] OTHER -> "OTHER"]

AbstractSteps(r) ==
  {WithStatus(r, status) : status \in {"PENDING", "COMPLETED", "FAILED"}}
    \cup {WithError(r, "NETWORK", retry) : retry \in BOOLEAN}
    \cup {WithError(r, "OTHER", FALSE), [r EXCEPT !.cancelled = TRUE]}
    \cup (IF Retryable(r) THEN {WithRetry(r), WithError(WithRetry(r), "OTHER", FALSE)} ELSE {})

(***************************************************************************)
(* The record as ProblemManager and Await use it is a sound abstraction:   *)
(* whatever status or exception arrives, each step of the record is one of *)
(* SubmittedProblem's operations - except that memory may run out just     *)
(* after a problem has been completed.                                     *)
(***************************************************************************)
RecordIsAbstracted ==
  [][\A h \in Handles :
       LET r == Abstract(subs[h]) IN
       Remote(subs[h]) /\ Remote(subs'[h]) /\ subs'[h] # subs[h] =>
         Abstract(subs'[h]) \in
           AbstractSteps(r) \cup {WithError(WithStatus(r, "COMPLETED"), "OTHER", FALSE)}]_callsVars
=============================================================================
