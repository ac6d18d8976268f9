-------------------------- MODULE SubmittedProblem --------------------------
(***************************************************************************)
(* The record a SubmittedProblemImpl keeps under its mutex_ and what each  *)
(* of its operations makes of it (remote/src/problem-manager.cpp).         *)
(*                                                                         *)
(* Abstractions.  A problem id is only present or absent (hasId).  Of the  *)
(* remote statuses IN_PROGRESS is treated by the code exactly as PENDING   *)
(* and CANCELED exactly as FAILED (both throw an exception of class        *)
(* SolveException), so one of each is kept.  Of the error types, PROTOCOL, *)
(* AUTH, MEMORY and INTERNAL lead to the same states: they are OTHER.      *)
(***************************************************************************)

States   == {"NEW", "SUBMITTING", "SUBMITTED", "DONE", "FAILED", "RETRYING"}
Statuses == {"UNKNOWN", "PENDING", "COMPLETED", "FAILED"}
Errors   == {"NONE", "NETWORK", "OTHER", "SOLVE"}

ProblemType ==
  [state : States, lastGood : States, remote : Statuses, error : Errors,
   hasId : BOOLEAN, cancelled : BOOLEAN]

\* Not created yet (no object exists).
NoProblem ==
  [state |-> "NEW", lastGood |-> "NEW", remote |-> "UNKNOWN", error |-> "NONE",
   hasId |-> FALSE, cancelled |-> FALSE]

\* The constructor of submitProblem.
SubmittingProblem == [NoProblem EXCEPT !.state = "SUBMITTING", !.lastGood = "SUBMITTING"]

\* The constructor of addProblem, followed by setProblemId.
AddedProblem ==
  [NoProblem EXCEPT !.state = "SUBMITTED", !.lastGood = "SUBMITTED", !.hasId = TRUE]

\* done()
Final(r) == r.state \in {"DONE", "FAILED"}

\* The client library still owes the user an outcome for this problem.
Pending(r) == r.state \in {"SUBMITTING", "SUBMITTED", "RETRYING"}

\* setError
WithError(r, error, retry) ==
  IF error = "SOLVE"
  THEN [r EXCEPT !.state = "DONE", !.lastGood = "DONE", !.error = "SOLVE"]
  ELSE [r EXCEPT !.state = IF retry THEN "RETRYING" ELSE "FAILED", !.error = error]

\* updateStatus
WithStatus(r, status) ==
  LET s == [r EXCEPT !.remote = status] IN
  CASE status = "PENDING"   -> [s EXCEPT !.state = "SUBMITTED", !.lastGood = "SUBMITTED"]
    [] status = "COMPLETED" -> [s EXCEPT !.state = "DONE", !.lastGood = "DONE"]
    [] status = "FAILED"    -> WithError(s, "SOLVE", FALSE)

\* setProblemId: the server returns no id for a problem it rejects.
WithId(r, given) == [r EXCEPT !.hasId = given]

\* retryImpl: the three early returns.
Retryable(r) == r.state = "FAILED" /\ r.lastGood # "DONE" /\ r.error # "SOLVE"

WithRetry(r) == [r EXCEPT !.state = "RETRYING"]

\* answerImpl(callback): only then is the server asked; otherwise the callback
\* gets an error at once.
Answerable(r) == r.state = "DONE" /\ r.remote = "COMPLETED"
=============================================================================
