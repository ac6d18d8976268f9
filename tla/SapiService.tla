---------------------------- MODULE SapiService -----------------------------
(***************************************************************************)
(* The SAPI service (remote/src/sapi-service.cpp and its callbacks'        *)
(* headers): each call becomes one http request; its reply is taken apart  *)
(* and handed to the caller's callback, and whatever is wrong with it      *)
(* becomes an error of that callback.                                      *)
(*                                                                         *)
(* There are two callbacks in a row, the http callback and the caller's;   *)
(* complete() of either turns an exception into a call of error(), and     *)
(* error() swallows all.                                                   *)
(***************************************************************************)
EXTENDS Integers, Sequences, SequencesExt

CONSTANTS
  SapiCalls,    \* calls that may be made
  MaxItems      \* bound on the problems of one call

ASSUME SapiAssumption == MaxItems \in Nat

VARIABLES
  httpRuns,     \* the http service has not been shut down
  calls,        \* [kind, size, state] of each call
  heard         \* what its callback has been told

sapiVars == <<httpRuns, calls, heard>>

Kinds == {"solvers", "submit", "status", "answer", "cancel"}
RemoteStatuses == {"PENDING", "IN_PROGRESS", "COMPLETED", "FAILED", "CANCELED"}

\* Parts of a reply: null, objects that lack a key or have it with another
\* type, problems with a status that is known or not.
Items == RemoteStatuses \cup {"null", "keyless", "mistyped", "odd"}

SapiInit ==
  /\ httpRuns = TRUE
  /\ calls = [c \in SapiCalls |-> [kind |-> "none", size |-> 0, state |-> "unused"]]
  /\ heard = [c \in SapiCalls |-> <<>>]

\* What a caller's callback is told: it may throw when it is told a result.
Error(what) == <<<<"error", what>>>>

\* Mutant: an exception of the callback is reported and passed on.
Complete_Rethrows(result, throws) ==
  <<<<"complete", result>>>> \o (IF throws THEN Error("callback") \o Error("callback") ELSE <<>>)

Complete(result, throws) ==
  <<<<"complete", result>>>> \o (IF throws THEN Error("callback") ELSE <<>>)

Tell(c, what) == heard' = [heard EXCEPT ![c] = @ \o what]

\* fetchSolvers, submitProblems, multiProblemStatus, fetchAnswer, cancelProblems.
\* The first two let the exception of a service that is shut down through.
Call(c, kind, size, throws) ==
  /\ calls[c].state = "unused"
  /\ LET state ==
           IF kind = "status" /\ size = 0 THEN "over"
           ELSE IF httpRuns THEN "sent"
           ELSE IF kind \in {"solvers", "submit"} THEN "threw" ELSE "over"
     IN  /\ calls' = [calls EXCEPT ![c] = [kind |-> kind, size |-> size, state |-> state]]
         /\ IF state = "over"
            THEN Tell(c, IF kind = "status" /\ size = 0 THEN Complete(<<>>, throws)
                         ELSE Error("shutdown"))
            ELSE UNCHANGED heard
  /\ UNCHANGED httpRuns

ShutdownHttp ==
  /\ httpRuns
  /\ httpRuns' = FALSE
  /\ UNCHANGED <<calls, heard>>

\* checkHttpResponse
CodeFault(code) == IF code = 200 THEN "none" ELSE IF code = 401 THEN "auth" ELSE "http"

\* One element of an array of problems.
ItemFault(item) ==
  IF item = "keyless" THEN "key"
  ELSE IF item = "mistyped" THEN "format"
  ELSE IF item = "odd" THEN "unknown" ELSE "none"

FirstFault(body) ==
  LET faulty == {n \in DOMAIN body : ItemFault(body[n]) # "none"}
  IN  IF faulty = {} THEN "none" ELSE ItemFault(body[Min(faulty)])

\* StatusHttpCallback; a problem that is null has failed.
StatusFault(size, body) == IF Len(body) # size THEN "size" ELSE FirstFault(body)
Info(item) == IF item = "null" THEN "FAILED" ELSE item

\* FetchAnswerHttpCallback
AnswerFault(item) ==
  IF item = "null" THEN "format"
  ELSE IF ItemFault(item) # "none" THEN ItemFault(item)
  ELSE IF item \in {"PENDING", "IN_PROGRESS"} THEN "no answer"
  ELSE IF item = "FAILED" THEN "solve"
  ELSE IF item = "CANCELED" THEN "cancelled" ELSE "none"

\* SolversHttpCallback; a solver has no status.
SolversFault(body) ==
  FirstFault([n \in DOMAIN body |-> IF body[n] = "null" THEN "mistyped"
                                    ELSE IF body[n] = "odd" THEN "COMPLETED" ELSE body[n]])

\* The http callback's complete(): CancelHttpCallback looks at nothing.  A text
\* that does not parse, or is no array or object, has no body.
Reply(c, code, parses, body, throws) ==
  /\ calls[c].state = "sent"
  /\ calls' = [calls EXCEPT ![c].state = "over"]
  /\ LET kind == calls[c].kind
         fault ==
           IF kind = "cancel" THEN "none"
           ELSE IF CodeFault(code) # "none" THEN CodeFault(code)
           ELSE IF ~parses THEN "format"
           ELSE IF kind = "solvers" THEN SolversFault(body)
           ELSE IF kind # "answer" THEN StatusFault(calls[c].size, body)
           ELSE IF Len(body) # 1 THEN "format" ELSE AnswerFault(body[1])
     IN  Tell(c, IF fault # "none" THEN Error(fault)
                 ELSE Complete(IF kind \in {"submit", "status"}
                               THEN [n \in DOMAIN body |-> Info(body[n])] ELSE <<>>, throws))
  /\ UNCHANGED httpRuns

\* The http callback's error()
HttpFails(c) ==
  /\ calls[c].state = "sent"
  /\ calls' = [calls EXCEPT ![c].state = "over"]
  /\ Tell(c, Error("network"))
  /\ UNCHANGED httpRuns

SapiNext ==
  \/ ShutdownHttp
  \/ \E c \in SapiCalls :
       \/ \E kind \in Kinds, size \in 0 .. MaxItems, throws \in BOOLEAN : Call(c, kind, size, throws)
       \/ \E code \in {200, 401, 500}, parses, throws \in BOOLEAN, body \in SeqOf(Items, MaxItems) :
            Reply(c, code, parses, body, throws)
       \/ HttpFails(c)

SapiSpec == SapiInit /\ [][SapiNext]_sapiVars

-----------------------------------------------------------------------------
(* Properties *)

\* Every call is answered once, however its reply and its callback fail: by a
\* result, by an error, or by an error after a result that the callback threw
\* on; a call that threw is not answered.  A result is whole: one status that
\* the client knows for each problem asked about.
AnsweredOnce ==
  \A c \in SapiCalls :
    /\ calls[c].state # "over" => heard[c] = <<>>
    /\ calls[c].state = "over" =>
         /\ Len(heard[c]) = 1 \/ (Len(heard[c]) = 2 /\ heard[c][1][1] = "complete")
         /\ heard[c][Len(heard[c])][1] = "error" \/ Len(heard[c]) = 1
         /\ heard[c][1][1] = "complete" /\ calls[c].kind \in {"submit", "status"} =>
              /\ Len(heard[c][1][2]) = calls[c].size
              /\ \A n \in 1 .. calls[c].size : heard[c][1][2][n] \in RemoteStatuses
=============================================================================
