--------------------------- MODULE ProblemManager ---------------------------
(***************************************************************************)
(* ProblemManagerImpl (remote/src/problem-manager.cpp): batches problems   *)
(* into submit and status requests, keeps at most MaxActiveRequests        *)
(* requests open, polls until problems are done, cancels, fetches answers  *)
(* and retries after network failures with the help of a RetryTimer.       *)
(*                                                                         *)
(* Threads.  Members of Threads stand for the user's threads and for the   *)
(* pool threads that run the callbacks of the SAPI service: an idle thread *)
(* may make any call or handle any reply.  Io is the retry service's       *)
(* thread, which runs retryNotification.  One step is one critical section *)
(* of one of the code's five mutexes (or two nested ones) together with    *)
(* the thread-local code around it; pc says where a thread is.             *)
(*                                                                         *)
(* Environment.  A reply to an open request may come at any time after the *)
(* request was made, also before the sender has its mutex back.  An http   *)
(* failure is "network" (NetworkException) or "other" (any other one).     *)
(* Out of scope here: allocation failures, shutdown of the http service,   *)
(* and TooManyProblemIdsException, which nothing in src/ throws.           *)
(***************************************************************************)
EXTENDS SubmittedProblem, Naturals, Sequences, FiniteSets

CONSTANTS
  Problems,                  \* problems that may be submitted or added
  Fetches,                   \* answer callbacks that may be passed to answer()
  NoFetch,
  Threads, Io,
  Conns,                     \* names for open requests
  MaxActiveRequests,
  MaxProblemsPerSubmission,
  MaxIdsPerStatusQuery,
  InitDelay, MaxDelay, ScaleNum, ScaleDen,  \* retryTiming
  Usages,                    \* ways to use the manager: see usage
  PromptSenders              \* see RetryNotification

\* ProblemManagerImpl::create throws unless the limits are positive.
ASSUME LimitsAssumption ==
  /\ MaxActiveRequests \in Nat \ {0}
  /\ MaxProblemsPerSubmission \in Nat \ {0}
  /\ MaxIdsPerStatusQuery \in Nat \ {0}

\* createRetryTimer throws unless the delays are positive and do not shrink.
ASSUME DelaysAssumption ==
  /\ InitDelay \in Nat \ {0}
  /\ MaxDelay \in Nat /\ MaxDelay >= InitDelay
  /\ ScaleDen \in Nat \ {0}
  /\ ScaleNum \in Nat /\ ScaleNum >= ScaleDen

ASSUME NamesAssumption ==
  /\ NoFetch \notin Fetches
  /\ Io \notin Threads
  /\ IsFiniteSet(Threads)
  /\ PromptSenders \in BOOLEAN

VARIABLES
  present, waiting, fail, failOnExpiry, nextDelay, armed, expired, notifying

\* retryTimer_
Timer == INSTANCE RetryTimer

VARIABLES
  usage,         \* what users do in this behaviour: the calls they make and how
                 \* many problems they create
  prob,          \* the SubmittedProblemImpl records
  live,          \* problems some user still holds (weak_ptr::lock succeeds)
  unsubmitted,   \* unsubmittedProblems_
  active,        \* activeProblems_
  cancelIds,     \* cancelIds_, as a set: it is sorted and uniqued when sent
  fetches,       \* pendingFetches_
  answers,       \* per answer callback: "unused", "waiting", "done"
  requestQueue,  \* requestQueue_
  available,     \* availableRequests_
  retryState,    \* retryState_
  inflight,      \* open requests, by connection
  pc,            \* where each thread is
  job,           \* the reply or call a thread is working on
  out,           \* the request a thread is about to send
  owed           \* threads in a callback that have yet to call requestComplete

listVars  == <<unsubmitted, active, cancelIds, fetches>>
queueVars == <<requestQueue, available, retryState>>
userVars  == <<usage, prob, live, answers>>
vars == <<usage, prob, live, unsubmitted, active, cancelIds, fetches, answers,
          requestQueue, available, retryState, inflight, pc, job, out, owed,
          present, waiting, fail, failOnExpiry, nextDelay, armed, expired, notifying>>
timerVars ==
  <<present, waiting, fail, failOnExpiry, nextDelay, armed, expired, notifying>>

Everyone == Threads \cup {Io}
StatusKinds == {"SUBMIT", "STATUS"}
Kinds == StatusKinds \cup {"CANCEL", "ANSWER"}

\* A request: the problems, the ids or the answer callback it carries.  "more"
\* says that the list it was taken from was left non-empty.
Request == [kind : Kinds \cup {"NONE"}, probs : Seq(Problems), ids : SUBSET Problems,
            fetch : Fetches \cup {NoFetch}, more : BOOLEAN]
NoRequest ==
  [kind |-> "NONE", probs |-> <<>>, ids |-> {}, fetch |-> NoFetch, more |-> FALSE]

\* What a thread is working on, and how it came out: "call" for a user's call.
Outcomes == {"call", "ok", "network", "other", "retry", "giveup"}
Job == [req : Request, outcome : Outcomes]
NoJob == [req |-> NoRequest, outcome |-> "call"]
Call(req) == [req |-> req, outcome |-> "call"]

SenderPcs == {"take", "issue", "unsent"}
Pcs == SenderPcs \cup
  {"idle", "push", "enter", "sent", "stop", "update", "cancelcheck", "pushcancel",
   "requeue", "retry", "fail", "resubmit", "recancel", "refetch", "readd",
   "deliver", "complete", "return"}

TypeOK ==
  /\ Timer!TypeOK
  /\ usage \in Usages
  /\ prob \in [Problems -> ProblemType]
  /\ live \subseteq Problems
  /\ unsubmitted \in Seq(Problems)
  /\ active \in Seq(Problems)
  /\ cancelIds \subseteq Problems
  /\ fetches \in Seq(Fetches)
  /\ answers \in [Fetches -> {"unused", "waiting", "done"}]
  /\ requestQueue \in Seq(Kinds)
  /\ available \in Nat
  /\ retryState \in {"NO_RETRY", "WAITING_TO_RETRY", "RETRY_NOW"}
  /\ DOMAIN inflight \subseteq Conns
  /\ inflight \in [DOMAIN inflight -> Request]
  /\ pc \in [Everyone -> Pcs]
  /\ job \in [Everyone -> Job]
  /\ out \in [Everyone -> Request]
  /\ owed \subseteq Everyone

Init ==
  /\ Timer!Init
  /\ usage \in Usages
  /\ prob = [p \in Problems |-> NoProblem]
  /\ live = {}
  /\ unsubmitted = <<>>
  /\ active = <<>>
  /\ cancelIds = {}
  /\ fetches = <<>>
  /\ answers = [f \in Fetches |-> "unused"]
  /\ requestQueue = <<>>
  /\ available = MaxActiveRequests
  /\ retryState = "NO_RETRY"
  /\ inflight = [c \in {} |-> NoRequest]
  /\ pc = [t \in Everyone |-> "idle"]
  /\ job = [t \in Everyone |-> NoJob]
  /\ out = [t \in Everyone |-> NoRequest]
  /\ owed = {}

-----------------------------------------------------------------------------
(* Helpers *)

At(t, label) == pc[t] = label
Goto(t, label) == pc' = [pc EXCEPT ![t] = label]
Elements(s) == {s[i] : i \in DOMAIN s}

\* The elements of s that are in S, in their order.
Kept(s, S) ==
  LET I == {i \in DOMAIN s : s[i] \in S}
      Nth(k) == CHOOSE i \in I : Cardinality({j \in I : j <= i}) = k
  IN  [k \in 1 .. Cardinality(I) |-> s[Nth(k)]]
Alive(s) == Kept(s, live)

\* pushRequest, on a queue: each kind is queued at most once.
Pushed(q, kind) == IF kind \in Elements(q) THEN q ELSE Append(q, kind)

\* Where a thread goes when processRequestQueue returns.
Returned(t) ==
  CASE t \in owed -> "complete"
    [] t \notin owed /\ t = Io -> "return"
    [] OTHER -> "idle"

\* How much of a list a send with room for quota problems takes off its front:
\* an element goes if there was room when the loop reached it; dead ones need none.
TakenLen(s, quota) ==
  Cardinality({i \in DOMAIN s : Cardinality({j \in 1 .. i - 1 : s[j] \in live}) < quota})

Taken(s, quota) == Alive(SubSeq(s, 1, TakenLen(s, quota)))
\* Mutant: one element too many is erased.
Left_OffByOne(s, quota) == SubSeq(s, TakenLen(s, quota) + 2, Len(s))

Left(s, quota) == SubSeq(s, TakenLen(s, quota) + 1, Len(s))

-----------------------------------------------------------------------------
(* processRequestQueue *)

\* The loop's head, reached with free slots: take a slot and a request type, or
\* leave the loop.
Loop(t, free) ==
  IF free > 0 /\ requestQueue # <<>>
  THEN /\ available' = free - 1
       /\ requestQueue' = Tail(requestQueue)
       /\ out' = [out EXCEPT ![t] = [NoRequest EXCEPT !.kind = Head(requestQueue)]]
       /\ Goto(t, "take")
  ELSE /\ available' = free
       /\ out' = [out EXCEPT ![t] = NoRequest]
       /\ Goto(t, Returned(t))
       /\ UNCHANGED requestQueue

\* Entry: the retry state is looked at here only, not in the loop.
Enter(t) ==
  /\ At(t, "enter")
  /\ IF retryState = "WAITING_TO_RETRY"
     THEN Goto(t, Returned(t)) /\ UNCHANGED <<requestQueue, available, out>>
     ELSE Loop(t, available)
  /\ UNCHANGED <<userVars, listVars, retryState, inflight, job, owed, timerVars>>

\* send...Request, the part under the list's mutex.
TakeProblems(t) ==
  /\ At(t, "take")
  /\ \/ /\ out[t].kind = "SUBMIT"
        /\ LET quota == MaxProblemsPerSubmission IN
           /\ out' = [out EXCEPT ![t].probs = Taken(unsubmitted, quota),
                                 ![t].more = Left(unsubmitted, quota) # <<>>]
           /\ unsubmitted' = Left(unsubmitted, quota)
        /\ UNCHANGED active
     \/ /\ out[t].kind = "STATUS"
        /\ LET quota == MaxIdsPerStatusQuery IN
           /\ out' = [out EXCEPT ![t].probs = Taken(active, quota),
                                 ![t].more = Left(active, quota) # <<>>]
           /\ active' = Left(active, quota)
        /\ UNCHANGED unsubmitted
  /\ Goto(t, "issue")
  /\ UNCHANGED <<userVars, cancelIds, fetches, queueVars, inflight, job, owed, timerVars>>

TakeCancels(t) ==
  /\ At(t, "take") /\ out[t].kind = "CANCEL"
  /\ out' = [out EXCEPT ![t].ids = cancelIds]
  /\ cancelIds' = {}
  /\ Goto(t, "issue")
  /\ UNCHANGED <<userVars, unsubmitted, active, fetches, queueVars, inflight, job,
                 owed, timerVars>>

\* Mutant: the fetch is sent but not taken off the queue.
TakeFetch_NotPopped(t) ==
  /\ At(t, "take") /\ out[t].kind = "ANSWER"
  /\ Goto(t, "issue")
  /\ out' = IF fetches = <<>> THEN out ELSE [out EXCEPT ![t].fetch = Head(fetches)]
  /\ UNCHANGED <<userVars, listVars, queueVars, inflight, job, owed, timerVars>>

TakeFetch(t) ==
  /\ At(t, "take") /\ out[t].kind = "ANSWER"
  /\ IF fetches = <<>>
     THEN Goto(t, "issue") /\ UNCHANGED <<out, fetches>>
     ELSE /\ out' = [out EXCEPT ![t].fetch = Head(fetches), ![t].more = Len(fetches) > 1]
          /\ fetches' = Tail(fetches)
          /\ Goto(t, "issue")
  /\ UNCHANGED <<userVars, unsubmitted, active, cancelIds, queueVars, inflight, job,
                 owed, timerVars>>

\* There is something to send; a cancel request goes out even without ids.
Sendable(req) ==
  CASE req.kind \in StatusKinds -> req.probs # <<>>
    [] req.kind = "ANSWER"      -> req.fetch # NoFetch
    [] OTHER                    -> TRUE

\* The service takes a request; which free name it gets is of no importance.
FreeConn == CHOOSE c \in Conns : c \notin DOMAIN inflight
Open(req) ==
  /\ Conns \ DOMAIN inflight # {}
  /\ inflight' = [c \in DOMAIN inflight \cup {FreeConn} |->
                   IF c = FreeConn THEN req ELSE inflight[c]]

\* Mutant: what is left on the list is not asked for again.
Issue_NoFurtherRequest(t) ==
  /\ At(t, "issue")
  /\ IF Sendable(out[t])
     THEN /\ Open([out[t] EXCEPT !.more = FALSE])
          /\ Goto(t, "sent")
     ELSE UNCHANGED inflight /\ Goto(t, "unsent")
  /\ out' = [out EXCEPT ![t] = NoRequest]
  /\ UNCHANGED <<userVars, listVars, queueVars, job, owed, timerVars>>

\* send...Request, the rest: ask for another turn if the list was not emptied,
\* then call the SAPI service.  Only the push needs a mutex, and nobody sees the
\* call before its reply, so both are one step.
Issue(t) ==
  /\ At(t, "issue")
  /\ requestQueue' = IF out[t].more THEN Pushed(requestQueue, out[t].kind) ELSE requestQueue
  /\ IF Sendable(out[t])
     THEN /\ Open([out[t] EXCEPT !.more = FALSE])
          /\ Goto(t, "sent")
     ELSE UNCHANGED inflight /\ Goto(t, "unsent")
  /\ out' = [out EXCEPT ![t] = NoRequest]
  /\ UNCHANGED <<userVars, listVars, available, retryState, job, owed, timerVars>>

\* Back under requestMutex_ after a request was made.
Sent(t) ==
  /\ At(t, "sent")
  /\ retryState' = IF retryState = "RETRY_NOW" THEN "WAITING_TO_RETRY" ELSE retryState
  /\ Loop(t, available)
  /\ UNCHANGED <<userVars, listVars, inflight, job, owed, timerVars>>

\* Mutants: the slot is not given back; the retry state is changed although
\* nothing was sent.
Unsent_LosesSlot(t) ==
  /\ At(t, "unsent")
  /\ Loop(t, available)
  /\ UNCHANGED <<userVars, listVars, retryState, inflight, job, owed, timerVars>>
Unsent_WaitsAgain(t) ==
  /\ At(t, "unsent")
  /\ retryState' = IF retryState = "RETRY_NOW" THEN "WAITING_TO_RETRY" ELSE retryState
  /\ Loop(t, available + 1)
  /\ UNCHANGED <<userVars, listVars, inflight, job, owed, timerVars>>

\* Back under requestMutex_ when there was nothing to send.
Unsent(t) ==
  /\ At(t, "unsent")
  /\ Loop(t, available + 1)
  /\ UNCHANGED <<userVars, listVars, retryState, inflight, job, owed, timerVars>>

-----------------------------------------------------------------------------
(* Replies *)

\* The service answers the open request on connection c, and t, a thread of its
\* pool, starts the callback.
Reply(t, c, outcome) ==
  /\ At(t, "idle") /\ t # Io
  /\ c \in DOMAIN inflight
  /\ job' = [job EXCEPT ![t] = [req |-> inflight[c], outcome |-> outcome]]
  /\ inflight' = [d \in DOMAIN inflight \ {c} |-> inflight[d]]
  /\ owed' = owed \cup {t}
  /\ Goto(t, CASE outcome = "network" -> "retry"
               [] outcome = "other" /\ inflight[c].kind \in StatusKinds -> "fail"
               [] OTHER -> "stop")
  /\ UNCHANGED <<userVars, listVars, queueVars, out, timerVars>>

\* Mutant: the timer is only half reset.
StopRetrying_KeepsWait(t) ==
  /\ At(t, "stop")
  /\ waiting' = FALSE
  /\ retryState' = "NO_RETRY"
  /\ Goto(t, CASE job[t].outcome = "ok" /\ job[t].req.kind \in StatusKinds -> "update"
               [] job[t].req.kind = "ANSWER" -> "deliver"
               [] OTHER -> "complete")
  /\ UNCHANGED <<userVars, listVars, requestQueue, available, inflight, job, out, owed,
                 present, fail, failOnExpiry, nextDelay, armed, expired, notifying>>

\* stopRetrying
StopRetrying(t) ==
  /\ At(t, "stop")
  /\ IF retryState # "NO_RETRY"
     THEN Timer!Success /\ retryState' = "NO_RETRY"
     ELSE UNCHANGED <<retryState, timerVars>>
  /\ Goto(t, CASE job[t].outcome = "ok" /\ job[t].req.kind \in StatusKinds -> "update"
               [] job[t].req.kind = "ANSWER" -> "deliver"
               [] OTHER -> "complete")
  /\ UNCHANGED <<userVars, listVars, requestQueue, available, inflight, job, out, owed>>

\* retryFailedRequest, and the branch its caller takes on the result.
RetryFailedRequest(t) ==
  /\ At(t, "retry")
  /\ Timer!Retry
  /\ retryState' = CASE Timer!RetryAction = "SHUTDOWN" -> "NO_RETRY"
                     [] Timer!RetryAction # "SHUTDOWN" /\ retryState = "RETRY_NOW" -> "RETRY_NOW"
                     [] OTHER -> "WAITING_TO_RETRY"
  /\ LET retry == Timer!RetryAction = "RETRY" IN
     /\ job' = [job EXCEPT ![t].outcome = IF retry THEN "retry" ELSE "giveup"]
     /\ Goto(t, CASE job[t].req.kind \in StatusKinds -> "fail"
                  [] job[t].req.kind = "CANCEL" -> IF retry THEN "recancel" ELSE "complete"
                  [] OTHER -> IF retry THEN "refetch" ELSE "deliver")
  /\ UNCHANGED <<userVars, listVars, requestQueue, available, inflight, out, owed>>

\* statusComplete: what the server says of each problem that is still held.  A
\* submission may also be rejected, without an id.  Problems that are not done
\* stay in the job.
StatusComplete(t) ==
  /\ At(t, "update")
  /\ LET held == Elements(job[t].req.probs) \cap live
         submit == job[t].req.kind = "SUBMIT"
     IN \E status \in [held -> {"PENDING", "COMPLETED", "FAILED"}],
           rejected \in SUBSET (IF submit THEN held ELSE {}) :
          /\ \A p \in rejected : status[p] = "FAILED"
          /\ prob' = [p \in Problems |->
               IF p \in held
               THEN WithStatus(IF submit THEN WithId(prob[p], p \notin rejected) ELSE prob[p],
                               status[p])
               ELSE prob[p]]
          /\ LET open == Kept(job[t].req.probs, {p \in held : status[p] = "PENDING"})
             IN /\ job' = [job EXCEPT ![t].req.probs = open]
                /\ Goto(t, IF open = <<>> THEN "complete" ELSE "cancelcheck")
  /\ UNCHANGED <<usage, live, answers, listVars, queueVars, inflight, out, owed, timerVars>>

\* failSubmittedProblems; problems that are not retried leave the job.
FailProblems(t) ==
  /\ At(t, "fail")
  /\ LET retry == job[t].outcome = "retry"
         error == IF job[t].outcome = "other" THEN "OTHER" ELSE "NETWORK"
         held == Elements(job[t].req.probs) \cap live
     IN /\ prob' = [p \in Problems |->
                     IF p \in held THEN WithError(prob[p], error, retry) ELSE prob[p]]
        /\ job' = IF retry THEN job ELSE [job EXCEPT ![t].req.probs = <<>>]
        /\ Goto(t, CASE retry -> IF job[t].req.kind = "SUBMIT" THEN "resubmit" ELSE "cancelcheck"
                     [] job[t].outcome = "giveup" -> "complete"
                     [] OTHER -> "stop")
  /\ UNCHANGED <<usage, live, answers, listVars, queueVars, inflight, out, owed, timerVars>>

\* Mutant: the flag is reset but the id is not kept.
CheckCancelled_ForgetsId(t) ==
  /\ At(t, "cancelcheck")
  /\ LET cancels == {p \in Elements(job[t].req.probs) \cap live : prob[p].cancelled} IN
     /\ prob' = [p \in Problems |->
                  IF p \in cancels THEN [prob[p] EXCEPT !.cancelled = FALSE] ELSE prob[p]]
     /\ Goto(t, IF cancels = {} THEN "requeue" ELSE "pushcancel")
  /\ UNCHANGED <<usage, live, answers, listVars, queueVars, inflight, job, out, owed, timerVars>>

\* queueActiveProblems, first part: checkCancelled on each problem.
CheckCancelled(t) ==
  /\ At(t, "cancelcheck")
  /\ LET cancels == {p \in Elements(job[t].req.probs) \cap live : prob[p].cancelled} IN
     /\ cancelIds' = cancelIds \cup cancels
     /\ prob' = [p \in Problems |->
                  IF p \in cancels THEN [prob[p] EXCEPT !.cancelled = FALSE] ELSE prob[p]]
     /\ Goto(t, IF cancels = {} THEN "requeue" ELSE "pushcancel")
  /\ UNCHANGED <<usage, live, answers, unsubmitted, active, fetches, queueVars, inflight, job,
                 out, owed, timerVars>>

PushCancel(t) ==
  /\ At(t, "pushcancel")
  /\ requestQueue' = Pushed(requestQueue, "CANCEL")
  /\ Goto(t, "requeue")
  /\ UNCHANGED <<userVars, listVars, available, retryState, inflight, job, out, owed,
                 timerVars>>

\* queueActiveProblems, last part: insertion and push under activeProblemMutex_.
\* After a failure the problems go to the front.
QueueActive(t) ==
  /\ At(t, "requeue")
  /\ LET probs == job[t].req.probs IN
     active' = IF job[t].outcome = "retry" THEN probs \o active ELSE active \o probs
  /\ requestQueue' = Pushed(requestQueue, "STATUS")
  /\ job' = [job EXCEPT ![t] = NoJob]
  /\ Goto(t, "complete")
  /\ UNCHANGED <<userVars, unsubmitted, cancelIds, fetches, available, retryState,
                 inflight, out, owed, timerVars>>

\* Mutant: the submit request is not queued again.
RetrySubmit_NoPush(t) ==
  /\ At(t, "resubmit")
  /\ unsubmitted' = job[t].req.probs \o unsubmitted
  /\ job' = [job EXCEPT ![t].req.probs = <<>>]
  /\ Goto(t, "enter")
  /\ UNCHANGED <<userVars, active, cancelIds, fetches, queueVars, inflight, out, owed,
                 timerVars>>

\* retrySubmit, up to the push.
RetrySubmit(t) ==
  /\ At(t, "resubmit")
  /\ unsubmitted' = job[t].req.probs \o unsubmitted
  /\ job' = [job EXCEPT ![t].req.probs = <<>>]
  /\ Goto(t, "push")
  /\ UNCHANGED <<userVars, active, cancelIds, fetches, queueVars, inflight, out, owed,
                 timerVars>>

\* retryCancel, up to the push.
RetryCancel(t) ==
  /\ At(t, "recancel")
  /\ cancelIds' = cancelIds \cup job[t].req.ids
  /\ Goto(t, IF cancelIds' = {} THEN "enter" ELSE "push")
  /\ UNCHANGED <<userVars, unsubmitted, active, fetches, queueVars, inflight, job, out,
                 owed, timerVars>>

\* fetchAnswer, up to the push; called by users and after a failed fetch.
FetchAnswer(t) ==
  /\ At(t, "refetch")
  /\ fetches' = Append(fetches, job[t].req.fetch)
  /\ job' = [job EXCEPT ![t].req.fetch = NoFetch]
  /\ Goto(t, "push")
  /\ UNCHANGED <<userVars, unsubmitted, active, cancelIds, queueVars, inflight, out, owed,
                 timerVars>>

\* postAnswer or postAnswerError: the callback is used up.
DeliverAnswer(t) ==
  /\ At(t, "deliver")
  /\ answers' = [answers EXCEPT ![job[t].req.fetch] = "done"]
  /\ job' = [job EXCEPT ![t].req.fetch = NoFetch]
  /\ Goto(t, "complete")
  /\ UNCHANGED <<usage, prob, live, listVars, queueVars, inflight, out, owed, timerVars>>

\* push...Request for the list the thread has just added to; then
\* processRequestQueue.
Push(t) ==
  /\ At(t, "push")
  /\ requestQueue' = Pushed(requestQueue, job[t].req.kind)
  /\ job' = [job EXCEPT ![t] = NoJob]
  /\ Goto(t, "enter")
  /\ UNCHANGED <<userVars, listVars, available, retryState, inflight, out, owed, timerVars>>

\* Mutant: the slot is freed but the queue is not processed.
RequestComplete_NoProcessing(t) ==
  /\ At(t, "complete")
  /\ available' = available + 1
  /\ owed' = owed \ {t}
  /\ job' = [job EXCEPT ![t] = NoJob]
  /\ Goto(t, "idle")
  /\ UNCHANGED <<userVars, listVars, requestQueue, retryState, inflight, out, timerVars>>

\* requestComplete: free the slot; then processRequestQueue.
RequestComplete(t) ==
  /\ At(t, "complete")
  /\ available' = available + 1
  /\ owed' = owed \ {t}
  /\ job' = [job EXCEPT ![t] = NoJob]
  /\ Goto(t, "enter")
  /\ UNCHANGED <<userVars, listVars, requestQueue, retryState, inflight, out, timerVars>>

-----------------------------------------------------------------------------
(* The retry timer's thread *)

AsioStep ==
  /\ Timer!Expire \/ Timer!TimerExpired
  /\ UNCHANGED <<userVars, listVars, queueVars, inflight, pc, job, out, owed>>

\* retryNotification.  With PromptSenders no notification comes while a thread
\* is between making a request and having requestMutex_ back: the shortest delay
\* is milliseconds long, that stretch of code a few instructions.  The code does
\* not enforce it.
RetryNotification ==
  /\ notifying /\ At(Io, "idle")
  /\ PromptSenders => \A t \in Everyone : ~At(t, "sent")
  /\ retryState' = "RETRY_NOW"
  /\ Goto(Io, "enter")
  /\ UNCHANGED <<userVars, listVars, requestQueue, available, inflight, job, out, owed,
                 timerVars>>

NotificationReturns ==
  /\ At(Io, "return")
  /\ Timer!NotifyReturn
  /\ Goto(Io, "idle")
  /\ UNCHANGED <<userVars, listVars, queueVars, inflight, job, out, owed>>

-----------------------------------------------------------------------------
(* Calls *)

Creatable(p) ==
  /\ prob[p].state = "NEW"
  /\ Cardinality({q \in Problems : prob[q].state # "NEW"}) < usage.problems

\* submitProblem, up to the push.
Submit(t, p) ==
  /\ "submit" \in usage.calls
  /\ At(t, "idle") /\ t # Io
  /\ Creatable(p)
  /\ prob' = [prob EXCEPT ![p] = SubmittingProblem]
  /\ live' = live \cup {p}
  /\ unsubmitted' = Append(unsubmitted, p)
  /\ job' = [job EXCEPT ![t] = Call([NoRequest EXCEPT !.kind = "SUBMIT"])]
  /\ Goto(t, "push")
  /\ UNCHANGED <<usage, answers, active, cancelIds, fetches, queueVars, inflight, out, owed,
                 timerVars>>

\* addProblem, up to the push.
Add(t, p) ==
  /\ "add" \in usage.calls
  /\ At(t, "idle") /\ t # Io
  /\ Creatable(p)
  /\ prob' = [prob EXCEPT ![p] = AddedProblem]
  /\ live' = live \cup {p}
  /\ active' = Append(active, p)
  /\ job' = [job EXCEPT ![t] = Call([NoRequest EXCEPT !.kind = "STATUS"])]
  /\ Goto(t, "push")
  /\ UNCHANGED <<usage, answers, unsubmitted, cancelIds, fetches, queueVars, inflight, out, owed,
                 timerVars>>

\* Mutant: a retry always submits again.
Retry_AlwaysSubmits(t, p) ==
  /\ "retry" \in usage.calls
  /\ At(t, "idle") /\ t # Io
  /\ p \in live /\ Retryable(prob[p])
  /\ prob' = [prob EXCEPT ![p] = WithRetry(@)]
  /\ job' = [job EXCEPT ![t] = Call([NoRequest EXCEPT !.kind = "SUBMIT", !.probs = <<p>>])]
  /\ Goto(t, "readd")
  /\ UNCHANGED <<usage, live, answers, listVars, queueVars, inflight, out, owed, timerVars>>

\* retry(), the part under the problem's mutex.
Retry(t, p) ==
  /\ "retry" \in usage.calls
  /\ At(t, "idle") /\ t # Io
  /\ p \in live /\ Retryable(prob[p])
  /\ prob' = [prob EXCEPT ![p] = WithRetry(@)]
  /\ LET kind == IF prob[p].lastGood = "SUBMITTING" THEN "SUBMIT" ELSE "STATUS" IN
     job' = [job EXCEPT ![t] = Call([NoRequest EXCEPT !.kind = kind, !.probs = <<p>>])]
  /\ Goto(t, "readd")
  /\ UNCHANGED <<usage, live, answers, listVars, queueVars, inflight, out, owed, timerVars>>

\* addSubmittedProblem, up to the push.
AddSubmittedProblem(t) ==
  /\ At(t, "readd")
  /\ IF job[t].req.kind = "SUBMIT"
     THEN unsubmitted' = unsubmitted \o job[t].req.probs /\ UNCHANGED active
     ELSE active' = active \o job[t].req.probs /\ UNCHANGED unsubmitted
  /\ job' = [job EXCEPT ![t].req.probs = <<>>]
  /\ Goto(t, "push")
  /\ UNCHANGED <<userVars, cancelIds, fetches, queueVars, inflight, out, owed, timerVars>>

\* answer(callback)
Answer(t, p, f) ==
  /\ "answer" \in usage.calls
  /\ At(t, "idle") /\ t # Io
  /\ p \in live
  /\ answers[f] = "unused"
  /\ IF Answerable(prob[p])
     THEN /\ answers' = [answers EXCEPT ![f] = "waiting"]
          /\ job' = [job EXCEPT ![t] = Call([NoRequest EXCEPT !.kind = "ANSWER", !.fetch = f])]
          /\ Goto(t, "refetch")
     ELSE /\ answers' = [answers EXCEPT ![f] = "done"]
          /\ UNCHANGED <<job, pc>>
  /\ UNCHANGED <<usage, prob, live, listVars, queueVars, inflight, out, owed, timerVars>>

\* cancel() only sets a flag.
Cancel(p) ==
  /\ "cancel" \in usage.calls
  /\ p \in live
  /\ prob' = [prob EXCEPT ![p].cancelled = TRUE]
  /\ UNCHANGED <<usage, live, answers, listVars, queueVars, inflight, pc, job, out, owed, timerVars>>

\* The last user pointer to p goes away; a retry() under way still holds one.
Drop(p) ==
  /\ "drop" \in usage.calls
  /\ p \in live
  /\ \A t \in Threads : At(t, "readd") => p \notin Elements(job[t].req.probs)
  /\ live' = live \ {p}
  /\ UNCHANGED <<usage, prob, answers, listVars, queueVars, inflight, pc, job, out, owed, timerVars>>

-----------------------------------------------------------------------------

\* One step of thread t in code it has already entered.
Step(t) ==
  \/ Enter(t) \/ TakeProblems(t) \/ TakeCancels(t) \/ TakeFetch(t)
  \/ Issue(t) \/ Sent(t) \/ Unsent(t)
  \/ StopRetrying(t) \/ RetryFailedRequest(t) \/ StatusComplete(t) \/ FailProblems(t)
  \/ CheckCancelled(t) \/ PushCancel(t) \/ QueueActive(t)
  \/ RetrySubmit(t) \/ RetryCancel(t) \/ FetchAnswer(t) \/ DeliverAnswer(t)
  \/ Push(t) \/ AddSubmittedProblem(t) \/ RequestComplete(t)

UserCall ==
  \/ \E t \in Threads, p \in Problems : Submit(t, p) \/ Add(t, p) \/ Retry(t, p)
  \/ \E t \in Threads, p \in Problems, f \in Fetches : Answer(t, p, f)
  \/ \E p \in Problems : Cancel(p) \/ Drop(p)

ServiceReply ==
  \E t \in Threads, c \in Conns, outcome \in {"ok", "network", "other"} : Reply(t, c, outcome)

Next ==
  \/ \E t \in Everyone : Step(t)
  \/ UserCall
  \/ ServiceReply
  \/ AsioStep
  \/ RetryNotification
  \/ NotificationReturns

\* Threads run, the service answers every request (curl has a time limit) and
\* asio's clock advances; users need not call anything.  RetryNotification needs
\* strong fairness only because of PromptSenders, which may disable it for
\* moments.
Fairness ==
  /\ \A t \in Everyone : WF_vars(Step(t))
  /\ \A c \in Conns : WF_vars(\E t \in Threads, outcome \in {"ok", "network", "other"} :
                                 Reply(t, c, outcome))
  /\ WF_vars(AsioStep)
  /\ SF_vars(RetryNotification)
  /\ WF_vars(NotificationReturns)

Spec == Init /\ [][Next]_vars
FairSpec == Spec /\ Fairness

-----------------------------------------------------------------------------
(* Properties *)

\* Request slots are neither lost nor created: each of the MaxActiveRequests
\* slots is free, or belongs to an open request, to a thread that is about to
\* send, or to a callback that has not called requestComplete yet.
Senders == {t \in Everyone : pc[t] \in SenderPcs}
SlotsAccounted ==
  available + Cardinality(DOMAIN inflight) + Cardinality(Senders) + Cardinality(owed)
    = MaxActiveRequests

CountIn(s, p) == Cardinality({i \in DOMAIN s : s[i] = p})

\* A problem somebody holds is on its way in exactly one place while it is
\* SUBMITTING, SUBMITTED or RETRYING, and nowhere once it is DONE or FAILED: no
\* interleaving of calls, replies and retries loses a problem or polls it twice.
Places(p) ==
  CountIn(unsubmitted, p) + CountIn(active, p)
    + Cardinality({c \in DOMAIN inflight : p \in Elements(inflight[c].probs)})
    + Cardinality({t \in Everyone : p \in Elements(out[t].probs)})
    + Cardinality({t \in Everyone : p \in Elements(job[t].req.probs)})
ProblemInOnePlace ==
  \A p \in live : Places(p) = IF Pending(prob[p]) THEN 1 ELSE 0

\* The same for answer callbacks: one that was accepted is queued, being sent,
\* open or being handled in exactly one place until it has been used, once.
FetchInOnePlace ==
  \A f \in Fetches :
    CountIn(fetches, f)
      + Cardinality({c \in DOMAIN inflight : inflight[c].fetch = f})
      + Cardinality({t \in Everyone : out[t].fetch = f})
      + Cardinality({t \in Everyone : job[t].req.fetch = f})
    = IF answers[f] = "waiting" THEN 1 ELSE 0

\* A problem the server has accepted is never submitted again, however often it
\* failed and was retried since, and only problems that have an id are polled or
\* cancelled on the server, although cancel() may be called before that.
SubmittedOnceThenPolled ==
  \A p \in live :
    /\ (\/ p \in Elements(unsubmitted)
        \/ \E c \in DOMAIN inflight :
             inflight[c].kind = "SUBMIT" /\ p \in Elements(inflight[c].probs))
       => prob[p].lastGood = "SUBMITTING" /\ ~prob[p].hasId
    /\ (\/ p \in Elements(active)
        \/ \E c \in DOMAIN inflight :
             inflight[c].kind = "STATUS" /\ p \in Elements(inflight[c].probs))
       => prob[p].lastGood = "SUBMITTED" /\ prob[p].hasId
    /\ (p \in cancelIds \/ \E c \in DOMAIN inflight : p \in inflight[c].ids) => prob[p].hasId

\* A list with something on it has its request type queued, or a thread is on
\* its way to queue it or is just about to look at the list: no wakeup is lost.
Requested(kind) ==
  \/ kind \in Elements(requestQueue)
  \/ \E t \in Everyone :
       \/ At(t, "push") /\ job[t].req.kind = kind
       \/ At(t, "pushcancel") /\ kind = "CANCEL"
       \/ At(t, "take") /\ out[t].kind = kind
       \/ At(t, "issue") /\ out[t].kind = kind /\ out[t].more
WorkIsRequested ==
  /\ unsubmitted # <<>> => Requested("SUBMIT")
  /\ active # <<>> => Requested("STATUS")
  /\ cancelIds # {} => Requested("CANCEL")
  /\ fetches # <<>> => Requested("ANSWER")

\* Outside a retry wait a queued request with a free slot has a thread that will
\* come by processRequestQueue.
Busy(t) == pc[t] \notin {"idle", "return"}
QueueServed ==
  requestQueue # <<>> /\ available > 0 /\ retryState # "WAITING_TO_RETRY"
    => \E t \in Everyone : Busy(t)

\* Queued requests have somebody who will come back to them: a thread at work,
\* the reply to an open request, or a notification of the timer.  This needs
\* PromptSenders.
TimerWillNotify == armed > 0 \/ expired > 0 \/ (notifying /\ At(Io, "idle"))
SomebodyWillCome ==
  (\E t \in Everyone : Busy(t)) \/ DOMAIN inflight # {} \/ TimerWillNotify
QueueHasWaker == requestQueue # <<>> => SomebodyWillCome

\* "SAPI_STATE_RETRYING: ... submission/polling is being retried": a problem in
\* that state is not simply left there.  Without PromptSenders the code breaks
\* this: a sender that gets requestMutex_ back after the reply to its request
\* has started a retry wait, and after that wait has ended, takes the
\* notification for its own and goes on waiting for one that never comes.
Retrying(p) == p \in live /\ prob[p].state = "RETRYING"
RetryingIsScheduled == \A p \in Problems : Retrying(p) => SomebodyWillCome

\* When the manager is not retrying its timer is as new: the next network
\* failure is never taken for the last of a series and starts a wait of its own.
NoRetryMeansFreshTimer ==
  retryState = "NO_RETRY" => ~waiting /\ ~fail /\ ~failOnExpiry /\ nextDelay = InitDelay

\* The manager and the timer's thread use the timer as RetryTimer says: every
\* step is a step of the timer or leaves it alone.
TimerSpec == Timer!Spec

\* DONE is final and the last good state never goes back.
Rank(state) == CASE state = "NEW" -> 0 [] state = "SUBMITTING" -> 1
                 [] state = "SUBMITTED" -> 2 [] OTHER -> 3
ProgressIsKept ==
  [][\A p \in Problems :
       /\ Rank(prob[p].lastGood) <= Rank(prob'[p].lastGood)
       /\ prob[p].state = "DONE" => prob'[p].state = "DONE"]_vars

\* "RETRYING: ... submission/polling is being retried": a problem that is
\* RETRYING, while held, goes out in another request or leaves that state.
OnTheWire(p) == \E c \in DOMAIN inflight : p \in Elements(inflight[c].probs)
RetryingIsRetried == \A p \in Problems : Retrying(p) ~> (OnTheWire(p) \/ ~Retrying(p))

\* A cancel() of a problem the server has accepted is passed on to the server,
\* unless the problem ends or is dropped first.
CancelIsSent ==
  \A p \in Problems :
    (p \in live /\ prob[p].cancelled /\ prob[p].hasId)
      ~> (\/ \E c \in DOMAIN inflight : p \in inflight[c].ids
          \/ p \notin live \/ Final(prob[p]))
=============================================================================
