------------------------------- MODULE Await -------------------------------
(***************************************************************************)
(* awaitSubmission and awaitCompletion (remote/src/await.cpp), the         *)
(* observers of submitted problems (remote/src/problem-manager.cpp) and    *)
(* the answer service that carries the notifications to a thread pool      *)
(* (remote/src/answer-service.cpp).                                        *)
(*                                                                         *)
(* A wait adds one observer to each of its problems and then blocks on a   *)
(* counter.  Problems move as the replies of the server make them move;    *)
(* each move posts notifications; pool threads run them in any order.      *)
(*                                                                         *)
(* Abstractions.  Reading a problem under its mutex and posting after it   *)
(* is one step: a notification may stay in the pool for any time anyway.   *)
(* Equal notifications that are posted twice are kept once: the second     *)
(* finds done_ set.  The end time is a choice: a blocked wait may time out *)
(* at any moment if MayTimeOut says so.                                    *)
(***************************************************************************)
EXTENDS SubmittedProblem, Integers, FiniteSets

CONSTANTS
  Watched,      \* problems
  Waits,        \* calls of awaitSubmission and awaitCompletion
  MinDones,     \* values passed as mindone to awaitCompletion
  MayTimeOut

ASSUME WaitsAssumption ==
  /\ IsFiniteSet(Watched)
  /\ MinDones \subseteq Int
  /\ MayTimeOut \in BOOLEAN

VARIABLES
  rec,        \* the SubmittedProblemImpl records
  replying,   \* problems whose submission reply has been handled half
  observers,  \* observers_, per problem: the waits with an observer there
  posted,     \* notifications in the answer service's pool
  asked,      \* the problems passed to a call
  goal,       \* what a call waits for: problems "submitted" or "over"
  need,       \* how many of them
  fired,      \* done_ of the observer of a wait on a problem
  counting,   \* observers that have set done_ but not counted yet
  remaining,  \* remaining_ of each wait's counter
  todo,       \* problems a wait has yet to add its observer to
  wpc,        \* where each wait is
  reached     \* history: what each problem has been through

callVars == <<asked, goal, need, todo, wpc>>
noticeVars == <<fired, counting, remaining>>
awaitVars == <<rec, replying, observers, posted, callVars, noticeVars, reached>>

Events == {"submitted", "done", "error"}
Returned(w) == wpc[w] \in {"true", "false"}

AwaitTypeOK ==
  /\ rec \in [Watched -> ProblemType]
  /\ replying \subseteq Watched
  /\ observers \in [Watched -> SUBSET Waits]
  /\ posted \subseteq Waits \X Watched \X Events
  /\ asked \in [Waits -> SUBSET Watched]
  /\ goal \in [Waits -> {"submitted", "over"}]
  /\ need \in [Waits -> Int]
  /\ fired \subseteq Waits \X Watched
  /\ counting \subseteq Waits \X Watched
  /\ remaining \in [Waits -> Int]
  /\ todo \in [Waits -> SUBSET Watched]
  /\ wpc \in [Waits -> {"idle", "adding", "blocked", "woken", "true", "false"}]
  /\ reached \subseteq Watched \X {"submitted", "over"}

AwaitInit ==
  /\ rec = [p \in Watched |-> SubmittingProblem]
  /\ replying = {}
  /\ observers = [p \in Watched |-> {}]
  /\ posted = {}
  /\ asked = [w \in Waits |-> {}]
  /\ goal = [w \in Waits |-> "over"]
  /\ need = [w \in Waits |-> 0]
  /\ fired = {}
  /\ counting = {}
  /\ remaining = [w \in Waits |-> 0]
  /\ todo = [w \in Waits |-> {}]
  /\ wpc = [w \in Waits |-> "idle"]
  /\ reached = {}

-----------------------------------------------------------------------------
(* The problem's side *)

\* liveObservers: the observers of a wait that has returned are gone unless a
\* posted notification still holds them.
LiveObservers(p) ==
  {w \in observers[p] : ~Returned(w) \/ \E e \in Events : <<w, p, e>> \in posted}

\* postSubmitted, postDone, postError to some observers of p.
Post(p, waits, events) == posted' = posted \cup {<<w, p, e>> : w \in waits, e \in events}

\* setProblemId; the server gives a problem that it rejects no id.
SetProblemId(p, given) ==
  /\ rec[p].lastGood = "SUBMITTING" /\ Pending(rec[p]) /\ p \notin replying
  /\ rec' = [rec EXCEPT ![p] = WithId(@, given)]
  /\ replying' = replying \cup {p}
  /\ observers' = [observers EXCEPT ![p] = LiveObservers(p)]
  /\ Post(p, LiveObservers(p), {"submitted"})
  /\ reached' = reached \cup {<<p, "submitted">>}
  /\ UNCHANGED <<noticeVars, callVars>>

\* updateStatus, for a problem that has its id or is in the second half of its
\* submission's reply.
ProblemUpdated(p, status) ==
  /\ Pending(rec[p])
  /\ p \in replying \/ rec[p].hasId
  /\ rec[p].hasId \/ status = "FAILED"
  /\ replying' = replying \ {p}
  /\ rec' = [rec EXCEPT ![p] = WithStatus(@, status)]
  /\ IF status = "PENDING"
     THEN UNCHANGED <<observers, posted, reached>>
     ELSE /\ observers' = [observers EXCEPT ![p] = LiveObservers(p)]
          /\ Post(p, LiveObservers(p), {IF status = "COMPLETED" THEN "done" ELSE "error"})
          /\ reached' = reached \cup {<<p, "over">>, <<p, "submitted">>}
  /\ UNCHANGED <<noticeVars, callVars>>

\* setError for a failed request.  A request that will be retried tells nobody.
ProblemError(p, retry) ==
  /\ Pending(rec[p]) /\ p \notin replying
  /\ rec' = [rec EXCEPT ![p] = WithError(@, "NETWORK", retry)]
  /\ IF retry
     THEN UNCHANGED <<observers, posted, reached>>
     ELSE /\ observers' = [observers EXCEPT ![p] = LiveObservers(p)]
          /\ Post(p, LiveObservers(p), {"error"})
          /\ reached' = reached \cup {<<p, "over">>, <<p, "submitted">>}
  /\ UNCHANGED <<replying, noticeVars, callVars>>

\* retry()
RetryProblem(p) ==
  /\ Retryable(rec[p])
  /\ rec' = [rec EXCEPT ![p] = WithRetry(@)]
  /\ UNCHANGED <<replying, observers, posted, noticeVars, callVars, reached>>

-----------------------------------------------------------------------------
(* The wait's side *)

\* awaitEvents up to the first observer, for awaitSubmission (which needs all
\* problems) or awaitCompletion (whose mindone is cut to their number).
AwaitEvents(w, problems, for, minDone) ==
  /\ wpc[w] = "idle"
  /\ wpc' = [wpc EXCEPT ![w] = "adding"]
  /\ asked' = [asked EXCEPT ![w] = problems]
  /\ goal' = [goal EXCEPT ![w] = for]
  /\ need' = [need EXCEPT ![w] =
       IF for = "submitted" \/ minDone > Cardinality(problems)
       THEN Cardinality(problems) ELSE minDone]
  /\ remaining' = [remaining EXCEPT ![w] = need'[w]]
  /\ todo' = [todo EXCEPT ![w] = problems]
  /\ UNCHANGED <<rec, replying, observers, posted, fired, counting, reached>>

\* Mutant: an observer of a problem that is over already is not notified.
AddObserver_NoLateNotice(w, p) ==
  /\ wpc[w] = "adding" /\ p \in todo[w]
  /\ todo' = [todo EXCEPT ![w] = @ \ {p}]
  /\ observers' = [observers EXCEPT ![p] = @ \cup {w}]
  /\ Post(p, {w}, IF rec[p].hasId THEN {"submitted"} ELSE {})
  /\ UNCHANGED <<rec, replying, noticeVars, asked, goal, need, wpc, reached>>

\* addSubmittedProblemObserver: what has happened already is posted at once.
AddObserver(w, p) ==
  /\ wpc[w] = "adding" /\ p \in todo[w]
  /\ todo' = [todo EXCEPT ![w] = @ \ {p}]
  /\ observers' = [observers EXCEPT ![p] = @ \cup {w}]
  /\ Post(p, {w},
          (IF rec[p].hasId THEN {"submitted"} ELSE {}) \cup
          (IF ~Final(rec[p]) THEN {} ELSE
           IF rec[p].remote = "COMPLETED" THEN {"done"} ELSE {"error"}))
  /\ UNCHANGED <<rec, replying, noticeVars, asked, goal, need, wpc, reached>>

\* EventCounter::wait: the loop's condition, first and again after a wakeup.
Check(w) ==
  /\ \/ wpc[w] = "adding" /\ todo[w] = {}
     \/ wpc[w] = "woken"
  /\ wpc' = [wpc EXCEPT ![w] = IF remaining[w] > 0 THEN "blocked" ELSE "true"]
  /\ UNCHANGED <<rec, replying, observers, posted, noticeVars, asked, goal, need, todo, reached>>

\* wait_until reports a timeout; the counter is not looked at again.
TimeOut(w) ==
  /\ MayTimeOut
  /\ wpc[w] \in {"blocked", "woken"}
  /\ wpc' = [wpc EXCEPT ![w] = "false"]
  /\ UNCHANGED <<rec, replying, observers, posted, noticeVars, asked, goal, need, todo, reached>>

\* What SubmissionObserver and CompletionObserver listen to.
Heard(w, e) == e \in {"error", IF goal[w] = "submitted" THEN "submitted" ELSE "done"}

\* Mutant: every event of a problem is counted.
Notify_Always(w, p, e) ==
  /\ <<w, p, e>> \in posted
  /\ posted' = posted \ {<<w, p, e>>}
  /\ IF Heard(w, e)
     THEN fired' = fired \cup {<<w, p>>} /\ counting' = counting \cup {<<w, p>>}
     ELSE UNCHANGED <<fired, counting>>
  /\ UNCHANGED <<rec, replying, observers, remaining, callVars, reached>>

\* A pool thread runs a notification: EventNotifier::notify up to the unlock.
Notify(w, p, e) ==
  /\ <<w, p, e>> \in posted
  /\ posted' = posted \ {<<w, p, e>>}
  /\ IF Heard(w, e) /\ <<w, p>> \notin fired
     THEN fired' = fired \cup {<<w, p>>} /\ counting' = counting \cup {<<w, p>>}
     ELSE UNCHANGED <<fired, counting>>
  /\ UNCHANGED <<rec, replying, observers, remaining, callVars, reached>>

\* EventCounter::notify
Count(w, p) ==
  /\ <<w, p>> \in counting
  /\ counting' = counting \ {<<w, p>>}
  /\ remaining' = [remaining EXCEPT ![w] = @ - 1]
  /\ wpc' = [wpc EXCEPT ![w] = IF @ = "blocked" THEN "woken" ELSE @]
  /\ UNCHANGED <<rec, replying, observers, posted, fired, asked, goal, need, todo, reached>>

-----------------------------------------------------------------------------

ProblemStep(p) ==
  \/ \E given \in BOOLEAN : SetProblemId(p, given)
  \/ \E status \in {"PENDING", "COMPLETED", "FAILED"} : ProblemUpdated(p, status)
  \/ \E retry \in BOOLEAN : ProblemError(p, retry)
  \/ RetryProblem(p)

WaitStep(w) == (\E p \in Watched : AddObserver(w, p)) \/ Check(w)
RunNotification(w, p) == \E e \in Events : Notify(w, p, e)
FinishNotification(w) == \E p \in Watched : Count(w, p)

AwaitNext ==
  \/ \E p \in Watched : ProblemStep(p)
  \/ \E w \in Waits :
       \/ \E problems \in SUBSET Watched, for \in {"submitted", "over"}, n \in MinDones :
            AwaitEvents(w, problems, for, n)
       \/ WaitStep(w) \/ TimeOut(w)
       \/ \E p \in Watched : RunNotification(w, p)
       \/ FinishNotification(w)

\* Threads run, and the pool serves every problem's notifications; problems
\* need not move and time need not run out.
AwaitFairness ==
  \A w \in Waits :
    /\ WF_awaitVars(WaitStep(w)) /\ WF_awaitVars(FinishNotification(w))
    /\ \A p \in Watched : WF_awaitVars(RunNotification(w, p))

AwaitSpec == AwaitInit /\ [][AwaitNext]_awaitVars

\* "1 if returning because enough problems completed" (dwave_sapi.h:1557): a
\* wait returns true only if enough different problems it asked about have been
\* where it waits for, however often each of them was notified, failed and was
\* retried.
TrueMeansEnough ==
  \A w \in Waits : wpc[w] = "true" =>
    Cardinality({p \in asked[w] : <<p, goal[w]>> \in reached}) >= need[w]

\* No notification is lost between a problem that moves and a wait that adds
\* its observer: once enough problems are there and stay, the wait returns.
There(w, p) == Final(rec[p]) \/ (goal[w] = "submitted" /\ rec[p].hasId)
Enough(w) == Cardinality({p \in asked[w] : There(w, p)}) >= need[w]
EnoughEndsWait ==
  \A w \in Waits : (wpc[w] # "idle" /\ Enough(w)) ~> (Returned(w) \/ ~Enough(w))
=============================================================================
