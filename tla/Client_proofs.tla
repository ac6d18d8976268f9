---------------------------- MODULE Client_proofs ----------------------------
(***************************************************************************)
(* Proofs about the calls on the C client, its waits and its closing, and  *)
(* those of the SAPI service: five modules that share nothing.             *)
(*                                                                         *)
(* Await, for any finite set of problems, any set of waits and any number  *)
(* of problems waited for.  A wait that returns true has counted enough    *)
(* notifications.  Each has been counted for a problem of its own (done_), *)
(* and each tells of something that has happened to that problem, though   *)
(* it may have been undone by a retry since: AwaitInv keeps the count and  *)
(* the history together, from the problem that moves to the counter of the *)
(* wait.                                                                   *)
(*                                                                         *)
(* GlobalState, for any set of problem managers and any number of calls of *)
(* sapi_globalInit and sapi_globalCleanup.  That no timer is left alive    *)
(* when its thread is joined depends on what each of the three shutdowns   *)
(* leaves behind: after the http service's no request will ever end and    *)
(* no manager is being destroyed, so that the registry that the retry      *)
(* service then walks through cannot lose an entry, and every timer that   *)
(* is alive is in it and can be locked.  GlobalInv says so.                *)
(*                                                                         *)
(* SapiService.  AnsweredOnce: whatever the server sends, each callback of *)
(* a call is told once, of its own item or of the first fault in the body, *)
(* which is the least faulty index.                                        *)
(*                                                                         *)
(* ClientCalls.  StatusForetellsResult rests on GoodSub, which relates the *)
(* four fields of a record that setError and updateStatus write (state,    *)
(* remote status, error type and exception) to each other, and on          *)
(* ToldGood: what was told of a problem's end stays its status until it is *)
(* retried.  AwaitMeansDone is about counting: WaitInv says that the       *)
(* problems waited for stay the user's, so that each, once it counts, goes *)
(* on counting.                                                            *)
(*                                                                         *)
(* Chimera, for any numbers of rows and columns and any size of the sides: *)
(* a loop whose rounds list what has one key each lists everything         *)
(* (LoopLists), and a qubit's number is its coordinates (QubitAt,          *)
(* QubitIs), so that the edges have keys; the tables of the C4 solvers are *)
(* compared with a formula, entry by entry.                                *)
(***************************************************************************)
EXTENDS Await, GlobalState, SapiService, ClientCalls, Chimera, Induction_proofs, SequenceTheorems,
        FiniteSetTheorems, WellFoundedInduction, TLAPS

-----------------------------------------------------------------------------
(* Await *)

\* What the history says of a problem's present state.
HistoryTrue ==
  \A p \in Watched :
    /\ rec[p].hasId => <<p, "submitted">> \in reached
    /\ Final(rec[p]) => <<p, "submitted">> \in reached /\ <<p, "over">> \in reached

\* Observers are those of waits under way, on problems they asked about.
ObserversAsked ==
  \A w \in Waits :
    /\ todo[w] \subseteq asked[w]
    /\ \A p \in Watched : w \in observers[p] => wpc[w] # "idle" /\ p \in asked[w]

\* A posted notification tells of something that has happened.
NoticesTrue ==
  \A w \in Waits, p \in Watched, e \in Events : <<w, p, e>> \in posted =>
    /\ wpc[w] # "idle" /\ p \in asked[w]
    /\ <<p, "submitted">> \in reached
    /\ e # "submitted" => <<p, "over">> \in reached

\* So does an observer that has set done_.
FiredTrue ==
  /\ counting \subseteq fired
  /\ \A w \in Waits, p \in Watched : <<w, p>> \in fired =>
       wpc[w] # "idle" /\ p \in asked[w] /\ <<p, goal[w]>> \in reached

\* The counter of a wait has been lowered once for each such observer that is
\* through.
Counted(w) == {p \in Watched : <<w, p>> \in fired \ counting}

CountsTrue ==
  \A w \in Waits :
    /\ remaining[w] = need[w] - Cardinality(Counted(w))
    /\ wpc[w] = "true" => remaining[w] <= 0

AwaitInv ==
  AwaitTypeOK /\ HistoryTrue /\ ObserversAsked /\ NoticesTrue /\ FiredTrue /\ CountsTrue

-----------------------------------------------------------------------------
\* The counted problems are finitely many.
LEMMA CountedFinite ==
  ASSUME NEW w PROVE IsFiniteSet(Counted(w)) /\ Cardinality(Counted(w)) \in Nat
BY WaitsAssumption, FS_Subset, FS_CardinalityType DEF Counted

\* Nobody waits at first.
LEMMA AwaitInitInv == AwaitInit => AwaitInv
<1> SUFFICES ASSUME AwaitInit PROVE AwaitInv
  OBVIOUS
<1>1. SubmittingProblem \in ProblemType /\ ~SubmittingProblem.hasId /\ ~Final(SubmittingProblem)
  BY DEF SubmittingProblem, NoProblem, ProblemType, States, Statuses, Errors, Final
<1>2. AwaitTypeOK
  BY <1>1 DEF AwaitInit, AwaitTypeOK
<1>3. HistoryTrue /\ ObserversAsked /\ NoticesTrue /\ FiredTrue
  BY <1>1 DEF AwaitInit, HistoryTrue, ObserversAsked, NoticesTrue, FiredTrue
<1>4. CountsTrue
  <2>1. ASSUME NEW w \in Waits PROVE Counted(w) = {}
    BY DEF AwaitInit, Counted
  <2> QED
    BY <2>1, FS_EmptySet DEF AwaitInit, CountsTrue
<1> QED
  BY <1>2, <1>3, <1>4 DEF AwaitInv

-----------------------------------------------------------------------------
(* A problem moves *)

\* The operations on a record: their results are records, and only
\* setProblemId gives an id.
LEMMA RecordFacts ==
  ASSUME NEW r \in ProblemType
  PROVE  /\ \A given \in BOOLEAN : WithId(r, given) \in ProblemType
                                   /\ (Final(WithId(r, given)) <=> Final(r))
         /\ \A s \in {"PENDING", "COMPLETED", "FAILED"} :
              /\ WithStatus(r, s) \in ProblemType
              /\ WithStatus(r, s).hasId = r.hasId
              /\ Final(WithStatus(r, s)) => s # "PENDING"
         /\ \A retry \in BOOLEAN :
              /\ WithError(r, "NETWORK", retry) \in ProblemType
              /\ WithError(r, "NETWORK", retry).hasId = r.hasId
              /\ Final(WithError(r, "NETWORK", retry)) => ~retry
         /\ WithRetry(r) \in ProblemType
         /\ WithRetry(r).hasId = r.hasId
         /\ ~Final(WithRetry(r))
<1> USE DEF ProblemType, States, Statuses, Errors, Final
<1>1. \A given \in BOOLEAN : WithId(r, given) \in ProblemType
                             /\ (Final(WithId(r, given)) <=> Final(r))
  BY DEF WithId
<1>2. \A retry \in BOOLEAN :
        /\ WithError(r, "NETWORK", retry) \in ProblemType
        /\ WithError(r, "NETWORK", retry).hasId = r.hasId
        /\ Final(WithError(r, "NETWORK", retry)) => ~retry
  <2>1. /\ WithError(r, "NETWORK", TRUE) \in ProblemType
        /\ WithError(r, "NETWORK", TRUE).hasId = r.hasId
        /\ ~Final(WithError(r, "NETWORK", TRUE))
    BY DEF WithError
  <2>2. /\ WithError(r, "NETWORK", FALSE) \in ProblemType
        /\ WithError(r, "NETWORK", FALSE).hasId = r.hasId
    BY DEF WithError
  <2> HIDE DEF ProblemType, Final
  <2> QED
    BY <2>1, <2>2
<1>3. WithStatus(r, "PENDING") \in ProblemType /\ WithStatus(r, "PENDING").hasId = r.hasId
      /\ ~Final(WithStatus(r, "PENDING"))
  BY DEF WithStatus
<1>4. WithStatus(r, "COMPLETED") \in ProblemType /\ WithStatus(r, "COMPLETED").hasId = r.hasId
  BY DEF WithStatus
<1>5. WithStatus(r, "FAILED") \in ProblemType /\ WithStatus(r, "FAILED").hasId = r.hasId
  BY DEF WithStatus, WithError
<1>6. WithRetry(r) \in ProblemType /\ WithRetry(r).hasId = r.hasId /\ ~Final(WithRetry(r))
  BY DEF WithRetry
<1> QED
  BY <1>1, <1>2, <1>3, <1>4, <1>5, <1>6

\* What a move of a problem leaves of the invariant: the history grows, and what
\* is posted is posted to observers and has happened.
LEMMA MoveKeepsInv ==
  ASSUME AwaitInv, NEW p \in Watched, NEW r \in ProblemType, NEW events \in SUBSET Events,
         rec' = [rec EXCEPT ![p] = r],
         replying' \subseteq Watched,
         observers' = observers \/ observers' = [observers EXCEPT ![p] = LiveObservers(p)],
         \/ events = {} /\ posted' = posted
         \/ Post(p, LiveObservers(p), events),
         reached \subseteq reached', reached' \subseteq Watched \X {"submitted", "over"},
         r.hasId => <<p, "submitted">> \in reached',
         Final(r) => <<p, "submitted">> \in reached' /\ <<p, "over">> \in reached',
         events # {} => <<p, "submitted">> \in reached',
         \A e \in events : e # "submitted" => <<p, "over">> \in reached',
         UNCHANGED <<noticeVars, callVars>>
  PROVE  AwaitInv'
<1> USE DEF AwaitInv, callVars, noticeVars
<1>1. LiveObservers(p) \subseteq observers[p] /\ observers[p] \subseteq Waits
  BY DEF LiveObservers, AwaitTypeOK
<1>2. AwaitTypeOK'
  <2>1. rec' \in [Watched -> ProblemType] /\ observers' \in [Watched -> SUBSET Waits]
    BY <1>1 DEF AwaitTypeOK
  <2>2. posted' \subseteq Waits \X Watched \X Events
    BY <1>1 DEF AwaitTypeOK, Post
  <2> QED
    BY <2>1, <2>2 DEF AwaitTypeOK
<1>3. HistoryTrue'
  BY DEF HistoryTrue, AwaitTypeOK
<1>4. \A q \in Watched : observers'[q] \subseteq observers[q]
  BY <1>1 DEF AwaitTypeOK
<1>5. ObserversAsked'
  BY <1>4 DEF ObserversAsked
<1>6. NoticesTrue'
  <2> SUFFICES ASSUME NEW w \in Waits, NEW q \in Watched, NEW e \in Events,
                      <<w, q, e>> \in posted'
               PROVE  /\ wpc[w] # "idle" /\ q \in asked[w]
                      /\ <<q, "submitted">> \in reached'
                      /\ e # "submitted" => <<q, "over">> \in reached'
    BY DEF NoticesTrue
  <2>1. CASE <<w, q, e>> \in posted
    BY <2>1 DEF NoticesTrue
  <2>2. CASE <<w, q, e>> \notin posted
    <3>1. q = p /\ e \in events /\ w \in observers[p]
      BY <1>1, <2>2 DEF Post
    <3> QED
      BY <3>1 DEF ObserversAsked
  <2> QED
    BY <2>1, <2>2
<1>7. FiredTrue'
  BY DEF FiredTrue
<1>8. CountsTrue'
  BY DEF CountsTrue, Counted
<1> QED
  BY <1>2, <1>3, <1>5, <1>6, <1>7, <1>8

\* A problem that moves notifies its observers.
LEMMA ProblemStepKeepsInv ==
  ASSUME AwaitInv, NEW p \in Watched, ProblemStep(p)
  PROVE  AwaitInv'
<1> USE DEF AwaitInv
<1>0. rec[p] \in ProblemType /\ reached \subseteq Watched \X {"submitted", "over"}
      /\ (rec[p].hasId => <<p, "submitted">> \in reached)
      /\ (Final(rec[p]) => <<p, "submitted">> \in reached /\ <<p, "over">> \in reached)
  BY DEF AwaitTypeOK, HistoryTrue
<1>1. ASSUME NEW given \in BOOLEAN, SetProblemId(p, given) PROVE AwaitInv'
  <2> DEFINE r == WithId(rec[p], given)
  <2>1. r \in ProblemType /\ (Final(r) <=> Final(rec[p]))
    BY <1>0, RecordFacts
  <2>2. /\ rec' = [rec EXCEPT ![p] = r] /\ replying' \subseteq Watched
        /\ observers' = [observers EXCEPT ![p] = LiveObservers(p)]
        /\ Post(p, LiveObservers(p), {"submitted"})
        /\ reached' = reached \cup {<<p, "submitted">>}
        /\ UNCHANGED <<noticeVars, callVars>>
    BY <1>1 DEF SetProblemId, AwaitTypeOK
  <2>3. {"submitted"} \in SUBSET Events
    BY DEF Events
  <2>4. /\ reached \subseteq reached' /\ reached' \subseteq Watched \X {"submitted", "over"}
        /\ <<p, "submitted">> \in reached'
        /\ Final(r) => <<p, "over">> \in reached'
    BY <1>0, <2>1, <2>2
  <2> HIDE DEF r, AwaitInv
  <2> QED
    BY <2>1, <2>2, <2>3, <2>4, MoveKeepsInv
<1>2. ASSUME NEW s \in {"PENDING", "COMPLETED", "FAILED"}, ProblemUpdated(p, s) PROVE AwaitInv'
  <2> DEFINE r == WithStatus(rec[p], s)
  <2>1. r \in ProblemType /\ r.hasId = rec[p].hasId /\ (Final(r) => s # "PENDING")
    BY <1>0, RecordFacts
  <2>2. /\ rec' = [rec EXCEPT ![p] = r] /\ replying' \subseteq Watched
        /\ UNCHANGED <<noticeVars, callVars>>
    BY <1>2 DEF ProblemUpdated, AwaitTypeOK
  <2>3. CASE s = "PENDING"
    <3>1. UNCHANGED <<observers, posted, reached>>
      BY <1>2, <2>3 DEF ProblemUpdated
    <3>2. {} \in SUBSET Events
      OBVIOUS
    <3> HIDE DEF r, AwaitInv
    <3> QED
      BY <1>0, <2>1, <2>2, <2>3, <3>1, <3>2, MoveKeepsInv
  <2>4. CASE s # "PENDING"
    <3> DEFINE events == {IF s = "COMPLETED" THEN "done" ELSE "error"}
    <3>1. /\ observers' = [observers EXCEPT ![p] = LiveObservers(p)]
          /\ Post(p, LiveObservers(p), events)
          /\ reached' = reached \cup {<<p, "over">>, <<p, "submitted">>}
      BY <1>2, <2>4 DEF ProblemUpdated
    <3>2. events \in SUBSET Events
      BY DEF Events
    <3>3. /\ reached \subseteq reached' /\ reached' \subseteq Watched \X {"submitted", "over"}
          /\ <<p, "submitted">> \in reached' /\ <<p, "over">> \in reached'
      BY <1>0, <3>1
    <3> HIDE DEF r, events, AwaitInv
    <3> QED
      BY <2>1, <2>2, <3>1, <3>2, <3>3, MoveKeepsInv
  <2> QED
    BY <2>3, <2>4
<1>3. ASSUME NEW retry \in BOOLEAN, ProblemError(p, retry) PROVE AwaitInv'
  <2> DEFINE r == WithError(rec[p], "NETWORK", retry)
  <2>1. r \in ProblemType /\ r.hasId = rec[p].hasId /\ (Final(r) => ~retry)
    BY <1>0, RecordFacts
  <2>2. /\ rec' = [rec EXCEPT ![p] = r] /\ replying' \subseteq Watched
        /\ UNCHANGED <<noticeVars, callVars>>
    BY <1>3 DEF ProblemError, AwaitTypeOK
  <2>3. CASE retry
    <3>1. UNCHANGED <<observers, posted, reached>>
      BY <1>3, <2>3 DEF ProblemError
    <3>2. {} \in SUBSET Events
      OBVIOUS
    <3> HIDE DEF r, AwaitInv
    <3> QED
      BY <1>0, <2>1, <2>2, <2>3, <3>1, <3>2, MoveKeepsInv
  <2>4. CASE ~retry
    <3>1. /\ observers' = [observers EXCEPT ![p] = LiveObservers(p)]
          /\ Post(p, LiveObservers(p), {"error"})
          /\ reached' = reached \cup {<<p, "over">>, <<p, "submitted">>}
      BY <1>3, <2>4 DEF ProblemError
    <3>2. {"error"} \in SUBSET Events
      BY DEF Events
    <3>3. /\ reached \subseteq reached' /\ reached' \subseteq Watched \X {"submitted", "over"}
          /\ <<p, "submitted">> \in reached' /\ <<p, "over">> \in reached'
      BY <1>0, <3>1
    <3> HIDE DEF r, AwaitInv
    <3> QED
      BY <2>1, <2>2, <3>1, <3>2, <3>3, MoveKeepsInv
  <2> QED
    BY <2>3, <2>4
<1>4. CASE RetryProblem(p)
  <2> DEFINE r == WithRetry(rec[p])
  <2>1. r \in ProblemType /\ r.hasId = rec[p].hasId /\ ~Final(r)
    BY <1>0, RecordFacts
  <2>2. /\ rec' = [rec EXCEPT ![p] = r] /\ replying' \subseteq Watched
        /\ UNCHANGED <<observers, posted, reached>>
        /\ UNCHANGED <<noticeVars, callVars>>
    BY <1>4 DEF RetryProblem, AwaitTypeOK
  <2>3. {} \in SUBSET Events
    OBVIOUS
  <2> HIDE DEF r, AwaitInv
  <2> QED
    BY <1>0, <2>1, <2>2, <2>3, MoveKeepsInv
<1> QED
  BY <1>1, <1>2, <1>3, <1>4 DEF ProblemStep

-----------------------------------------------------------------------------
(* A wait moves *)

\* Nothing has fired for a wait that has not started.
LEMMA StartKeepsInv ==
  ASSUME AwaitInv, NEW w \in Waits, NEW problems \in SUBSET Watched,
         NEW for \in {"submitted", "over"}, NEW n \in MinDones, AwaitEvents(w, problems, for, n)
  PROVE  AwaitInv'
<1> USE DEF AwaitInv, AwaitEvents
<1>1. Cardinality(problems) \in Nat
  BY WaitsAssumption, FS_Subset, FS_CardinalityType
<1>2. need' \in [Waits -> Int] /\ remaining' = [remaining EXCEPT ![w] = need'[w]]
  BY <1>1, WaitsAssumption DEF AwaitTypeOK
<1>3. AwaitTypeOK'
  BY <1>2 DEF AwaitTypeOK
<1>4. HistoryTrue' /\ ObserversAsked'
  BY DEF HistoryTrue, ObserversAsked, AwaitTypeOK
<1>5. NoticesTrue' /\ FiredTrue'
  BY DEF NoticesTrue, FiredTrue, AwaitTypeOK
<1>6. CountsTrue'
  <2>1. \A v \in Waits : Counted(v)' = Counted(v)
    BY DEF Counted
  <2>2. Counted(w) = {}
    BY DEF Counted, FiredTrue
  <2>3. remaining'[w] = need'[w] - Cardinality(Counted(w)) /\ wpc'[w] # "true"
    BY <1>2, <2>2, FS_EmptySet DEF AwaitTypeOK
  <2>4. \A v \in Waits \ {w} :
          remaining'[v] = remaining[v] /\ need'[v] = need[v] /\ wpc'[v] = wpc[v]
    BY DEF AwaitTypeOK
  <2> QED
    BY <2>1, <2>3, <2>4 DEF CountsTrue
<1> QED
  BY <1>3, <1>4, <1>5, <1>6

\* A wait that adds itself to a problem counts it at once if it may.
LEMMA AddKeepsInv ==
  ASSUME AwaitInv, NEW w \in Waits, NEW p \in Watched, AddObserver(w, p)
  PROVE  AwaitInv'
<1> USE DEF AwaitInv
<1> DEFINE events ==
      (IF rec[p].hasId THEN {"submitted"} ELSE {}) \cup
      (IF ~Final(rec[p]) THEN {} ELSE
       IF rec[p].remote = "COMPLETED" THEN {"done"} ELSE {"error"})
<1>1. /\ wpc[w] = "adding" /\ p \in todo[w]
      /\ todo' = [todo EXCEPT ![w] = @ \ {p}]
      /\ observers' = [observers EXCEPT ![p] = @ \cup {w}]
      /\ posted' = posted \cup {<<v, p, e>> : v \in {w}, e \in events}
      /\ UNCHANGED <<rec, replying, fired, counting, remaining, asked, goal, need, wpc, reached>>
  BY DEF AddObserver, Post, noticeVars
<1>2. events \subseteq Events
  BY DEF Events
<1>3. /\ events # {} => <<p, "submitted">> \in reached
      /\ \A e \in events : e # "submitted" => <<p, "over">> \in reached
  BY DEF HistoryTrue
<1>4. p \in asked[w]
  BY <1>1 DEF ObserversAsked
<1> HIDE DEF events
<1>5. AwaitTypeOK'
  BY <1>1, <1>2 DEF AwaitTypeOK
<1>6. HistoryTrue' /\ FiredTrue'
  BY <1>1 DEF HistoryTrue, FiredTrue
<1>7. ObserversAsked'
  BY <1>1, <1>4 DEF ObserversAsked, AwaitTypeOK
<1>8. NoticesTrue'
  <2> SUFFICES ASSUME NEW v \in Waits, NEW q \in Watched, NEW e \in Events,
                      <<v, q, e>> \in posted'
               PROVE  /\ wpc[v] # "idle" /\ q \in asked[v]
                      /\ <<q, "submitted">> \in reached
                      /\ e # "submitted" => <<q, "over">> \in reached
    BY <1>1 DEF NoticesTrue
  <2>1. CASE <<v, q, e>> \in posted
    BY <2>1 DEF NoticesTrue
  <2>2. CASE <<v, q, e>> \notin posted
    <3>1. v = w /\ q = p /\ e \in events
      BY <1>1, <2>2
    <3> QED
      BY <1>1, <1>3, <1>4, <3>1
  <2> QED
    BY <2>1, <2>2
<1>9. CountsTrue'
  BY <1>1 DEF CountsTrue, Counted
<1> QED
  BY <1>5, <1>6, <1>7, <1>8, <1>9

\* A wait that ends leaves its count alone.
LEMMA ReturnKeepsInv ==
  ASSUME AwaitInv, NEW w \in Waits, Check(w) \/ TimeOut(w)
  PROVE  AwaitInv'
<1> USE DEF AwaitInv, noticeVars
<1>1. /\ UNCHANGED <<rec, replying, observers, posted, fired, counting, remaining,
                     asked, goal, need, todo, reached>>
      /\ wpc[w] # "idle"
      /\ \E s \in {"blocked", "true", "false"} :
           wpc' = [wpc EXCEPT ![w] = s] /\ (s = "true" => remaining[w] <= 0)
  BY DEF Check, TimeOut, AwaitTypeOK
<1>2. AwaitTypeOK' /\ HistoryTrue'
  BY <1>1 DEF AwaitTypeOK, HistoryTrue
<1>3. ObserversAsked' /\ NoticesTrue' /\ FiredTrue'
  BY <1>1 DEF ObserversAsked, NoticesTrue, FiredTrue, AwaitTypeOK
<1>4. CountsTrue'
  BY <1>1 DEF CountsTrue, Counted, AwaitTypeOK
<1> QED
  BY <1>2, <1>3, <1>4

-----------------------------------------------------------------------------
(* A notification moves *)

\* An observer that fires is not counted yet.
LEMMA NotifyKeepsInv ==
  ASSUME AwaitInv, NEW w \in Waits, NEW p \in Watched, NEW e \in Events, Notify(w, p, e)
  PROVE  AwaitInv'
<1> USE DEF AwaitInv, callVars
<1>1. /\ <<w, p, e>> \in posted /\ posted' = posted \ {<<w, p, e>>}
      /\ UNCHANGED <<rec, replying, observers, remaining, asked, goal, need, todo, wpc, reached>>
  BY DEF Notify
<1>2. /\ wpc[w] # "idle" /\ p \in asked[w] /\ goal[w] \in {"submitted", "over"}
      /\ <<p, "submitted">> \in reached /\ (e # "submitted" => <<p, "over">> \in reached)
  BY <1>1 DEF NoticesTrue, AwaitTypeOK
<1>3. \/ UNCHANGED <<fired, counting>>
      \/ /\ <<w, p>> \notin fired /\ <<p, goal[w]>> \in reached
         /\ fired' = fired \cup {<<w, p>>} /\ counting' = counting \cup {<<w, p>>}
  <2>1. CASE Heard(w, e) /\ <<w, p>> \notin fired
    <3>1. <<p, goal[w]>> \in reached
      BY <1>2, <2>1 DEF Heard
    <3> QED
      BY <2>1, <3>1 DEF Notify
  <2>2. CASE ~(Heard(w, e) /\ <<w, p>> \notin fired)
    BY <2>2 DEF Notify
  <2> QED
    BY <2>1, <2>2
<1>4. AwaitTypeOK' /\ HistoryTrue' /\ ObserversAsked'
  BY <1>1, <1>3 DEF AwaitTypeOK, HistoryTrue, ObserversAsked
<1>5. NoticesTrue' /\ FiredTrue'
  BY <1>1, <1>2, <1>3 DEF NoticesTrue, FiredTrue
<1>6. CountsTrue'
  <2>1. fired' \ counting' = fired \ counting
    BY <1>3 DEF FiredTrue
  <2>2. \A v \in Waits : Counted(v)' = Counted(v)
    BY <2>1 DEF Counted
  <2> QED
    BY <1>1, <2>2 DEF CountsTrue
<1> QED
  BY <1>4, <1>5, <1>6

\* An observer is counted once.
LEMMA CountKeepsInv ==
  ASSUME AwaitInv, NEW w \in Waits, NEW p \in Watched, Count(w, p)
  PROVE  AwaitInv'
<1> USE DEF AwaitInv, Count
<1>1. AwaitTypeOK'
  BY DEF AwaitTypeOK
<1>2. HistoryTrue' /\ ObserversAsked'
  BY DEF HistoryTrue, ObserversAsked, AwaitTypeOK
<1>3. NoticesTrue' /\ FiredTrue'
  BY DEF NoticesTrue, FiredTrue, AwaitTypeOK
<1>4. CountsTrue'
  <2>1. Counted(w)' = Counted(w) \cup {p} /\ p \notin Counted(w)
    BY DEF Counted, FiredTrue
  <2>2. Cardinality(Counted(w)') = Cardinality(Counted(w)) + 1
    BY <2>1, CountedFinite, FS_AddElement
  <2>3. remaining'[w] = need'[w] - Cardinality(Counted(w)')
    <3>1. remaining'[w] = remaining[w] - 1 /\ need'[w] = need[w] /\ need[w] \in Int
      BY DEF AwaitTypeOK
    <3>2. remaining[w] = need[w] - Cardinality(Counted(w))
      BY DEF CountsTrue
    <3> QED
      BY <2>2, <3>1, <3>2, CountedFinite
  <2>4. wpc'[w] = "true" => remaining'[w] <= 0
    BY DEF CountsTrue, AwaitTypeOK
  <2>5. ASSUME NEW v \in Waits, v # w
        PROVE  Counted(v)' = Counted(v) /\ remaining'[v] = remaining[v]
               /\ wpc'[v] = wpc[v] /\ need'[v] = need[v]
    BY <2>5 DEF Counted, AwaitTypeOK
  <2> QED
    BY <2>3, <2>4, <2>5 DEF CountsTrue
<1> QED
  BY <1>1, <1>2, <1>3, <1>4

-----------------------------------------------------------------------------
\* Every step keeps AwaitInv.
LEMMA AwaitInvInductive == AwaitInv /\ [AwaitNext]_awaitVars => AwaitInv'
<1> SUFFICES ASSUME AwaitInv, [AwaitNext]_awaitVars PROVE AwaitInv'
  OBVIOUS
<1>1. CASE UNCHANGED awaitVars
  BY <1>1 DEF awaitVars, callVars, noticeVars, AwaitInv, AwaitTypeOK, HistoryTrue,
              ObserversAsked, NoticesTrue, FiredTrue, CountsTrue, Counted
<1>2. CASE AwaitNext
  BY <1>2, ProblemStepKeepsInv, StartKeepsInv, AddKeepsInv, ReturnKeepsInv, NotifyKeepsInv,
     CountKeepsInv
  DEF AwaitNext, WaitStep, RunNotification, FinishNotification
<1> QED
  BY <1>1, <1>2

\* So AwaitInv always holds.
LEMMA AwaitInvHolds == AwaitSpec => []AwaitInv
BY AwaitInitInv, AwaitInvInductive, PTL DEF AwaitSpec

\* The state of problems, observers and waits stays well typed.
THEOREM AwaitTypeCorrect == AwaitSpec => []AwaitTypeOK
<1>1. AwaitInv => AwaitTypeOK
  BY DEF AwaitInv
<1> QED
  BY <1>1, AwaitInvHolds, PTL

\* A wait that returns true has seen enough different problems where it waits
\* for them, whatever retries, late observers and repeated notifications there
\* were.
THEOREM TrueSafe == AwaitSpec => []TrueMeansEnough
<1>1. AwaitInv => TrueMeansEnough
  <2> SUFFICES ASSUME AwaitInv, NEW w \in Waits, wpc[w] = "true"
               PROVE  Cardinality({p \in asked[w] : <<p, goal[w]>> \in reached}) >= need[w]
    BY DEF TrueMeansEnough
  <2> DEFINE there == {p \in asked[w] : <<p, goal[w]>> \in reached}
  <2>1. Counted(w) \subseteq there
    BY DEF AwaitInv, FiredTrue, Counted
  <2>2. IsFiniteSet(there)
    BY WaitsAssumption, FS_Subset DEF AwaitInv, AwaitTypeOK
  <2>3. Cardinality(there) \in Nat /\ Cardinality(Counted(w)) <= Cardinality(there)
    BY <2>1, <2>2, FS_Subset, FS_CardinalityType
  <2>4. remaining[w] = need[w] - Cardinality(Counted(w)) /\ remaining[w] <= 0
        /\ remaining[w] \in Int /\ need[w] \in Int
    BY DEF AwaitInv, CountsTrue, AwaitTypeOK
  <2> QED
    BY <2>3, <2>4, CountedFinite
<1> QED
  BY <1>1, AwaitInvHolds, PTL

-----------------------------------------------------------------------------
(* GlobalState *)

\* A manager is destroyed by the thread that dropped the last reference; its
\* timer lives no longer than it does.
ManagerLife ==
  \A m \in Managers :
    /\ manager[m] = "dying" <=> dyingBy[m] # "nobody"
    /\ owners[m] # {} => manager[m] = "live"
    /\ timer[m] = "alive" => manager[m] \in {"live", "dying"}

\* While the http service stops, only its own threads destroy managers; after
\* that nobody does, and no request that could end is left.
QuietPhases ==
  /\ phase \in Stopping => \A m \in Managers : dyingBy[m] # "user"
  /\ phase \in {"pool", "timers", "join"} =>
       \A m \in Managers : "http" \notin owners[m] /\ manager[m] # "dying"

\* Where the timers that are alive are known.
AliveKnown ==
  /\ phase # "timers" => unshut = {}
  /\ \A m \in Managers : timer[m] = "alive" =>
       /\ phase \in {"up", "http", "pool"} => m \in registry
       /\ phase = "timers" => m \in unshut
       /\ phase \notin {"join", "none"}

GlobalInv == GlobalTypeOK /\ ServicesFollowCount /\ ManagerLife /\ QuietPhases /\ AliveKnown

-----------------------------------------------------------------------------
\* Nothing exists at first.
LEMMA GlobalInitInv == GlobalInit => GlobalInv
BY GlobalAssumption
DEF GlobalInit, GlobalInv, GlobalTypeOK, ServicesFollowCount, ManagerLife, QuietPhases,
    AliveKnown, Stopping

\* The calls that count, and the stages of the last cleanup.
LEMMA CountersKeepInv ==
  ASSUME GlobalInv,
         \/ \E made \in BOOLEAN : Up(made)
         \/ Down \/ HttpStopped \/ PoolStopped \/ JoinTimerThread \/ TimerThreadJoined
  PROVE  GlobalInv'
<1> USE GlobalAssumption DEF GlobalInv, Stopping, managerVars
<1>1. ASSUME NEW made \in BOOLEAN, Up(made) PROVE GlobalInv'
  <2>1. GlobalTypeOK' /\ ServicesFollowCount'
    BY <1>1 DEF Up, MutexFree, GlobalTypeOK, ServicesFollowCount
  <2>2. ManagerLife' /\ QuietPhases'
    BY <1>1 DEF Up, MutexFree, ManagerLife, QuietPhases
  <2>3. AliveKnown'
    BY <1>1 DEF Up, MutexFree, AliveKnown, ServicesFollowCount, GlobalTypeOK
  <2> QED
    BY <2>1, <2>2, <2>3
<1>2. CASE Down
  <2>1. GlobalTypeOK' /\ ServicesFollowCount'
    BY <1>2 DEF Down, MutexFree, GlobalTypeOK, ServicesFollowCount
  <2>2. ManagerLife' /\ QuietPhases'
    BY <1>2 DEF Down, MutexFree, ManagerLife, QuietPhases
  <2>3. AliveKnown'
    BY <1>2 DEF Down, MutexFree, AliveKnown, ServicesFollowCount, GlobalTypeOK
  <2> QED
    BY <2>1, <2>2, <2>3
<1>3. CASE HttpStopped
  <2>1. GlobalTypeOK' /\ ServicesFollowCount'
    BY <1>3 DEF HttpStopped, GlobalTypeOK, Owners, ServicesFollowCount
  <2>2. \A m \in Managers : manager[m] # "dying"
    BY <1>3 DEF HttpStopped, ManagerLife, QuietPhases, GlobalTypeOK
  <2>3. ManagerLife' /\ QuietPhases'
    BY <1>3, <2>2 DEF HttpStopped, ManagerLife, QuietPhases
  <2>4. AliveKnown'
    BY <1>3 DEF HttpStopped, AliveKnown
  <2> QED
    BY <2>1, <2>3, <2>4
<1>4. CASE PoolStopped \/ JoinTimerThread \/ TimerThreadJoined
  <2>1. phase \in {"pool", "timers", "join"}
    BY <1>4 DEF PoolStopped, JoinTimerThread, TimerThreadJoined
  <2>2. phase # "timers" => unshut = {}
    BY DEF AliveKnown
  <2>3. GlobalTypeOK' /\ ServicesFollowCount'
    BY <1>4, <2>2 DEF PoolStopped, JoinTimerThread, TimerThreadJoined,
                      GlobalTypeOK, ServicesFollowCount
  <2>4. ManagerLife' /\ QuietPhases'
    BY <1>4, <2>1 DEF PoolStopped, JoinTimerThread, TimerThreadJoined,
                      ManagerLife, QuietPhases
  <2>5. AliveKnown'
    BY <1>4 DEF PoolStopped, JoinTimerThread, TimerThreadJoined, AliveKnown
  <2> QED
    BY <2>3, <2>4, <2>5
<1> QED
  BY <1>1, <1>2, <1>3, <1>4

\* The retry service's shutdown visits one timer: nothing is being destroyed,
\* so that a timer it cannot lock is not alive.
LEMMA ShutTimerKeepsInv ==
  ASSUME GlobalInv, NEW m \in Managers, ShutTimer(m)
  PROVE  GlobalInv'
<1> USE DEF GlobalInv, ShutTimer
<1>1. GlobalTypeOK' /\ ServicesFollowCount'
  BY DEF GlobalTypeOK, ServicesFollowCount, Stopping
<1>2. ManagerLife' /\ QuietPhases'
  BY DEF ManagerLife, QuietPhases, GlobalTypeOK
<1>3. manager[m] # "live" => timer[m] # "alive"
  BY DEF ManagerLife, QuietPhases
<1>4. AliveKnown'
  BY <1>3 DEF AliveKnown, GlobalTypeOK
<1> QED
  BY <1>1, <1>2, <1>4

-----------------------------------------------------------------------------
\* What users and requests do to a manager.
LEMMA OwnersKeepInv ==
  ASSUME GlobalInv, NEW m \in Managers,
         Connect(m) \/ Request(m) \/ Free(m) \/ \E again, retry \in BOOLEAN : ReplyArrives(m, again, retry)
  PROVE  GlobalInv'
<1> USE DEF GlobalInv
<1>1. CASE Connect(m)
  <2>1. GlobalTypeOK' /\ ServicesFollowCount'
    BY <1>1 DEF Connect, GlobalTypeOK, Owners, ServicesFollowCount, Stopping
  <2>2. ManagerLife' /\ QuietPhases'
    BY <1>1 DEF Connect, ManagerLife, QuietPhases, GlobalTypeOK, Stopping
  <2>3. AliveKnown'
    BY <1>1 DEF Connect, AliveKnown, GlobalTypeOK
  <2> QED
    BY <2>1, <2>2, <2>3
<1>2. CASE Request(m)
  <2>1. GlobalTypeOK' /\ ServicesFollowCount'
    BY <1>2 DEF Request, GlobalTypeOK, Owners, ServicesFollowCount
  <2>2. ManagerLife' /\ QuietPhases'
    BY <1>2 DEF Request, ManagerLife, QuietPhases, GlobalTypeOK
  <2>3. AliveKnown'
    BY <1>2 DEF Request, AliveKnown
  <2> QED
    BY <2>1, <2>2, <2>3
<1>3. ASSUME NEW who \in {"user", "http"}, who \in owners[m], Drop(m, who),
             who = "user" => phase \notin Stopping,
             UNCHANGED <<count, phase, timer, registry, unshut, beingNotified>>,
             asioWait' \in [Managers -> {"idle", "armed", "queued"}]
      PROVE  GlobalInv'
  <2>1. GlobalTypeOK' /\ ServicesFollowCount'
    BY <1>3 DEF Drop, GlobalTypeOK, ServicesFollowCount
  <2>2. manager[m] = "live"
    BY <1>3 DEF ManagerLife
  <2>3. ManagerLife'
    BY <1>3, <2>2 DEF Drop, ManagerLife, GlobalTypeOK
  <2>4. QuietPhases'
    <3>1. CASE owners[m] = {who}
      BY <1>3, <2>2, <3>1 DEF Drop, QuietPhases, GlobalTypeOK, Stopping
    <3>2. CASE owners[m] # {who}
      BY <1>3, <2>2, <3>2 DEF Drop, QuietPhases, GlobalTypeOK, Stopping
    <3> QED
      BY <3>1, <3>2
  <2>5. AliveKnown'
    BY <1>3 DEF AliveKnown
  <2> QED
    BY <2>1, <2>3, <2>4, <2>5
<1>4. CASE Free(m)
  BY <1>3, <1>4 DEF Free, MutexFree, GlobalTypeOK
<1>5. ASSUME NEW again \in BOOLEAN, NEW retry \in BOOLEAN, ReplyArrives(m, again, retry)
      PROVE  GlobalInv'
  <2>1. asioWait' \in [Managers -> {"idle", "armed", "queued"}]
    BY <1>5 DEF ReplyArrives, GlobalTypeOK
  <2>2. CASE again
    <3>1. UNCHANGED <<count, phase, manager, owners, dyingBy, timer, registry, unshut, beingNotified>>
      BY <1>5, <2>2 DEF ReplyArrives
    <3> QED
      BY <2>1, <3>1
      DEF GlobalTypeOK, ServicesFollowCount, ManagerLife, QuietPhases, AliveKnown
  <2>3. CASE ~again
    BY <1>3, <1>5, <2>1, <2>3 DEF ReplyArrives
  <2> QED
    BY <2>2, <2>3
<1> QED
  BY <1>1, <1>2, <1>4, <1>5

\* A manager's destructor.
LEMMA DestructorKeepsInv ==
  ASSUME GlobalInv, NEW m \in Managers, RemoveTimer(m) \/ Destroyed(m)
  PROVE  GlobalInv'
<1> USE DEF GlobalInv
<1>1. CASE RemoveTimer(m)
  <2>1. GlobalTypeOK' /\ ServicesFollowCount'
    <3>1. phase \in {"up", "http", "pool"} => unshut = {}
      BY DEF AliveKnown
    <3> QED
      BY <1>1, <3>1 DEF RemoveTimer, GlobalTypeOK, ServicesFollowCount
  <2>2. ManagerLife' /\ QuietPhases'
    BY <1>1 DEF RemoveTimer, ManagerLife, QuietPhases, GlobalTypeOK
  <2>3. AliveKnown'
    BY <1>1 DEF RemoveTimer, AliveKnown, GlobalTypeOK
  <2> QED
    BY <2>1, <2>2, <2>3
<1>2. CASE Destroyed(m)
  <2>1. GlobalTypeOK' /\ ServicesFollowCount'
    BY <1>2 DEF Destroyed, GlobalTypeOK, ServicesFollowCount
  <2>2. ManagerLife' /\ QuietPhases'
    BY <1>2 DEF Destroyed, ManagerLife, QuietPhases, GlobalTypeOK
  <2>3. AliveKnown'
    BY <1>2 DEF Destroyed, AliveKnown
  <2> QED
    BY <2>1, <2>2, <2>3
<1> QED
  BY <1>1, <1>2

\* The timer thread changes owners only while the services are up.
LEMMA TimerThreadKeepsInv ==
  ASSUME GlobalInv,
         \/ \E m \in Managers : WaitExpires(m) \/ HandleExpiry(m)
         \/ \E sends \in BOOLEAN : Notified(sends)
  PROVE  GlobalInv'
<1> USE DEF GlobalInv
<1>1. ASSUME NEW m \in Managers, WaitExpires(m) \/ HandleExpiry(m) PROVE GlobalInv'
  <2>1. UNCHANGED <<count, phase, manager, owners, dyingBy, timer, registry, unshut>>
    BY <1>1 DEF WaitExpires, HandleExpiry
  <2>2. GlobalTypeOK'
    BY <1>1 DEF WaitExpires, HandleExpiry, GlobalTypeOK
  <2> QED
    BY <2>1, <2>2 DEF ServicesFollowCount, ManagerLife, QuietPhases, AliveKnown
<1>2. ASSUME NEW sends \in BOOLEAN, Notified(sends) PROVE GlobalInv'
  <2>1. UNCHANGED <<count, phase, manager, dyingBy, timer, asioWait, registry, unshut>>
    BY <1>2 DEF Notified
  <2>2. beingNotified \in Managers
    BY <1>2 DEF Notified, GlobalTypeOK
  <2>3. GlobalTypeOK' /\ ServicesFollowCount'
    BY <1>2, <2>2 DEF Notified, GlobalTypeOK, Owners, ServicesFollowCount
  <2>4. ManagerLife' /\ QuietPhases'
    BY <1>2, <2>2 DEF Notified, ManagerLife, QuietPhases, GlobalTypeOK
  <2>5. AliveKnown'
    BY <2>1 DEF AliveKnown
  <2> QED
    BY <2>3, <2>4, <2>5
<1> QED
  BY <1>1, <1>2

\* Every step keeps GlobalInv.
LEMMA GlobalInvInductive == GlobalInv /\ [GlobalNext]_globalVars => GlobalInv'
<1> SUFFICES ASSUME GlobalInv, [GlobalNext]_globalVars PROVE GlobalInv'
  OBVIOUS
<1>1. CASE UNCHANGED globalVars
  BY <1>1 DEF globalVars, GlobalInv, GlobalTypeOK, ServicesFollowCount, ManagerLife,
              QuietPhases, AliveKnown
<1>2. CASE GlobalNext
  BY <1>2, CountersKeepInv, ShutTimerKeepsInv, OwnersKeepInv, DestructorKeepsInv,
     TimerThreadKeepsInv
  DEF GlobalNext, CleanupStep, HttpStep, TimerStep
<1> QED
  BY <1>1, <1>2

\* So GlobalInv always holds.
LEMMA GlobalInvHolds == GlobalSpec => []GlobalInv
BY GlobalInitInv, GlobalInvInductive, PTL DEF GlobalSpec

-----------------------------------------------------------------------------
\* The state of the shared services and their users stays well typed.
THEOREM GlobalTypeCorrect == GlobalSpec => []GlobalTypeOK
<1>1. GlobalInv => GlobalTypeOK
  BY DEF GlobalInv
<1> QED
  BY <1>1, GlobalInvHolds, PTL

\* The services are up exactly while the count is positive.
THEOREM CountSafe == GlobalSpec => []ServicesFollowCount
<1>1. GlobalInv => ServicesFollowCount
  BY DEF GlobalInv
<1> QED
  BY <1>1, GlobalInvHolds, PTL

\* No timer outlives the io service: ~GlobalState stops its members in an order
\* that leaves none behind, however many managers there are and whoever holds
\* them.
THEOREM TimersSafe == GlobalSpec => []TimersDieInTime
<1>1. GlobalInv => TimersDieInTime
  BY DEF GlobalInv, AliveKnown, TimersDieInTime
<1> QED
  BY <1>1, GlobalInvHolds, PTL

-----------------------------------------------------------------------------
(* The SAPI service *)

\* A set of numbers has a least one.
LEMMA LeastNat ==
  ASSUME NEW S, S \subseteq Nat, S # {}
  PROVE  \E x \in S : \A y \in S : x <= y
<1>1. \E x \in S : \A y \in S : ~ (<<y, x>> \in OpToRel(<, Nat))
  BY NatLessThanWellFounded, WFMin
<1>2. PICK x \in S : \A y \in S : ~ (<<y, x>> \in OpToRel(<, Nat))
  BY <1>1
<1>3. ASSUME NEW y \in S PROVE x <= y
  <2>1. x \in Nat /\ y \in Nat
    OBVIOUS
  <2>2. ~ (y < x)
    BY <1>2, <2>1 DEF OpToRel
  <2> QED
    BY <2>1, <2>2
<1> QED
  BY <1>3

\* The first fault is found wherever there is one.
LEMMA FaultIsFound ==
  ASSUME NEW m \in Nat, NEW body \in [1 .. m -> Items], NEW n \in 1 .. m,
         FirstFault(body) = "none"
  PROVE  ItemFault(body[n]) = "none"
<1> DEFINE faulty == {k \in DOMAIN body : ItemFault(body[k]) # "none"}
<1>1. FirstFault(body) = IF faulty = {} THEN "none" ELSE ItemFault(body[Min(faulty)])
  BY DEF FirstFault
<1>2. faulty \subseteq Nat
  OBVIOUS
<1>3. CASE faulty = {}
  BY <1>3
<1>4. CASE faulty # {}
  <2> HIDE DEF faulty
  <2>1. \E x \in faulty : \A y \in faulty : x =< y
    BY <1>2, <1>4, LeastNat
  <2>2. Min(faulty) = CHOOSE x \in faulty : \A y \in faulty : x =< y
    BY DEF Min
  <2>3. Min(faulty) \in faulty
    BY <2>1, <2>2
  <2> QED
    BY <1>1, <1>4, <2>3 DEF faulty
<1> QED
  BY <1>3, <1>4

\* What a callback is told.
LEMMA ErrorIs ==
  ASSUME NEW what
  PROVE  Error(what) # <<>> /\ Len(Error(what)) = 1 /\ Error(what)[1][1] = "error"
         /\ <<>> \o Error(what) = Error(what)
BY DEF Error

\* Two things said one after the other.
LEMMA TwoTold ==
  ASSUME NEW a, NEW b
  PROVE  /\ <<a>> \o <<b>> \in Seq({a, b}) /\ Len(<<a>> \o <<b>>) = 2
         /\ (<<a>> \o <<b>>)[1] = a /\ (<<a>> \o <<b>>)[2] = b
<1>1. <<a>> \in Seq({a, b}) /\ <<b>> \in Seq({a, b})
  OBVIOUS
<1>2. Len(<<a>>) = 1 /\ Len(<<b>>) = 1
  OBVIOUS
<1> QED
  BY <1>1, <1>2

\* What a callback is told of a whole result, and the exception it may throw.
LEMMA CompleteIs ==
  ASSUME NEW result, NEW throws
  PROVE  LET news == Complete(result, throws) IN
         /\ news[1][1] = "complete" /\ news[1][2] = result
         /\ Len(news) = 1 \/ (Len(news) = 2 /\ news[2][1] = "error")
         /\ <<>> \o news = news
<1>1. CASE throws
  <2>1. Complete(result, throws) = <<<<"complete", result>>>> \o <<<<"error", "callback">>>>
    BY <1>1 DEF Complete, Error
  <2>2. /\ Complete(result, throws) \in Seq({<<"complete", result>>, <<"error", "callback">>})
        /\ Len(Complete(result, throws)) = 2
        /\ Complete(result, throws)[1] = <<"complete", result>>
        /\ Complete(result, throws)[2] = <<"error", "callback">>
    BY <2>1, TwoTold
  <2>3. PICK t \in Seq({<<"complete", result>>, <<"error", "callback">>}) :
          t = Complete(result, throws)
    BY <2>2
  <2>4. <<>> \o t = t
    OBVIOUS
  <2> QED
    BY <2>2, <2>3, <2>4
<1>2. CASE ~throws
  <2>1. Complete(result, throws) = <<<<"complete", result>>>> \o <<>>
    BY <1>2 DEF Complete
  <2>2. <<<<"complete", result>>>> \o <<>> = <<<<"complete", result>>>>
    OBVIOUS
  <2> QED
    BY <2>1, <2>2
<1> QED
  BY <1>1, <1>2

\* What a call is, and that it has been answered once it is over.
SapiRecords ==
  [kind : Kinds \cup {"none"}, size : Nat, state : {"unused", "sent", "threw", "over"}]
SapiInv ==
  /\ calls \in [SapiCalls -> SapiRecords]
  /\ DOMAIN heard = SapiCalls
  /\ AnsweredOnce

\* An answer to a call that has none yet, as AnsweredOnce asks for it.
Answers(kind, items, news) ==
  /\ Len(news) = 1 \/ (Len(news) = 2 /\ news[1][1] = "complete")
  /\ news[Len(news)][1] = "error" \/ Len(news) = 1
  /\ news[1][1] = "complete" /\ kind \in {"submit", "status"} =>
       /\ Len(news[1][2]) = items
       /\ \A n \in 1 .. items : news[1][2][n] \in RemoteStatuses

\* An error is such an answer.
LEMMA ErrorAnswers ==
  ASSUME NEW kind, NEW items, NEW what
  PROVE  Answers(kind, items, Error(what))
BY ErrorIs DEF Answers

\* A whole result is one too, even when the callback that gets it throws.
LEMMA CompleteAnswers ==
  ASSUME NEW kind, NEW items, NEW result, NEW throws,
         kind \in {"submit", "status"} =>
           Len(result) = items /\ \A n \in 1 .. items : result[n] \in RemoteStatuses
  PROVE  Answers(kind, items, Complete(result, throws))
BY CompleteIs DEF Answers

\* A call that is over is told once, and the others are told nothing.
LEMMA TellKeepsInv ==
  ASSUME SapiInv, NEW c \in SapiCalls, calls[c].state # "over",
         calls' \in [SapiCalls -> SapiRecords], calls'[c].state = "over",
         \A d \in SapiCalls : d # c => calls'[d] = calls[d],
         NEW news, Tell(c, news), <<>> \o news = news,
         Answers(calls'[c].kind, calls'[c].size, news)
  PROVE  SapiInv'
<1>1. heard[c] = <<>> /\ heard' = [heard EXCEPT ![c] = news]
  BY DEF SapiInv, AnsweredOnce, Tell
<1>2. /\ DOMAIN heard' = SapiCalls /\ heard'[c] = news
      /\ \A d \in SapiCalls : d # c => heard'[d] = heard[d]
  BY <1>1 DEF SapiInv
<1>3. AnsweredOnce'
  BY <1>2 DEF SapiInv, AnsweredOnce, Answers
<1> QED
  BY <1>2, <1>3 DEF SapiInv

\* A call that was sent ends; nothing else of it changes.
LEMMA EndCall ==
  ASSUME SapiInv, NEW c \in SapiCalls, calls' = [calls EXCEPT ![c].state = "over"]
  PROVE  /\ calls' \in [SapiCalls -> SapiRecords] /\ calls'[c].state = "over"
         /\ calls'[c].kind = calls[c].kind /\ calls'[c].size = calls[c].size
         /\ \A d \in SapiCalls : d # c => calls'[d] = calls[d]
BY DEF SapiInv, SapiRecords

\* A call is answered at once where there is nothing to send or nobody to send it.
LEMMA CallKeepsInv ==
  ASSUME SapiInv, NEW c \in SapiCalls, NEW kind \in Kinds, NEW items \in Nat, NEW throws,
         Call(c, kind, items, throws)
  PROVE  SapiInv'
<1> DEFINE state == IF kind = "status" /\ items = 0 THEN "over"
                    ELSE IF httpRuns THEN "sent"
                    ELSE IF kind \in {"solvers", "submit"} THEN "threw" ELSE "over"
           r == [kind |-> kind, size |-> items, state |-> state]
<1>1. /\ calls[c].state = "unused" /\ calls' = [calls EXCEPT ![c] = r]
      /\ IF state = "over"
         THEN Tell(c, IF kind = "status" /\ items = 0 THEN Complete(<<>>, throws)
                      ELSE Error("shutdown"))
         ELSE UNCHANGED heard
  BY DEF Call
<1>2. state \in {"sent", "threw", "over"}
  OBVIOUS
<1>3. CASE state = "over"
  <2>1. r \in SapiRecords /\ r.state = "over" /\ r.kind = kind /\ r.size = items
    BY <1>3 DEF SapiRecords
  <2>0. /\ calls' \in [SapiCalls -> SapiRecords] /\ calls'[c] = r
        /\ \A d \in SapiCalls : d # c => calls'[d] = calls[d]
    BY <1>1, <2>1 DEF SapiInv
  <2>2. CASE kind = "status" /\ items = 0
    <3>1. Tell(c, Complete(<<>>, throws))
      BY <1>1, <1>3, <2>2
    <3>2. Len(<<>>) = items /\ \A n \in 1 .. items : <<>>[n] \in RemoteStatuses
      BY <2>2
    <3>3. Answers(kind, items, Complete(<<>>, throws))
      BY <3>2, CompleteAnswers
    <3>4. <<>> \o Complete(<<>>, throws) = Complete(<<>>, throws)
      BY CompleteIs
    <3> QED
      BY <1>1, <2>0, <2>1, <3>1, <3>3, <3>4, TellKeepsInv
  <2>3. CASE ~ (kind = "status" /\ items = 0)
    <3>1. Tell(c, Error("shutdown"))
      BY <1>1, <1>3, <2>3
    <3> QED
      BY <1>1, <2>0, <2>1, <3>1, ErrorAnswers, ErrorIs, TellKeepsInv
  <2> QED
    BY <2>2, <2>3
<1>4. CASE state # "over"
  <2>1. UNCHANGED heard /\ heard[c] = <<>>
    BY <1>1, <1>4 DEF SapiInv, AnsweredOnce
  <2>2. r \in SapiRecords /\ r.state # "over"
    BY <1>2, <1>4 DEF SapiRecords
  <2> HIDE DEF r
  <2>3. \A d \in SapiCalls : calls'[d] = IF d = c THEN r ELSE calls[d]
    BY <1>1 DEF SapiInv
  <2>4. AnsweredOnce'
    BY <2>1, <2>2, <2>3 DEF SapiInv, AnsweredOnce
  <2> QED
    BY <1>1, <2>1, <2>2, <2>4 DEF SapiInv
<1> QED
  BY <1>3, <1>4

\* A reply without a fault tells one status that the client knows for each problem.
LEMMA ReplyKeepsInv ==
  ASSUME SapiInv, NEW c \in SapiCalls, NEW code, NEW parses, NEW m \in Nat,
         NEW body \in [1 .. m -> Items], NEW throws, Reply(c, code, parses, body, throws)
  PROVE  SapiInv'
<1> DEFINE kind == calls[c].kind
           items == calls[c].size
           fault == IF kind = "cancel" THEN "none"
                    ELSE IF CodeFault(code) # "none" THEN CodeFault(code)
                    ELSE IF ~parses THEN "format"
                    ELSE IF kind = "solvers" THEN SolversFault(body)
                    ELSE IF kind # "answer" THEN StatusFault(items, body)
                    ELSE IF Len(body) # 1 THEN "format" ELSE AnswerFault(body[1])
           result == IF kind \in {"submit", "status"}
                     THEN [n \in DOMAIN body |-> Info(body[n])] ELSE <<>>
<1>1. /\ calls[c].state = "sent"
      /\ calls' = [calls EXCEPT ![c].state = "over"]
      /\ Tell(c, IF fault # "none" THEN Error(fault) ELSE Complete(result, throws))
  BY DEF Reply
<1>2. /\ calls' \in [SapiCalls -> SapiRecords] /\ calls'[c].state = "over"
      /\ calls'[c].kind = kind /\ calls'[c].size = items
      /\ \A d \in SapiCalls : d # c => calls'[d] = calls[d]
  BY <1>1, EndCall
<1>5. ASSUME fault = "none", kind \in {"submit", "status"}
      PROVE  Len(result) = items /\ \A n \in 1 .. items : result[n] \in RemoteStatuses
  <2>1. StatusFault(items, body) = "none"
    BY <1>5
  <2>2. Len(body) = items /\ FirstFault(body) = "none" /\ Len(body) = m
    BY <2>1 DEF StatusFault
  <2>3. result = [n \in 1 .. m |-> Info(body[n])]
    BY <1>5
  <2>4. \A n \in 1 .. m : body[n] \in Items /\ ItemFault(body[n]) = "none"
    BY <2>2, FaultIsFound
  <2>5. \A n \in 1 .. m : Info(body[n]) \in RemoteStatuses
    BY <2>4 DEF Items, ItemFault, Info, RemoteStatuses
  <2> QED
    BY <2>2, <2>3, <2>5
<1> HIDE DEF fault, result
<1>6. CASE fault # "none"
  BY <1>1, <1>2, <1>6, ErrorAnswers, ErrorIs, TellKeepsInv
<1>7. CASE fault = "none"
  <2>1. Tell(c, Complete(result, throws))
    BY <1>1, <1>7
  <2>2. Answers(kind, items, Complete(result, throws))
    BY <1>5, <1>7, CompleteAnswers
  <2>3. <<>> \o Complete(result, throws) = Complete(result, throws)
    BY CompleteIs
  <2> QED
    BY <1>1, <1>2, <2>1, <2>2, <2>3, TellKeepsInv
<1> QED
  BY <1>6, <1>7

\* A request that fails ends its call with the error.
LEMMA HttpFailsKeepsInv ==
  ASSUME SapiInv, NEW c \in SapiCalls, HttpFails(c)
  PROVE  SapiInv'
<1>1. calls[c].state = "sent" /\ Tell(c, Error("network"))
      /\ calls' = [calls EXCEPT ![c].state = "over"]
  BY DEF HttpFails
<1> QED
  BY <1>1, EndCall, ErrorAnswers, ErrorIs, TellKeepsInv

\* Whatever replies, failures and exceptions of callbacks come together, and
\* however many calls are made and shut down, every call is answered once, with a
\* whole result or with an error.
THEOREM AnswersSafe == SapiSpec => []AnsweredOnce
<1>1. SapiInit => SapiInv
  BY DEF SapiInit, SapiInv, SapiRecords, AnsweredOnce
<1>2. SapiInv /\ [SapiNext]_sapiVars => SapiInv'
  <2> SUFFICES ASSUME SapiInv, [SapiNext]_sapiVars PROVE SapiInv'
    OBVIOUS
  <2>1. CASE ShutdownHttp \/ UNCHANGED sapiVars
    BY <2>1 DEF ShutdownHttp, sapiVars, SapiInv, AnsweredOnce
  <2>2. ASSUME NEW c \in SapiCalls, NEW kind \in Kinds, NEW items \in 0 .. MaxItems,
               NEW throws \in BOOLEAN, Call(c, kind, items, throws)
        PROVE  SapiInv'
    <3>1. items \in Nat
      BY SapiAssumption
    <3> QED
      BY <2>2, <3>1, CallKeepsInv
  <2>3. ASSUME NEW c \in SapiCalls, NEW code \in {200, 401, 500},
               NEW parses \in BOOLEAN, NEW throws \in BOOLEAN, NEW body \in SeqOf(Items, MaxItems),
               Reply(c, code, parses, body, throws)
        PROVE  SapiInv'
    <3>1. PICK m \in 0 .. MaxItems : body \in [1 .. m -> Items]
      BY DEF SeqOf
    <3>2. m \in Nat
      BY SapiAssumption
    <3> QED
      BY <2>3, <3>1, <3>2, ReplyKeepsInv
  <2>4. ASSUME NEW c \in SapiCalls, HttpFails(c) PROVE SapiInv'
    BY <2>4, HttpFailsKeepsInv
  <2> QED
    BY <2>1, <2>2, <2>3, <2>4 DEF SapiNext
<1>3. SapiInv => AnsweredOnce
  BY DEF SapiInv
<1> QED
  BY <1>1, <1>2, <1>3, PTL DEF SapiSpec

-----------------------------------------------------------------------------
(* The calls of the C client *)

ErrorTypes == {"MEMORY", "NETWORK", "PROTOCOL", "AUTH", "SOLVE", "INTERNAL"}
RemoteStates == Statuses \cup {"IN_PROGRESS", "CANCELED"}
SubType ==
  [kind : {"none", "local", "remote", "solving"}, state : States, lastGood : States,
   remote : RemoteStates, error : ErrorTypes, ex : Exceptions \cup {"none"},
   cancelled : BOOLEAN, wasDone : BOOLEAN]

\* What setError makes of a record, field by field.
LEMMA SetErrorIs ==
  ASSUME NEW s \in SubType, NEW e \in Exceptions, NEW retry \in BOOLEAN,
         NEW r, r = SetError(s, e, retry)
  PROVE  /\ r \in SubType /\ r.kind = s.kind /\ r.remote = s.remote
         /\ r.error = ErrorType(e) /\ r.ex = e /\ r.cancelled = s.cancelled
         /\ ErrorType(e) = "SOLVE" => r.state = "DONE"
         /\ ErrorType(e) # "SOLVE" /\ retry /\ ErrorType(e) \in {"NETWORK", "PROTOCOL", "AUTH"}
              => r.state = "RETRYING"
         /\ ErrorType(e) # "SOLVE" /\ ~(retry /\ ErrorType(e) \in {"NETWORK", "PROTOCOL", "AUTH"})
              => r.state = "FAILED"
         /\ r.lastGood = IF ErrorType(e) = "SOLVE" THEN "DONE" ELSE s.lastGood
         /\ (r.wasDone <=> s.wasDone \/ Final(r))
<1>1. ErrorType(e) \in ErrorTypes
  BY DEF ErrorType, ErrorTypes
<1>2. CASE ErrorType(e) = "SOLVE"
  <2> DEFINE q == [s EXCEPT !.state = "DONE", !.lastGood = "DONE", !.error = "SOLVE", !.ex = e]
  <2>1. r = Noted(q)
    BY <1>2 DEF SetError
  <2>2. q \in SubType /\ q.state = "DONE"
    BY ZenonT(60) DEF SubType, States, ErrorTypes
  <2>3. /\ q.kind = s.kind /\ q.remote = s.remote /\ q.error = "SOLVE" /\ q.ex = e
        /\ q.cancelled = s.cancelled /\ q.lastGood = "DONE" /\ q.wasDone = s.wasDone
    BY DEF SubType
  <2> HIDE DEF q
  <2> QED
    BY <1>2, <2>1, <2>2, <2>3, ZenonT(60) DEF Noted, Final, SubType
<1>3. CASE ErrorType(e) # "SOLVE"
  <2> DEFINE st == IF retry /\ ErrorType(e) \in {"NETWORK", "PROTOCOL", "AUTH"} THEN "RETRYING"
                   ELSE "FAILED"
             q == [s EXCEPT !.state = st, !.error = ErrorType(e), !.ex = e]
  <2>1. r = Noted(q)
    BY <1>3 DEF SetError
  <2>0. st \in States
    BY DEF States
  <2> HIDE DEF st
  <2>2. q \in SubType /\ q.state = st
    BY <1>1, <2>0 DEF SubType
  <2>3. /\ q.kind = s.kind /\ q.remote = s.remote /\ q.error = ErrorType(e) /\ q.ex = e
        /\ q.cancelled = s.cancelled /\ q.lastGood = s.lastGood /\ q.wasDone = s.wasDone
    BY DEF SubType
  <2> HIDE DEF q
  <2> QED
    BY <1>3, <2>1, <2>2, <2>3, ZenonT(60) DEF Noted, Final, SubType, st
<1> QED
  BY <1>2, <1>3

\* What updateStatus makes of it.
LEMMA UpdateStatusIs ==
  ASSUME NEW s \in SubType, NEW status \in RemoteStates, status # "UNKNOWN",
         NEW noMemory \in BOOLEAN, NEW r, r = UpdateStatus(s, status, noMemory)
  PROVE  /\ r \in SubType /\ r.kind = s.kind /\ r.remote = status /\ r.cancelled = s.cancelled
         /\ (r.wasDone <=> s.wasDone \/ Final(r))
         /\ status \in {"PENDING", "IN_PROGRESS"} =>
              /\ r.state = "SUBMITTED" /\ r.lastGood = "SUBMITTED"
              /\ r.error = s.error /\ r.ex = s.ex
         /\ status \in {"CANCELED", "FAILED"} =>
              /\ r.state = "DONE" /\ r.lastGood = "DONE" /\ r.error = "SOLVE"
              /\ r.ex = IF status = "CANCELED" THEN "ProblemCancelled" ELSE "Solve"
         /\ status = "COMPLETED" => r.lastGood = "DONE"
         /\ status = "COMPLETED" /\ ~noMemory =>
              r.state = "DONE" /\ r.error = s.error /\ r.ex = s.ex
         /\ status = "COMPLETED" /\ noMemory =>
              r.state = "FAILED" /\ r.error = "MEMORY" /\ r.ex = "bad_alloc"
<1> DEFINE m == [s EXCEPT !.remote = status]
<1>1. m \in SubType
  BY DEF SubType
<1>2. /\ m.kind = s.kind /\ m.remote = status /\ m.cancelled = s.cancelled
      /\ m.wasDone = s.wasDone /\ m.error = s.error /\ m.ex = s.ex
  BY DEF SubType
<1>3. r =
        CASE status \in {"PENDING", "IN_PROGRESS"} ->
               [m EXCEPT !.state = "SUBMITTED", !.lastGood = "SUBMITTED"]
          [] status = "CANCELED" -> SetError(m, "ProblemCancelled", FALSE)
          [] status = "FAILED"   -> SetError(m, "Solve", FALSE)
          [] status = "COMPLETED" ->
               IF noMemory
               THEN SetError([m EXCEPT !.state = "DONE", !.lastGood = "DONE"], "bad_alloc", FALSE)
               ELSE Noted([m EXCEPT !.state = "DONE", !.lastGood = "DONE"])
  BY DEF UpdateStatus
<1> HIDE DEF m
<1>4. CASE status \in {"PENDING", "IN_PROGRESS"}
  <2>1. r =
          [m EXCEPT !.state = "SUBMITTED", !.lastGood = "SUBMITTED"]
    BY <1>3, <1>4
  <2>2. s.wasDone \in BOOLEAN /\ m.wasDone \in BOOLEAN
    BY <1>1 DEF SubType
  <2> QED
    <3>1. /\ r \in SubType /\ r.state = "SUBMITTED" /\ r.lastGood = "SUBMITTED"
          /\ r.kind = m.kind /\ r.remote = m.remote /\ r.cancelled = m.cancelled
          /\ r.error = m.error /\ r.ex = m.ex /\ r.wasDone = m.wasDone
      BY <1>1, <2>1 DEF SubType, States
    <3>2. ~Final(r) /\ (r.wasDone <=> s.wasDone)
      BY <1>2, <2>2, <3>1 DEF Final
    <3> QED
      BY <1>2, <1>4, <3>1, <3>2
<1>5. CASE status = "CANCELED"
  <2>1. r = SetError(m, "ProblemCancelled", FALSE)
    BY <1>3, <1>5
  <2>2. "ProblemCancelled" \in Exceptions /\ ErrorType("ProblemCancelled") = "SOLVE"
    BY DEF Exceptions, ErrorType, SolveExceptions
  <2> DEFINE q == [m EXCEPT !.state = "DONE", !.lastGood = "DONE", !.error = "SOLVE",
                            !.ex = "ProblemCancelled"]
  <2>3. r = Noted(q)
    BY <2>1, <2>2 DEF SetError
  <2>4. q \in SubType /\ q.state = "DONE" /\ q.lastGood = "DONE" /\ q.error = "SOLVE"
    BY <1>1, <2>2, ZenonT(60) DEF SubType, States, ErrorTypes
  <2>5. /\ q.kind = m.kind /\ q.remote = m.remote /\ q.ex = "ProblemCancelled"
        /\ q.cancelled = m.cancelled /\ q.wasDone = m.wasDone
    BY <1>1 DEF SubType
  <2> HIDE DEF q
  <2>6. r = [q EXCEPT !.wasDone = TRUE]
    BY <2>3, <2>4 DEF Noted, Final, SubType
  <2>7. /\ r \in SubType /\ r.state = "DONE" /\ r.lastGood = "DONE" /\ r.error = "SOLVE"
        /\ r.kind = q.kind /\ r.remote = q.remote /\ r.ex = q.ex
        /\ r.cancelled = q.cancelled /\ r.wasDone
    BY <2>4, <2>6 DEF SubType
  <2> QED
    BY <1>2, <1>5, <2>5, <2>7 DEF Final
<1>6. CASE status = "FAILED"
  <2>1. r = SetError(m, "Solve", FALSE)
    BY <1>3, <1>6
  <2>2. "Solve" \in Exceptions /\ ErrorType("Solve") = "SOLVE"
    BY DEF Exceptions, ErrorType, SolveExceptions
  <2> DEFINE q == [m EXCEPT !.state = "DONE", !.lastGood = "DONE", !.error = "SOLVE",
                            !.ex = "Solve"]
  <2>3. r = Noted(q)
    BY <2>1, <2>2 DEF SetError
  <2>4. q \in SubType /\ q.state = "DONE" /\ q.lastGood = "DONE" /\ q.error = "SOLVE"
    BY <1>1, <2>2, ZenonT(60) DEF SubType, States, ErrorTypes
  <2>5. /\ q.kind = m.kind /\ q.remote = m.remote /\ q.ex = "Solve"
        /\ q.cancelled = m.cancelled /\ q.wasDone = m.wasDone
    BY <1>1 DEF SubType
  <2> HIDE DEF q
  <2>6. r = [q EXCEPT !.wasDone = TRUE]
    BY <2>3, <2>4 DEF Noted, Final, SubType
  <2>7. /\ r \in SubType /\ r.state = "DONE" /\ r.lastGood = "DONE" /\ r.error = "SOLVE"
        /\ r.kind = q.kind /\ r.remote = q.remote /\ r.ex = q.ex
        /\ r.cancelled = q.cancelled /\ r.wasDone
    BY <2>4, <2>6 DEF SubType
  <2> QED
    BY <1>2, <1>6, <2>5, <2>7 DEF Final
<1>7. CASE status = "COMPLETED"
  <2> DEFINE d == [m EXCEPT !.state = "DONE", !.lastGood = "DONE"]
  <2>1. r =
          IF noMemory THEN SetError(d, "bad_alloc", FALSE) ELSE Noted(d)
    BY <1>3, <1>7
  <2>2. d \in SubType /\ d.state = "DONE" /\ d.lastGood = "DONE"
    BY <1>1 DEF SubType, States
  <2>3. /\ d.kind = s.kind /\ d.remote = status /\ d.cancelled = s.cancelled
        /\ d.wasDone = s.wasDone /\ d.error = s.error /\ d.ex = s.ex
    BY <1>1, <1>2 DEF SubType
  <2>4. "bad_alloc" \in Exceptions /\ ErrorType("bad_alloc") = "MEMORY"
    BY DEF Exceptions, ErrorType, SolveExceptions
  <2> HIDE DEF d
  <2>5. CASE noMemory
    <3>1. r = SetError(d, "bad_alloc", FALSE)
      BY <2>1, <2>5
    <3> DEFINE q == [d EXCEPT !.state = "FAILED", !.error = "MEMORY", !.ex = "bad_alloc"]
    <3>2. r = Noted(q)
      BY <2>4, <3>1 DEF SetError
    <3>3. q \in SubType /\ q.state = "FAILED" /\ q.error = "MEMORY" /\ q.ex = "bad_alloc"
      BY <2>2, <2>4, ZenonT(60) DEF SubType, States, ErrorTypes
    <3>4. /\ q.kind = d.kind /\ q.remote = d.remote /\ q.lastGood = d.lastGood
          /\ q.cancelled = d.cancelled
      BY <2>2 DEF SubType
    <3> HIDE DEF q
    <3>5. r = [q EXCEPT !.wasDone = TRUE]
      BY <3>2, <3>3 DEF Noted, Final, SubType
    <3>6. /\ r \in SubType /\ r.state = "FAILED" /\ r.error = "MEMORY" /\ r.ex = "bad_alloc"
          /\ r.kind = q.kind /\ r.remote = q.remote /\ r.lastGood = q.lastGood
          /\ r.cancelled = q.cancelled /\ r.wasDone
      BY <3>3, <3>5 DEF SubType
    <3> QED
      BY <1>7, <2>2, <2>3, <2>5, <3>4, <3>6 DEF Final
  <2>6. CASE ~noMemory
    <3>1. r = [d EXCEPT !.wasDone = @ \/ Final(d)]
      BY <2>1, <2>6 DEF Noted
    <3> QED
      BY <1>7, <2>2, <2>3, <2>6, <3>1, ZenonT(60) DEF SubType, Final
  <2> QED
    BY <2>5, <2>6
<1> QED
  BY <1>4, <1>5, <1>6, <1>7 DEF RemoteStates, Statuses

\* What a retry makes of it.
LEMMA WithRetryIs ==
  ASSUME NEW s \in SubType, NEW r, r = WithRetry(s)
  PROVE  /\ r \in SubType /\ r.state = "RETRYING" /\ r.kind = s.kind /\ r.remote = s.remote
         /\ r.lastGood = s.lastGood /\ r.error = s.error /\ r.ex = s.ex
         /\ r.cancelled = s.cancelled /\ r.wasDone = s.wasDone
BY DEF WithRetry, SubType, States

\* A retry that runs out of memory.
LEMMA RetryFailsIs ==
  ASSUME NEW s \in SubType, NEW r, r = SetError(WithRetry(s), "bad_alloc", FALSE)
  PROVE  /\ r \in SubType /\ r.state = "FAILED" /\ r.kind = s.kind /\ r.remote = s.remote
         /\ r.lastGood = s.lastGood /\ r.error = "MEMORY" /\ r.ex = "bad_alloc"
         /\ r.cancelled = s.cancelled /\ r.wasDone
<1> DEFINE w == WithRetry(s)
<1>1. /\ w \in SubType /\ w.kind = s.kind /\ w.remote = s.remote /\ w.lastGood = s.lastGood
      /\ w.cancelled = s.cancelled
  BY WithRetryIs
<1>2. "bad_alloc" \in Exceptions /\ ErrorType("bad_alloc") = "MEMORY"
  BY DEF Exceptions, ErrorType, SolveExceptions
<1> HIDE DEF w
<1> DEFINE q == [w EXCEPT !.state = "FAILED", !.error = "MEMORY", !.ex = "bad_alloc"]
<1>3. r = SetError(w, "bad_alloc", FALSE)
  BY DEF w
<1>4. r = Noted(q)
  BY <1>2, <1>3 DEF SetError
<1>5. q \in SubType /\ q.state = "FAILED" /\ q.error = "MEMORY" /\ q.ex = "bad_alloc"
  BY <1>1, <1>2, ZenonT(60) DEF SubType, States, ErrorTypes
<1>6. /\ q.kind = w.kind /\ q.remote = w.remote /\ q.lastGood = w.lastGood
      /\ q.cancelled = w.cancelled
  BY <1>1 DEF SubType
<1> HIDE DEF q
<1>7. r = [q EXCEPT !.wasDone = TRUE]
  BY <1>4, <1>5 DEF Noted, Final, SubType
<1> QED
  BY <1>1, <1>5, <1>6, <1>7, ZenonT(60) DEF SubType

-----------------------------------------------------------------------------
(* What holds of every record.                                             *)

KeptErrors == ReplyErrors \cup {"ProblemCancelled", "Solve"}

\* The record of a problem that its answer, its error and its end agree on.
GoodSub(s) ==
  /\ s.remote = "CANCELED" => s.state = "DONE" /\ s.ex = "ProblemCancelled"
  /\ s.remote = "FAILED" => s.state = "DONE" /\ s.ex = "Solve"
  /\ s.remote = "COMPLETED" => Final(s) /\ s.lastGood = "DONE"
  /\ s.state = "DONE" => s.remote \in {"CANCELED", "FAILED", "COMPLETED"}
  /\ s.state \in {"FAILED", "RETRYING"} => s.ex \in ReplyErrors
  /\ s.ex \in KeptErrors \cup {"none"}
  /\ s.ex # "none" => s.error = ErrorType(s.ex)
  /\ Final(s) => s.wasDone
  /\ s.kind = "solving" /\ s.wasDone => Final(s)

\* The kept errors and their two translations.
LEMMA KeptErrorsAre ==
  ASSUME NEW e \in KeptErrors
  PROVE  /\ e \in Exceptions /\ e # "NoAnswer"
         /\ HandleException(e) \notin {"OK", "ASYNC_NOT_DONE"}
         /\ ErrorCode(ErrorType(e)) \in {HandleException(e), "SOLVE_FAILED"}
         /\ e \in ReplyErrors => ErrorType(e) # "SOLVE"
  BY DEF KeptErrors, ReplyErrors, Exceptions, HandleException, ErrorCode, ErrorType, SolveExceptions

\* A status the manager delivers.
LEMMA UpdateKeepsGood ==
  ASSUME NEW s \in SubType, GoodSub(s), Pending(s),
         NEW status \in RemoteStates, status # "UNKNOWN",
         NEW noMemory \in BOOLEAN, NEW r, r = UpdateStatus(s, status, noMemory)
  PROVE  r \in SubType /\ GoodSub(r) /\ r.kind = s.kind /\ (s.wasDone => r.wasDone)
<1>1. /\ r \in SubType /\ r.kind = s.kind /\ r.remote = status
      /\ (r.wasDone <=> s.wasDone \/ Final(r))
      /\ status \in {"PENDING", "IN_PROGRESS"} =>
           r.state = "SUBMITTED" /\ r.error = s.error /\ r.ex = s.ex
      /\ status \in {"CANCELED", "FAILED"} =>
           /\ r.state = "DONE" /\ r.lastGood = "DONE" /\ r.error = "SOLVE"
           /\ r.ex = IF status = "CANCELED" THEN "ProblemCancelled" ELSE "Solve"
      /\ status = "COMPLETED" => r.lastGood = "DONE"
      /\ status = "COMPLETED" /\ ~noMemory => r.state = "DONE" /\ r.error = s.error /\ r.ex = s.ex
      /\ status = "COMPLETED" /\ noMemory =>
           r.state = "FAILED" /\ r.error = "MEMORY" /\ r.ex = "bad_alloc"
  BY UpdateStatusIs
<1>2. s.kind = "solving" => ~s.wasDone
  BY DEF GoodSub, Pending, Final
<1>3. CASE status \in {"PENDING", "IN_PROGRESS"}
  BY <1>1, <1>2, <1>3 DEF GoodSub, Final
<1>4. CASE status = "CANCELED"
  <2>1. r.ex = "ProblemCancelled" /\ ErrorType("ProblemCancelled") = "SOLVE"
    BY <1>1, <1>4 DEF ErrorType, SolveExceptions
  <2> QED
    BY <1>1, <1>2, <1>4, <2>1 DEF GoodSub, Final, KeptErrors, ErrorType, SolveExceptions
<1>5. CASE status = "FAILED"
  <2>1. r.ex = "Solve" /\ ErrorType("Solve") = "SOLVE"
    BY <1>1, <1>5 DEF ErrorType, SolveExceptions
  <2> QED
    BY <1>1, <1>2, <1>5, <2>1 DEF GoodSub, Final, KeptErrors, ErrorType, SolveExceptions
<1>6. CASE status = "COMPLETED" /\ ~noMemory
  BY <1>1, <1>2, <1>6 DEF GoodSub, Final
<1>7. CASE status = "COMPLETED" /\ noMemory
  BY <1>1, <1>2, <1>7 DEF GoodSub, Final, KeptErrors, ReplyErrors, ErrorType, SolveExceptions
<1> QED
  BY <1>3, <1>4, <1>5, <1>6, <1>7 DEF RemoteStates, Statuses

\* An error the manager delivers.
LEMMA ErrorKeepsGood ==
  ASSUME NEW s \in SubType, GoodSub(s), Pending(s), NEW e \in ReplyErrors,
         NEW retry \in BOOLEAN, NEW r, r = SetError(s, e, retry)
  PROVE  r \in SubType /\ GoodSub(r) /\ r.kind = s.kind /\ (s.wasDone => r.wasDone)
<1>1. e \in KeptErrors /\ e \in Exceptions /\ ErrorType(e) # "SOLVE"
  BY KeptErrorsAre DEF KeptErrors
<1>2. /\ r \in SubType /\ r.kind = s.kind /\ r.remote = s.remote
      /\ r.error = ErrorType(e) /\ r.ex = e
      /\ r.state \in {"RETRYING", "FAILED"}
      /\ (r.wasDone <=> s.wasDone \/ Final(r))
  <2>1. /\ r \in SubType /\ r.kind = s.kind /\ r.remote = s.remote
        /\ r.error = ErrorType(e) /\ r.ex = e /\ r.cancelled = s.cancelled
        /\ ErrorType(e) = "SOLVE" => r.state = "DONE"
        /\ ErrorType(e) # "SOLVE" /\ retry /\ ErrorType(e) \in {"NETWORK", "PROTOCOL", "AUTH"}
             => r.state = "RETRYING"
        /\ ErrorType(e) # "SOLVE" /\ ~(retry /\ ErrorType(e) \in {"NETWORK", "PROTOCOL", "AUTH"})
             => r.state = "FAILED"
        /\ r.lastGood = IF ErrorType(e) = "SOLVE" THEN "DONE" ELSE s.lastGood
        /\ (r.wasDone <=> s.wasDone \/ Final(r))
    BY <1>1, SetErrorIs
  <2> QED
    BY <1>1, <2>1
<1>3. s.remote \notin {"CANCELED", "FAILED", "COMPLETED"}
  BY DEF GoodSub, Pending, Final
<1>4. s.kind = "solving" => ~s.wasDone
  BY DEF GoodSub, Pending, Final
<1> QED
  BY <1>1, <1>2, <1>3, <1>4 DEF GoodSub, Final

\* The user's retry, of a problem whose handle is his.
LEMMA RetryKeepsGood ==
  ASSUME NEW s \in SubType, GoodSub(s), Retryable(s), s.kind # "solving",
         NEW r, r = WithRetry(s) \/ r = SetError(WithRetry(s), "bad_alloc", FALSE)
  PROVE  r \in SubType /\ GoodSub(r) /\ r.kind = s.kind /\ (s.wasDone => r.wasDone)
<1>1. s.remote \notin {"CANCELED", "FAILED", "COMPLETED"} /\ s.ex \in ReplyErrors
  BY DEF GoodSub, Retryable
<1>2. CASE r = WithRetry(s)
  <2>1. /\ r \in SubType /\ r.state = "RETRYING" /\ r.kind = s.kind /\ r.remote = s.remote
        /\ r.error = s.error /\ r.ex = s.ex /\ r.wasDone = s.wasDone
    BY <1>2, WithRetryIs
  <2> QED
    BY <1>1, <2>1 DEF GoodSub, Final, KeptErrors
<1>3. CASE r = SetError(WithRetry(s), "bad_alloc", FALSE)
  <2>1. /\ r \in SubType /\ r.state = "FAILED" /\ r.kind = s.kind /\ r.remote = s.remote
        /\ r.error = "MEMORY" /\ r.ex = "bad_alloc" /\ r.wasDone
    BY <1>3, RetryFailsIs, ZenonT(60)
  <2> QED
    BY <1>1, <2>1 DEF GoodSub, Final, KeptErrors, ReplyErrors, ErrorType, SolveExceptions
<1> QED
  BY <1>2, <1>3

-----------------------------------------------------------------------------
(* A result against the status told before it.                             *)

\* What was told of a problem's end is still so; only an end may be told as
\* cancelled; nothing is told of a problem that is not the user's.
ToldGood(t, s) ==
  /\ s.kind \notin {"local", "remote"} => t = NotTold
  /\ t.state \in {"DONE", "FAILED"} => t = Status(s)
  /\ t.remote = "CANCELED" => t.state \in {"DONE", "FAILED"}

\* How a result of a good record may end.
LEMMA ResultIs ==
  ASSUME NEW s \in SubType, GoodSub(s), NEW code \in ResultCodes(s)
  PROVE  /\ AsyncDone(s) => code # "ASYNC_NOT_DONE"
         /\ Remote(s) /\ Final(s) /\ ~Answerable(s) =>
              /\ s.ex \in KeptErrors /\ code = HandleException(s.ex)
              /\ s.error = ErrorType(s.ex)
<1> PICK e \in ResultOutcomes(s) : code = IF e = "fine" THEN "OK" ELSE HandleException(e)
  BY DEF ResultCodes
<1>1. CASE ~Remote(s)
  <2>1. e \in {"fine", "Local", "bad_alloc"}
    BY <1>1 DEF ResultOutcomes
  <2>2. code # "ASYNC_NOT_DONE"
    BY <2>1 DEF HandleException
  <2> QED
    BY <1>1, <2>2
<1>2. CASE Remote(s) /\ ~Final(s)
  BY <1>2 DEF AsyncDone
<1>3. CASE Remote(s) /\ Final(s) /\ ~Answerable(s)
  <2>1. e = s.ex
    BY <1>3 DEF ResultOutcomes
  <2>2. s.ex \in KeptErrors /\ s.error = ErrorType(s.ex)
    <3>1. s.ex \in ReplyErrors \/ s.ex \in {"ProblemCancelled", "Solve"}
      BY <1>3 DEF GoodSub, Final, Answerable
    <3>2. s.ex \in KeptErrors /\ s.ex # "none"
      BY <3>1 DEF KeptErrors, ReplyErrors
    <3> QED
      BY <3>2 DEF GoodSub
  <2>3. e # "fine"
    BY <2>1, <2>2 DEF KeptErrors, ReplyErrors
  <2>4. HandleException(s.ex) \notin {"OK", "ASYNC_NOT_DONE"}
    BY <2>2, KeptErrorsAre
  <2> QED
    BY <2>1, <2>2, <2>3, <2>4
<1>4. CASE Remote(s) /\ Final(s) /\ Answerable(s)
  <2>1. e \in FetchOutcomes
    BY <1>4 DEF ResultOutcomes
  <2>2. code # "ASYNC_NOT_DONE"
    BY <2>1 DEF FetchOutcomes, HandleException
  <2> QED
    BY <1>4, <2>2
<1> QED
  BY <1>1, <1>2, <1>3, <1>4

\* So a result agrees with what was told.
Foretold(g) ==
  /\ g.told.state \in {"DONE", "FAILED"} => g.code # "ASYNC_NOT_DONE"
  /\ g.told.state \in {"DONE", "FAILED"} /\ g.told.code # "OK" =>
       g.code # "OK" /\ g.told.code \in {g.code, "SOLVE_FAILED"}
  /\ g.told.remote = "CANCELED" => g.code = "PROBLEM_CANCELLED"
  /\ g.done => g.code # "ASYNC_NOT_DONE"

\* A result of a good record agrees with what was told of it.
LEMMA ResultForetold ==
  ASSUME NEW s \in SubType, GoodSub(s), NEW t, ToldGood(t, s), NEW code \in ResultCodes(s)
  PROVE  Foretold([told |-> t, done |-> AsyncDone(s), code |-> code])
<1> DEFINE over == t.state \in {"DONE", "FAILED"}
<1>1. /\ AsyncDone(s) => code # "ASYNC_NOT_DONE"
      /\ Remote(s) /\ Final(s) /\ ~Answerable(s) =>
           /\ s.ex \in KeptErrors /\ code = HandleException(s.ex)
           /\ s.error = ErrorType(s.ex)
  BY ResultIs
<1>2. over => t = Status(s)
  BY DEF ToldGood
<1>3. over => AsyncDone(s)
  BY <1>2 DEF AsyncDone, Status, Final
<1>4. ASSUME over, t.code # "OK" PROVE code # "OK" /\ t.code \in {code, "SOLVE_FAILED"}
  <2>1. Remote(s) /\ Final(s) /\ ~Answerable(s) /\ t.code = ErrorCode(s.error)
    BY <1>2, <1>4 DEF Status, Final, Answerable
  <2>2. /\ ErrorCode(ErrorType(s.ex)) \in {HandleException(s.ex), "SOLVE_FAILED"}
        /\ HandleException(s.ex) \notin {"OK", "ASYNC_NOT_DONE"}
    BY <1>1, <2>1, KeptErrorsAre
  <2> QED
    BY <1>1, <2>1, <2>2
<1>5. ASSUME t.remote = "CANCELED" PROVE code = "PROBLEM_CANCELLED"
  <2>1. over /\ t = Status(s)
    BY <1>2, <1>5 DEF ToldGood
  <2>2. Remote(s) /\ s.remote = "CANCELED"
    BY <1>5, <2>1 DEF Status
  <2>3. s.ex = "ProblemCancelled" /\ Final(s) /\ ~Answerable(s)
    BY <2>2 DEF GoodSub, Final, Answerable
  <2>4. code = HandleException("ProblemCancelled")
    BY <1>1, <2>2, <2>3
  <2> QED
    BY <2>4 DEF HandleException
<1> QED
  BY <1>1, <1>3, <1>4, <1>5 DEF Foretold

-----------------------------------------------------------------------------
(* The records and what was told of them, step by step.                    *)

Told == told = [h \in Handles |-> told[h]]
SubsInv ==
  /\ subs \in [Handles -> SubType] /\ Told
  /\ \A h \in Handles : GoodSub(subs[h]) /\ ToldGood(told[h], subs[h])

\* A step of one record that says nothing to the user.
LEMMA PutKeeps ==
  ASSUME SubsInv, NEW h \in Handles, NEW r \in SubType, GoodSub(r), ToldGood(told[h], r),
         Put(h, r), told' = told
  PROVE  SubsInv'
<1>1. subs' \in [Handles -> SubType] /\ subs'[h] = r
      /\ \A g \in Handles : g # h => subs'[g] = subs[g]
  BY DEF SubsInv, Put
<1>2. Told'
  BY DEF SubsInv, Told
<1> QED
  BY <1>1, <1>2 DEF SubsInv

\* A problem the manager still holds is not one whose end was told.
LEMMA HeldIsOpen ==
  ASSUME NEW s \in SubType, Remote(s), Pending(s), NEW t, ToldGood(t, s),
         NEW r \in SubType, r.kind = s.kind
  PROVE  ToldGood(t, r)
<1>1. t.state \notin {"DONE", "FAILED"}
  BY DEF ToldGood, Status, Pending
<1> QED
  BY <1>1 DEF ToldGood

\* The record of a problem nobody has submitted, and of one just submitted.
LEMMA NoSubIsGood ==
  /\ NoSub \in SubType /\ GoodSub(NoSub) /\ NoSub.kind = "none"
  /\ \A kind \in {"local", "remote", "solving"} :
       /\ NewSub(kind) \in SubType /\ GoodSub(NewSub(kind)) /\ NewSub(kind).kind = kind
<1>1. NoSub \in SubType /\ GoodSub(NoSub) /\ NoSub.kind = "none" /\ NoSub.remote = "UNKNOWN"
      /\ NoSub.ex = "none" /\ NoSub.wasDone = FALSE
  BY DEF NoSub, SubType, States, RemoteStates, Statuses, ErrorTypes, GoodSub, Final
<1>2. ASSUME NEW kind \in {"local", "remote", "solving"}
      PROVE  NewSub(kind) \in SubType /\ GoodSub(NewSub(kind)) /\ NewSub(kind).kind = kind
  <2> DEFINE r == NewSub(kind)
  <2>1. r = [NoSub EXCEPT !.kind = kind, !.state = "SUBMITTING", !.lastGood = "SUBMITTING"]
    BY DEF NewSub
  <2> HIDE DEF r
  <2>2. /\ r \in SubType /\ r.kind = kind /\ r.state = "SUBMITTING" /\ r.remote = "UNKNOWN"
        /\ r.ex = "none" /\ r.wasDone = FALSE
    BY <1>1, <2>1 DEF SubType, States
  <2>3. GoodSub(r)
    BY <2>2 DEF GoodSub, Final
  <2> QED
    BY <2>2, <2>3 DEF r
<1> QED
  BY <1>1, <1>2

\* The submissions and the end of a solve.
LEMMA SubmitKeepsSubs ==
  ASSUME SubsInv, NEW h \in Handles, NEW kind \in {"local", "remote", "solving"},
         Submit(h, kind)
  PROVE  SubsInv'
<1>1. NewSub(kind) \in SubType /\ GoodSub(NewSub(kind)) /\ NoSub.kind = "none"
  BY NoSubIsGood
<1>2. subs[h] = NoSub /\ Put(h, NewSub(kind)) /\ told' = told /\ ToldGood(told[h], subs[h])
  BY DEF Submit, SubsInv
<1>3. told[h] = NotTold
  BY <1>1, <1>2 DEF ToldGood
<1>4. ToldGood(told[h], NewSub(kind))
  BY <1>3 DEF ToldGood, NotTold
<1> QED
  BY <1>1, <1>2, <1>4, PutKeeps

\* A solve gives its record up when it returns.
LEMMA SolveKeepsSubs ==
  ASSUME SubsInv, NEW h \in Handles, SolveReturns(h)
  PROVE  SubsInv'
<1>1. NoSub \in SubType /\ GoodSub(NoSub) /\ NoSub.kind = "none"
  BY NoSubIsGood
<1>2. subs[h].kind = "solving" /\ Put(h, NoSub) /\ told' = told /\ ToldGood(told[h], subs[h])
  BY DEF SolveReturns, SubsInv
<1>3. told[h] = NotTold
  BY <1>2 DEF ToldGood
<1>4. ToldGood(told[h], NoSub)
  BY <1>3 DEF ToldGood, NotTold
<1> QED
  BY <1>1, <1>2, <1>4, PutKeeps

\* The user asks for a problem's status.
LEMMA StatusKeepsSubs ==
  ASSUME SubsInv, NEW h \in Handles, AsyncStatus(h)
  PROVE  SubsInv'
<1> DEFINE s == subs[h]
           t == Status(s)
<1>1. s \in SubType /\ GoodSub(s)
  BY DEF SubsInv
<1>2. told' = [told EXCEPT ![h] = t] /\ subs' = subs /\ s.kind \in {"local", "remote"}
  BY DEF AsyncStatus, Mine
<1>3. t.remote = "CANCELED" => t.state \in {"DONE", "FAILED"}
  BY <1>1 DEF Status, GoodSub
<1>4. ToldGood(t, s)
  BY <1>2, <1>3 DEF ToldGood
<1> HIDE DEF t
<1>5. Told' /\ told'[h] = t /\ \A g \in Handles : g # h => told'[g] = told[g]
  BY <1>2 DEF SubsInv, Told
<1> QED
  BY <1>2, <1>4, <1>5 DEF SubsInv

\* The user retries, or cancels, a problem.
LEMMA RetryKeepsSubs ==
  ASSUME SubsInv, NEW h \in Handles, AsyncRetry(h)
  PROVE  SubsInv'
<1> DEFINE s == subs[h]
<1>1. s \in SubType /\ GoodSub(s)
  BY DEF SubsInv
<1>2. Retryable(s) /\ s.kind \in {"local", "remote"} /\ told' = [told EXCEPT ![h] = NotTold]
  BY DEF AsyncRetry, Mine
<1>3. PICK r : /\ r = WithRetry(s) \/ r = SetError(WithRetry(s), "bad_alloc", FALSE)
               /\ Put(h, r)
  BY DEF AsyncRetry
<1>4. r \in SubType /\ GoodSub(r)
  BY <1>1, <1>2, <1>3, RetryKeepsGood
<1>5. subs' \in [Handles -> SubType] /\ subs'[h] = r
      /\ \A g \in Handles : g # h => subs'[g] = subs[g]
  BY <1>3, <1>4 DEF SubsInv, Put
<1>6. Told' /\ told'[h] = NotTold /\ \A g \in Handles : g # h => told'[g] = told[g]
  BY <1>2 DEF SubsInv, Told
<1>7. ToldGood(NotTold, r)
  BY DEF ToldGood, NotTold
<1> QED
  BY <1>4, <1>5, <1>6, <1>7 DEF SubsInv

\* A cancellation changes nothing that a status or a result shows.
LEMMA CancelKeepsSubs ==
  ASSUME SubsInv, NEW h \in Handles, Cancel(h)
  PROVE  SubsInv'
<1> DEFINE s == subs[h]
           r == [s EXCEPT !.cancelled = TRUE]
<1>1. s \in SubType /\ GoodSub(s) /\ ToldGood(told[h], s)
  BY DEF SubsInv
<1>2. Put(h, r) /\ told' = told
  BY DEF Cancel
<1>3. /\ r \in SubType /\ r.kind = s.kind /\ r.state = s.state /\ r.lastGood = s.lastGood
      /\ r.remote = s.remote /\ r.error = s.error /\ r.ex = s.ex /\ r.wasDone = s.wasDone
  BY <1>1 DEF SubType
<1> HIDE DEF r
<1>4. GoodSub(r)
  BY <1>1, <1>3 DEF GoodSub, Final
<1>5. Status(r) = Status(s)
  BY <1>3 DEF Status, Remote
<1>6. ToldGood(told[h], r)
  BY <1>1, <1>3, <1>5 DEF ToldGood
<1> QED
  BY <1>2, <1>3, <1>4, <1>6, PutKeeps

\* The manager delivers a status or an error.
LEMMA ArrivalKeepsSubs ==
  ASSUME SubsInv, NEW h \in Handles,
         \/ \E status \in Statuses \cup {"IN_PROGRESS", "CANCELED"}, noMemory \in BOOLEAN :
              status # "UNKNOWN" /\ StatusArrives(h, status, noMemory)
         \/ \E e \in ReplyErrors, retry \in BOOLEAN : ErrorArrives(h, e, retry)
  PROVE  SubsInv'
<1> DEFINE s == subs[h]
<1>1. s \in SubType /\ GoodSub(s) /\ ToldGood(told[h], s)
  BY DEF SubsInv
<1>2. CASE \E status \in Statuses \cup {"IN_PROGRESS", "CANCELED"}, noMemory \in BOOLEAN :
             status # "UNKNOWN" /\ StatusArrives(h, status, noMemory)
  <2>1. PICK status \in RemoteStates, noMemory \in BOOLEAN :
          status # "UNKNOWN" /\ StatusArrives(h, status, noMemory)
    BY <1>2 DEF RemoteStates
  <2> DEFINE r == UpdateStatus(s, status, noMemory)
  <2>2. Remote(s) /\ Pending(s) /\ Put(h, r) /\ told' = told
    BY <2>1 DEF StatusArrives, Held
  <2>3. r \in SubType /\ GoodSub(r) /\ r.kind = s.kind
    BY <1>1, <2>1, <2>2, UpdateKeepsGood
  <2> HIDE DEF r
  <2> QED
    BY <1>1, <2>2, <2>3, HeldIsOpen, PutKeeps
<1>3. CASE \E e \in ReplyErrors, retry \in BOOLEAN : ErrorArrives(h, e, retry)
  <2>1. PICK e \in ReplyErrors, retry \in BOOLEAN : ErrorArrives(h, e, retry)
    BY <1>3
  <2> DEFINE r == SetError(s, e, retry)
  <2>2. Remote(s) /\ Pending(s) /\ Put(h, r) /\ told' = told
    BY <2>1 DEF ErrorArrives, Held
  <2>3. r \in SubType /\ GoodSub(r) /\ r.kind = s.kind
    BY <1>1, <2>2, ErrorKeepsGood
  <2> HIDE DEF r
  <2> QED
    BY <1>1, <2>2, <2>3, HeldIsOpen, PutKeeps
<1> QED
  BY <1>2, <1>3

-----------------------------------------------------------------------------
(* The invariant of the records, and StatusForetellsResult.                *)

SubsSpecInv == SubsInv /\ StatusForetellsResult

\* Before the first submission nothing is told.
LEMMA SubsInit == CallsInit => SubsSpecInv
<1> SUFFICES ASSUME CallsInit PROVE SubsSpecInv
  OBVIOUS
<1>1. NoSub \in SubType /\ GoodSub(NoSub) /\ NoSub.kind = "none"
  BY NoSubIsGood
<1>2. SubsInv
  BY <1>1 DEF CallsInit, SubsInv, Told, ToldGood, NotTold
<1>3. StatusForetellsResult
  BY DEF CallsInit, StatusForetellsResult, NotGiven
<1> QED
  BY <1>2, <1>3 DEF SubsSpecInv

\* The calls that give the user a result's code: the three steps that Give.
LEMMA GivesForetold ==
  ASSUME SubsInv, NEW h \in Handles, NEW code \in ResultCodes(subs[h]), Give(h, code)
  PROVE  StatusForetellsResult'
<1>1. subs[h] \in SubType /\ GoodSub(subs[h]) /\ ToldGood(told[h], subs[h])
  BY DEF SubsInv
<1>2. gave' = [told |-> told[h], done |-> AsyncDone(subs[h]), code |-> code]
  BY DEF Give
<1>3. Foretold(gave')
  BY <1>1, <1>2, ResultForetold
<1> QED
  BY <1>3 DEF StatusForetellsResult, Foretold

\* A submission that throws has nothing told of it.
LEMMA FailedSubmitForetold ==
  ASSUME SubsInv, NEW h \in Handles, NEW e \in SubmitFailures, SubmitFails(h, e)
  PROVE  StatusForetellsResult'
<1>1. ToldGood(told[h], NoSub) /\ NoSub.kind = "none"
  BY NoSubIsGood DEF SubmitFails, SubsInv
<1>2. told[h] = NotTold
  BY <1>1 DEF ToldGood
<1>3. HandleException(e) # "ASYNC_NOT_DONE"
  BY DEF SubmitFailures, HandleException
<1>4. gave' = [told |-> NotTold, done |-> AsyncDone(subs[h]), code |-> HandleException(e)]
  BY <1>2 DEF SubmitFails, Give
<1> QED
  BY <1>3, <1>4 DEF StatusForetellsResult, NotTold

\* A step that returns no code.
LEMMA SilentForetold ==
  ASSUME GiveNothing
  PROVE  StatusForetellsResult'
BY DEF GiveNothing, StatusForetellsResult, NotGiven

\* Every step keeps the records good and the results as foretold.
LEMMA SubsNext == SubsSpecInv /\ [CallsNext]_callsVars => SubsSpecInv'
<1> SUFFICES ASSUME SubsSpecInv, [CallsNext]_callsVars PROVE SubsSpecInv'
  OBVIOUS
<1> USE DEF SubsSpecInv
<1>1. CASE WaitReturns
  <2>1. subs' = subs /\ told' = told /\ GiveNothing
    BY <1>1 DEF WaitReturns
  <2> QED
    BY <2>1, SilentForetold DEF SubsInv, Told
<1>2. ASSUME NEW hs \in SUBSET Handles, NEW n \in 0 .. Cardinality(Handles) + 1, StartWait(hs, n)
      PROVE  SubsSpecInv'
  <2>1. subs' = subs /\ told' = told /\ GiveNothing
    BY <1>2 DEF StartWait
  <2> QED
    BY <2>1, SilentForetold DEF SubsInv, Told
<1>3. ASSUME NEW h \in Handles, NEW kind \in {"local", "remote", "solving"}, Submit(h, kind)
      PROVE  SubsSpecInv'
  BY <1>3, SubmitKeepsSubs, SilentForetold DEF Submit
<1>4. ASSUME NEW h \in Handles, NEW e \in SubmitFailures, SubmitFails(h, e)
      PROVE  SubsSpecInv'
  <2>1. subs' = subs /\ told' = told
    BY <1>4 DEF SubmitFails
  <2> QED
    BY <1>4, <2>1, FailedSubmitForetold DEF SubsInv, Told
<1>5. ASSUME NEW h \in Handles, SolveReturns(h)
      PROVE  SubsSpecInv'
  <2>1. PICK code \in ResultCodes(subs[h]) : Give(h, code)
    BY <1>5 DEF SolveReturns
  <2> QED
    BY <1>5, <2>1, SolveKeepsSubs, GivesForetold
<1>6. ASSUME NEW h \in Handles, AsyncStatus(h)
      PROVE  SubsSpecInv'
  BY <1>6, StatusKeepsSubs, SilentForetold DEF AsyncStatus
<1>7. ASSUME NEW h \in Handles, AsyncResult(h)
      PROVE  SubsSpecInv'
  <2>1. PICK code \in ResultCodes(subs[h]) : Give(h, code)
    BY <1>7 DEF AsyncResult
  <2>2. subs' = subs /\ told' = told
    BY <1>7 DEF AsyncResult
  <2> QED
    BY <2>1, <2>2, GivesForetold DEF SubsInv, Told
<1>8. ASSUME NEW h \in Handles, AsyncRetry(h)
      PROVE  SubsSpecInv'
  BY <1>8, RetryKeepsSubs, SilentForetold DEF AsyncRetry
<1>9. ASSUME NEW h \in Handles, Cancel(h)
      PROVE  SubsSpecInv'
  BY <1>9, CancelKeepsSubs, SilentForetold DEF Cancel
<1>10. ASSUME NEW h \in Handles,
         \/ \E status \in Statuses \cup {"IN_PROGRESS", "CANCELED"}, noMemory \in BOOLEAN :
              status # "UNKNOWN" /\ StatusArrives(h, status, noMemory)
         \/ \E e \in ReplyErrors, retry \in BOOLEAN : ErrorArrives(h, e, retry)
       PROVE  SubsSpecInv'
  <2>1. GiveNothing
    BY <1>10 DEF StatusArrives, ErrorArrives
  <2> QED
    BY <1>10, <2>1, ArrivalKeepsSubs, SilentForetold
<1>11. CASE UNCHANGED callsVars
  BY <1>11 DEF callsVars, SubsInv, Told, StatusForetellsResult
<1> QED
  BY <1>1, <1>2, <1>3, <1>4, <1>5, <1>6, <1>7, <1>8, <1>9, <1>10, <1>11 DEF CallsNext

(***************************************************************************)
(* The status that sapi_asyncStatus translates by error type and the       *)
(* result that is translated by exception never disagree, however many     *)
(* problems there are and whatever the manager delivers.                   *)
(***************************************************************************)
THEOREM ForetellsSafe == CallsSpec => []StatusForetellsResult
<1>1. SubsSpecInv => StatusForetellsResult
  BY DEF SubsSpecInv
<1> QED
  BY <1>1, SubsInit, SubsNext, PTL DEF CallsSpec

-----------------------------------------------------------------------------
(* sapi_awaitCompletion.                                                   *)

\* A handle stays the user's, and what has been done stays so.
LEMMA MineStays ==
  ASSUME SubsInv, CallsNext, NEW g \in Handles, Mine(g)
  PROVE  subs'[g].kind = subs[g].kind /\ (subs[g].wasDone => subs'[g].wasDone)
<1> DEFINE Stays == subs'[g].kind = subs[g].kind /\ (subs[g].wasDone => subs'[g].wasDone)
<1> SUFFICES Stays
  OBVIOUS
<1>0. /\ subs \in [Handles -> SubType] /\ subs[g] \in SubType
      /\ \A h \in Handles : subs[h] \in SubType /\ GoodSub(subs[h])
  BY DEF SubsInv
<1>a. ASSUME NEW h \in Handles, NEW r, Put(h, r),
             h = g => r.kind = subs[h].kind /\ (subs[h].wasDone => r.wasDone)
      PROVE  Stays
  BY <1>0, <1>a DEF Put
<1>1. CASE subs' = subs
  BY <1>1
<1>2. ASSUME NEW h \in Handles, NEW kind \in {"local", "remote", "solving"}, Submit(h, kind)
      PROVE  Stays
  <2>1. h # g
    BY <1>2, NoSubIsGood DEF Submit, Mine
  <2> QED
    BY <1>2, <1>a, <2>1 DEF Submit
<1>3. ASSUME NEW h \in Handles, SolveReturns(h)
      PROVE  Stays
  <2>1. h # g
    BY <1>3 DEF SolveReturns, Mine
  <2> QED
    BY <1>3, <1>a, <2>1 DEF SolveReturns
<1>4. ASSUME NEW h \in Handles, AsyncRetry(h)
      PROVE  Stays
  <2>1. PICK r : /\ r = WithRetry(subs[h]) \/ r = SetError(WithRetry(subs[h]), "bad_alloc", FALSE)
                 /\ Put(h, r)
    BY <1>4 DEF AsyncRetry
  <2>2. Retryable(subs[h]) /\ subs[h].kind # "solving"
    BY <1>4 DEF AsyncRetry, Mine
  <2>3. r.kind = subs[h].kind /\ (subs[h].wasDone => r.wasDone)
    BY <1>0, <2>1, <2>2, RetryKeepsGood
  <2> QED
    BY <1>a, <2>1, <2>3
<1>5. ASSUME NEW h \in Handles, Cancel(h)
      PROVE  Stays
  <2> DEFINE r == [subs[h] EXCEPT !.cancelled = TRUE]
  <2>1. r.kind = subs[h].kind /\ r.wasDone = subs[h].wasDone
    BY <1>0 DEF SubType
  <2>2. Put(h, r)
    BY <1>5 DEF Cancel
  <2> HIDE DEF r
  <2> QED
    BY <1>a, <2>1, <2>2
<1>6. ASSUME NEW h \in Handles,
             NEW status \in RemoteStates, NEW noMemory \in BOOLEAN,
             status # "UNKNOWN", StatusArrives(h, status, noMemory)
      PROVE  Stays
  <2> DEFINE r == UpdateStatus(subs[h], status, noMemory)
  <2>1. Pending(subs[h]) /\ Put(h, r)
    BY <1>6 DEF StatusArrives, Held
  <2>2. r.kind = subs[h].kind /\ (subs[h].wasDone => r.wasDone)
    BY <1>0, <1>6, <2>1, UpdateKeepsGood
  <2> HIDE DEF r
  <2> QED
    BY <1>a, <2>1, <2>2
<1>7. ASSUME NEW h \in Handles, NEW e \in ReplyErrors, NEW retry \in BOOLEAN,
             ErrorArrives(h, e, retry)
      PROVE  Stays
  <2> DEFINE r == SetError(subs[h], e, retry)
  <2>1. Pending(subs[h]) /\ Put(h, r)
    BY <1>7 DEF ErrorArrives, Held
  <2>2. r.kind = subs[h].kind /\ (subs[h].wasDone => r.wasDone)
    BY <1>0, <2>1, ErrorKeepsGood
  <2> HIDE DEF r
  <2> QED
    BY <1>a, <2>1, <2>2
<1>8. \/ subs' = subs
      \/ \E h \in Handles :
           \/ \E kind \in {"local", "remote", "solving"} : Submit(h, kind)
           \/ SolveReturns(h) \/ AsyncRetry(h) \/ Cancel(h)
           \/ \E status \in RemoteStates, noMemory \in BOOLEAN :
                status # "UNKNOWN" /\ StatusArrives(h, status, noMemory)
           \/ \E e \in ReplyErrors, retry \in BOOLEAN : ErrorArrives(h, e, retry)
  BY DEF CallsNext, WaitReturns, StartWait, SubmitFails, AsyncStatus, AsyncResult, RemoteStates
<1> QED
  BY <1>1, <1>2, <1>3, <1>4, <1>5, <1>6, <1>7, <1>8

\* A problem counts once it is local or has been done.
Counts(h) == ~Remote(subs[h]) \/ subs[h].wasDone
Done(hs) == {h \in hs : Counts(h)}
WaitedEnough(hs, n) == (\A h \in hs : Counts(h)) \/ Cardinality(Done(hs)) >= n

\* Needed leaves out the local ones: enough remote ones are enough.
LEMMA NeededIsEnough ==
  ASSUME NEW hs \in SUBSET Handles, NEW n \in Nat,
         NEW k \in Nat, k = Cardinality({h \in hs : Remote(subs[h]) /\ subs[h].wasDone}),
         Needed(hs, n) <= k
  PROVE  WaitedEnough(hs, n)
<1> DEFINE Local == {h \in hs : ~Remote(subs[h])}
           Over == {h \in hs : Remote(subs[h]) /\ subs[h].wasDone}
<1>1. IsFiniteSet(hs)
  BY HandlesAssumption, FS_Subset
<1>2. /\ IsFiniteSet(Local) /\ IsFiniteSet(Over) /\ Local \cap Over = {}
      /\ Local \cup Over = Done(hs)
  BY <1>1, FS_Subset DEF Done, Counts
<1>3. Cardinality(Done(hs)) = Cardinality(Local) + k
  <2>1. Cardinality(Local \cup Over) =
          Cardinality(Local) + Cardinality(Over) - Cardinality(Local \cap Over)
    BY <1>2, FS_Union
  <2>2. Cardinality(Local \cap Over) = 0
    BY <1>2, FS_EmptySet
  <2>3. Cardinality(Local) \in Nat
    BY <1>2, FS_CardinalityType
  <2> QED
    BY <1>2, <2>1, <2>2, <2>3
<1>4. Cardinality(hs) \in Nat /\ Cardinality(Local) \in Nat
  BY <1>1, <1>2, FS_CardinalityType
<1>5. CASE n > Cardinality(hs)
  <2>1. Needed(hs, n) = Cardinality(hs) - Cardinality(Local)
    BY <1>5 DEF Needed
  <2>2. Cardinality(Done(hs)) >= Cardinality(hs)
    BY <1>3, <1>4, <2>1
  <2>3. Done(hs) \subseteq hs
    BY DEF Done
  <2>4. Cardinality(Done(hs)) <= Cardinality(hs) /\ (Cardinality(Done(hs)) = Cardinality(hs) => Done(hs) = hs)
    BY <1>1, <2>3, FS_Subset
  <2>5. Done(hs) = hs
    BY <1>3, <1>4, <2>2, <2>4
  <2> QED
    BY <2>5 DEF WaitedEnough, Done
<1>6. CASE ~(n > Cardinality(hs))
  <2>1. Needed(hs, n) = n - Cardinality(Local)
    BY <1>6 DEF Needed
  <2>2. Cardinality(Done(hs)) >= n
    BY <1>3, <1>4, <2>1
  <2> QED
    BY <2>2 DEF WaitedEnough
<1> QED
  BY <1>5, <1>6

WaitType == [on : SUBSET Handles, minDone : Nat, outcome : {"none", "waiting", "enough", "timeout"}]

\* The problems waited for stay the user's.
WaitInv ==
  /\ wait \in WaitType /\ \A h \in wait.on : Mine(h)
  /\ wait.outcome = "enough" => WaitedEnough(wait.on, wait.minDone)

\* Enough stays enough while the problems stay the user's.
LEMMA EnoughStays ==
  ASSUME NEW hs \in SUBSET Handles, NEW n \in Nat, WaitedEnough(hs, n),
         \A h \in hs : subs'[h].kind = subs[h].kind /\ (subs[h].wasDone => subs'[h].wasDone)
  PROVE  WaitedEnough(hs, n)'
<1>1. \A h \in hs : Counts(h) => Counts(h)'
  BY DEF Counts, Remote
<1>2. CASE \A h \in hs : Counts(h)
  BY <1>1, <1>2 DEF WaitedEnough
<1>3. CASE Cardinality(Done(hs)) >= n
  <2>1. Done(hs) \subseteq Done(hs)' /\ Done(hs)' \subseteq hs
    BY <1>1 DEF Done
  <2>2. IsFiniteSet(hs)
    BY HandlesAssumption, FS_Subset
  <2>3. IsFiniteSet(Done(hs)')
    BY <2>1, <2>2, FS_Subset
  <2>4. IsFiniteSet(Done(hs)) /\ Cardinality(Done(hs)) <= Cardinality(Done(hs)')
    BY <2>1, <2>3, FS_Subset
  <2>5. Cardinality(Done(hs)) \in Nat /\ Cardinality(Done(hs)') \in Nat
    BY <2>3, <2>4, FS_CardinalityType
  <2>6. Cardinality(Done(hs)') >= n
    BY <1>3, <2>4, <2>5
  <2> QED
    BY <2>6 DEF WaitedEnough
<1> QED
  BY <1>2, <1>3 DEF WaitedEnough

\* Nobody waits at first.
LEMMA WaitInit == CallsInit => WaitInv
BY DEF CallsInit, WaitInv, WaitType, NoWait

\* Every step keeps what was enough enough.
LEMMA WaitNext == SubsInv /\ WaitInv /\ [CallsNext]_callsVars => WaitInv'
<1> SUFFICES ASSUME SubsInv, WaitInv, [CallsNext]_callsVars PROVE WaitInv'
  OBVIOUS
<1>1. CASE UNCHANGED callsVars
  BY <1>1 DEF callsVars, WaitInv, Mine, WaitedEnough, Done, Counts, Remote
<1>2. CASE CallsNext /\ wait' = wait
  <2>1. \A h \in wait.on :
          subs'[h].kind = subs[h].kind /\ (subs[h].wasDone => subs'[h].wasDone)
    BY <1>2, MineStays DEF WaitInv, WaitType
  <2>2. \A h \in wait.on : Mine(h)'
    BY <2>1 DEF WaitInv, Mine
  <2>3. wait.outcome = "enough" => WaitedEnough(wait.on, wait.minDone)'
    <3>1. ASSUME NEW hs \in SUBSET Handles, NEW n \in Nat, hs = wait.on, n = wait.minDone,
                 wait.outcome = "enough"
          PROVE  WaitedEnough(hs, n)'
      BY <2>1, <3>1, EnoughStays DEF WaitInv
    <3> QED
      BY <1>2, <3>1 DEF WaitInv, WaitType, WaitedEnough, Done, Counts
  <2> QED
    BY <1>2, <2>2, <2>3 DEF WaitInv, WaitedEnough, Done, Counts
<1>3. ASSUME WaitReturns PROVE WaitInv'
  <2>1. subs' = subs
    BY <1>3 DEF WaitReturns
  <2>2. CASE /\ Cardinality({h \in wait.on : Remote(subs[h]) /\ subs[h].wasDone})
                  >= Needed(wait.on, wait.minDone)
             /\ wait' = [wait EXCEPT !.outcome = "enough"]
    <3> DEFINE Over == {h \in wait.on : Remote(subs[h]) /\ subs[h].wasDone}
    <3>1. /\ wait.on \in SUBSET Handles /\ IsFiniteSet(wait.on) /\ wait.minDone \in Nat
      BY HandlesAssumption, FS_Subset DEF WaitInv, WaitType
    <3>2. Over \subseteq wait.on /\ IsFiniteSet(Over) /\ Cardinality(Over) \in Nat
      BY <3>1, FS_Subset, FS_CardinalityType
    <3>3. Needed(wait.on, wait.minDone) \in Int
      <4>1. IsFiniteSet({h \in wait.on : ~Remote(subs[h])})
        BY <3>1, FS_Subset
      <4>2. Cardinality({h \in wait.on : ~Remote(subs[h])}) \in Nat /\ Cardinality(wait.on) \in Nat
        BY <3>1, <4>1, FS_CardinalityType
      <4> QED
        BY <3>1, <4>2 DEF Needed
    <3>4. Needed(wait.on, wait.minDone) <= Cardinality(Over)
      BY <2>2, <3>2, <3>3
    <3>5. WaitedEnough(wait.on, wait.minDone)
      BY <3>1, <3>2, <3>4, NeededIsEnough
    <3>6. wait' \in WaitType /\ wait'.on = wait.on /\ wait'.minDone = wait.minDone
      BY <2>2 DEF WaitInv, WaitType
    <3> QED
      BY <2>1, <3>5, <3>6 DEF WaitInv, Mine, WaitedEnough, Done, Counts, Remote
  <2>3. CASE wait' = [wait EXCEPT !.outcome = "timeout"]
    <3>6. wait' \in WaitType /\ wait'.on = wait.on /\ wait'.outcome = "timeout"
      BY <2>3 DEF WaitInv, WaitType
    <3> QED
      BY <2>1, <3>6 DEF WaitInv, Mine
  <2> QED
    BY <1>3, <2>2, <2>3 DEF WaitReturns
<1>4. ASSUME NEW hs \in SUBSET Handles, NEW n \in 0 .. Cardinality(Handles) + 1, StartWait(hs, n)
      PROVE  WaitInv'
  <2>1. /\ subs' = subs /\ \A h \in hs : Mine(h)
        /\ wait' = [on |-> hs, minDone |-> n,
                    outcome |-> IF (\A h \in hs : ~Remote(subs[h])) \/ Needed(hs, n) <= 0
                                THEN "enough" ELSE "waiting"]
    BY <1>4 DEF StartWait
  <2>2. n \in Nat
    BY HandlesAssumption, FS_CardinalityType
  <2>3. IsFiniteSet(hs)
    BY HandlesAssumption, FS_Subset
  <2>4. ASSUME \A h \in hs : ~Remote(subs[h]) PROVE WaitedEnough(hs, n)
    BY <2>4 DEF WaitedEnough, Counts
  <2>5. ASSUME Needed(hs, n) <= 0 PROVE WaitedEnough(hs, n)
    <3> DEFINE Over == {h \in hs : Remote(subs[h]) /\ subs[h].wasDone}
    <3>1. IsFiniteSet(Over) /\ Cardinality(Over) \in Nat
      BY <2>3, FS_Subset, FS_CardinalityType
    <3>2. Needed(hs, n) \in Int
      <4>1. IsFiniteSet({h \in hs : ~Remote(subs[h])})
        BY <2>3, FS_Subset
      <4>2. Cardinality({h \in hs : ~Remote(subs[h])}) \in Nat /\ Cardinality(hs) \in Nat
        BY <2>3, <4>1, FS_CardinalityType
      <4> QED
        BY <2>2, <4>2 DEF Needed
    <3>3. Needed(hs, n) <= Cardinality(Over)
      BY <2>5, <3>1, <3>2
    <3> QED
      BY <2>2, <3>1, <3>3, NeededIsEnough
  <2>6. wait'.outcome = "enough" => WaitedEnough(hs, n)
    BY <2>1, <2>4, <2>5
  <2>7. wait' \in WaitType /\ wait'.on = hs /\ wait'.minDone = n
    BY <2>1, <2>2 DEF WaitType
  <2> QED
    BY <2>1, <2>2, <2>6, <2>7 DEF WaitInv, Mine, WaitedEnough, Done, Counts, Remote
<1>5. \/ UNCHANGED callsVars
      \/ CallsNext /\ wait' = wait
      \/ WaitReturns
      \/ \E hs \in SUBSET Handles, n \in 0 .. Cardinality(Handles) + 1 : StartWait(hs, n)
  BY DEF CallsNext, Submit, SubmitFails, SolveReturns, AsyncStatus, AsyncResult, AsyncRetry, Cancel,
         StatusArrives, ErrorArrives
<1> QED
  BY <1>1, <1>2, <1>3, <1>4, <1>5

(***************************************************************************)
(* When sapi_awaitCompletion says that enough problems are done, they are, *)
(* for any number of problems of either kind and any min_done.             *)
(***************************************************************************)
THEOREM AwaitCountSafe == CallsSpec => []AwaitMeansDone
<1> DEFINE I == SubsSpecInv /\ WaitInv
<1>1. CallsInit => I
  BY SubsInit, WaitInit
<1>2. I /\ [CallsNext]_callsVars => I'
  BY SubsNext, WaitNext DEF SubsSpecInv
<1>3. I => AwaitMeansDone
  BY DEF WaitInv, AwaitMeansDone, WaitedEnough, Done, Counts
<1> QED
  BY <1>1, <1>2, <1>3, PTL DEF CallsSpec

-----------------------------------------------------------------------------
(* The record that ProblemManager and Await keep is a sound abstraction.   *)

\* Everything the problem manager or the user may make of an abstract record.
Abstracted(a) ==
  AbstractSteps(a) \cup {WithError(WithStatus(a, "COMPLETED"), "OTHER", FALSE)}

\* Two such records with the same fields are one.
LEMMA SameRecord ==
  ASSUME NEW x \in ProblemType, NEW y \in ProblemType,
         x.state = y.state, x.lastGood = y.lastGood, x.hasId = y.hasId,
         x.cancelled = y.cancelled, x.remote = y.remote, x.error = y.error
  PROVE  x = y
BY DEF ProblemType

\* What SubmittedProblem's operations make of a record, field by field.
LEMMA StepIs ==
  ASSUME NEW a \in ProblemType, NEW b \in ProblemType, b.hasId = a.hasId,
         \/ /\ b.state = "SUBMITTED" /\ b.lastGood = "SUBMITTED" /\ b.remote = "PENDING"
            /\ b.error = a.error /\ b.cancelled = a.cancelled
         \/ /\ b.state = "DONE" /\ b.lastGood = "DONE" /\ b.remote = "COMPLETED"
            /\ b.error = a.error /\ b.cancelled = a.cancelled
         \/ /\ b.state = "DONE" /\ b.lastGood = "DONE" /\ b.remote = "FAILED"
            /\ b.error = "SOLVE" /\ b.cancelled = a.cancelled
         \/ /\ b.state = "FAILED" /\ b.lastGood = "DONE" /\ b.remote = "COMPLETED"
            /\ b.error = "OTHER" /\ b.cancelled = a.cancelled
         \/ /\ b.state \in {"FAILED", "RETRYING"} /\ b.lastGood = a.lastGood /\ b.remote = a.remote
            /\ b.error = "NETWORK" /\ b.cancelled = a.cancelled
         \/ /\ b.state = "FAILED" /\ b.lastGood = a.lastGood /\ b.remote = a.remote
            /\ b.error = "OTHER" /\ b.cancelled = a.cancelled
         \/ /\ b.state = a.state /\ b.lastGood = a.lastGood /\ b.remote = a.remote
            /\ b.error = a.error /\ b.cancelled
         \/ /\ Retryable(a) /\ b.state = "RETRYING" /\ b.lastGood = a.lastGood
            /\ b.remote = a.remote /\ b.error = a.error /\ b.cancelled = a.cancelled
  PROVE  b \in Abstracted(a)
<1>1. CASE /\ b.state = "SUBMITTED" /\ b.lastGood = "SUBMITTED" /\ b.remote = "PENDING"
           /\ b.error = a.error /\ b.cancelled = a.cancelled
  <2>1. b = WithStatus(a, "PENDING")
    BY <1>1 DEF ProblemType, WithStatus
  <2> QED
    BY <2>1 DEF Abstracted, AbstractSteps
<1>2. CASE /\ b.state = "DONE" /\ b.lastGood = "DONE" /\ b.remote = "COMPLETED"
           /\ b.error = a.error /\ b.cancelled = a.cancelled
  <2>1. b = WithStatus(a, "COMPLETED")
    BY <1>2 DEF ProblemType, WithStatus
  <2> QED
    BY <2>1 DEF Abstracted, AbstractSteps
<1>3. CASE /\ b.state = "DONE" /\ b.lastGood = "DONE" /\ b.remote = "FAILED"
           /\ b.error = "SOLVE" /\ b.cancelled = a.cancelled
  <2>1. b = WithStatus(a, "FAILED")
    BY <1>3 DEF ProblemType, WithStatus, WithError
  <2> QED
    BY <2>1 DEF Abstracted, AbstractSteps
<1>4. CASE /\ b.state = "FAILED" /\ b.lastGood = "DONE" /\ b.remote = "COMPLETED"
           /\ b.error = "OTHER" /\ b.cancelled = a.cancelled
  <2>1. b = WithError(WithStatus(a, "COMPLETED"), "OTHER", FALSE)
    BY <1>4 DEF ProblemType, WithStatus, WithError
  <2> QED
    BY <2>1 DEF Abstracted
<1>5. CASE /\ b.state = "FAILED" /\ b.lastGood = a.lastGood /\ b.remote = a.remote
           /\ b.error = "NETWORK" /\ b.cancelled = a.cancelled
  <2>1. b = WithError(a, "NETWORK", FALSE)
    BY <1>5 DEF ProblemType, WithError
  <2> QED
    BY <2>1 DEF Abstracted, AbstractSteps
<1>6. CASE /\ b.state = "RETRYING" /\ b.lastGood = a.lastGood /\ b.remote = a.remote
           /\ b.error = "NETWORK" /\ b.cancelled = a.cancelled
  <2>1. b = WithError(a, "NETWORK", TRUE)
    BY <1>6 DEF ProblemType, WithError
  <2> QED
    BY <2>1 DEF Abstracted, AbstractSteps
<1>7. CASE /\ b.state = "FAILED" /\ b.lastGood = a.lastGood /\ b.remote = a.remote
           /\ b.error = "OTHER" /\ b.cancelled = a.cancelled
  <2>1. b = WithError(a, "OTHER", FALSE)
    BY <1>7 DEF ProblemType, WithError
  <2> QED
    BY <2>1 DEF Abstracted, AbstractSteps
<1>8. CASE /\ b.state = a.state /\ b.lastGood = a.lastGood /\ b.remote = a.remote
           /\ b.error = a.error /\ b.cancelled
  <2> DEFINE c == [a EXCEPT !.cancelled = TRUE]
  <2>1. /\ c \in ProblemType /\ c.state = a.state /\ c.lastGood = a.lastGood
        /\ c.remote = a.remote /\ c.error = a.error /\ c.cancelled /\ c.hasId = a.hasId
    BY DEF ProblemType
  <2>2. c \in Abstracted(a)
    BY DEF Abstracted, AbstractSteps
  <2> HIDE DEF c
  <2>3. b.cancelled = c.cancelled
    BY <1>8, <2>1 DEF ProblemType
  <2>4. b = c
    BY <1>8, <2>1, <2>3, SameRecord
  <2> QED
    BY <2>2, <2>4
<1>9. CASE /\ Retryable(a) /\ b.state = "RETRYING" /\ b.lastGood = a.lastGood
           /\ b.remote = a.remote /\ b.error = a.error /\ b.cancelled = a.cancelled
  <2>1. b = WithRetry(a)
    BY <1>9 DEF ProblemType, WithRetry
  <2> QED
    BY <1>9, <2>1 DEF Abstracted, AbstractSteps
<1> QED
  BY <1>1, <1>2, <1>3, <1>4, <1>5, <1>6, <1>7, <1>8, <1>9

\* The abstraction of a record, field by field.
LEMMA AbstractIs ==
  ASSUME NEW s \in SubType, NEW a, a = Abstract(s)
  PROVE  /\ a \in ProblemType /\ a.state = s.state /\ a.lastGood = s.lastGood
         /\ a.hasId = FALSE /\ a.cancelled = s.cancelled
         /\ s.remote = "IN_PROGRESS" => a.remote = "PENDING"
         /\ s.remote = "CANCELED" => a.remote = "FAILED"
         /\ s.remote \notin {"IN_PROGRESS", "CANCELED"} => a.remote = s.remote
         /\ s.ex = "none" => a.error = "NONE"
         /\ s.ex # "none" /\ s.error \in {"NETWORK", "SOLVE"} => a.error = s.error
         /\ s.ex # "none" /\ s.error \notin {"NETWORK", "SOLVE"} => a.error = "OTHER"
<1> DEFINE rm == CASE s.remote = "IN_PROGRESS" -> "PENDING" [] s.remote = "CANCELED" -> "FAILED"
                   [] OTHER -> s.remote
           er == CASE s.ex = "none" -> "NONE"
                   [] s.ex # "none" /\ s.error \in {"NETWORK", "SOLVE"} -> s.error
                   [] OTHER -> "OTHER"
<1>1. rm \in Statuses /\ er \in Errors
  BY DEF SubType, RemoteStates, Statuses, Errors
<1>2. a = [state |-> s.state, lastGood |-> s.lastGood, hasId |-> FALSE,
           cancelled |-> s.cancelled, remote |-> rm, error |-> er]
  BY DEF Abstract
<1>3. /\ s.remote = "IN_PROGRESS" => rm = "PENDING"
      /\ s.remote = "CANCELED" => rm = "FAILED"
      /\ s.remote \notin {"IN_PROGRESS", "CANCELED"} => rm = s.remote
  <2>1. s.remote \in RemoteStates
    BY DEF SubType
  <2> QED
    BY <2>1 DEF RemoteStates, Statuses
<1>6. /\ s.ex = "none" => er = "NONE"
      /\ s.ex # "none" /\ s.error \in {"NETWORK", "SOLVE"} => er = s.error
      /\ s.ex # "none" /\ s.error \notin {"NETWORK", "SOLVE"} => er = "OTHER"
  <2>1. s.error \in ErrorTypes /\ s.ex \in Exceptions \cup {"none"}
    BY DEF SubType
  <2> QED
    BY <2>1 DEF ErrorTypes
<1>4. s.state \in States /\ s.lastGood \in States /\ s.cancelled \in BOOLEAN
  BY DEF SubType
<1> HIDE DEF rm, er
<1>5. /\ a \in ProblemType /\ a.state = s.state /\ a.lastGood = s.lastGood
      /\ a.hasId = FALSE /\ a.cancelled = s.cancelled /\ a.remote = rm /\ a.error = er
  BY <1>1, <1>2, <1>4 DEF ProblemType
<1> QED
  BY <1>3, <1>5, <1>6

\* The status, the error, the retry and the cancellation, one after the other.
LEMMA UpdateAbstracted ==
  ASSUME NEW s \in SubType, GoodSub(s), NEW status \in RemoteStates, status # "UNKNOWN",
         NEW noMemory \in BOOLEAN, NEW r, r = UpdateStatus(s, status, noMemory)
  PROVE  Abstract(r) \in Abstracted(Abstract(s))
<1>1. /\ r \in SubType /\ r.remote = status /\ r.cancelled = s.cancelled
      /\ status \in {"PENDING", "IN_PROGRESS"} =>
           /\ r.state = "SUBMITTED" /\ r.lastGood = "SUBMITTED"
           /\ r.error = s.error /\ r.ex = s.ex
      /\ status \in {"CANCELED", "FAILED"} =>
           /\ r.state = "DONE" /\ r.lastGood = "DONE" /\ r.error = "SOLVE"
           /\ r.ex = IF status = "CANCELED" THEN "ProblemCancelled" ELSE "Solve"
      /\ status = "COMPLETED" => r.lastGood = "DONE"
      /\ status = "COMPLETED" /\ ~noMemory => r.state = "DONE" /\ r.error = s.error /\ r.ex = s.ex
      /\ status = "COMPLETED" /\ noMemory =>
           r.state = "FAILED" /\ r.error = "MEMORY" /\ r.ex = "bad_alloc"
  BY UpdateStatusIs
<1> DEFINE a == Abstract(s)
           b == Abstract(r)
<1>2. /\ a \in ProblemType /\ a.hasId = FALSE /\ a.cancelled = s.cancelled
      /\ s.ex = "none" => a.error = "NONE"
      /\ s.ex # "none" /\ s.error \in {"NETWORK", "SOLVE"} => a.error = s.error
      /\ s.ex # "none" /\ s.error \notin {"NETWORK", "SOLVE"} => a.error = "OTHER"
  BY AbstractIs
<1>3. /\ b \in ProblemType /\ b.state = r.state /\ b.lastGood = r.lastGood
      /\ b.hasId = FALSE /\ b.cancelled = r.cancelled
      /\ r.remote = "IN_PROGRESS" => b.remote = "PENDING"
      /\ r.remote = "CANCELED" => b.remote = "FAILED"
      /\ r.remote \notin {"IN_PROGRESS", "CANCELED"} => b.remote = r.remote
      /\ r.ex = "none" => b.error = "NONE"
      /\ r.ex # "none" /\ r.error \in {"NETWORK", "SOLVE"} => b.error = r.error
      /\ r.ex # "none" /\ r.error \notin {"NETWORK", "SOLVE"} => b.error = "OTHER"
  BY <1>1, AbstractIs
<1> HIDE DEF a, b
<1>4. b.hasId = a.hasId /\ b.cancelled = a.cancelled
  BY <1>1, <1>2, <1>3
<1>5. r.error = s.error /\ r.ex = s.ex => b.error = a.error
  BY <1>2, <1>3
<1>6. CASE status \in {"PENDING", "IN_PROGRESS"}
  <2>1. /\ b.state = "SUBMITTED" /\ b.lastGood = "SUBMITTED" /\ b.remote = "PENDING"
        /\ b.error = a.error
    BY <1>1, <1>3, <1>5, <1>6
  <2> QED
    BY <1>2, <1>3, <1>4, <2>1, StepIs DEF a, b
<1>7. CASE status \in {"CANCELED", "FAILED"}
  <2>1. r.ex # "none"
    BY <1>1, <1>7
  <2>2. b.state = "DONE" /\ b.lastGood = "DONE" /\ b.remote = "FAILED" /\ b.error = "SOLVE"
    BY <1>1, <1>3, <1>7, <2>1
  <2> QED
    BY <1>2, <1>3, <1>4, <2>2, StepIs DEF a, b
<1>8. CASE status = "COMPLETED" /\ ~noMemory
  <2>1. /\ b.state = "DONE" /\ b.lastGood = "DONE" /\ b.remote = "COMPLETED"
        /\ b.error = a.error
    BY <1>1, <1>3, <1>5, <1>8
  <2> QED
    BY <1>2, <1>3, <1>4, <2>1, StepIs DEF a, b
<1>9. CASE status = "COMPLETED" /\ noMemory
  <2>1. b.state = "FAILED" /\ b.lastGood = "DONE" /\ b.remote = "COMPLETED" /\ b.error = "OTHER"
    BY <1>1, <1>3, <1>9
  <2> QED
    BY <1>2, <1>3, <1>4, <2>1, StepIs DEF a, b
<1> QED
  BY <1>6, <1>7, <1>8, <1>9 DEF RemoteStates, Statuses

\* An error that arrives is one of WithError's.
LEMMA ErrorAbstracted ==
  ASSUME NEW s \in SubType, GoodSub(s), NEW e \in ReplyErrors, NEW retry \in BOOLEAN,
         retry => e = "Network", NEW r, r = SetError(s, e, retry)
  PROVE  Abstract(r) \in Abstracted(Abstract(s))
<1>1. e \in Exceptions /\ ErrorType(e) # "SOLVE" /\ e # "none"
  BY DEF ReplyErrors, Exceptions, ErrorType, SolveExceptions
<1>2. /\ r \in SubType /\ r.kind = s.kind /\ r.remote = s.remote
      /\ r.error = ErrorType(e) /\ r.ex = e /\ r.cancelled = s.cancelled
      /\ ErrorType(e) = "SOLVE" => r.state = "DONE"
      /\ ErrorType(e) # "SOLVE" /\ retry /\ ErrorType(e) \in {"NETWORK", "PROTOCOL", "AUTH"}
           => r.state = "RETRYING"
      /\ ErrorType(e) # "SOLVE" /\ ~(retry /\ ErrorType(e) \in {"NETWORK", "PROTOCOL", "AUTH"})
           => r.state = "FAILED"
      /\ r.lastGood = IF ErrorType(e) = "SOLVE" THEN "DONE" ELSE s.lastGood
      /\ (r.wasDone <=> s.wasDone \/ Final(r))
  BY <1>1, SetErrorIs
<1> DEFINE a == Abstract(s)
           b == Abstract(r)
<1>3. /\ a \in ProblemType /\ a.lastGood = s.lastGood
      /\ a.hasId = FALSE /\ a.cancelled = s.cancelled
      /\ s.remote = "IN_PROGRESS" => a.remote = "PENDING"
      /\ s.remote = "CANCELED" => a.remote = "FAILED"
      /\ s.remote \notin {"IN_PROGRESS", "CANCELED"} => a.remote = s.remote
  BY AbstractIs
<1>4. /\ b \in ProblemType /\ b.state = r.state /\ b.lastGood = r.lastGood
      /\ b.hasId = FALSE /\ b.cancelled = r.cancelled
      /\ r.remote = "IN_PROGRESS" => b.remote = "PENDING"
      /\ r.remote = "CANCELED" => b.remote = "FAILED"
      /\ r.remote \notin {"IN_PROGRESS", "CANCELED"} => b.remote = r.remote
      /\ r.ex # "none" /\ r.error \in {"NETWORK", "SOLVE"} => b.error = r.error
      /\ r.ex # "none" /\ r.error \notin {"NETWORK", "SOLVE"} => b.error = "OTHER"
  <2>1. r \in SubType
    BY <1>2
  <2> QED
    BY <2>1, AbstractIs, ZenonT(60)
<1> HIDE DEF a, b
<1>5. /\ b.hasId = a.hasId /\ b.cancelled = a.cancelled /\ b.remote = a.remote
      /\ b.lastGood = a.lastGood
  BY <1>1, <1>2, <1>3, <1>4
<1>6. CASE ErrorType(e) = "NETWORK"
  <2>1. r.state \in {"RETRYING", "FAILED"} /\ r.error = "NETWORK" /\ r.ex # "none"
    BY <1>1, <1>2, <1>6
  <2>2. b.state \in {"FAILED", "RETRYING"} /\ b.error = "NETWORK"
    BY <1>4, <2>1
  <2> QED
    BY <1>3, <1>4, <1>5, <2>2, StepIs DEF a, b
<1>7. CASE ErrorType(e) # "NETWORK"
  <2>1. ~retry
    <3>1. ErrorType("Network") = "NETWORK"
      BY DEF ErrorType, SolveExceptions
    <3> QED
      BY <1>7, <3>1
  <2>2. r.state = "FAILED" /\ r.error \notin {"NETWORK", "SOLVE"} /\ r.ex # "none"
    BY <1>1, <1>2, <1>7, <2>1
  <2>3. b.state = "FAILED" /\ b.error = "OTHER"
    BY <1>4, <2>2
  <2> QED
    BY <1>3, <1>4, <1>5, <2>3, StepIs DEF a, b
<1> QED
  BY <1>6, <1>7

\* A retry is WithRetry, or fails at once.
LEMMA RetryAbstracted ==
  ASSUME NEW s \in SubType, GoodSub(s), Retryable(s),
         NEW r, r = WithRetry(s) \/ r = SetError(WithRetry(s), "bad_alloc", FALSE)
  PROVE  Abstract(r) \in Abstracted(Abstract(s))
<1> DEFINE a == Abstract(s)
           b == Abstract(r)
<1>1. /\ r \in SubType /\ r.remote = s.remote /\ r.lastGood = s.lastGood
      /\ r.cancelled = s.cancelled
      /\ \/ r.state = "RETRYING" /\ r.error = s.error /\ r.ex = s.ex
         \/ r.state = "FAILED" /\ r.error = "MEMORY" /\ r.ex = "bad_alloc"
  <2>1. CASE r = WithRetry(s)
    BY <2>1, WithRetryIs
  <2>2. CASE r = SetError(WithRetry(s), "bad_alloc", FALSE)
    BY <2>2, RetryFailsIs, ZenonT(60)
  <2> QED
    BY <2>1, <2>2
<1>2. /\ a \in ProblemType /\ a.state = s.state /\ a.lastGood = s.lastGood
      /\ a.hasId = FALSE /\ a.cancelled = s.cancelled
      /\ s.remote = "IN_PROGRESS" => a.remote = "PENDING"
      /\ s.remote = "CANCELED" => a.remote = "FAILED"
      /\ s.remote \notin {"IN_PROGRESS", "CANCELED"} => a.remote = s.remote
      /\ s.ex = "none" => a.error = "NONE"
      /\ s.ex # "none" /\ s.error \in {"NETWORK", "SOLVE"} => a.error = s.error
      /\ s.ex # "none" /\ s.error \notin {"NETWORK", "SOLVE"} => a.error = "OTHER"
  BY AbstractIs
<1>3. /\ b \in ProblemType /\ b.state = r.state /\ b.lastGood = r.lastGood
      /\ b.hasId = FALSE /\ b.cancelled = r.cancelled
      /\ r.remote = "IN_PROGRESS" => b.remote = "PENDING"
      /\ r.remote = "CANCELED" => b.remote = "FAILED"
      /\ r.remote \notin {"IN_PROGRESS", "CANCELED"} => b.remote = r.remote
      /\ r.ex = "none" => b.error = "NONE"
      /\ r.ex # "none" /\ r.error \in {"NETWORK", "SOLVE"} => b.error = r.error
      /\ r.ex # "none" /\ r.error \notin {"NETWORK", "SOLVE"} => b.error = "OTHER"
  BY <1>1, AbstractIs
<1>4. s.state = "FAILED" /\ s.lastGood # "DONE" /\ s.error # "SOLVE"
  BY DEF Retryable
<1> HIDE DEF a, b
<1>5. /\ b.hasId = a.hasId /\ b.cancelled = a.cancelled /\ b.remote = a.remote
      /\ b.lastGood = a.lastGood
  BY <1>1, <1>2, <1>3
<1>6. CASE r.state = "RETRYING" /\ r.error = s.error /\ r.ex = s.ex
  <2>1. a.error # "SOLVE"
    BY <1>2, <1>4
  <2>2. Retryable(a)
    BY <1>2, <1>4, <2>1 DEF Retryable
  <2>3. b.state = "RETRYING" /\ b.error = a.error
    BY <1>2, <1>3, <1>6
  <2> QED
    BY <1>2, <1>3, <1>5, <2>2, <2>3, StepIs DEF a, b
<1>7. CASE r.state = "FAILED" /\ r.error = "MEMORY" /\ r.ex = "bad_alloc"
  <2>1. b.state = "FAILED" /\ b.error = "OTHER"
    BY <1>3, <1>7
  <2> QED
    BY <1>2, <1>3, <1>5, <2>1, StepIs DEF a, b
<1> QED
  BY <1>1, <1>6, <1>7

\* A cancellation only sets the flag.
LEMMA CancelAbstracted ==
  ASSUME NEW s \in SubType, NEW r, r = [s EXCEPT !.cancelled = TRUE]
  PROVE  Abstract(r) \in Abstracted(Abstract(s))
<1> DEFINE a == Abstract(s)
           b == Abstract(r)
<1>1. /\ r \in SubType /\ r.state = s.state /\ r.lastGood = s.lastGood
      /\ r.remote = s.remote /\ r.error = s.error /\ r.ex = s.ex /\ r.cancelled
  BY DEF SubType
<1>2. /\ a \in ProblemType /\ a.state = s.state /\ a.lastGood = s.lastGood /\ a.hasId = FALSE
      /\ s.remote = "IN_PROGRESS" => a.remote = "PENDING"
      /\ s.remote = "CANCELED" => a.remote = "FAILED"
      /\ s.remote \notin {"IN_PROGRESS", "CANCELED"} => a.remote = s.remote
      /\ s.ex = "none" => a.error = "NONE"
      /\ s.ex # "none" /\ s.error \in {"NETWORK", "SOLVE"} => a.error = s.error
      /\ s.ex # "none" /\ s.error \notin {"NETWORK", "SOLVE"} => a.error = "OTHER"
  BY AbstractIs
<1>3. /\ b \in ProblemType /\ b.state = r.state /\ b.lastGood = r.lastGood
      /\ b.hasId = FALSE /\ b.cancelled = r.cancelled
      /\ r.remote = "IN_PROGRESS" => b.remote = "PENDING"
      /\ r.remote = "CANCELED" => b.remote = "FAILED"
      /\ r.remote \notin {"IN_PROGRESS", "CANCELED"} => b.remote = r.remote
      /\ r.ex = "none" => b.error = "NONE"
      /\ r.ex # "none" /\ r.error \in {"NETWORK", "SOLVE"} => b.error = r.error
      /\ r.ex # "none" /\ r.error \notin {"NETWORK", "SOLVE"} => b.error = "OTHER"
  BY <1>1, AbstractIs
<1> HIDE DEF a, b
<1>4. /\ b.hasId = a.hasId /\ b.remote = a.remote /\ b.lastGood = a.lastGood
      /\ b.state = a.state /\ b.error = a.error /\ b.cancelled
  BY <1>1, <1>2, <1>3, ZenonT(60)
<1> QED
  BY <1>2, <1>3, <1>4, StepIs DEF a, b

\* So any step of a record is one of its abstraction.
Refined(h) ==
  LET r == Abstract(subs[h]) IN
  Remote(subs[h]) /\ Remote(subs'[h]) /\ subs'[h] # subs[h] =>
    Abstract(subs'[h]) \in
      AbstractSteps(r) \cup {WithError(WithStatus(r, "COMPLETED"), "OTHER", FALSE)}

\* Every step of the calls is a step, or none, of each abstract record.
LEMMA StepRefined ==
  ASSUME SubsInv, CallsNext, NEW g \in Handles
  PROVE  Refined(g)
<1>0. /\ subs \in [Handles -> SubType]
      /\ \A h \in Handles : subs[h] \in SubType /\ GoodSub(subs[h])
  BY DEF SubsInv
<1>a. ASSUME NEW h \in Handles, NEW r, Put(h, r),
             h = g => Abstract(r) \in Abstracted(Abstract(subs[h])) \/ ~Remote(r) \/ ~Remote(subs[h])
      PROVE  Refined(g)
  <2>1. CASE h = g
    <3>1. subs'[g] = r
      BY <1>0, <1>a, <2>1 DEF Put
    <3> QED
      BY <1>a, <2>1, <3>1 DEF Refined, Abstracted
  <2>2. CASE h # g
    <3>1. subs'[g] = subs[g]
      BY <1>0, <1>a, <2>2 DEF Put
    <3> QED
      BY <3>1 DEF Refined
  <2> QED
    BY <2>1, <2>2
<1>1. CASE subs' = subs
  BY <1>1 DEF Refined
<1>2. ASSUME NEW h \in Handles, NEW kind \in {"local", "remote", "solving"}, Submit(h, kind)
      PROVE  Refined(g)
  <2>1. ~Remote(subs[h])
    BY <1>2, NoSubIsGood DEF Submit, Remote
  <2> QED
    BY <1>2, <1>a, <2>1 DEF Submit
<1>3. ASSUME NEW h \in Handles, SolveReturns(h)
      PROVE  Refined(g)
  <2>1. ~Remote(NoSub)
    BY NoSubIsGood DEF Remote
  <2> QED
    BY <1>3, <1>a, <2>1 DEF SolveReturns
<1>4. ASSUME NEW h \in Handles, AsyncRetry(h)
      PROVE  Refined(g)
  <2>1. PICK r : /\ r = WithRetry(subs[h]) \/ r = SetError(WithRetry(subs[h]), "bad_alloc", FALSE)
                 /\ Put(h, r)
    BY <1>4 DEF AsyncRetry
  <2>2. Abstract(r) \in Abstracted(Abstract(subs[h]))
    BY <1>0, <1>4, <2>1, RetryAbstracted DEF AsyncRetry
  <2> QED
    BY <1>a, <2>1, <2>2
<1>5. ASSUME NEW h \in Handles, Cancel(h)
      PROVE  Refined(g)
  <2> DEFINE r == [subs[h] EXCEPT !.cancelled = TRUE]
  <2>1. Put(h, r)
    BY <1>5 DEF Cancel
  <2>2. Abstract(r) \in Abstracted(Abstract(subs[h]))
    BY <1>0, CancelAbstracted
  <2> HIDE DEF r
  <2> QED
    BY <1>a, <2>1, <2>2
<1>6. ASSUME NEW h \in Handles,
             NEW status \in RemoteStates, NEW noMemory \in BOOLEAN,
             status # "UNKNOWN", StatusArrives(h, status, noMemory)
      PROVE  Refined(g)
  <2> DEFINE r == UpdateStatus(subs[h], status, noMemory)
  <2>1. Put(h, r)
    BY <1>6 DEF StatusArrives
  <2>2. Abstract(r) \in Abstracted(Abstract(subs[h]))
    BY <1>0, <1>6, UpdateAbstracted
  <2> HIDE DEF r
  <2> QED
    BY <1>a, <2>1, <2>2
<1>7. ASSUME NEW h \in Handles, NEW e \in ReplyErrors, NEW retry \in BOOLEAN,
             ErrorArrives(h, e, retry)
      PROVE  Refined(g)
  <2> DEFINE r == SetError(subs[h], e, retry)
  <2>1. Put(h, r) /\ (retry => e = "Network")
    BY <1>7 DEF ErrorArrives
  <2>2. Abstract(r) \in Abstracted(Abstract(subs[h]))
    BY <1>0, <2>1, ErrorAbstracted
  <2> HIDE DEF r
  <2> QED
    BY <1>a, <2>1, <2>2
<1>8. \/ subs' = subs
      \/ \E h \in Handles :
           \/ \E kind \in {"local", "remote", "solving"} : Submit(h, kind)
           \/ SolveReturns(h) \/ AsyncRetry(h) \/ Cancel(h)
           \/ \E status \in RemoteStates, noMemory \in BOOLEAN :
                status # "UNKNOWN" /\ StatusArrives(h, status, noMemory)
           \/ \E e \in ReplyErrors, retry \in BOOLEAN : ErrorArrives(h, e, retry)
  BY DEF CallsNext, WaitReturns, StartWait, SubmitFails, AsyncStatus, AsyncResult, RemoteStates
<1> QED
  BY <1>1, <1>2, <1>3, <1>4, <1>5, <1>6, <1>7, <1>8

(***************************************************************************)
(* Whatever happens to a remote problem's record is one of                 *)
(* SubmittedProblem's operations on the record that ProblemManager and     *)
(* Await keep of it: what is shown of theirs holds of the code's.          *)
(***************************************************************************)
THEOREM AbstractedSafe == CallsSpec => RecordIsAbstracted
<1>1. SubsSpecInv /\ [CallsNext]_callsVars =>
        [\A h \in Handles : Refined(h)]_callsVars
  BY StepRefined DEF SubsSpecInv
<1>2. SubsSpecInv /\ [CallsNext]_callsVars => SubsSpecInv'
  BY SubsNext
<1> QED
  BY <1>1, <1>2, SubsInit, PTL DEF CallsSpec, RecordIsAbstracted, Refined

-----------------------------------------------------------------------------
(* Chimera: loops that list pairs                                          *)

\* A sequence that has each member of T once.
Lists(s, T) ==
  /\ s \in Seq(T) /\ Injective(s)
  /\ \A x \in T : \E i \in 1 .. Len(s) : s[i] = x

\* It has as many entries as T has members.
LEMMA ListsCount ==
  ASSUME NEW T, NEW s, Lists(s, T)
  PROVE  ToSet(s) = T /\ Len(s) = Cardinality(T)
<1>1. s \in Seq(T) /\ DOMAIN s = 1 .. Len(s)
  BY DEF Lists
<1>2. {s[i] : i \in DOMAIN s} = T
  BY <1>1 DEF Lists
<1>3. Cardinality({s[i] : i \in DOMAIN s}) = Len(s)
  BY <1>1, CountOfList DEF Lists
<1> QED
  BY <1>2, <1>3 DEF ToSet

\* Nothing lists nothing.
LEMMA ListsNothing == Lists(<<>>, {})
<1>1. <<>> \in Seq({}) /\ Len(<<>>) = 0
  OBVIOUS
<1> QED
  BY <1>1 DEF Lists, Injective

\* Two lists without a common member, one after the other.
LEMMA ListsJoin ==
  ASSUME NEW S, NEW T, S \cap T = {}, NEW s, NEW t, Lists(s, S), Lists(t, T)
  PROVE  Lists(s \o t, S \cup T)
<1> DEFINE U == S \cup T
<1>1. s \in Seq(U) /\ t \in Seq(U)
  <2>1. Seq(S) \subseteq Seq(U) /\ Seq(T) \subseteq Seq(U)
    OBVIOUS
  <2> QED
    BY <2>1 DEF Lists
<1> HIDE DEF U
<1>2. /\ s \o t \in Seq(U) /\ Len(s \o t) = Len(s) + Len(t)
      /\ \A i \in 1 .. Len(s) + Len(t) :
           (s \o t)[i] = IF i <= Len(s) THEN s[i] ELSE t[i - Len(s)]
  BY <1>1, ConcatProperties
<1>3. Len(s) \in Nat /\ Len(t) \in Nat
  BY <1>1
<1>4. /\ \A i \in 1 .. Len(s) : s[i] \in S
      /\ \A i \in 1 .. Len(t) : t[i] \in T
  BY DEF Lists
<1>5. Injective(s \o t)
  <2> SUFFICES ASSUME NEW i \in 1 .. Len(s) + Len(t), NEW j \in 1 .. Len(s) + Len(t),
                      (s \o t)[i] = (s \o t)[j]
               PROVE  i = j
    BY <1>2 DEF Injective
  <2>1. CASE i <= Len(s) /\ j <= Len(s)
    BY <2>1, <1>2, <1>3 DEF Lists, Injective
  <2>2. CASE i > Len(s) /\ j > Len(s)
    <3>1. i - Len(s) \in 1 .. Len(t) /\ j - Len(s) \in 1 .. Len(t)
      BY <2>2, <1>3
    <3>2. (s \o t)[i] = t[i - Len(s)] /\ (s \o t)[j] = t[j - Len(s)]
      BY <2>2, <1>2, <1>3
    <3>3. i - Len(s) = j - Len(s)
      BY <3>1, <3>2 DEF Lists, Injective
    <3> QED
      BY <3>3, <1>3
  <2>3. CASE i <= Len(s) /\ j > Len(s)
    <3>1. (s \o t)[i] \in S /\ (s \o t)[j] \in T
      BY <2>3, <1>2, <1>3, <1>4
    <3> QED
      BY <3>1
  <2>4. CASE i > Len(s) /\ j <= Len(s)
    <3>1. (s \o t)[i] \in T /\ (s \o t)[j] \in S
      BY <2>4, <1>2, <1>3, <1>4
    <3> QED
      BY <3>1
  <2> QED
    BY <2>1, <2>2, <2>3, <2>4, <1>3
<1>6. ASSUME NEW x \in U PROVE \E i \in 1 .. Len(s \o t) : (s \o t)[i] = x
  <2>1. CASE x \in S
    <3>1. PICK i \in 1 .. Len(s) : s[i] = x
      BY <2>1 DEF Lists
    <3> QED
      BY <3>1, <1>2, <1>3
  <2>2. CASE x \in T
    <3>1. PICK i \in 1 .. Len(t) : t[i] = x
      BY <2>2 DEF Lists
    <3>2. i + Len(s) \in 1 .. Len(s) + Len(t) /\ ~ (i + Len(s) <= Len(s)) /\ (i + Len(s)) - Len(s) = i
      BY <1>3
    <3> QED
      BY <3>1, <3>2, <1>2
  <2> QED
    BY <2>1, <2>2 DEF U
<1> QED
  BY <1>2, <1>5, <1>6 DEF Lists, U

\* What FlattenSeq makes of its argument, one sequence after the other.
Flattens(seqs, g) ==
  /\ FlattenSeq(seqs) = g[Len(seqs)]
  /\ g[0] = <<>> /\ \A k \in 1 .. Len(seqs) : g[k] = g[k - 1] \o seqs[k]

LEMMA Flattened ==
  ASSUME NEW S, NEW seqs \in Seq(Seq(S))
  PROVE  \E g : Flattens(seqs, g)
<1> DEFINE n == Len(seqs)
           D == Seq(S)
           F == [k \in 1 .. n |-> [s \in D |-> s \o seqs[k]]]
           Body(fl, i) == IF i = 1 THEN seqs[i] ELSE fl[i - 1] \o seqs[i]
           IsFlatten(fl) == fl = [i \in 1 .. n |-> Body(fl, i)]
<1>0. n \in Nat /\ \A k \in 1 .. n : seqs[k] \in D
  OBVIOUS
<1>1. F \in [1 .. n -> [D -> D]] /\ <<>> \in D
  <2>1. ASSUME NEW k \in 1 .. n, NEW s \in D PROVE s \o seqs[k] \in D
    <3>1. seqs[k] \in Seq(S)
      OBVIOUS
    <3> QED
      BY <3>1
  <2> HIDE DEF n, D
  <2>2. ASSUME NEW k \in 1 .. n PROVE [s \in D |-> s \o seqs[k]] \in [D -> D]
    BY <2>1
  <2> QED
    BY <2>2 DEF D
<1>2. PICK g : Rounds(n, D, <<>>, F, g)
  <2> HIDE DEF n, D, F
  <2> QED
    BY <1>0, <1>1, Iterates
<1>3. /\ g \in [0 .. n -> D] /\ g[0] = <<>>
      /\ \A k \in 1 .. n : g[k] = F[k][g[k - 1]]
  <2> HIDE DEF n, D, F
  <2> QED
    BY <1>2 DEF Rounds
<1>4. \A k \in 1 .. n : g[k] = g[k - 1] \o seqs[k]
  <2> SUFFICES ASSUME NEW k \in 1 .. n PROVE g[k] = g[k - 1] \o seqs[k]
    OBVIOUS
  <2>1. g[k - 1] \in D
    <3>1. k - 1 \in 0 .. n
      BY <1>0
    <3> HIDE DEF D, n
    <3> QED
      BY <3>1, <1>3
  <2>2. F[k] = [s \in D |-> s \o seqs[k]] /\ g[k] = F[k][g[k - 1]]
    BY <1>3
  <2> HIDE DEF F, D
  <2> QED
    BY <2>1, <2>2
<1>5. CASE n = 0
  <2>1. seqs = <<>> /\ FlattenSeq(seqs) = seqs
    BY <1>5 DEF FlattenSeq
  <2> QED
    BY <2>1, <1>3, <1>5 DEF Flattens
<1>6. CASE n # 0
  <2> DEFINE h == [i \in 1 .. n |-> g[i]]
  <2>1. \A i \in 1 .. n : h[i] = Body(h, i)
    <3> SUFFICES ASSUME NEW i \in 1 .. n PROVE h[i] = Body(h, i)
      OBVIOUS
    <3>1. CASE i = 1
      <4>0. 1 \in 1 .. n /\ 1 - 1 = 0
        BY <3>1
      <4>1. g[1] = g[0] \o seqs[1] /\ h[1] = g[1]
        BY <4>0, <1>4
      <4>3. seqs[1] \in Seq(S)
        BY <4>0, <1>0
      <4>2. <<>> \o seqs[1] = seqs[1]
        BY <4>3, ConcatEmptySeq
      <4> QED
        BY <3>1, <4>1, <4>2, <1>3
    <3>2. CASE i # 1
      <4>1. i - 1 \in 1 .. n /\ h[i - 1] = g[i - 1] /\ h[i] = g[i]
        BY <3>2, <1>0
      <4> HIDE DEF h
      <4> QED
        BY <3>2, <4>1, <1>4
    <3> QED
      BY <3>1, <3>2
  <2>2. IsFlatten(h)
    <3>1. h = [i \in 1 .. n |-> h[i]]
      OBVIOUS
    <3> HIDE DEF h, Body
    <3> QED
      BY <2>1, <3>1
  <2> DEFINE fl == CHOOSE fl : IsFlatten(fl)
  <2>3. FlattenSeq(seqs) = fl[n]
    BY <1>6 DEF FlattenSeq
  <2>4. IsFlatten(fl)
    <3> HIDE DEF IsFlatten, h
    <3> QED
      BY <2>2
  <2>5. \A i \in 1 .. n : fl[i] = Body(fl, i)
    <3> HIDE DEF fl, Body
    <3> QED
      BY <2>4
  <2> HIDE DEF fl
  <2> DEFINE A == {m \in Nat : m + 1 <= n => fl[m + 1] = g[m + 1]}
  <2>6. 0 \in A
    <3>1. 1 \in 1 .. n
      BY <1>0, <1>6
    <3>2. fl[1] = seqs[1] /\ h[1] = seqs[1]
      <4> HIDE DEF h, n
      <4> QED
        BY <3>1, <2>1, <2>5
    <3>3. g[1] = h[1]
      BY <3>1
    <3> QED
      BY <3>2, <3>3
  <2>7. ASSUME NEW m \in Nat, m \in A PROVE m + 1 \in A
    <3> SUFFICES ASSUME m + 2 <= n PROVE fl[m + 2] = g[m + 2]
      OBVIOUS
    <3>1. m + 2 \in 1 .. n /\ m + 2 # 1 /\ (m + 2) - 1 = m + 1 /\ m + 1 <= n
      BY <1>0
    <3>2. fl[m + 2] = fl[m + 1] \o seqs[m + 2]
      <4> HIDE DEF n
      <4> QED
        BY <3>1, <2>5
    <3>3. g[m + 2] = g[m + 1] \o seqs[m + 2]
      <4> HIDE DEF n
      <4> QED
        BY <3>1, <1>4
    <3> QED
      BY <3>1, <3>2, <3>3, <2>7
  <2>8. Nat \subseteq A
    <3> HIDE DEF A
    <3> QED
      BY <2>6, <2>7, InductiveSet
  <2>9. n - 1 \in A /\ (n - 1) + 1 = n
    <3> HIDE DEF A
    <3> QED
      BY <2>8, <1>0, <1>6
  <2>10. fl[n] = g[n]
    BY <2>9, <1>0
  <2> QED
    BY <2>3, <2>10, <1>3, <1>4 DEF Flattens
<1> QED
  BY <1>5, <1>6

\* A loop of m rounds, the k-th of which lists what has the key k.
Loop(m, seqs, T, key) ==
  /\ m \in Nat /\ seqs = [k \in 1 .. m |-> seqs[k]]
  /\ \A k \in 1 .. m : Lists(seqs[k], {x \in T : key[x] = k})
  /\ \A x \in T : key[x] \in 1 .. m

\* The loop lists everything.
LEMMA LoopLists ==
  ASSUME NEW m, NEW seqs, NEW T, NEW key, Loop(m, seqs, T, key)
  PROVE  Lists(FlattenSeq(seqs), T)
<1> DEFINE Keyed(k) == {x \in T : key[x] <= k}
<1>0. m \in Nat /\ \A x \in T : key[x] \in 1 .. m
  BY DEF Loop
<1>1. seqs \in Seq(Seq(T)) /\ Len(seqs) = m
  <2>1. ASSUME NEW k \in 1 .. m PROVE seqs[k] \in Seq(T)
    <3>1. seqs[k] \in Seq({x \in T : key[x] = k})
      BY DEF Loop, Lists
    <3> QED
      BY <3>1
  <2>2. seqs \in [1 .. m -> Seq(T)]
    BY <2>1 DEF Loop
  <2> QED
    BY <2>2, <1>0
<1>2. PICK g : Flattens(seqs, g)
  BY <1>1, Flattened
<1>3. g[0] = <<>> /\ FlattenSeq(seqs) = g[m] /\ \A k \in 1 .. m : g[k] = g[k - 1] \o seqs[k]
  BY <1>1, <1>2 DEF Flattens
<1> DEFINE A == {k \in Nat : k <= m => Lists(g[k], Keyed(k))}
<1>4. 0 \in A
  <2>1. Keyed(0) = {}
    BY <1>0
  <2> HIDE DEF Keyed
  <2> QED
    BY <2>1, <1>3, ListsNothing
<1>5. ASSUME NEW k \in Nat, k \in A PROVE k + 1 \in A
  <2> SUFFICES ASSUME k + 1 <= m PROVE Lists(g[k + 1], Keyed(k + 1))
    OBVIOUS
  <2> DEFINE R == {x \in T : key[x] = k + 1}
  <2>1. Keyed(k + 1) = Keyed(k) \cup R /\ Keyed(k) \cap R = {}
    BY <1>0
  <2>2. k + 1 \in 1 .. m /\ (k + 1) - 1 = k /\ k <= m
    BY <1>0
  <2>3. Lists(seqs[k + 1], R)
    BY <2>2 DEF Loop
  <2>4. Lists(g[k], Keyed(k))
    BY <1>5, <2>2
  <2>5. g[k + 1] = g[k] \o seqs[k + 1]
    BY <1>3, <2>2
  <2> HIDE DEF R, Keyed
  <2> QED
    BY <2>1, <2>3, <2>4, <2>5, ListsJoin
<1>6. Nat \subseteq A
  <2> HIDE DEF A
  <2> QED
    BY <1>4, <1>5, InductiveSet
<1>7. Lists(g[m], Keyed(m))
  BY <1>6, <1>0
<1>8. Keyed(m) = T
  BY <1>0
<1> QED
  BY <1>3, <1>7, <1>8

-----------------------------------------------------------------------------
(* Chimera: rows, columns, sides and places                                *)

\* Dividing what was multiplied.
LEMMA DivideBack ==
  ASSUME NEW a \in Nat, NEW d \in Nat \ {0}, NEW r \in 0 .. d - 1
  PROVE  (a * d + r) \div d = a /\ (a * d + r) % d = r
<1> DEFINE x == a * d + r
           q == x \div d
           m == x % d
<1>1. x \in Nat
  OBVIOUS
<1> HIDE DEF x
<1>2. q \in Nat /\ m \in 0 .. d - 1 /\ x = d * q + m
  BY <1>1
<1> HIDE DEF q, m
<1>3. d * q + m = a * d + r
  BY <1>2 DEF x
<1>4. d * (q - a) = r - m
  BY <1>2, <1>3
<1>5. CASE q > a
  <2>1. d * (q - a) >= d
    <3>1. q - a \in Nat /\ q - a >= 1
      BY <1>5, <1>2
    <3> QED
      BY <3>1
  <2> QED
    BY <2>1, <1>4, <1>2
<1>6. CASE q < a
  <2>1. d * (a - q) >= d
    <3>1. a - q \in Nat /\ a - q >= 1
      BY <1>6, <1>2
    <3> QED
      BY <3>1
  <2>2. d * (a - q) = m - r
    BY <1>2, <1>3
  <2> QED
    BY <2>1, <2>2, <1>2
<1>7. CASE q = a
  BY <1>7, <1>4, <1>2 DEF q, m, x
<1> QED
  BY <1>5, <1>6, <1>7, <1>2

\* Multiplying what was divided.
LEMMA DivideOut ==
  ASSUME NEW x \in Nat, NEW d \in Nat \ {0}
  PROVE  /\ x \div d \in Nat /\ x % d \in 0 .. d - 1 /\ x = (x \div d) * d + (x % d)
         /\ \A b \in Nat : x < b * d => x \div d < b
<1> DEFINE q == x \div d
           m == x % d
<1>1. q \in Nat /\ m \in 0 .. d - 1 /\ x = q * d + m
  OBVIOUS
<1> HIDE DEF q, m
<1>2. ASSUME NEW b \in Nat, x < b * d PROVE q < b
  <2> SUFFICES ASSUME q >= b PROVE FALSE
    BY <1>1
  <2>1. q * d >= b * d
    BY <1>1
  <2> QED
    BY <2>1, <1>1, <1>2
<1> QED
  BY <1>1, <1>2 DEF q, m

SizeType == size \in Nat \X Nat \X (Nat \ {0})

\* The qubit at a place of a side of a cell.
Qubit(i, j, s, t) == ((i * size[2] + j) * 2 + s) * size[3] + t
NumberOfQubits == 2 * size[1] * size[2] * size[3]
Rows == 0 .. size[1] - 1
Cols == 0 .. size[2] - 1
Places == 0 .. size[3] - 1

\* Coordinates are those of the qubit they give ...
LEMMA QubitAt ==
  ASSUME SizeType, NEW i \in Rows, NEW j \in Cols, NEW s \in {0, 1}, NEW t \in Places
  PROVE  /\ Qubit(i, j, s, t) \in 0 .. NumberOfQubits - 1
         /\ Row(Qubit(i, j, s, t)) = i /\ Col(Qubit(i, j, s, t)) = j
         /\ Side(Qubit(i, j, s, t)) = s /\ PlaceOf(Qubit(i, j, s, t)) = t
<1> DEFINE M == size[1]
           N == size[2]
           L == size[3]
           cell == i * N + j
           half == cell * 2 + s
           q == half * L + t
<1>1. M \in Nat /\ N \in Nat \ {0} /\ L \in Nat \ {0}
  BY DEF SizeType, Cols
<1>2. i \in 0 .. M - 1 /\ j \in 0 .. N - 1 /\ t \in 0 .. L - 1
  BY DEF Rows, Cols, Places
<1>3. Qubit(i, j, s, t) = q /\ NumberOfQubits = 2 * M * N * L
  BY DEF Qubit, NumberOfQubits
<1> HIDE DEF M, N, L
<1>4. cell \in Nat /\ half \in Nat
  BY <1>1, <1>2
<1>5. cell \div N = i /\ cell % N = j
  <2>1. i \in Nat
    BY <1>1, <1>2
  <2> QED
    BY <2>1, <1>1, <1>2, DivideBack
<1>6. half \div 2 = cell /\ half % 2 = s
  <2> HIDE DEF cell
  <2> QED
    BY <1>4
<1>7. q \div L = half /\ q % L = t
  <2> HIDE DEF half
  <2> QED
    BY <1>1, <1>2, <1>4, DivideBack
<1>8. q \div (2 * L) = cell
  <2>1. 2 * L \in Nat \ {0} /\ s * L + t \in 0 .. 2 * L - 1
    BY <1>1, <1>2
  <2>2. q = cell * (2 * L) + (s * L + t)
    <3> HIDE DEF cell
    <3> QED
      BY <1>1, <1>2, <1>4
  <2> HIDE DEF cell, q
  <2> QED
    BY <2>1, <2>2, <1>4, DivideBack
<1>9. q \in 0 .. 2 * M * N * L - 1
  <2>1. cell <= M * N - 1
    <3>1. i * N <= (M - 1) * N
      BY <1>1, <1>2
    <3> QED
      BY <3>1, <1>1, <1>2
  <2>2. half <= 2 * (M * N) - 1 /\ M * N \in Nat
    <3> HIDE DEF cell
    <3> QED
      BY <2>1, <1>1, <1>4
  <2>3. half * L <= (2 * (M * N) - 1) * L
    <3> HIDE DEF half
    <3> QED
      BY <2>2, <1>1, <1>4
  <2>4. (2 * (M * N) - 1) * L = 2 * M * N * L - L
    BY <1>1
  <2>5. half * L \in Nat /\ 2 * M * N * L \in Nat
    <3> HIDE DEF half
    <3> QED
      BY <1>1, <1>4
  <2> HIDE DEF half
  <2> QED
    BY <2>3, <2>4, <2>5, <1>1, <1>2
<1> HIDE DEF q, half, cell
<1> QED
  BY <1>3, <1>5, <1>6, <1>7, <1>8, <1>9 DEF Row, Col, Side, PlaceOf, M, N, L

\* ... and every qubit has its own.
LEMMA QubitIs ==
  ASSUME SizeType, NEW q \in 0 .. NumberOfQubits - 1
  PROVE  /\ Row(q) \in Rows /\ Col(q) \in Cols /\ Side(q) \in {0, 1} /\ PlaceOf(q) \in Places
         /\ q = Qubit(Row(q), Col(q), Side(q), PlaceOf(q))
<1> DEFINE M == size[1]
           N == size[2]
           L == size[3]
           half == q \div L
           cell == half \div 2
<1>1. M \in Nat /\ N \in Nat /\ L \in Nat \ {0} /\ q \in 0 .. 2 * M * N * L - 1 /\ q \in Nat
  BY DEF SizeType, NumberOfQubits
<1> HIDE DEF M, N, L
<1>2. N # 0
  BY <1>1
<1>3. half \in Nat /\ q % L \in 0 .. L - 1 /\ q = half * L + (q % L)
  BY <1>1, DivideOut
<1>4. half < 2 * M * N
  <2>1. 2 * M * N \in Nat /\ q < (2 * M * N) * L
    BY <1>1
  <2> QED
    BY <2>1, <1>1, DivideOut
<1> HIDE DEF half
<1>5. cell \in Nat /\ half % 2 \in {0, 1} /\ half = cell * 2 + (half % 2)
  BY <1>3
<1>6. cell < M * N
  <2>1. M * N \in Nat /\ half < 2 * (M * N)
    BY <1>1, <1>4
  <2> QED
    BY <2>1, <1>5
<1>7. q \div (2 * L) = cell
  <2>1. 2 * L \in Nat \ {0} /\ (half % 2) * L + (q % L) \in 0 .. 2 * L - 1
    BY <1>1, <1>3, <1>5
  <2>2. q = cell * (2 * L) + ((half % 2) * L + (q % L))
    <3> DEFINE h2 == half % 2
               m == q % L
    <3>1. h2 \in {0, 1} /\ half = cell * 2 + h2 /\ q = half * L + m /\ m \in 0 .. L - 1
      BY <1>3, <1>5
    <3> HIDE DEF cell, h2, m
    <3>2. q = (cell * 2 + h2) * L + m
      BY <3>1
    <3> QED
      BY <3>1, <3>2, <1>1, <1>5 DEF h2, m
  <2> HIDE DEF cell
  <2>3. (cell * (2 * L) + ((half % 2) * L + (q % L))) \div (2 * L) = cell
    BY <2>1, <1>5, DivideBack
  <2> QED
    BY <2>2, <2>3
<1> HIDE DEF cell
<1>8. cell \div N \in Nat /\ cell % N \in 0 .. N - 1 /\ cell = (cell \div N) * N + (cell % N) /\ cell \div N < M
  BY <1>1, <1>2, <1>5, <1>6, DivideOut
<1>9. Row(q) = cell \div N /\ Col(q) = cell % N /\ Side(q) = half % 2 /\ PlaceOf(q) = q % L
  BY <1>7 DEF Row, Col, Side, PlaceOf, half, M, N, L
<1>10. Row(q) \in 0 .. M - 1 /\ Col(q) \in 0 .. N - 1 /\ Side(q) \in {0, 1} /\ PlaceOf(q) \in 0 .. L - 1
  BY <1>1, <1>3, <1>5, <1>8, <1>9
<1>11. q = ((Row(q) * N + Col(q)) * 2 + Side(q)) * L + PlaceOf(q)
  BY <1>3, <1>5, <1>8, <1>9
<1> QED
  BY <1>10, <1>11 DEF Rows, Cols, Places, Qubit, M, N, L

-----------------------------------------------------------------------------
(* Chimera: the edges of the grid                                          *)

\* What has the key k.
Part(T, key, k) == {x \in T : key[x] = k}

\* A loop of n rounds, the k-th of which lists what has the key k.
Rounded(n, s, T, key) ==
  /\ \A k \in 0 .. n - 1 : Lists(s[k], Part(T, key, k))
  /\ \A x \in T : key[x] \in 0 .. n - 1

\* Such a loop lists everything, also when it has no round.
LEMMA ConcatLists ==
  ASSUME NEW n \in Int, NEW s, NEW T, NEW key, Rounded(n, s, T, key)
  PROVE  Lists(Concat(s, n), T)
<1> DEFINE m == IF n < 0 THEN 0 ELSE n
           seqs == [k \in 1 .. m |-> s[k - 1]]
           next == [x \in T |-> key[x] + 1]
<1>1. m \in Nat /\ 1 .. n = 1 .. m
  OBVIOUS
<1>2. Concat(s, n) = FlattenSeq(seqs)
  BY <1>1 DEF Concat
<1>3. \A x \in T : key[x] \in 0 .. n - 1
  BY DEF Rounded
<1>4. ASSUME NEW x \in T PROVE next[x] \in 1 .. m
  <2>1. key[x] \in 0 .. n - 1 /\ next[x] = key[x] + 1
    BY <1>3
  <2> QED
    BY <2>1
<1>5. ASSUME NEW k \in 1 .. m PROVE Lists(seqs[k], {x \in T : next[x] = k})
  <2>1. k - 1 \in 0 .. n - 1 /\ seqs[k] = s[k - 1]
    BY <1>1
  <2>2. {x \in T : next[x] = k} = Part(T, key, k - 1)
    <3>1. ASSUME NEW x \in T PROVE next[x] = k <=> key[x] = k - 1
      <4>1. key[x] \in Int /\ next[x] = key[x] + 1
        BY <1>3
      <4> QED
        BY <4>1, <1>1
    <3> HIDE DEF next
    <3> QED
      BY <3>1 DEF Part
  <2> HIDE DEF seqs, next
  <2> QED
    BY <2>1, <2>2 DEF Rounded
<1>6. seqs = [k \in 1 .. m |-> seqs[k]]
  OBVIOUS
<1> HIDE DEF seqs, next, m
<1>7. Loop(m, seqs, T, next)
  BY <1>1, <1>4, <1>5, <1>6 DEF Loop
<1> QED
  BY <1>2, <1>7, LoopLists

LEMMA BothLists ==
  ASSUME NEW a, NEW b, a # b
  PROVE  Lists(Both(a, b), {<<a, b>>, <<b, a>>})
<1>1. <<a, b>> # <<b, a>>
  OBVIOUS
<1> DEFINE x == <<a, b>>
           y == <<b, a>>
<1> HIDE DEF x, y
<1>2. <<x, y>> \in Seq({x, y}) /\ Len(<<x, y>>) = 2 /\ <<x, y>>[1] = x /\ <<x, y>>[2] = y
  OBVIOUS
<1>3. x # y
  BY <1>1 DEF x, y
<1>4. Injective(<<x, y>>)
  BY <1>2, <1>3 DEF Injective
<1>5. \A z \in {x, y} : \E i \in 1 .. Len(<<x, y>>) : <<x, y>>[i] = z
  BY <1>2
<1>6. Lists(<<x, y>>, {x, y})
  BY <1>2, <1>4, <1>5 DEF Lists
<1> QED
  BY <1>6 DEF Both, x, y

Grid ==
  {pq \in (0 .. NumberOfQubits - 1) \X (0 .. NumberOfQubits - 1) : GridAdjacent(pq[1], pq[2])}

\* Down the columns, along the rows, and inside the cells.
Upright == {pq \in Grid : Side(pq[1]) = 0 /\ Side(pq[2]) = 0}
Flat == {pq \in Grid : Side(pq[1]) = 1 /\ Side(pq[2]) = 1}
Inside == {pq \in Grid : Side(pq[1]) # Side(pq[2])}

\* What the loops count: the lesser row or column, and the places of both ends.
Lower(a, b) == IF a <= b THEN a ELSE b
RowKey == [pq \in Grid |-> Lower(Row(pq[1]), Row(pq[2]))]
ColKey == [pq \in Grid |-> Lower(Col(pq[1]), Col(pq[2]))]
LeftKey == [pq \in Grid |-> IF Side(pq[1]) = 0 THEN PlaceOf(pq[1]) ELSE PlaceOf(pq[2])]
RightKey == [pq \in Grid |-> IF Side(pq[1]) = 1 THEN PlaceOf(pq[1]) ELSE PlaceOf(pq[2])]

\* An edge with its coordinates.
LEMMA EdgeIs ==
  ASSUME SizeType, NEW x \in Grid
  PROVE  \E p \in 0 .. NumberOfQubits - 1, q \in 0 .. NumberOfQubits - 1 :
           /\ x = <<p, q>> /\ x[1] = p /\ x[2] = q /\ GridAdjacent(p, q)
           /\ Row(p) \in Rows /\ Col(p) \in Cols /\ Side(p) \in {0, 1} /\ PlaceOf(p) \in Places
           /\ Row(q) \in Rows /\ Col(q) \in Cols /\ Side(q) \in {0, 1} /\ PlaceOf(q) \in Places
           /\ p = Qubit(Row(p), Col(p), Side(p), PlaceOf(p))
           /\ q = Qubit(Row(q), Col(q), Side(q), PlaceOf(q))
<1>1. PICK p \in 0 .. NumberOfQubits - 1, q \in 0 .. NumberOfQubits - 1 :
        x = <<p, q>> /\ GridAdjacent(p, q)
  BY DEF Grid
<1>2. x[1] = p /\ x[2] = q
  BY <1>1
<1> QED
  BY <1>1, <1>2, QubitIs

\* The two directions of an edge down a column.
LEMMA UprightAre ==
  ASSUME SizeType, NEW i \in 0 .. size[1] - 2, NEW j \in Cols, NEW t \in Places,
         NEW a, a = Qubit(i, j, 0, t), NEW b, b = Qubit(i + 1, j, 0, t)
  PROVE  Part(Part(Part(Upright, ColKey, j), RowKey, i), LeftKey, t) = {<<a, b>>, <<b, a>>} /\ a # b
<1> DEFINE P == Part(Part(Part(Upright, ColKey, j), RowKey, i), LeftKey, t)
<1>0. i \in Rows /\ i + 1 \in Rows /\ i \in Int /\ Rows \subseteq Int /\ Cols \subseteq Int
  BY DEF SizeType, Rows, Cols
<1>1. /\ a \in 0 .. NumberOfQubits - 1 /\ Row(a) = i /\ Col(a) = j /\ Side(a) = 0 /\ PlaceOf(a) = t
      /\ b \in 0 .. NumberOfQubits - 1 /\ Row(b) = i + 1 /\ Col(b) = j /\ Side(b) = 0 /\ PlaceOf(b) = t
  BY <1>0, QubitAt
<1>2. a # b
  BY <1>0, <1>1
<1>3. GridAdjacent(a, b) /\ GridAdjacent(b, a)
  BY <1>0, <1>1 DEF GridAdjacent, Step
<1>4. <<a, b>> \in P /\ <<b, a>> \in P
  <2>1. <<a, b>> \in Grid /\ <<b, a>> \in Grid
    BY <1>1, <1>3 DEF Grid
  <2>2. <<a, b>> \in Upright /\ <<b, a>> \in Upright
    BY <2>1, <1>1 DEF Upright
  <2>3. /\ ColKey[<<a, b>>] = j /\ ColKey[<<b, a>>] = j
        /\ RowKey[<<a, b>>] = i /\ RowKey[<<b, a>>] = i
        /\ LeftKey[<<a, b>>] = t /\ LeftKey[<<b, a>>] = t
    BY <2>1, <1>0, <1>1 DEF ColKey, RowKey, LeftKey, Lower
  <2> QED
    BY <2>2, <2>3 DEF Part
<1>5. ASSUME NEW x \in P PROVE x = <<a, b>> \/ x = <<b, a>>
  <2>1. x \in Grid /\ x \in Upright /\ ColKey[x] = j /\ RowKey[x] = i /\ LeftKey[x] = t
    BY DEF Part, Upright
  <2>2. PICK p \in 0 .. NumberOfQubits - 1, q \in 0 .. NumberOfQubits - 1 :
           /\ x = <<p, q>> /\ x[1] = p /\ x[2] = q /\ GridAdjacent(p, q)
           /\ Row(p) \in Rows /\ Col(p) \in Cols /\ Side(p) \in {0, 1} /\ PlaceOf(p) \in Places
           /\ Row(q) \in Rows /\ Col(q) \in Cols /\ Side(q) \in {0, 1} /\ PlaceOf(q) \in Places
           /\ p = Qubit(Row(p), Col(p), Side(p), PlaceOf(p))
           /\ q = Qubit(Row(q), Col(q), Side(q), PlaceOf(q))
    BY <2>1, EdgeIs
  <2>3. Side(p) = 0 /\ Side(q) = 0
    BY <2>1, <2>2 DEF Upright
  <2>4. /\ Lower(Col(p), Col(q)) = j /\ Lower(Row(p), Row(q)) = i /\ PlaceOf(p) = t
    BY <2>1, <2>2, <2>3 DEF ColKey, RowKey, LeftKey
  <2>5. PlaceOf(q) = t /\ Col(p) = Col(q) /\ Step(Row(p), Row(q))
    BY <2>2, <2>3, <2>4 DEF GridAdjacent
  <2>6. Col(p) = j /\ Col(q) = j
    BY <2>4, <2>5 DEF Lower
  <2>7. Row(p) \in Int /\ Row(q) \in Int
    BY <2>2, <1>0
  <2>8. (Row(p) = i /\ Row(q) = i + 1) \/ (Row(p) = i + 1 /\ Row(q) = i)
    BY <2>4, <2>5, <2>7, <1>0 DEF Lower, Step
  <2> QED
    BY <2>2, <2>3, <2>4, <2>5, <2>6, <2>8
<1> HIDE DEF P
<1>6. P = {<<a, b>>, <<b, a>>}
  BY <1>4, <1>5
<1> QED
  BY <1>2, <1>6 DEF P

\* Those of an edge along a row.
LEMMA FlatAre ==
  ASSUME SizeType, NEW i \in Rows, NEW j \in 0 .. size[2] - 2, NEW t \in Places,
         NEW a, a = Qubit(i, j, 1, t), NEW b, b = Qubit(i, j + 1, 1, t)
  PROVE  Part(Part(Part(Flat, RowKey, i), ColKey, j), RightKey, t) = {<<a, b>>, <<b, a>>} /\ a # b
<1> DEFINE P == Part(Part(Part(Flat, RowKey, i), ColKey, j), RightKey, t)
<1>0. j \in Cols /\ j + 1 \in Cols /\ j \in Int /\ Rows \subseteq Int /\ Cols \subseteq Int
  BY DEF SizeType, Rows, Cols
<1>1. /\ a \in 0 .. NumberOfQubits - 1 /\ Row(a) = i /\ Col(a) = j /\ Side(a) = 1 /\ PlaceOf(a) = t
      /\ b \in 0 .. NumberOfQubits - 1 /\ Row(b) = i /\ Col(b) = j + 1 /\ Side(b) = 1 /\ PlaceOf(b) = t
  BY <1>0, QubitAt
<1>2. a # b
  BY <1>0, <1>1
<1>3. GridAdjacent(a, b) /\ GridAdjacent(b, a)
  BY <1>0, <1>1 DEF GridAdjacent, Step
<1>4. <<a, b>> \in P /\ <<b, a>> \in P
  <2>1. <<a, b>> \in Grid /\ <<b, a>> \in Grid
    BY <1>1, <1>3 DEF Grid
  <2>2. <<a, b>> \in Flat /\ <<b, a>> \in Flat
    BY <2>1, <1>1 DEF Flat
  <2>3. /\ ColKey[<<a, b>>] = j /\ ColKey[<<b, a>>] = j
        /\ RowKey[<<a, b>>] = i /\ RowKey[<<b, a>>] = i
        /\ RightKey[<<a, b>>] = t /\ RightKey[<<b, a>>] = t
    BY <2>1, <1>0, <1>1 DEF ColKey, RowKey, RightKey, Lower
  <2> QED
    BY <2>2, <2>3 DEF Part
<1>5. ASSUME NEW x \in P PROVE x = <<a, b>> \/ x = <<b, a>>
  <2>1. x \in Grid /\ x \in Flat /\ ColKey[x] = j /\ RowKey[x] = i /\ RightKey[x] = t
    BY DEF Part, Flat
  <2>2. PICK p \in 0 .. NumberOfQubits - 1, q \in 0 .. NumberOfQubits - 1 :
           /\ x = <<p, q>> /\ x[1] = p /\ x[2] = q /\ GridAdjacent(p, q)
           /\ Row(p) \in Rows /\ Col(p) \in Cols /\ Side(p) \in {0, 1} /\ PlaceOf(p) \in Places
           /\ Row(q) \in Rows /\ Col(q) \in Cols /\ Side(q) \in {0, 1} /\ PlaceOf(q) \in Places
           /\ p = Qubit(Row(p), Col(p), Side(p), PlaceOf(p))
           /\ q = Qubit(Row(q), Col(q), Side(q), PlaceOf(q))
    BY <2>1, EdgeIs
  <2>3. Side(p) = 1 /\ Side(q) = 1
    BY <2>1, <2>2 DEF Flat
  <2>4. /\ Lower(Col(p), Col(q)) = j /\ Lower(Row(p), Row(q)) = i /\ PlaceOf(p) = t
    BY <2>1, <2>2, <2>3 DEF ColKey, RowKey, RightKey
  <2>5. PlaceOf(q) = t /\ Row(p) = Row(q) /\ Step(Col(p), Col(q))
    BY <2>2, <2>3, <2>4 DEF GridAdjacent
  <2>6. Row(p) = i /\ Row(q) = i
    BY <2>4, <2>5 DEF Lower
  <2>7. Col(p) \in Int /\ Col(q) \in Int
    BY <2>2, <1>0
  <2>8. (Col(p) = j /\ Col(q) = j + 1) \/ (Col(p) = j + 1 /\ Col(q) = j)
    BY <2>4, <2>5, <2>7, <1>0 DEF Lower, Step
  <2> QED
    BY <2>2, <2>3, <2>4, <2>5, <2>6, <2>8
<1> HIDE DEF P
<1>6. P = {<<a, b>>, <<b, a>>}
  BY <1>4, <1>5
<1> QED
  BY <1>2, <1>6 DEF P

\* Those of an edge inside a cell.
LEMMA InsideAre ==
  ASSUME SizeType, NEW i \in Rows, NEW j \in Cols, NEW t \in Places, NEW u \in Places,
         NEW a, a = Qubit(i, j, 0, t), NEW b, b = Qubit(i, j, 1, u)
  PROVE  /\ Part(Part(Part(Part(Inside, RowKey, i), ColKey, j), LeftKey, t), RightKey, u)
              = {<<a, b>>, <<b, a>>}
         /\ a # b
<1> DEFINE P == Part(Part(Part(Part(Inside, RowKey, i), ColKey, j), LeftKey, t), RightKey, u)
<1>0. Rows \subseteq Int /\ Cols \subseteq Int
  BY DEF SizeType, Rows, Cols
<1>1. /\ a \in 0 .. NumberOfQubits - 1 /\ Row(a) = i /\ Col(a) = j /\ Side(a) = 0 /\ PlaceOf(a) = t
      /\ b \in 0 .. NumberOfQubits - 1 /\ Row(b) = i /\ Col(b) = j /\ Side(b) = 1 /\ PlaceOf(b) = u
  BY QubitAt
<1>2. a # b
  BY <1>1
<1>3. GridAdjacent(a, b) /\ GridAdjacent(b, a)
  BY <1>1 DEF GridAdjacent
<1>4. <<a, b>> \in P /\ <<b, a>> \in P
  <2>1. <<a, b>> \in Grid /\ <<b, a>> \in Grid
    BY <1>1, <1>3 DEF Grid
  <2>2. <<a, b>> \in Inside /\ <<b, a>> \in Inside
    BY <2>1, <1>1 DEF Inside
  <2>3. /\ ColKey[<<a, b>>] = j /\ ColKey[<<b, a>>] = j
        /\ RowKey[<<a, b>>] = i /\ RowKey[<<b, a>>] = i
    BY <2>1, <1>0, <1>1 DEF ColKey, RowKey, Lower
  <2>4. /\ LeftKey[<<a, b>>] = t /\ LeftKey[<<b, a>>] = t
        /\ RightKey[<<a, b>>] = u /\ RightKey[<<b, a>>] = u
    BY <2>1, <1>1 DEF LeftKey, RightKey
  <2> QED
    BY <2>2, <2>3, <2>4 DEF Part
<1>5. ASSUME NEW x \in P PROVE x = <<a, b>> \/ x = <<b, a>>
  <2>1. x \in Grid /\ x \in Inside /\ ColKey[x] = j /\ RowKey[x] = i /\ LeftKey[x] = t /\ RightKey[x] = u
    BY DEF Part, Inside
  <2>2. PICK p \in 0 .. NumberOfQubits - 1, q \in 0 .. NumberOfQubits - 1 :
           /\ x = <<p, q>> /\ x[1] = p /\ x[2] = q /\ GridAdjacent(p, q)
           /\ Row(p) \in Rows /\ Col(p) \in Cols /\ Side(p) \in {0, 1} /\ PlaceOf(p) \in Places
           /\ Row(q) \in Rows /\ Col(q) \in Cols /\ Side(q) \in {0, 1} /\ PlaceOf(q) \in Places
           /\ p = Qubit(Row(p), Col(p), Side(p), PlaceOf(p))
           /\ q = Qubit(Row(q), Col(q), Side(q), PlaceOf(q))
    BY <2>1, EdgeIs
  <2>3. Side(p) # Side(q)
    BY <2>1, <2>2 DEF Inside
  <2>4. Row(p) = Row(q) /\ Col(p) = Col(q)
    BY <2>2, <2>3 DEF GridAdjacent
  <2>5. Row(p) = i /\ Col(p) = j
    BY <2>1, <2>2, <2>4 DEF RowKey, ColKey, Lower
  <2>6. CASE Side(p) = 0
    <3>1. Side(q) = 1 /\ PlaceOf(p) = t /\ PlaceOf(q) = u
      BY <2>6, <2>1, <2>2, <2>3 DEF LeftKey, RightKey
    <3> QED
      BY <3>1, <2>6, <2>2, <2>4, <2>5
  <2>7. CASE Side(p) = 1
    <3>1. Side(q) = 0 /\ PlaceOf(p) = u /\ PlaceOf(q) = t
      BY <2>7, <2>1, <2>2, <2>3 DEF LeftKey, RightKey
    <3> QED
      BY <3>1, <2>7, <2>2, <2>4, <2>5
  <2> QED
    BY <2>2, <2>6, <2>7
<1> HIDE DEF P
<1>6. P = {<<a, b>>, <<b, a>>}
  BY <1>4, <1>5
<1> QED
  BY <1>2, <1>6 DEF P

\* How far the loops must count.
LEMMA KeysFit ==
  ASSUME SizeType, NEW x \in Grid
  PROVE  /\ RowKey[x] \in Rows /\ ColKey[x] \in Cols
         /\ LeftKey[x] \in Places /\ RightKey[x] \in Places
         /\ x \in Upright => RowKey[x] \in 0 .. size[1] - 2
         /\ x \in Flat => ColKey[x] \in 0 .. size[2] - 2
<1>0. Rows \subseteq Int /\ Cols \subseteq Int /\ size[1] \in Int /\ size[2] \in Int
  BY DEF SizeType, Rows, Cols
<1>1. PICK p \in 0 .. NumberOfQubits - 1, q \in 0 .. NumberOfQubits - 1 :
         /\ x = <<p, q>> /\ x[1] = p /\ x[2] = q /\ GridAdjacent(p, q)
         /\ Row(p) \in Rows /\ Col(p) \in Cols /\ Side(p) \in {0, 1} /\ PlaceOf(p) \in Places
         /\ Row(q) \in Rows /\ Col(q) \in Cols /\ Side(q) \in {0, 1} /\ PlaceOf(q) \in Places
         /\ p = Qubit(Row(p), Col(p), Side(p), PlaceOf(p))
         /\ q = Qubit(Row(q), Col(q), Side(q), PlaceOf(q))
  BY EdgeIs
<1>2. /\ RowKey[x] = Lower(Row(p), Row(q)) /\ ColKey[x] = Lower(Col(p), Col(q))
      /\ LeftKey[x] \in {PlaceOf(p), PlaceOf(q)} /\ RightKey[x] \in {PlaceOf(p), PlaceOf(q)}
  BY <1>1 DEF RowKey, ColKey, LeftKey, RightKey
<1>3. /\ RowKey[x] \in Rows /\ ColKey[x] \in Cols
      /\ LeftKey[x] \in Places /\ RightKey[x] \in Places
  BY <1>1, <1>2 DEF Lower
<1>4. ASSUME x \in Upright PROVE RowKey[x] \in 0 .. size[1] - 2
  <2>1. Step(Row(p), Row(q))
    BY <1>1, <1>4 DEF Upright, GridAdjacent
  <2> QED
    BY <2>1, <1>0, <1>1, <1>2 DEF Step, Lower, Rows
<1>5. ASSUME x \in Flat PROVE ColKey[x] \in 0 .. size[2] - 2
  <2>1. Step(Col(p), Col(q))
    BY <1>1, <1>5 DEF Flat, GridAdjacent
  <2> QED
    BY <2>1, <1>0, <1>1, <1>2 DEF Step, Lower, Cols
<1> QED
  BY <1>3, <1>4, <1>5

-----------------------------------------------------------------------------
(* Chimera: the loops list the edges                                       *)

\* Members of a part have the key, and are members of the whole.
LEMMA PartIs ==
  ASSUME NEW T, NEW key, NEW k
  PROVE  Part(T, key, k) \subseteq T /\ \A x \in Part(T, key, k) : key[x] = k
BY DEF Part

LEMMA VerticalLists ==
  ASSUME SizeType
  PROVE  Lists(VerticalEdges(size[1], size[2], size[3]), Upright)
<1> DEFINE M == size[1]
           N == size[2]
           L == size[3]
           from(j, i, t) == L * 2 * j + i * N * L * 2 + t
           places(j, i) == [t \in 0 .. L - 1 |-> Both(from(j, i, t), from(j, i, t) + N * L * 2)]
           rows(j) == [i \in 0 .. M - 2 |-> Concat(places(j, i), L)]
           cols == [j \in 0 .. N - 1 |-> Concat(rows(j), M - 1)]
           OfCol(j) == Part(Upright, ColKey, j)
           OfRow(j, i) == Part(OfCol(j), RowKey, i)
<1>0. M \in Nat /\ N \in Nat /\ L \in Nat /\ Upright \subseteq Grid
  BY DEF SizeType, Upright
<1>1. VerticalEdges(M, N, L) = Concat(cols, N)
  BY DEF VerticalEdges
<1>2. ASSUME NEW j \in 0 .. N - 1, NEW i \in 0 .. M - 2
      PROVE  Rounded(L, places(j, i), OfRow(j, i), LeftKey)
  <2>1. ASSUME NEW t \in 0 .. L - 1 PROVE Lists(places(j, i)[t], Part(OfRow(j, i), LeftKey, t))
    <3> DEFINE a == Qubit(i, j, 0, t)
               b == Qubit(i + 1, j, 0, t)
    <3>1. from(j, i, t) = a /\ from(j, i, t) + N * L * 2 = b
      <4> HIDE DEF M, N, L
      <4>1. i \in Int /\ j \in Int /\ t \in Int
        OBVIOUS
      <4>2. a = ((i * N + j) * 2 + 0) * L + t /\ b = (((i + 1) * N + j) * 2 + 0) * L + t
        BY DEF Qubit, N, L
      <4> QED
        BY <4>1, <4>2, <1>0
    <3>2. places(j, i)[t] = Both(a, b)
      <4> HIDE DEF a, b, from
      <4> QED
        BY <3>1
    <3>3. i \in 0 .. size[1] - 2 /\ j \in Cols /\ t \in Places
      BY DEF Cols, Places
    <3>4. Part(OfRow(j, i), LeftKey, t) = {<<a, b>>, <<b, a>>} /\ a # b
      <4> HIDE DEF a, b
      <4>1. a = Qubit(i, j, 0, t) /\ b = Qubit(i + 1, j, 0, t)
        BY DEF a, b
      <4> QED
        BY <3>3, <4>1, UprightAre
    <3> HIDE DEF a, b, places, OfRow
    <3> QED
      BY <3>2, <3>4, BothLists
  <2>2. ASSUME NEW x \in OfRow(j, i) PROVE LeftKey[x] \in 0 .. L - 1
    <3>1. x \in Grid
      BY <1>0, PartIs
    <3> QED
      BY <3>1, KeysFit DEF Places
  <2> HIDE DEF places, OfRow
  <2> QED
    BY <2>1, <2>2 DEF Rounded
<1> HIDE DEF places
<1>3. ASSUME NEW j \in 0 .. N - 1
      PROVE  Rounded(M - 1, rows(j), OfCol(j), RowKey)
  <2>1. ASSUME NEW i \in 0 .. (M - 1) - 1 PROVE Lists(rows(j)[i], Part(OfCol(j), RowKey, i))
    <3>1. i \in 0 .. M - 2 /\ L \in Int
      BY <1>0
    <3>2. Lists(Concat(places(j, i), L), OfRow(j, i))
      <4> HIDE DEF OfRow
      <4> QED
        BY <3>1, <1>2, ConcatLists
    <3> QED
      BY <3>1, <3>2
  <2>2. ASSUME NEW x \in OfCol(j) PROVE RowKey[x] \in 0 .. (M - 1) - 1
    <3>1. x \in Grid /\ x \in Upright
      BY <1>0, PartIs
    <3>2. RowKey[x] \in 0 .. M - 2
      BY <3>1, KeysFit
    <3> QED
      BY <3>2, <1>0
  <2> HIDE DEF rows, OfCol
  <2> QED
    BY <2>1, <2>2 DEF Rounded
<1> HIDE DEF rows
<1>4. Rounded(N, cols, Upright, ColKey)
  <2>1. ASSUME NEW j \in 0 .. N - 1 PROVE Lists(cols[j], Part(Upright, ColKey, j))
    <3>1. M - 1 \in Int
      BY <1>0
    <3>2. Lists(Concat(rows(j), M - 1), OfCol(j))
      <4> HIDE DEF OfCol
      <4> QED
        BY <3>1, <1>3, ConcatLists
    <3> QED
      BY <3>2
  <2>2. ASSUME NEW x \in Upright PROVE ColKey[x] \in 0 .. N - 1
    BY <1>0, KeysFit DEF Cols
  <2> HIDE DEF cols
  <2> QED
    BY <2>1, <2>2 DEF Rounded
<1> HIDE DEF cols, M, N, L
<1>5. Lists(Concat(cols, N), Upright)
  BY <1>0, <1>4, ConcatLists
<1> QED
  BY <1>1, <1>5 DEF M, N, L

LEMMA HorizontalLists ==
  ASSUME SizeType
  PROVE  Lists(HorizontalEdges(size[1], size[2], size[3]), Flat)
<1> DEFINE M == size[1]
           N == size[2]
           L == size[3]
           from(i, j, t) == L * (2 * N * i + 1) + j * L * 2 + t
           places(i, j) == [t \in 0 .. L - 1 |-> Both(from(i, j, t), from(i, j, t) + L * 2)]
           cols(i) == [j \in 0 .. N - 2 |-> Concat(places(i, j), L)]
           rows == [i \in 0 .. M - 1 |-> Concat(cols(i), N - 1)]
           OfRow(i) == Part(Flat, RowKey, i)
           OfCol(i, j) == Part(OfRow(i), ColKey, j)
<1>0. M \in Nat /\ N \in Nat /\ L \in Nat /\ Flat \subseteq Grid
  BY DEF SizeType, Flat
<1>1. HorizontalEdges(M, N, L) = Concat(rows, M)
  BY DEF HorizontalEdges
<1>2. ASSUME NEW i \in 0 .. M - 1, NEW j \in 0 .. N - 2
      PROVE  Rounded(L, places(i, j), OfCol(i, j), RightKey)
  <2>1. ASSUME NEW t \in 0 .. L - 1 PROVE Lists(places(i, j)[t], Part(OfCol(i, j), RightKey, t))
    <3> DEFINE a == Qubit(i, j, 1, t)
               b == Qubit(i, j + 1, 1, t)
    <3>1. from(i, j, t) = a /\ from(i, j, t) + L * 2 = b
      <4> HIDE DEF M, N, L
      <4>1. i \in Int /\ j \in Int /\ t \in Int
        OBVIOUS
      <4>2. a = ((i * N + j) * 2 + 1) * L + t /\ b = ((i * N + (j + 1)) * 2 + 1) * L + t
        BY DEF Qubit, N, L
      <4> QED
        BY <4>1, <4>2, <1>0
    <3>2. places(i, j)[t] = Both(a, b)
      <4> HIDE DEF a, b, from
      <4> QED
        BY <3>1
    <3>3. i \in Rows /\ j \in 0 .. size[2] - 2 /\ t \in Places
      BY DEF Rows, Places
    <3>4. Part(OfCol(i, j), RightKey, t) = {<<a, b>>, <<b, a>>} /\ a # b
      <4> HIDE DEF a, b
      <4>1. a = Qubit(i, j, 1, t) /\ b = Qubit(i, j + 1, 1, t)
        BY DEF a, b
      <4> QED
        BY <3>3, <4>1, FlatAre
    <3> HIDE DEF a, b, places, OfCol
    <3> QED
      BY <3>2, <3>4, BothLists
  <2>2. ASSUME NEW x \in OfCol(i, j) PROVE RightKey[x] \in 0 .. L - 1
    <3>1. x \in Grid
      BY <1>0, PartIs
    <3> QED
      BY <3>1, KeysFit DEF Places
  <2> HIDE DEF places, OfCol
  <2> QED
    BY <2>1, <2>2 DEF Rounded
<1> HIDE DEF places
<1>3. ASSUME NEW i \in 0 .. M - 1
      PROVE  Rounded(N - 1, cols(i), OfRow(i), ColKey)
  <2>1. ASSUME NEW j \in 0 .. (N - 1) - 1 PROVE Lists(cols(i)[j], Part(OfRow(i), ColKey, j))
    <3>1. j \in 0 .. N - 2 /\ L \in Int
      BY <1>0
    <3>2. Lists(Concat(places(i, j), L), OfCol(i, j))
      <4> HIDE DEF OfCol
      <4> QED
        BY <3>1, <1>2, ConcatLists
    <3> QED
      BY <3>1, <3>2
  <2>2. ASSUME NEW x \in OfRow(i) PROVE ColKey[x] \in 0 .. (N - 1) - 1
    <3>1. x \in Grid /\ x \in Flat
      BY <1>0, PartIs
    <3>2. ColKey[x] \in 0 .. N - 2
      BY <3>1, KeysFit
    <3> QED
      BY <3>2, <1>0
  <2> HIDE DEF cols, OfRow
  <2> QED
    BY <2>1, <2>2 DEF Rounded
<1> HIDE DEF cols
<1>4. Rounded(M, rows, Flat, RowKey)
  <2>1. ASSUME NEW i \in 0 .. M - 1 PROVE Lists(rows[i], Part(Flat, RowKey, i))
    <3>1. N - 1 \in Int
      BY <1>0
    <3>2. Lists(Concat(cols(i), N - 1), OfRow(i))
      <4> HIDE DEF OfRow
      <4> QED
        BY <3>1, <1>3, ConcatLists
    <3> QED
      BY <3>2
  <2>2. ASSUME NEW x \in Flat PROVE RowKey[x] \in 0 .. M - 1
    BY <1>0, KeysFit DEF Rows
  <2> HIDE DEF rows
  <2> QED
    BY <2>1, <2>2 DEF Rounded
<1> HIDE DEF rows, M, N, L
<1>5. Lists(Concat(rows, M), Flat)
  BY <1>0, <1>4, ConcatLists
<1> QED
  BY <1>1, <1>5 DEF M, N, L

LEMMA CellLists ==
  ASSUME SizeType
  PROVE  Lists(CellEdges(size[1], size[2], size[3]), Inside)
<1> DEFINE M == size[1]
           N == size[2]
           L == size[3]
           add(i, j) == (i * N + j) * L * 2
           rights(i, j, t) == [u \in 0 .. L - 1 |-> Both(t + add(i, j), u + L + add(i, j))]
           lefts(i, j) == [t \in 0 .. L - 1 |-> Concat(rights(i, j, t), L)]
           cols(i) == [j \in 0 .. N - 1 |-> Concat(lefts(i, j), L)]
           rows == [i \in 0 .. M - 1 |-> Concat(cols(i), N)]
           OfRow(i) == Part(Inside, RowKey, i)
           OfCell(i, j) == Part(OfRow(i), ColKey, j)
           OfLeft(i, j, t) == Part(OfCell(i, j), LeftKey, t)
<1>0. M \in Nat /\ N \in Nat /\ L \in Nat /\ Inside \subseteq Grid
  BY DEF SizeType, Inside
<1>1. CellEdges(M, N, L) = Concat(rows, M)
  BY DEF CellEdges
<1>2. ASSUME NEW i \in 0 .. M - 1, NEW j \in 0 .. N - 1, NEW t \in 0 .. L - 1
      PROVE  Rounded(L, rights(i, j, t), OfLeft(i, j, t), RightKey)
  <2>1. ASSUME NEW u \in 0 .. L - 1
        PROVE  Lists(rights(i, j, t)[u], Part(OfLeft(i, j, t), RightKey, u))
    <3> DEFINE a == Qubit(i, j, 0, t)
               b == Qubit(i, j, 1, u)
    <3>1. t + add(i, j) = a /\ u + L + add(i, j) = b
      <4> HIDE DEF M, N, L
      <4>1. i \in Int /\ j \in Int /\ t \in Int /\ u \in Int
        OBVIOUS
      <4>2. a = ((i * N + j) * 2 + 0) * L + t /\ b = ((i * N + j) * 2 + 1) * L + u
        BY DEF Qubit, N, L
      <4> QED
        BY <4>1, <4>2, <1>0
    <3>2. rights(i, j, t)[u] = Both(a, b)
      <4> HIDE DEF a, b, add
      <4> QED
        BY <3>1
    <3>3. i \in Rows /\ j \in Cols /\ t \in Places /\ u \in Places
      BY DEF Rows, Cols, Places
    <3>4. Part(OfLeft(i, j, t), RightKey, u) = {<<a, b>>, <<b, a>>} /\ a # b
      <4> HIDE DEF a, b
      <4>1. a = Qubit(i, j, 0, t) /\ b = Qubit(i, j, 1, u)
        BY DEF a, b
      <4> QED
        BY <3>3, <4>1, InsideAre
    <3> HIDE DEF a, b, rights, OfLeft
    <3> QED
      BY <3>2, <3>4, BothLists
  <2>2. ASSUME NEW x \in OfLeft(i, j, t) PROVE RightKey[x] \in 0 .. L - 1
    <3>1. x \in Grid
      BY <1>0, PartIs
    <3> QED
      BY <3>1, KeysFit DEF Places
  <2> HIDE DEF rights, OfLeft
  <2> QED
    BY <2>1, <2>2 DEF Rounded
<1> HIDE DEF rights
<1>3. ASSUME NEW i \in 0 .. M - 1, NEW j \in 0 .. N - 1
      PROVE  Rounded(L, lefts(i, j), OfCell(i, j), LeftKey)
  <2>1. ASSUME NEW t \in 0 .. L - 1 PROVE Lists(lefts(i, j)[t], Part(OfCell(i, j), LeftKey, t))
    <3>1. Lists(Concat(rights(i, j, t), L), OfLeft(i, j, t))
      <4> HIDE DEF OfLeft
      <4> QED
        BY <1>0, <1>2, ConcatLists
    <3> QED
      BY <3>1
  <2>2. ASSUME NEW x \in OfCell(i, j) PROVE LeftKey[x] \in 0 .. L - 1
    <3>1. x \in Grid
      BY <1>0, PartIs
    <3> QED
      BY <3>1, KeysFit DEF Places
  <2> HIDE DEF lefts, OfCell
  <2> QED
    BY <2>1, <2>2 DEF Rounded
<1> HIDE DEF lefts
<1>4. ASSUME NEW i \in 0 .. M - 1
      PROVE  Rounded(N, cols(i), OfRow(i), ColKey)
  <2>1. ASSUME NEW j \in 0 .. N - 1 PROVE Lists(cols(i)[j], Part(OfRow(i), ColKey, j))
    <3>1. Lists(Concat(lefts(i, j), L), OfCell(i, j))
      <4> HIDE DEF OfCell
      <4> QED
        BY <1>0, <1>3, ConcatLists
    <3> QED
      BY <3>1
  <2>2. ASSUME NEW x \in OfRow(i) PROVE ColKey[x] \in 0 .. N - 1
    <3>1. x \in Grid
      BY <1>0, PartIs
    <3> QED
      BY <3>1, KeysFit DEF Cols
  <2> HIDE DEF cols, OfRow
  <2> QED
    BY <2>1, <2>2 DEF Rounded
<1> HIDE DEF cols
<1>5. Rounded(M, rows, Inside, RowKey)
  <2>1. ASSUME NEW i \in 0 .. M - 1 PROVE Lists(rows[i], Part(Inside, RowKey, i))
    <3>1. Lists(Concat(cols(i), N), OfRow(i))
      <4> HIDE DEF OfRow
      <4> QED
        BY <1>0, <1>4, ConcatLists
    <3> QED
      BY <3>1
  <2>2. ASSUME NEW x \in Inside PROVE RowKey[x] \in 0 .. M - 1
    BY <1>0, KeysFit DEF Rows
  <2> HIDE DEF rows
  <2> QED
    BY <2>1, <2>2 DEF Rounded
<1> HIDE DEF rows, M, N, L
<1>6. Lists(Concat(rows, M), Inside)
  BY <1>0, <1>5, ConcatLists
<1> QED
  BY <1>1, <1>6 DEF M, N, L

\* Together they list the grid.
LEMMA AdjacencyLists ==
  ASSUME SizeType
  PROVE  Lists(ChimeraAdjacency(size[1], size[2], size[3]), Grid)
<1>1. Upright \cap Flat = {} /\ (Upright \cup Flat) \cap Inside = {}
  BY DEF Upright, Flat, Inside
<1>2. ASSUME NEW x \in Grid PROVE x \in (Upright \cup Flat) \cup Inside
  <2>1. Side(x[1]) \in {0, 1} /\ Side(x[2]) \in {0, 1}
    BY EdgeIs
  <2> QED
    BY <2>1 DEF Upright, Flat, Inside
<1>3. Grid = (Upright \cup Flat) \cup Inside
  BY <1>2 DEF Upright, Flat, Inside
<1>4. Lists(VerticalEdges(size[1], size[2], size[3]) \o HorizontalEdges(size[1], size[2], size[3]), Upright \cup Flat)
  BY <1>1, VerticalLists, HorizontalLists, ListsJoin
<1> QED
  BY <1>1, <1>3, <1>4, CellLists, ListsJoin DEF ChimeraAdjacency

-----------------------------------------------------------------------------
(* Chimera: the tables of the C4 solvers                                   *)

\* The partners of q with larger numbers: the other side of its cell, and the
\* qubit below or to the right.
Partners(q) ==
  LET b == 8 * (q \div 8) IN
  IF (q \div 4) % 2 = 0
  THEN IF q < 96 THEN <<b + 4, b + 5, b + 6, b + 7, q + 32>> ELSE <<b + 4, b + 5, b + 6, b + 7>>
  ELSE IF b % 32 < 24 THEN <<q + 8>> ELSE <<>>

\* The k-th qubit to eliminate: the left sides column by column, place by
\* place, then the right sides cell by cell.
Eliminated(k) ==
  IF k <= 64 THEN 32 * ((k - 1) % 4) + 8 * ((k - 1) \div 16) + (((k - 1) \div 4) % 4)
  ELSE 8 * ((k - 65) \div 16) + 32 * (((k - 65) \div 4) % 4) + ((k - 65) % 4) + 4

LEMMA C4Rows ==
  /\ DOMAIN C4Partners = 1 .. 124
  /\ \A k \in 1 .. 124 : C4Partners[k] = Partners(k - 1)
<1>0. DOMAIN C4Partners = 1 .. 124
  BY DEF C4Partners
<1>1. /\ C4Partners[1] = Partners(0) /\ C4Partners[2] = Partners(1) /\ C4Partners[3] = Partners(2)
      /\ C4Partners[4] = Partners(3) /\ C4Partners[5] = Partners(4) /\ C4Partners[6] = Partners(5)
      /\ C4Partners[7] = Partners(6) /\ C4Partners[8] = Partners(7)
  BY DEF C4Partners, Partners
<1>2. /\ C4Partners[9] = Partners(8) /\ C4Partners[10] = Partners(9) /\ C4Partners[11] = Partners(10)
      /\ C4Partners[12] = Partners(11) /\ C4Partners[13] = Partners(12) /\ C4Partners[14] = Partners(13)
      /\ C4Partners[15] = Partners(14) /\ C4Partners[16] = Partners(15)
  BY DEF C4Partners, Partners
<1>3. /\ C4Partners[17] = Partners(16) /\ C4Partners[18] = Partners(17) /\ C4Partners[19] = Partners(18)
      /\ C4Partners[20] = Partners(19) /\ C4Partners[21] = Partners(20) /\ C4Partners[22] = Partners(21)
      /\ C4Partners[23] = Partners(22) /\ C4Partners[24] = Partners(23)
  BY DEF C4Partners, Partners
<1>4. /\ C4Partners[25] = Partners(24) /\ C4Partners[26] = Partners(25) /\ C4Partners[27] = Partners(26)
      /\ C4Partners[28] = Partners(27) /\ C4Partners[29] = Partners(28) /\ C4Partners[30] = Partners(29)
      /\ C4Partners[31] = Partners(30) /\ C4Partners[32] = Partners(31)
  BY DEF C4Partners, Partners
<1>5. /\ C4Partners[33] = Partners(32) /\ C4Partners[34] = Partners(33) /\ C4Partners[35] = Partners(34)
      /\ C4Partners[36] = Partners(35) /\ C4Partners[37] = Partners(36) /\ C4Partners[38] = Partners(37)
      /\ C4Partners[39] = Partners(38) /\ C4Partners[40] = Partners(39)
  BY DEF C4Partners, Partners
<1>6. /\ C4Partners[41] = Partners(40) /\ C4Partners[42] = Partners(41) /\ C4Partners[43] = Partners(42)
      /\ C4Partners[44] = Partners(43) /\ C4Partners[45] = Partners(44) /\ C4Partners[46] = Partners(45)
      /\ C4Partners[47] = Partners(46) /\ C4Partners[48] = Partners(47)
  BY DEF C4Partners, Partners
<1>7. /\ C4Partners[49] = Partners(48) /\ C4Partners[50] = Partners(49) /\ C4Partners[51] = Partners(50)
      /\ C4Partners[52] = Partners(51) /\ C4Partners[53] = Partners(52) /\ C4Partners[54] = Partners(53)
      /\ C4Partners[55] = Partners(54) /\ C4Partners[56] = Partners(55)
  BY DEF C4Partners, Partners
<1>8. /\ C4Partners[57] = Partners(56) /\ C4Partners[58] = Partners(57) /\ C4Partners[59] = Partners(58)
      /\ C4Partners[60] = Partners(59) /\ C4Partners[61] = Partners(60) /\ C4Partners[62] = Partners(61)
      /\ C4Partners[63] = Partners(62) /\ C4Partners[64] = Partners(63)
  BY DEF C4Partners, Partners
<1>9. /\ C4Partners[65] = Partners(64) /\ C4Partners[66] = Partners(65) /\ C4Partners[67] = Partners(66)
      /\ C4Partners[68] = Partners(67) /\ C4Partners[69] = Partners(68) /\ C4Partners[70] = Partners(69)
      /\ C4Partners[71] = Partners(70) /\ C4Partners[72] = Partners(71)
  BY DEF C4Partners, Partners
<1>10. /\ C4Partners[73] = Partners(72) /\ C4Partners[74] = Partners(73) /\ C4Partners[75] = Partners(74)
       /\ C4Partners[76] = Partners(75) /\ C4Partners[77] = Partners(76) /\ C4Partners[78] = Partners(77)
       /\ C4Partners[79] = Partners(78) /\ C4Partners[80] = Partners(79)
  BY DEF C4Partners, Partners
<1>11. /\ C4Partners[81] = Partners(80) /\ C4Partners[82] = Partners(81) /\ C4Partners[83] = Partners(82)
       /\ C4Partners[84] = Partners(83) /\ C4Partners[85] = Partners(84) /\ C4Partners[86] = Partners(85)
       /\ C4Partners[87] = Partners(86) /\ C4Partners[88] = Partners(87)
  BY DEF C4Partners, Partners
<1>12. /\ C4Partners[89] = Partners(88) /\ C4Partners[90] = Partners(89) /\ C4Partners[91] = Partners(90)
       /\ C4Partners[92] = Partners(91) /\ C4Partners[93] = Partners(92) /\ C4Partners[94] = Partners(93)
       /\ C4Partners[95] = Partners(94) /\ C4Partners[96] = Partners(95)
  BY DEF C4Partners, Partners
<1>13. /\ C4Partners[97] = Partners(96) /\ C4Partners[98] = Partners(97) /\ C4Partners[99] = Partners(98)
       /\ C4Partners[100] = Partners(99) /\ C4Partners[101] = Partners(100) /\ C4Partners[102] = Partners(101)
       /\ C4Partners[103] = Partners(102) /\ C4Partners[104] = Partners(103)
  BY DEF C4Partners, Partners
<1>14. /\ C4Partners[105] = Partners(104) /\ C4Partners[106] = Partners(105) /\ C4Partners[107] = Partners(106)
       /\ C4Partners[108] = Partners(107) /\ C4Partners[109] = Partners(108) /\ C4Partners[110] = Partners(109)
       /\ C4Partners[111] = Partners(110) /\ C4Partners[112] = Partners(111)
  BY DEF C4Partners, Partners
<1>15. /\ C4Partners[113] = Partners(112) /\ C4Partners[114] = Partners(113) /\ C4Partners[115] = Partners(114)
       /\ C4Partners[116] = Partners(115) /\ C4Partners[117] = Partners(116) /\ C4Partners[118] = Partners(117)
       /\ C4Partners[119] = Partners(118) /\ C4Partners[120] = Partners(119)
  BY DEF C4Partners, Partners
<1>16. /\ C4Partners[121] = Partners(120) /\ C4Partners[122] = Partners(121) /\ C4Partners[123] = Partners(122)
       /\ C4Partners[124] = Partners(123)
  BY DEF C4Partners, Partners
<1> QED
  BY <1>0, <1>1, <1>2, <1>3, <1>4, <1>5, <1>6, <1>7, <1>8,
     <1>9, <1>10, <1>11, <1>12, <1>13, <1>14, <1>15, <1>16

LEMMA C4Order ==
  /\ Len(C4VarOrder) = 128 /\ DOMAIN C4VarOrder = 1 .. 128
  /\ \A k \in 1 .. 128 : C4VarOrder[k] = Eliminated(k)
<1>0. Len(C4VarOrder) = 128 /\ DOMAIN C4VarOrder = 1 .. 128
  BY DEF C4VarOrder
<1>1. \A k \in 1 .. 16 : C4VarOrder[k] = Eliminated(k)
  BY DEF C4VarOrder, Eliminated
<1>2. \A k \in 17 .. 32 : C4VarOrder[k] = Eliminated(k)
  BY DEF C4VarOrder, Eliminated
<1>3. \A k \in 33 .. 48 : C4VarOrder[k] = Eliminated(k)
  BY DEF C4VarOrder, Eliminated
<1>4. \A k \in 49 .. 64 : C4VarOrder[k] = Eliminated(k)
  BY DEF C4VarOrder, Eliminated
<1>5. \A k \in 65 .. 80 : C4VarOrder[k] = Eliminated(k)
  BY DEF C4VarOrder, Eliminated
<1>6. \A k \in 81 .. 96 : C4VarOrder[k] = Eliminated(k)
  BY DEF C4VarOrder, Eliminated
<1>7. \A k \in 97 .. 112 : C4VarOrder[k] = Eliminated(k)
  BY DEF C4VarOrder, Eliminated
<1>8. \A k \in 113 .. 128 : C4VarOrder[k] = Eliminated(k)
  BY DEF C4VarOrder, Eliminated
<1> QED
  BY <1>0, <1>1, <1>2, <1>3, <1>4, <1>5, <1>6, <1>7, <1>8

\* Every qubit is eliminated once.
LEMMA C4OrderIsWhole ==
  ToSet(C4VarOrder) = C4Qubits /\ Len(C4VarOrder) = Cardinality(C4Qubits)
<1>1. ASSUME NEW k \in 1 .. 128 PROVE C4VarOrder[k] \in 0 .. 127
  <2>1. Eliminated(k) \in 0 .. 127
    BY DEF Eliminated
  <2> QED
    BY <2>1, C4Order
<1>2. ASSUME NEW q \in 0 .. 127 PROVE \E k \in 1 .. 128 : C4VarOrder[k] = q
  <2> DEFINE i == q \div 32
             j == (q \div 8) % 4
             s == (q \div 4) % 2
             t == q % 4
             k == IF s = 0 THEN 16 * j + 4 * t + i + 1 ELSE 65 + 16 * j + 4 * i + t
  <2>1. i \in 0 .. 3 /\ j \in 0 .. 3 /\ s \in {0, 1} /\ t \in 0 .. 3 /\ q = 32 * i + 8 * j + 4 * s + t
    BY SMTT(60)
  <2> HIDE DEF i, j, s, t
  <2>2. k \in 1 .. 128
    BY <2>1
  <2>3. Eliminated(k) = q
    <3>1. CASE s = 0
      <4>1. k = 16 * j + 4 * t + i + 1 /\ k <= 64 /\ q = 32 * i + 8 * j + t
        BY <2>1, <3>1
      <4> HIDE DEF k
      <4>2. (k - 1) % 4 = i /\ (k - 1) \div 16 = j /\ ((k - 1) \div 4) % 4 = t
        BY <2>1, <2>2, <4>1
      <4> QED
        BY <4>1, <4>2 DEF Eliminated
    <3>2. CASE s = 1
      <4>1. k = 65 + 16 * j + 4 * i + t /\ ~ (k <= 64) /\ q = 32 * i + 8 * j + 4 + t
        BY <2>1, <3>2
      <4> HIDE DEF k
      <4>2. (k - 65) \div 16 = j /\ ((k - 65) \div 4) % 4 = i /\ (k - 65) % 4 = t
        BY <2>1, <2>2, <4>1
      <4>3. Eliminated(k) = 8 * j + 32 * i + t + 4
        BY <4>1, <4>2 DEF Eliminated
      <4> QED
        BY <4>1, <4>3, <2>1
    <3> QED
      BY <3>1, <3>2, <2>1
  <2> HIDE DEF k
  <2> QED
    BY <2>2, <2>3, C4Order
<1>3. ToSet(C4VarOrder) = 0 .. 127
  <2> DEFINE o == C4VarOrder
             D == 1 .. 128
             Qs == 0 .. 127
  <2>1. DOMAIN o = D /\ (\A k \in D : o[k] \in Qs) /\ \A q \in Qs : \E k \in D : o[k] = q
    BY <1>1, <1>2, C4Order
  <2> HIDE DEF o, D, Qs
  <2>2. {o[k] : k \in DOMAIN o} = Qs
    BY <2>1
  <2> QED
    BY <2>2 DEF ToSet, o, Qs
<1>4. Cardinality(0 .. 127) = 128
  <2>1. 0 \in Int /\ 127 \in Int /\ ~ (0 > 127) /\ 127 - 0 + 1 = 128
    OBVIOUS
  <2> QED
    BY <2>1, FS_Interval
<1> QED
  BY <1>3, <1>4, C4Order DEF C4Qubits

SizeC4 == size = <<4, 4, 4>>

LEMMA C4Size ==
  ASSUME SizeC4
  PROVE  /\ SizeType /\ 0 .. NumberOfQubits - 1 = 0 .. 127
         /\ Rows = 0 .. 3 /\ Cols = 0 .. 3 /\ Places = 0 .. 3
<1>1. size[1] = 4 /\ size[2] = 4 /\ size[3] = 4 /\ SizeType
  BY DEF SizeC4, SizeType
<1>2. 0 .. NumberOfQubits - 1 = 0 .. 127 /\ Rows = 0 .. 3 /\ Cols = 0 .. 3 /\ Places = 0 .. 3
  BY <1>1 DEF NumberOfQubits, Rows, Cols, Places
<1> QED
  BY <1>1, <1>2

LEMMA C4Qubit ==
  ASSUME SizeC4, NEW i \in Int, NEW j \in Int, NEW s \in Int, NEW t \in Int
  PROVE  Qubit(i, j, s, t) = 32 * i + 8 * j + 4 * s + t
<1>1. size[2] = 4 /\ size[3] = 4
  BY DEF SizeC4
<1> QED
  BY <1>1 DEF Qubit

\* A qubit of C4 in its coordinates.
LEMMA C4Coordinates ==
  ASSUME SizeC4, NEW q \in 0 .. 127
  PROVE  /\ Row(q) \in 0 .. 3 /\ Col(q) \in 0 .. 3 /\ Side(q) \in {0, 1} /\ PlaceOf(q) \in 0 .. 3
         /\ q = 32 * Row(q) + 8 * Col(q) + 4 * Side(q) + PlaceOf(q)
<1>0. SizeType /\ q \in 0 .. NumberOfQubits - 1 /\ Rows = 0 .. 3 /\ Cols = 0 .. 3 /\ Places = 0 .. 3
  BY C4Size
<1>1. /\ Row(q) \in Rows /\ Col(q) \in Cols /\ Side(q) \in {0, 1} /\ PlaceOf(q) \in Places
      /\ q = Qubit(Row(q), Col(q), Side(q), PlaceOf(q))
  BY <1>0, QubitIs
<1>2. Row(q) \in Int /\ Col(q) \in Int /\ Side(q) \in Int /\ PlaceOf(q) \in Int
  BY <1>0, <1>1
<1>3. Qubit(Row(q), Col(q), Side(q), PlaceOf(q)) = 32 * Row(q) + 8 * Col(q) + 4 * Side(q) + PlaceOf(q)
  <2> DEFINE i == Row(q)
             j == Col(q)
             s == Side(q)
             t == PlaceOf(q)
  <2>1. i \in Int /\ j \in Int /\ s \in Int /\ t \in Int
    BY <1>2
  <2> HIDE DEF i, j, s, t
  <2>2. Qubit(i, j, s, t) = 32 * i + 8 * j + 4 * s + t
    BY <2>1, C4Qubit
  <2> QED
    BY <2>2 DEF i, j, s, t
<1> QED
  BY <1>0, <1>1, <1>3

\* The edges of C4.
LEMMA C4Edges ==
  ASSUME SizeC4
  PROVE  /\ \A x : x \in Grid <=> \E p \in 0 .. 127, r \in 0 .. 127 : x = <<p, r>> /\ GridAdjacent(p, r)
         /\ \A p \in 0 .. 127, r \in 0 .. 127 :
              (GridAdjacent(p, r) <=> GridAdjacent(r, p)) /\ (GridAdjacent(p, r) => p # r)
<1>1. Grid = {pq \in (0 .. 127) \X (0 .. 127) : GridAdjacent(pq[1], pq[2])}
  BY C4Size DEF Grid
<1> DEFINE Qs == 0 .. 127
<1> HIDE DEF Qs
<1>2. \A x : x \in Grid <=> \E p \in Qs, r \in Qs : x = <<p, r>> /\ GridAdjacent(p, r)
  <2>1. Grid = {pq \in Qs \X Qs : GridAdjacent(pq[1], pq[2])}
    BY <1>1 DEF Qs
  <2> QED
    BY <2>1
<1>4. ASSUME NEW p \in 0 .. 127, NEW r \in 0 .. 127
      PROVE  (GridAdjacent(p, r) <=> GridAdjacent(r, p)) /\ (GridAdjacent(p, r) => p # r)
  <2>1. /\ Row(p) \in 0 .. 3 /\ Col(p) \in 0 .. 3 /\ Row(r) \in 0 .. 3 /\ Col(r) \in 0 .. 3
    BY C4Coordinates
  <2> QED
    BY <2>1 DEF GridAdjacent, Step
<1> QED
  BY <1>2, <1>4 DEF Qs

\* The coordinates are determined.
LEMMA Digits ==
  ASSUME NEW i \in 0 .. 3, NEW j \in 0 .. 3, NEW s \in {0, 1}, NEW t \in 0 .. 3,
         NEW k \in 0 .. 3, NEW l \in 0 .. 3, NEW u \in {0, 1}, NEW v \in 0 .. 3
  PROVE  /\ 32 * i + 8 * j + 4 * s + t = 32 * k + 8 * l + 4 * u + v
              <=> i = k /\ j = l /\ s = u /\ t = v
         /\ 32 * i + 8 * j + 4 * s + t < 32 * k + 8 * l + 4 * u + v
              <=> i < k \/ (i = k /\ (j < l \/ (j = l /\ (s < u \/ (s = u /\ t < v)))))
OBVIOUS

\* The partners of a qubit are its neighbours with larger numbers, each once.
LEMMA PartnersAre ==
  ASSUME SizeC4, NEW q \in 0 .. 127
  PROVE  /\ Partners(q) \in Seq(0 .. 127) /\ Injective(Partners(q))
         /\ \A r \in 0 .. 127 : (\E n \in 1 .. Len(Partners(q)) : Partners(q)[n] = r)
                                  <=> GridAdjacent(q, r) /\ q < r
<1> DEFINE i == Row(q)
           j == Col(q)
           s == Side(q)
           t == PlaceOf(q)
           b == 32 * i + 8 * j
           Right(r) == Row(r) = i /\ Col(r) = j /\ Side(r) = 1
           Below(r) == Row(r) = i + 1 /\ Col(r) = j /\ Side(r) = 0 /\ PlaceOf(r) = t
           NextTo(r) == Row(r) = i /\ Col(r) = j + 1 /\ Side(r) = 1 /\ PlaceOf(r) = t
<1>1. i \in 0 .. 3 /\ j \in 0 .. 3 /\ s \in {0, 1} /\ t \in 0 .. 3 /\ q = 32 * i + 8 * j + 4 * s + t
  BY C4Coordinates
<1>2. ASSUME NEW r \in 0 .. 127
      PROVE  /\ s = 0 => (GridAdjacent(q, r) /\ q < r <=> Right(r) \/ Below(r))
             /\ s = 1 => (GridAdjacent(q, r) /\ q < r <=> NextTo(r))
             /\ r \in {b + 4, b + 5, b + 6, b + 7} <=> Right(r)
             /\ s = 0 => (r = q + 32 <=> Below(r))
             /\ s = 1 => (r = q + 8 /\ j < 3 <=> NextTo(r))
  <2> DEFINE k == Row(r)
             l == Col(r)
             u == Side(r)
             v == PlaceOf(r)
  <2>1. k \in 0 .. 3 /\ l \in 0 .. 3 /\ u \in {0, 1} /\ v \in 0 .. 3 /\ r = 32 * k + 8 * l + 4 * u + v
    BY C4Coordinates
  <2>2. GridAdjacent(q, r) <=>
          \/ i = k /\ j = l /\ s # u
          \/ s = u /\ t = v /\ (\/ s = 0 /\ j = l /\ i - k \in {1, -1}
                                \/ s = 1 /\ i = k /\ j - l \in {1, -1})
    BY DEF GridAdjacent, Step
  <2> HIDE DEF i, j, s, t, k, l, u, v
  <2>3. q < r <=> i < k \/ (i = k /\ (j < l \/ (j = l /\ (s < u \/ (s = u /\ t < v)))))
    BY <1>1, <2>1, Digits
  <2>4. s = 0 => (GridAdjacent(q, r) /\ q < r <=> (k = i /\ l = j /\ u = 1) \/ (k = i + 1 /\ l = j /\ u = 0 /\ v = t))
    BY <1>1, <2>1, <2>2, <2>3
  <2>5. s = 1 => (GridAdjacent(q, r) /\ q < r <=> k = i /\ l = j + 1 /\ u = 1 /\ v = t)
    BY <1>1, <2>1, <2>2, <2>3
  <2>6. r \in {b + 4, b + 5, b + 6, b + 7} <=> k = i /\ l = j /\ u = 1
    BY <1>1, <2>1
  <2>7. s = 0 => (r = q + 32 <=> k = i + 1 /\ l = j /\ u = 0 /\ v = t)
    BY <1>1, <2>1
  <2>8. s = 1 => (r = q + 8 /\ j < 3 <=> k = i /\ l = j + 1 /\ u = 1 /\ v = t)
    BY <1>1, <2>1
  <2> QED
    BY <2>4, <2>5, <2>6, <2>7, <2>8 DEF k, l, u, v
<1> HIDE DEF Right, Below, NextTo, i, j, s, t
<1>3. q \div 8 = 4 * i + j /\ q \div 4 = 8 * i + 2 * j + s
  BY <1>1
<1>4. 8 * (q \div 8) = b /\ (q \div 4) % 2 = s /\ b % 32 = 8 * j /\ b \in 0 .. 120
  BY <1>1, <1>3
<1>5. (q < 96 <=> i < 3) /\ (b % 32 < 24 <=> j < 3)
  BY <1>1, <1>4
<1> HIDE DEF b
<1>6. b + 4 \in 0 .. 127 /\ b + 5 \in 0 .. 127 /\ b + 6 \in 0 .. 127 /\ b + 7 \in 0 .. 127 /\ b \in Int
  BY <1>4
<1>7. CASE s = 0 /\ i < 3
  <2>1. Partners(q) = <<b + 4, b + 5, b + 6, b + 7, q + 32>>
    BY <1>4, <1>5, <1>7 DEF Partners
  <2>2. q + 32 \in 0 .. 127 /\ b + 7 < q + 32
    BY <1>1, <1>5, <1>7 DEF b
  <2>3. /\ Partners(q) \in Seq(0 .. 127) /\ Len(Partners(q)) = 5
        /\ Partners(q)[1] = b + 4 /\ Partners(q)[2] = b + 5 /\ Partners(q)[3] = b + 6
        /\ Partners(q)[4] = b + 7 /\ Partners(q)[5] = q + 32
    BY <1>6, <2>1, <2>2
  <2> HIDE DEF Partners
  <2>4. Injective(Partners(q))
    BY <1>6, <2>2, <2>3 DEF Injective
  <2>5. ASSUME NEW r \in 0 .. 127
        PROVE  (\E n \in 1 .. Len(Partners(q)) : Partners(q)[n] = r) <=> GridAdjacent(q, r) /\ q < r
    <3>1. (\E n \in 1 .. Len(Partners(q)) : Partners(q)[n] = r) <=> r \in {b + 4, b + 5, b + 6, b + 7} \/ r = q + 32
      BY <2>3
    <3> QED
      BY <3>1, <1>2, <1>7
  <2> QED
    BY <2>3, <2>4, <2>5
<1>8. CASE s = 0 /\ i = 3
  <2>1. Partners(q) = <<b + 4, b + 5, b + 6, b + 7>>
    BY <1>4, <1>5, <1>8 DEF Partners
  <2>2. /\ Partners(q) \in Seq(0 .. 127) /\ Len(Partners(q)) = 4
        /\ Partners(q)[1] = b + 4 /\ Partners(q)[2] = b + 5 /\ Partners(q)[3] = b + 6
        /\ Partners(q)[4] = b + 7
    BY <1>6, <2>1
  <2>3. Injective(Partners(q))
    BY <1>6, <2>2 DEF Injective
  <2>4. ASSUME NEW r \in 0 .. 127
        PROVE  (\E n \in 1 .. Len(Partners(q)) : Partners(q)[n] = r) <=> GridAdjacent(q, r) /\ q < r
    <3>1. (\E n \in 1 .. Len(Partners(q)) : Partners(q)[n] = r) <=> r \in {b + 4, b + 5, b + 6, b + 7}
      BY <2>2
    <3>2. ~ Below(r)
      <4>1. Row(r) \in 0 .. 3
        BY C4Coordinates
      <4> QED
        BY <4>1, <1>8 DEF Below
    <3> QED
      BY <3>1, <3>2, <1>2, <1>8
  <2> QED
    BY <2>2, <2>3, <2>4
<1>9. CASE s = 1 /\ j < 3
  <2>1. Partners(q) = <<q + 8>>
    <3>1. (q \div 4) % 2 # 0 /\ (8 * (q \div 8)) % 32 < 24
      BY <1>4, <1>5, <1>9
    <3> QED
      BY <3>1 DEF Partners
  <2>2. q + 8 \in 0 .. 127
    BY <1>1, <1>9
  <2>3. Partners(q) \in Seq(0 .. 127) /\ Len(Partners(q)) = 1 /\ Partners(q)[1] = q + 8
    BY <2>1, <2>2
  <2>4. Injective(Partners(q))
    BY <2>3 DEF Injective
  <2>5. ASSUME NEW r \in 0 .. 127
        PROVE  (\E n \in 1 .. Len(Partners(q)) : Partners(q)[n] = r) <=> GridAdjacent(q, r) /\ q < r
    <3>1. (\E n \in 1 .. Len(Partners(q)) : Partners(q)[n] = r) <=> r = q + 8
      BY <2>3
    <3> QED
      BY <3>1, <1>2, <1>9
  <2> QED
    BY <2>3, <2>4, <2>5
<1>10. CASE s = 1 /\ j = 3
  <2>1. Partners(q) = <<>>
    BY <1>4, <1>5, <1>10 DEF Partners
  <2>2. Partners(q) \in Seq(0 .. 127) /\ Len(Partners(q)) = 0
    BY <2>1
  <2>3. Injective(Partners(q))
    BY <2>2 DEF Injective
  <2>4. ASSUME NEW r \in 0 .. 127 PROVE ~ (GridAdjacent(q, r) /\ q < r)
    BY <1>2, <1>10
  <2>5. 1 .. Len(Partners(q)) = {}
    BY <2>2
  <2> QED
    BY <2>2, <2>3, <2>4, <2>5
<1>11. i < 3 \/ i = 3
  BY <1>1
<1>12. j < 3 \/ j = 3
  BY <1>1
<1> QED
  BY <1>1, <1>7, <1>8, <1>9, <1>10, <1>11, <1>12

Upward == {pq \in Grid : pq[1] < pq[2]}

\* The couplers of C4 are the edges of the 4 by 4 grid, each once.
LEMMA CouplersListed ==
  ASSUME SizeC4
  PROVE  Lists(C4Couplers, Upward)
<1> DEFINE seqs == [k \in 1 .. 124 |-> [n \in DOMAIN C4Partners[k] |-> <<k - 1, C4Partners[k][n]>>]]
           key == [pq \in Upward |-> pq[1] + 1]
<1>1. \A x : x \in Upward <=> \E p \in 0 .. 127, r \in 0 .. 127 : x = <<p, r>> /\ GridAdjacent(p, r) /\ p < r
  <2> DEFINE Qs == 0 .. 127
  <2>1. \A x : x \in Grid <=> \E p \in Qs, r \in Qs : x = <<p, r>> /\ GridAdjacent(p, r)
    BY C4Edges
  <2> HIDE DEF Qs
  <2>2. \A x : x \in Upward <=> \E p \in Qs, r \in Qs : x = <<p, r>> /\ GridAdjacent(p, r) /\ p < r
    BY <2>1 DEF Upward
  <2> QED
    BY <2>2 DEF Qs
<1>2. C4Couplers = FlattenSeq(seqs)
  BY DEF C4Couplers
<1>3. ASSUME NEW k \in 1 .. 124 PROVE Lists(seqs[k], {x \in Upward : key[x] = k})
  <2> DEFINE q == k - 1
             P == Partners(q)
             l == [n \in 1 .. Len(P) |-> <<q, P[n]>>]
             T == {x \in Upward : key[x] = k}
  <2>1. q \in 0 .. 127 /\ C4Partners[k] = P
    BY C4Rows
  <2>2. /\ P \in Seq(0 .. 127) /\ Injective(P)
        /\ \A r \in 0 .. 127 : (\E n \in 1 .. Len(P) : P[n] = r) <=> GridAdjacent(q, r) /\ q < r
    <3> HIDE DEF q
    <3> QED
      BY <2>1, PartnersAre
  <2> HIDE DEF P
  <2>3. Len(P) \in Nat /\ DOMAIN P = 1 .. Len(P) /\ \A n \in 1 .. Len(P) : P[n] \in 0 .. 127
    <3> DEFINE Qs == 0 .. 127
    <3>1. P \in Seq(Qs)
      BY <2>2
    <3> HIDE DEF Qs
    <3>2. Len(P) \in Nat /\ DOMAIN P = 1 .. Len(P) /\ \A n \in 1 .. Len(P) : P[n] \in Qs
      BY <3>1
    <3> QED
      BY <3>2 DEF Qs
  <2>4. seqs[k] = l
    BY <2>1, <2>3
  <2>5. ASSUME NEW x \in T PROVE \E r \in 0 .. 127 : x = <<q, r>> /\ GridAdjacent(q, r) /\ q < r
    <3>1. PICK p \in 0 .. 127, r \in 0 .. 127 : x = <<p, r>> /\ GridAdjacent(p, r) /\ p < r
      BY <1>1
    <3>2. p + 1 = k
      BY <3>1
    <3> QED
      BY <3>1, <3>2
  <2>6. ASSUME NEW r \in 0 .. 127, GridAdjacent(q, r), q < r PROVE <<q, r>> \in T
    <3>1. <<q, r>> \in Upward
      BY <2>1, <2>6, <1>1
    <3> QED
      BY <3>1
  <2> HIDE DEF T, q
  <2>7. \A n \in 1 .. Len(P) : l[n] = <<q, P[n]>> /\ l[n] \in T
    BY <2>2, <2>3, <2>6
  <2>8. l \in Seq(T) /\ Len(l) = Len(P)
    BY <2>3, <2>7
  <2>9. Injective(l)
    <3> SUFFICES ASSUME NEW m \in 1 .. Len(P), NEW n \in 1 .. Len(P), l[m] = l[n] PROVE m = n
      BY <2>8 DEF Injective
    <3>1. P[m] = P[n]
      BY <2>7
    <3> QED
      BY <3>1, <2>2 DEF Injective
  <2>10. ASSUME NEW x \in T PROVE \E n \in 1 .. Len(l) : l[n] = x
    <3>1. PICK r \in 0 .. 127 : x = <<q, r>> /\ GridAdjacent(q, r) /\ q < r
      BY <2>5
    <3>2. PICK n \in 1 .. Len(P) : P[n] = r
      BY <3>1, <2>2
    <3> QED
      BY <3>1, <3>2, <2>7, <2>8
  <2> HIDE DEF l, seqs
  <2>11. Lists(l, T)
    BY <2>8, <2>9, <2>10 DEF Lists
  <2> QED
    BY <2>4, <2>11 DEF T
<1>4. ASSUME NEW x \in Upward PROVE key[x] \in 1 .. 124
  <2>1. PICK p \in 0 .. 127, r \in 0 .. 127 : x = <<p, r>> /\ GridAdjacent(p, r) /\ p < r
    BY <1>1
  <2>2. p < 124
    <3>1. PICK n \in 1 .. Len(Partners(p)) : Partners(p)[n] = r
      BY <2>1, PartnersAre
    <3> SUFFICES ASSUME p \in 124 .. 127 PROVE FALSE
      BY <2>1
    <3>2. (p \div 4) % 2 = 1 /\ 8 * (p \div 8) = 120 /\ 120 % 32 = 24
      OBVIOUS
    <3>3. Partners(p) = <<>>
      BY <3>2 DEF Partners
    <3> QED
      BY <3>1, <3>3
  <2> QED
    BY <2>1, <2>2
<1>5. seqs = [k \in 1 .. 124 |-> seqs[k]]
  OBVIOUS
<1> HIDE DEF seqs, key
<1>6. Loop(124, seqs, Upward, key)
  BY <1>3, <1>4, <1>5 DEF Loop
<1> QED
  BY <1>2, <1>6, LoopLists

\* So are the pairs made of them, in both directions.
LEMMA HardwareLists ==
  ASSUME SizeC4
  PROVE  Lists(HardwareAdjacency(C4Couplers), Grid)
<1> DEFINE c == C4Couplers
           m == Len(c)
           seqs == [k \in 1 .. m |-> Both(c[k][1], c[k][2])]
           up(x) == IF x[1] < x[2] THEN x ELSE <<x[2], x[1]>>
           key == [x \in Grid |-> CHOOSE k \in 1 .. m : c[k] = up(x)]
<1>0. \A x : x \in Grid <=> \E p \in 0 .. 127, r \in 0 .. 127 : x = <<p, r>> /\ GridAdjacent(p, r)
  BY C4Edges
<1>11. \A x : x \in Upward <=> \E p \in 0 .. 127, r \in 0 .. 127 : x = <<p, r>> /\ GridAdjacent(p, r) /\ p < r
  <2> DEFINE Qs == 0 .. 127
  <2>1. \A x : x \in Grid <=> \E p \in Qs, r \in Qs : x = <<p, r>> /\ GridAdjacent(p, r)
    BY <1>0
  <2> HIDE DEF Qs
  <2>2. \A x : x \in Upward <=> \E p \in Qs, r \in Qs : x = <<p, r>> /\ GridAdjacent(p, r) /\ p < r
    BY <2>1 DEF Upward
  <2> QED
    BY <2>2 DEF Qs
<1>1. Lists(c, Upward)
  BY CouplersListed
<1> HIDE DEF c
<1>2. m \in Nat /\ DOMAIN c = 1 .. m /\ \A k \in 1 .. m : c[k] \in Upward
  BY <1>1 DEF Lists
<1>3. HardwareAdjacency(c) = FlattenSeq(seqs)
  BY <1>2 DEF HardwareAdjacency
<1>4. \A p \in 0 .. 127, r \in 0 .. 127 :
        (GridAdjacent(p, r) <=> GridAdjacent(r, p)) /\ (GridAdjacent(p, r) => p # r)
  BY C4Edges
<1>5. ASSUME NEW x \in Grid
      PROVE  /\ up(x) \in Upward
             /\ \A y \in Upward : up(x) = y <=> x \in {<<y[1], y[2]>>, <<y[2], y[1]>>}
  <2>1. PICK p \in 0 .. 127, r \in 0 .. 127 : x = <<p, r>> /\ GridAdjacent(p, r)
    BY <1>0
  <2>2. p # r /\ GridAdjacent(r, p)
    BY <2>1, <1>4
  <2>3. up(x) = (IF p < r THEN <<p, r>> ELSE <<r, p>>)
    BY <2>1
  <2>4. up(x) \in Upward
    <3>1. p < r \/ r < p
      BY <2>2
    <3>2. p < r => <<p, r>> \in Upward
      BY <2>1, <1>11
    <3>3. r < p => <<r, p>> \in Upward
      BY <2>2, <1>11
    <3> QED
      BY <2>3, <3>1, <3>2, <3>3
  <2>5. ASSUME NEW y \in Upward
        PROVE  up(x) = y <=> x \in {<<y[1], y[2]>>, <<y[2], y[1]>>}
    <3>1. PICK a \in 0 .. 127, b \in 0 .. 127 : y = <<a, b>> /\ a < b
      BY <1>11
    <3>2. y[1] = a /\ y[2] = b
      BY <3>1
    <3> HIDE DEF up
    <3> QED
      BY <2>1, <2>2, <2>3, <3>1, <3>2
  <2> QED
    BY <2>4, <2>5
<1>6. ASSUME NEW x \in Grid
      PROVE  key[x] \in 1 .. m /\ c[key[x]] = up(x) /\ \A k \in 1 .. m : c[k] = up(x) => k = key[x]
  <2>1. \E k \in 1 .. m : c[k] = up(x)
    BY <1>1, <1>5 DEF Lists
  <2>2. key[x] = CHOOSE k \in 1 .. m : c[k] = up(x)
    OBVIOUS
  <2>3. key[x] \in 1 .. m /\ c[key[x]] = up(x)
    <3> HIDE DEF key, up
    <3> QED
      BY <2>1, <2>2
  <2> HIDE DEF key, up
  <2> QED
    BY <2>3, <1>1 DEF Lists, Injective
<1>7. ASSUME NEW k \in 1 .. m PROVE Lists(seqs[k], {x \in Grid : key[x] = k})
  <2> DEFINE a == c[k][1]
             b == c[k][2]
  <2>1. c[k] \in Upward
    BY <1>2
  <2>2. PICK p \in 0 .. 127, r \in 0 .. 127 : c[k] = <<p, r>> /\ GridAdjacent(p, r) /\ p < r
    BY <2>1, <1>11
  <2>3. a = p /\ b = r
    BY <2>2
  <2>4. <<a, b>> \in Grid /\ <<b, a>> \in Grid /\ a # b
    <3>1. GridAdjacent(r, p) /\ p # r
      BY <2>2, <1>4
    <3>2. <<p, r>> \in Grid /\ <<r, p>> \in Grid
      BY <2>2, <3>1, <1>0
    <3> QED
      BY <2>3, <3>1, <3>2
  <2>5. ASSUME NEW x \in Grid PROVE key[x] = k <=> x \in {<<a, b>>, <<b, a>>}
    <3> HIDE DEF key, up
    <3> QED
      BY <1>5, <1>6, <2>1
  <2>6. {x \in Grid : key[x] = k} = {<<a, b>>, <<b, a>>}
    <3> HIDE DEF key, a, b
    <3> QED
      BY <2>4, <2>5
  <2>7. seqs[k] = Both(a, b)
    OBVIOUS
  <2> HIDE DEF seqs, key, a, b
  <2> QED
    BY <2>4, <2>6, <2>7, BothLists
<1>8. seqs = [k \in 1 .. m |-> seqs[k]]
  OBVIOUS
<1> HIDE DEF seqs, key
<1>9. Loop(m, seqs, Grid, key)
  BY <1>2, <1>6, <1>7, <1>8 DEF Loop
<1>10. Lists(HardwareAdjacency(c), Grid)
  BY <1>3, <1>9, LoopLists
<1> QED
  BY <1>10 DEF c

-----------------------------------------------------------------------------
(* Chimera: the theorem                                                    *)

ChimeraInv ==
  /\ SizeType
  /\ \/ adjacency = <<>>
     \/ adjacency = ChimeraAdjacency(size[1], size[2], size[3])
     \/ SizeC4 /\ adjacency = HardwareAdjacency(C4Couplers)

LEMMA ChimeraInvHolds == ChimeraSpec => []ChimeraInv
<1>1. ChimeraInit => ChimeraInv
  BY SizesAssumption DEF ChimeraInit, ChimeraInv, SizeType
<1>2. ChimeraInv /\ [ChimeraNext]_chimeraVars => ChimeraInv'
  <2> SUFFICES ASSUME ChimeraInv, [ChimeraNext]_chimeraVars PROVE ChimeraInv'
    OBVIOUS
  <2>1. CASE GetChimeraAdjacency
    BY <2>1 DEF ChimeraInv, GetChimeraAdjacency, SizeType
  <2>2. CASE GetHardwareAdjacency
    BY <2>2 DEF ChimeraInv, GetHardwareAdjacency, SizeType, SizeC4
  <2>3. CASE UNCHANGED chimeraVars
    BY <2>3 DEF ChimeraInv, chimeraVars, SizeType, SizeC4
  <2> QED
    BY <2>1, <2>2, <2>3 DEF ChimeraNext
<1> QED
  BY <1>1, <1>2, PTL DEF ChimeraSpec

(***************************************************************************)
(* For all numbers of rows and columns and any size of sides, the pairs    *)
(* computed loop by loop are those of the grid, each once in each          *)
(* direction; and so are the couplers written down for the C4 solvers,     *)
(* whose elimination order has every qubit once.                           *)
(***************************************************************************)
THEOREM GridIsMade == ChimeraSpec => []ChimeraIsGrid
<1>1. ChimeraInv => ChimeraIsGrid
  <2> SUFFICES ASSUME ChimeraInv, adjacency # <<>>
               PROVE  /\ ToSet(adjacency) = Grid
                      /\ Len(adjacency) = Cardinality(ToSet(adjacency))
    BY C4OrderIsWhole DEF ChimeraIsGrid, Grid, NumberOfQubits
  <2>1. Lists(adjacency, Grid)
    BY AdjacencyLists, HardwareLists DEF ChimeraInv
  <2> QED
    BY <2>1, ListsCount
<1> QED
  BY <1>1, ChimeraInvHolds, PTL
=============================================================================
