----------------------------- MODULE ThreadPool -----------------------------
(***************************************************************************)
(* ThreadPoolImpl (remote/src/threadpool.cpp): a queue of work, a fixed    *)
(* number of threads that take work off it, and a shutdown that stops the  *)
(* threads and leaves behind what has not been started.                    *)
(*                                                                         *)
(* One step is one critical section of mutex_.  A worker is "ready" when   *)
(* it has or wants the mutex at the head of its loop, "waiting" in cv_,    *)
(* "working" while it runs work without the mutex, "exited" when its       *)
(* function has returned.  cv_ may wake a waiter without a notification.   *)
(***************************************************************************)
EXTENDS Naturals, Sequences, FiniteSets

CONSTANTS
  Workers,  \* threads_, a finite set: see FiniteWorkers
  Works,    \* what may be posted
  NoWork

VARIABLES
  workQueue,  \* workQueue_
  accepting,  \* running_
  worker,     \* where each worker is
  work,       \* what it is working on
  joined      \* shutdown() has joined the workers

poolVars == <<workQueue, accepting, worker, work, joined>>

TypeOK ==
  /\ workQueue \in Seq(Works)
  /\ accepting \in BOOLEAN
  /\ worker \in [Workers -> {"ready", "waiting", "working", "exited"}]
  /\ work \in [Workers -> Works \cup {NoWork}]
  /\ joined \in BOOLEAN

Init ==
  /\ workQueue = <<>>
  /\ accepting = TRUE
  /\ worker = [w \in Workers |-> "ready"]
  /\ work = [w \in Workers |-> NoWork]
  /\ joined = FALSE

\* The head of threadFn's loop.
Take(w) ==
  /\ worker[w] = "ready"
  /\ \/ /\ ~accepting
        /\ worker' = [worker EXCEPT ![w] = "exited"]
        /\ UNCHANGED <<workQueue, work>>
     \/ /\ accepting /\ workQueue = <<>>
        /\ worker' = [worker EXCEPT ![w] = "waiting"]
        /\ UNCHANGED <<workQueue, work>>
     \/ /\ accepting /\ workQueue # <<>>
        /\ worker' = [worker EXCEPT ![w] = "working"]
        /\ work' = [work EXCEPT ![w] = Head(workQueue)]
        /\ workQueue' = Tail(workQueue)
  /\ UNCHANGED <<accepting, joined>>

\* The work returns, or throws: exceptions are eaten.
Finish(w) ==
  /\ worker[w] = "working"
  /\ worker' = [worker EXCEPT ![w] = "ready"]
  /\ work' = [work EXCEPT ![w] = NoWork]
  /\ UNCHANGED <<workQueue, accepting, joined>>

\* cv_.wait returns by itself.
WakeUp(w) ==
  /\ worker[w] = "waiting"
  /\ worker' = [worker EXCEPT ![w] = "ready"]
  /\ UNCHANGED <<workQueue, accepting, work, joined>>

\* Mutant: nobody is notified.
Post_NoNotify(f) ==
  /\ accepting
  /\ workQueue' = Append(workQueue, f)
  /\ UNCHANGED <<accepting, worker, work, joined>>

\* post: it throws when the pool has been shut down (then there is no step).
Post(f) ==
  /\ accepting
  /\ workQueue' = Append(workQueue, f)
  /\ IF \E w \in Workers : worker[w] = "waiting"
     THEN \E w \in Workers : /\ worker[w] = "waiting"
                             /\ worker' = [worker EXCEPT ![w] = "ready"]
     ELSE UNCHANGED worker
  /\ UNCHANGED <<accepting, work, joined>>

\* Mutant: one waiting worker is notified.
StopWorkers_NotifyOne ==
  /\ accepting' = FALSE
  /\ IF \E w \in Workers : worker[w] = "waiting"
     THEN \E w \in Workers : /\ worker[w] = "waiting"
                             /\ worker' = [worker EXCEPT ![w] = "ready"]
     ELSE UNCHANGED worker
  /\ UNCHANGED <<workQueue, work, joined>>

\* shutdown, the part that holds the mutex.
StopWorkers ==
  /\ accepting' = FALSE
  /\ worker' = [w \in Workers |-> IF worker[w] = "waiting" THEN "ready" ELSE worker[w]]
  /\ UNCHANGED <<workQueue, work, joined>>

\* shutdown, the rest: every AutoJoinThread joins.
JoinWorkers ==
  /\ ~accepting
  /\ \A w \in Workers : worker[w] = "exited"
  /\ joined' = TRUE
  /\ UNCHANGED <<workQueue, accepting, worker, work>>

Next ==
  \/ \E w \in Workers : Take(w) \/ Finish(w) \/ WakeUp(w)
  \/ \E f \in Works : Post(f)
  \/ StopWorkers
  \/ JoinWorkers

Spec == Init /\ [][Next]_poolVars

-----------------------------------------------------------------------------
\* What the proofs need to know about the constants: the vector of threads has a
\* length.  (Whoever instantiates this module assumes it of its constants.)
FiniteWorkers == IsFiniteSet(Workers)

\* No wakeup is lost and no work waits behind another's (postConcurrent): while
\* the pool runs and one of its workers is asleep, there is an awake, free worker
\* for each piece of queued work, although post notifies one worker at most, and
\* a notified worker may find that another has taken the work.
Ready == {w \in Workers : worker[w] = "ready"}
SleepersNotNeeded ==
  (accepting /\ \E w \in Workers : worker[w] = "waiting")
    => Len(workQueue) <= Cardinality(Ready)

\* When shutdown has joined, nothing that was posted is still running or ever
\* starts, and no thread is left asleep: shutdown leaves no worker behind.
JoinedIsQuiet == joined => \A w \in Workers : worker[w] = "exited"
=============================================================================
