---------------------------- MODULE HttpService ----------------------------
(***************************************************************************)
(* HttpServiceImpl (remote/src/http-service.cpp): connections handed to    *)
(* curl, driven by one asio thread, finished through an intrusive list,    *)
(* and answered by callbacks on a thread pool; and its shutdown and        *)
(* destruction by another thread.                                          *)
(*                                                                         *)
(* Threads.  "io" runs socketAction, "closer" the explicit shutdown() and  *)
(* later, when the last reference is gone, the destructor, which calls     *)
(* shutdown() again.  mutex_ is held by io while it is "in" (curl works    *)
(* and completed handles are queued) and by closer while it is "failing"   *)
(* connections one by one; every other step that needs it is one step.     *)
(* The pool's workers call the callbacks; Request stands for asyncGet,     *)
(* asyncPost and asyncDelete, called by anybody.                           *)
(*                                                                         *)
(* curl (external): a handle that was added is worked on until curl        *)
(* reports it, once, as done or failed, or until it is removed.  Out of    *)
(* scope: asio failing to start a wait (asyncSocketIo), which only happens *)
(* when memory runs out.                                                   *)
(***************************************************************************)
EXTENDS Naturals, Sequences, FiniteSets

CONSTANTS
  Conns,    \* connections, named by the request they carry
  Nil,      \* no connection
  Workers,  \* threads of the callback pool
  NoWork

\* makeThreadPool throws unless the number of threads is positive.
ASSUME ConstantsAssumption ==
  /\ Nil \notin Conns /\ IsFiniteSet(Conns)
  /\ Workers # {} /\ IsFiniteSet(Workers)

Threads  == {"io", "closer"}
Outcomes == {"complete", "error", "shutdown"}
Works    == [conn : Conns, how : Outcomes]

VARIABLES workQueue, accepting, worker, work, joined

\* threadpool_ of the HttpCallbackService
Pool == INSTANCE ThreadPool

VARIABLES
  state,    \* complete_; PENDING stands for PENDING_COMPLETE and PENDING_FAIL
  outcome,  \* code_ or exc_: what finish() is going to report
  next,     \* next_
  doneHead, \* doneHead_
  active,   \* activeConnections_
  curl,     \* handles curl is working on
  running,  \* running_
  pc,       \* where each thread is
  toFail,   \* connections closer has yet to fail
  toFinish, \* what is left of the list a thread is finishing
  closing,  \* who called CurlMultiService::shutdown last: "no" (nobody yet),
            \* "shutdown", "destructor" (of the service), "members" (~CurlMultiService);
            \* "gone": that has returned, and the other members are destroyed
  calls     \* per connection: how its callback has been called

connVars == <<state, outcome, next, doneHead, active, curl>>
ctlVars  == <<running, pc, toFail, toFinish, closing>>
poolVars == <<workQueue, accepting, worker, work, joined>>
vars == <<connVars, ctlVars, calls, poolVars>>

TypeOK ==
  /\ Pool!TypeOK
  /\ state \in [Conns -> {"NONE", "IN_PROGRESS", "PENDING", "FINISHED"}]
  /\ outcome \in [Conns -> Outcomes]
  /\ next \in [Conns -> Conns \cup {Nil}]
  /\ \A c \in Conns : next[c] # c
  /\ doneHead \in Conns \cup {Nil}
  /\ active \subseteq Conns
  /\ curl \subseteq Conns
  /\ running \in BOOLEAN
  /\ pc \in [Threads -> {"idle", "in", "failing", "invoke", "finish", "cleanup", "join",
                         "pool", "destroy", "exited"}]
  /\ toFail \subseteq Conns
  /\ toFinish \in [Threads -> Seq(Conns)]
  /\ closing \in {"no", "shutdown", "destructor", "members", "gone"}
  /\ calls \in [Conns -> Seq(Outcomes)]

Init ==
  /\ Pool!Init
  /\ state = [c \in Conns |-> "NONE"]
  /\ outcome = [c \in Conns |-> "complete"]
  /\ next = [c \in Conns |-> Nil]
  /\ doneHead = Nil
  /\ active = {}
  /\ curl = {}
  /\ running = TRUE
  /\ pc = [t \in Threads |-> "idle"]
  /\ toFail = {}
  /\ toFinish = [t \in Threads |-> <<>>]
  /\ closing = "no"
  /\ calls = [c \in Conns |-> <<>>]

-----------------------------------------------------------------------------
At(t, label) == pc[t] = label
Goto(t, label) == pc' = [pc EXCEPT ![t] = label]
Elements(s) == {s[i] : i \in DOMAIN s}

MutexFree == ~At("io", "in") /\ ~At("closer", "failing")

\* The list that starts at c, by way of next_.
Lists == UNION {[1 .. n -> Conns] : n \in 0 .. Cardinality(Conns)}
IsListOf(s, c) ==
  IF s = <<>> THEN c = Nil
  ELSE /\ s[1] = c
       /\ \A i \in 1 .. Len(s) : next[s[i]] = IF i = Len(s) THEN Nil ELSE s[i + 1]
List(c) ==
  LET paths == {s \in Lists : IsListOf(s, c)} IN
  IF paths = {} THEN <<>> ELSE CHOOSE s \in paths : TRUE

Reversed(s) == [i \in DOMAIN s |-> s[Len(s) + 1 - i]]

\* Mutant: the list is started anew.
Queue_NoLink(c, how) ==
  /\ IF state[c] = "IN_PROGRESS"
     THEN /\ state' = [state EXCEPT ![c] = "PENDING"]
          /\ outcome' = [outcome EXCEPT ![c] = how]
     ELSE UNCHANGED <<state, outcome>>
  /\ doneHead' = c
  /\ UNCHANGED next

\* completeConnection and failConnection: the new head of the list, also if the
\* connection is pending already.
Queue(c, how) ==
  /\ IF state[c] = "IN_PROGRESS"
     THEN /\ state' = [state EXCEPT ![c] = "PENDING"]
          /\ outcome' = [outcome EXCEPT ![c] = how]
          /\ next' = [next EXCEPT ![c] = doneHead]
     ELSE UNCHANGED <<state, outcome, next>>
  /\ doneHead' = c

-----------------------------------------------------------------------------
(* Requests *)

\* A connection is created and added to curl; after shutdown() addConnection
\* throws, and the connection is never seen again.
Request(c) ==
  /\ running /\ MutexFree
  /\ state[c] = "NONE"
  /\ state' = [state EXCEPT ![c] = "IN_PROGRESS"]
  /\ active' = active \cup {c}
  /\ curl' = curl \cup {c}
  /\ UNCHANGED <<outcome, next, doneHead, ctlVars, calls, poolVars>>

-----------------------------------------------------------------------------
(* The asio thread *)

\* socketAction, for a socket event or a timeout: enter the critical section.
SocketAction ==
  /\ At("io", "idle") /\ MutexFree
  /\ Goto("io", "in")
  /\ UNCHANGED <<connVars, running, toFail, toFinish, closing, calls, poolVars>>

\* processCompletedConnections queues a handle that curl reports.
HandleDone(c, how) ==
  /\ At("io", "in")
  /\ c \in curl
  /\ curl' = curl \ {c}
  /\ Queue(c, how)
  /\ UNCHANGED <<active, ctlVars, calls, poolVars>>

\* Leave the critical section.
ActionDone ==
  /\ At("io", "in")
  /\ Goto("io", "invoke")
  /\ UNCHANGED <<connVars, running, toFail, toFinish, closing, calls, poolVars>>

\* invokeCompletedCallbacks, the critical section: take the list, and remove its
\* connections from curl and from the active ones.  They are finished from the
\* last to the first, because finish() calls itself on next_ first.
TakeDone(t) ==
  /\ At(t, "invoke") /\ MutexFree
  /\ LET done == List(doneHead) IN
     /\ toFinish' = [toFinish EXCEPT ![t] = Reversed(done)]
     /\ active' = active \ Elements(done)
     /\ curl' = curl \ Elements(done)
  /\ doneHead' = Nil
  /\ Goto(t, "finish")
  /\ UNCHANGED <<state, outcome, next, running, toFail, closing, calls, poolVars>>

\* Mutant: nobody is told when the pool has been shut down.
Answer_Dropped(c) ==
  /\ UNCHANGED calls
  /\ \/ Pool!Post([conn |-> c, how |-> outcome[c]])
     \/ ~accepting /\ UNCHANGED poolVars

\* postComplete and postError: if the pool has been shut down, the callback is
\* called on this thread, with the exception that says so.
Answer(c) ==
  \/ /\ Pool!Post([conn |-> c, how |-> outcome[c]])
     /\ UNCHANGED calls
  \/ /\ ~accepting
     /\ calls' = [calls EXCEPT ![c] = Append(@, "shutdown")]
     /\ UNCHANGED poolVars

\* Mutant: the connection is not marked as finished.
FinishOne_NotMarked(t) ==
  /\ At(t, "finish") /\ toFinish[t] # <<>>
  /\ LET c == Head(toFinish[t]) IN
     /\ IF state[c] = "PENDING" THEN Answer(c) ELSE UNCHANGED <<calls, poolVars>>
     /\ next' = [next EXCEPT ![c] = Nil]
  /\ toFinish' = [toFinish EXCEPT ![t] = Tail(@)]
  /\ UNCHANGED <<state, outcome, doneHead, active, curl, running, pc, toFail, closing>>

\* Connection::finish, for one connection.
FinishOne(t) ==
  /\ At(t, "finish") /\ toFinish[t] # <<>>
  /\ LET c == Head(toFinish[t]) IN
     /\ IF state[c] = "PENDING"
        THEN Answer(c) /\ state' = [state EXCEPT ![c] = "FINISHED"]
        ELSE UNCHANGED <<state, calls, poolVars>>
     /\ next' = [next EXCEPT ![c] = Nil]
  /\ toFinish' = [toFinish EXCEPT ![t] = Tail(@)]
  /\ UNCHANGED <<outcome, doneHead, active, curl, running, pc, toFail, closing>>

\* The asio thread returns to its loop, shutdown() or a destructor goes on.
Finished(t) ==
  /\ At(t, "finish") /\ toFinish[t] = <<>>
  /\ Goto(t, CASE t = "io" -> "idle"
               [] t = "closer" /\ closing = "gone" -> "destroy"
               [] OTHER -> "cleanup")
  /\ UNCHANGED <<connVars, running, toFail, toFinish, closing, calls, poolVars>>

\* io_service::run returns: the work object is gone, and the last handlers, which
\* find no curl handle any more, have run.
IoExit ==
  /\ At("io", "idle")
  /\ At("closer", "join")
  /\ Goto("io", "exited")
  /\ UNCHANGED <<connVars, running, toFail, toFinish, closing, calls, poolVars>>

-----------------------------------------------------------------------------
(* Shutdown and destruction *)

\* CurlMultiService::shutdown begins: no new connections, and the active ones are
\* going to be failed, whether they are pending or not.  It is called by
\* shutdown(), by the destructor, which may be the first, and by the destructor of
\* the member.
BeginShutdown ==
  /\ At("closer", "idle") /\ MutexFree
  /\ \/ closing = "no" /\ closing' \in {"shutdown", "destructor"}
     \/ closing = "shutdown" /\ closing' = "destructor"
     \/ closing = "destructor" /\ closing' = "members"
  /\ running' = FALSE
  /\ toFail' = active
  /\ Goto("closer", "failing")
  /\ UNCHANGED <<connVars, toFinish, calls, poolVars>>

FailOne(c) ==
  /\ At("closer", "failing")
  /\ c \in toFail
  /\ toFail' = toFail \ {c}
  /\ Queue(c, "shutdown")
  /\ UNCHANGED <<active, curl, running, pc, toFinish, closing, calls, poolVars>>

FailedAll ==
  /\ At("closer", "failing") /\ toFail = {}
  /\ Goto("closer", "invoke")
  /\ UNCHANGED <<connVars, running, toFail, toFinish, closing, calls, poolVars>>

\* The multi handle is freed without the mutex, and the asio thread is told to end.
Cleanup ==
  /\ At("closer", "cleanup")
  /\ curl' = {}
  /\ Goto("closer", "join")
  /\ UNCHANGED <<state, outcome, next, doneHead, active, running, toFail, toFinish,
                 closing, calls, poolVars>>

\* The asio thread is joined.  shutdownImpl goes on with the callback pool; the
\* destructor of the member goes on with the members of the member.
IoJoined ==
  /\ At("closer", "join") /\ At("io", "exited")
  /\ IF closing = "members"
     THEN closing' = "gone" /\ Goto("closer", "destroy") /\ UNCHANGED poolVars
     ELSE UNCHANGED closing /\ Goto("closer", "pool") /\ Pool!StopWorkers
  /\ UNCHANGED <<connVars, running, toFail, toFinish, calls>>

PoolJoined ==
  /\ At("closer", "pool")
  /\ Pool!JoinWorkers
  /\ Goto("closer", "idle")
  /\ UNCHANGED <<connVars, running, toFail, toFinish, closing, calls>>

\* activeConnections_ is destroyed: the destructor of a connection that is still
\* there finishes it, and the list behind it.
Destroy ==
  /\ At("closer", "destroy")
  /\ IF active = {}
     THEN Goto("closer", "exited") /\ UNCHANGED <<active, toFinish>>
     ELSE \E c \in active :
            /\ active' = active \ {c}
            /\ toFinish' = [toFinish EXCEPT !["closer"] = Reversed(List(c))]
            /\ Goto("closer", "finish")
  /\ UNCHANGED <<state, outcome, next, doneHead, curl, running, toFail, closing, calls,
                 poolVars>>

-----------------------------------------------------------------------------
(* The callback pool *)

\* A worker takes work, and the callback is called, or goes to sleep or exits.
WorkerTurn(w) ==
  /\ Pool!Take(w)
  /\ calls' = IF worker'[w] = "working"
              THEN [calls EXCEPT ![work'[w].conn] = Append(@, work'[w].how)]
              ELSE calls
  /\ UNCHANGED <<connVars, ctlVars>>

CallbackReturns(w) == Pool!Finish(w) /\ UNCHANGED <<connVars, ctlVars, calls>>
SpuriousWakeUp(w) == Pool!WakeUp(w) /\ UNCHANGED <<connVars, ctlVars, calls>>

Io ==
  \/ SocketAction
  \/ \E c \in Conns, how \in {"complete", "error"} : HandleDone(c, how)
  \/ ActionDone
  \/ TakeDone("io") \/ FinishOne("io") \/ Finished("io")
  \/ IoExit

Closer ==
  \/ BeginShutdown
  \/ \E c \in Conns : FailOne(c)
  \/ FailedAll
  \/ TakeDone("closer") \/ FinishOne("closer") \/ Finished("closer")
  \/ Cleanup \/ IoJoined \/ PoolJoined \/ Destroy

Next ==
  \/ \E c \in Conns : Request(c)
  \/ Io
  \/ Closer
  \/ \E w \in Workers : WorkerTurn(w) \/ CallbackReturns(w) \/ SpuriousWakeUp(w)

Spec == Init /\ [][Next]_vars

\* Threads run and get the mutex in the end; a callback returns; asio calls the
\* socket action again and again, because every transfer has events or reaches a
\* timeout, and curl then reports it (connect and low-speed timeouts); a stopping
\* asio thread runs out of handlers.
FairSpec ==
  /\ Spec
  /\ WF_vars(SocketAction)
  /\ \A c \in Conns : SF_vars(\E how \in {"complete", "error"} : HandleDone(c, how))
  /\ WF_vars(ActionDone)
  /\ \A t \in Threads : SF_vars(TakeDone(t)) /\ WF_vars(FinishOne(t) \/ Finished(t))
  /\ SF_vars(IoExit)
  /\ WF_vars(Closer /\ ~At("closer", "idle"))
  /\ \A w \in Workers : WF_vars(WorkerTurn(w) \/ CallbackReturns(w))

-----------------------------------------------------------------------------
(* Properties *)

InList(c) == c \in Elements(List(doneHead)) \cup UNION {Elements(toFinish[t]) : t \in Threads}
Posted(c) == {i \in DOMAIN workQueue : workQueue[i].conn = c}

\* The intrusive list (doneHead_, next_) loses nobody while the service runs: a
\* connection that is pending can be reached from the head, or by a thread that is
\* finishing the list it took; one in progress is known to curl and to
\* activeConnections_.
NothingLost ==
  running => \A c \in Conns :
    /\ state[c] = "PENDING" => InList(c)
    /\ state[c] = "IN_PROGRESS" => c \in curl /\ c \in active

\* A request's callback is called at most once, counting a posted call that has
\* not started: by curl, by the first shutdown, by the destructor's, and by the
\* destructors of what these left behind.
CalledAtMostOnce ==
  \A c \in Conns : Len(calls[c]) + Cardinality(Posted(c)) <= 1

\* Once the service is gone, every request it accepted has been answered, on
\* whatever path, unless its callback was posted and then left in the queue of the
\* pool, which a shutdown does not empty.
AnsweredWhenGone ==
  At("closer", "exited") =>
    \A c \in Conns : state[c] # "NONE" => calls[c] # <<>> \/ Posted(c) # {}

\* When shutdown() has returned, no thread of the service is left: no callback is
\* running or starts, and curl is not entered again.
QuietAfterShutdown ==
  (At("closer", "idle") /\ closing # "no") =>
    /\ At("io", "exited")
    /\ \A w \in Workers : worker[w] = "exited"

\* No wakeup of the callback pool is lost.
CallbacksHaveWorkers == Pool!SleepersNotNeeded

\* Every accepted request is answered, unless the service is shut down.
RequestsAreAnswered ==
  \A c \in Conns : state[c] = "IN_PROGRESS" ~> (calls[c] # <<>> \/ ~running)

\* shutdown() returns, and so does the destructor: the threads it joins end.
ShutdownReturns ==
  At("closer", "failing") ~> (At("closer", "idle") \/ At("closer", "exited"))

\* What the comment in shutdown() says of its first half: it fails all active
\* connections and invokes their callbacks (or the asio thread is doing so).  It
\* does not: failing a connection that is pending already makes it the head of the
\* list again, and those before it fall off (see the README).
ShutdownFinishesAll ==
  At("closer", "cleanup") =>
    \A c \in Conns : state[c] \in {"NONE", "FINISHED"} \/ InList(c)
=============================================================================
