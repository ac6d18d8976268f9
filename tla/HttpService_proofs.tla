------------------------ MODULE HttpService_proofs -------------------------
(***************************************************************************)
(* Proofs about the http service.                                          *)
(*                                                                         *)
(* HttpService, for any finite set of requests and workers.  That no       *)
(* request is lost is shown along a request's way: its links are a list    *)
(* that ends (LinkInv), a request that is over is on the list or with a    *)
(* worker (FinishedIsAnswered), and whoever closes the service finds all   *)
(* that are not (CloserInv, OpenIsActive, RunningInv).                     *)
(*                                                                         *)
(* CurlSockets, for any set of socket numbers and any bounds.              *)
(* WantedIsWatched speaks of the times between two calls of libcurl.       *)
(* WatchInv holds all the time: it adds the watch whose handler has begun  *)
(* the call under way and that the end of the call renews, and that a      *)
(* socket that libcurl holds is the one its number stands for, so that the *)
(* renewal asks it for the directions libcurl wants.                       *)
(***************************************************************************)
EXTENDS HttpService, CurlSockets, FiniteSetTheorems, TLAPS

\* The proofs of the callback pool.
PoolProofs == INSTANCE ThreadPool_proofs

-----------------------------------------------------------------------------
\* What curl, the active connections and the head of the list know of has been
\* requested; the head is not in progress, so linking to it closes no ring.
KnownInv ==
  /\ doneHead # Nil => state[doneHead] \in {"PENDING", "FINISHED"}
  /\ \A c \in curl \cup active \cup toFail : state[c] # "NONE"
TypeInv == TypeOK /\ KnownInv

\* Lists, their reversals and their tails are sequences of connections.
LEMMA ListType ==
  ASSUME NEW c
  PROVE  /\ List(c) \in Seq(Conns)
         /\ Reversed(List(c)) \in Seq(Conns)
         /\ Elements(List(c)) \subseteq Conns
<1>1. \A s \in Lists : s \in Seq(Conns)
  BY DEF Lists
<1>2. <<>> \in Seq(Conns)
  OBVIOUS
<1>3. List(c) \in Seq(Conns)
  BY <1>1, <1>2 DEF List
<1>4. Reversed(List(c)) \in Seq(Conns)
  BY <1>3 DEF Reversed
<1> QED
  BY <1>3, <1>4 DEF Elements

\* A list of connections, taken apart.
LEMMA TailType ==
  ASSUME NEW s \in Seq(Conns), s # <<>>
  PROVE  Head(s) \in Conns /\ Tail(s) \in Seq(Conns)
OBVIOUS

\* Queueing a connection keeps the fields well typed, and links none to itself.
LEMMA QueueType ==
  ASSUME TypeInv, NEW c \in Conns, state[c] # "NONE", NEW how \in Outcomes, Queue(c, how)
  PROVE  /\ state' \in [Conns -> {"NONE", "IN_PROGRESS", "PENDING", "FINISHED"}]
         /\ outcome' \in [Conns -> Outcomes]
         /\ next' \in [Conns -> Conns \cup {Nil}]
         /\ \A d \in Conns : next'[d] # d
         /\ doneHead' = c /\ state'[c] \in {"PENDING", "FINISHED"}
         /\ \A d \in Conns : state[d] # "NONE" => state'[d] # "NONE"
<1>0. /\ state \in [Conns -> {"NONE", "IN_PROGRESS", "PENDING", "FINISHED"}]
      /\ outcome \in [Conns -> Outcomes]
      /\ next \in [Conns -> Conns \cup {Nil}]
      /\ \A d \in Conns : next[d] # d
      /\ doneHead \in Conns \cup {Nil}
      /\ doneHead # Nil => state[doneHead] \in {"PENDING", "FINISHED"}
      /\ doneHead' = c
  BY DEF TypeInv, TypeOK, KnownInv, Queue
<1>1. CASE state[c] = "IN_PROGRESS"
  <2>1. doneHead # c
    BY <1>0, <1>1, ConstantsAssumption
  <2>2. /\ state' = [state EXCEPT ![c] = "PENDING"]
        /\ outcome' = [outcome EXCEPT ![c] = how]
        /\ next' = [next EXCEPT ![c] = doneHead]
    BY <1>1 DEF Queue
  <2>3. next' \in [Conns -> Conns \cup {Nil}] /\ \A d \in Conns : next'[d] # d
    BY <1>0, <2>1, <2>2
  <2> QED
    BY <1>0, <2>2, <2>3
<1>2. CASE state[c] # "IN_PROGRESS"
  BY <1>0, <1>2 DEF Queue
<1> QED
  BY <1>1, <1>2
-----------------------------------------------------------------------------
(* Type correctness *)

\* The pool's type depends on its own variables only.
LEMMA PoolTypeStays == Pool!TypeOK /\ UNCHANGED poolVars => Pool!TypeOK'
BY DEF poolVars, Pool!TypeOK

\* Answering a connection posts or calls with one of the outcomes.
LEMMA PostType ==
  ASSUME TypeInv, NEW c \in Conns, Answer(c)
  PROVE  Pool!TypeOK' /\ calls' \in [Conns -> Seq(Outcomes)]
<1>0. /\ Pool!TypeOK /\ calls \in [Conns -> Seq(Outcomes)]
      /\ [conn |-> c, how |-> outcome[c]] \in Works
      /\ "shutdown" \in Outcomes
  BY DEF TypeInv, TypeOK, Works, Outcomes
<1>1. CASE Pool!Post([conn |-> c, how |-> outcome[c]]) /\ UNCHANGED calls
  BY <1>0, <1>1 DEF Pool!TypeOK, Pool!Post
<1>2. CASE calls' = [calls EXCEPT ![c] = Append(@, "shutdown")] /\ UNCHANGED poolVars
  BY <1>0, <1>2, PoolTypeStays
<1> QED
  BY <1>1, <1>2 DEF Answer

\* A worker calls with what was posted.
LEMMA WorkerTurnType ==
  ASSUME TypeInv, NEW w \in Workers, WorkerTurn(w)
  PROVE  Pool!TypeOK' /\ calls' \in [Conns -> Seq(Outcomes)]
<1>0. Pool!TypeOK /\ calls \in [Conns -> Seq(Outcomes)] /\ Pool!Take(w)
  BY DEF TypeInv, TypeOK, WorkerTurn
<1>1. CASE workQueue = <<>> \/ ~accepting
  <2>1. Pool!TypeOK' /\ worker'[w] # "working"
    BY <1>0, <1>1 DEF Pool!TypeOK, Pool!Take
  <2> QED
    BY <1>0, <2>1 DEF WorkerTurn
<1>2. CASE workQueue # <<>> /\ accepting
  <2>1. Head(workQueue) \in Works /\ Tail(workQueue) \in Seq(Works)
    BY <1>0, <1>2 DEF Pool!TypeOK
  <2>2. /\ worker' = [worker EXCEPT ![w] = "working"]
        /\ work' = [work EXCEPT ![w] = Head(workQueue)]
        /\ workQueue' = Tail(workQueue)
        /\ UNCHANGED <<accepting, joined>>
    BY <1>0, <1>2 DEF Pool!Take
  <2>3. Pool!TypeOK' /\ work'[w] \in Works /\ worker'[w] = "working"
    BY <1>0, <2>1, <2>2 DEF Pool!TypeOK
  <2>4. work'[w].conn \in Conns /\ work'[w].how \in Outcomes
    BY <2>3 DEF Works
  <2>5. calls' = [calls EXCEPT ![work'[w].conn] = Append(@, work'[w].how)]
    BY <2>3 DEF WorkerTurn
  <2> QED
    BY <1>0, <2>3, <2>4, <2>5
<1> QED
  BY <1>1, <1>2

\* Every step of the service keeps the type invariant.
LEMMA TypeInductive == TypeInv /\ [Next]_vars => TypeInv'
<1> SUFFICES ASSUME TypeInv, [Next]_vars PROVE TypeInv'
  OBVIOUS
<1>p. Pool!TypeOK /\ UNCHANGED poolVars => Pool!TypeOK'
  BY PoolTypeStays
<1> USE DEF TypeInv, TypeOK, KnownInv, connVars, ctlVars, At, Goto, Threads
<1>1. ASSUME NEW c \in Conns, Request(c) PROVE TypeInv'
  BY <1>1, <1>p, ConstantsAssumption DEF Request
<1>2. CASE SocketAction \/ ActionDone \/ FailedAll \/ IoExit \/ Cleanup
  BY <1>2, <1>p DEF SocketAction, ActionDone, FailedAll, IoExit, Cleanup
<1>3. ASSUME NEW c \in Conns, NEW how \in {"complete", "error"}, HandleDone(c, how)
      PROVE  TypeInv'
  <2>1. state[c] # "NONE" /\ how \in Outcomes
    BY <1>3 DEF HandleDone, Outcomes
  <2> QED
    BY <1>3, <1>p, <2>1, QueueType DEF HandleDone
<1>4. ASSUME NEW t \in Threads, TakeDone(t) PROVE TypeInv'
  BY <1>4, <1>p, ListType DEF TakeDone
<1>5. ASSUME NEW t \in Threads, FinishOne(t) PROVE TypeInv'
  <2> DEFINE c == Head(toFinish[t])
  <2>1. c \in Conns /\ Tail(toFinish[t]) \in Seq(Conns)
    BY <1>5, TailType DEF FinishOne
  <2>2. CASE state[c] = "PENDING"
    BY <1>5, <2>1, <2>2, PostType, ConstantsAssumption, ZenonT(60) DEF FinishOne
  <2>3. CASE state[c] # "PENDING"
    BY <1>5, <1>p, <2>1, <2>3, ConstantsAssumption DEF FinishOne
  <2> QED
    BY <2>2, <2>3
<1>6. ASSUME NEW t \in Threads, Finished(t) PROVE TypeInv'
  BY <1>6, <1>p DEF Finished
<1>7. CASE BeginShutdown
  BY <1>7, <1>p DEF BeginShutdown
<1>8. ASSUME NEW c \in Conns, FailOne(c) PROVE TypeInv'
  <2>1. state[c] # "NONE" /\ "shutdown" \in Outcomes
    BY <1>8 DEF FailOne, Outcomes
  <2> QED
    BY <1>8, <1>p, <2>1, QueueType DEF FailOne
<1>9. CASE IoJoined
  <2>1. Pool!TypeOK'
    <3>1. CASE UNCHANGED poolVars
      BY <1>p, <3>1
    <3>2. CASE Pool!StopWorkers
      BY <3>2 DEF Pool!StopWorkers, Pool!TypeOK
    <3> QED
      BY <1>9, <3>1, <3>2 DEF IoJoined
  <2> QED
    BY <1>9, <2>1 DEF IoJoined
<1>10. CASE PoolJoined
  <2>1. Pool!TypeOK'
    BY <1>10 DEF PoolJoined, Pool!JoinWorkers, Pool!TypeOK
  <2> QED
    BY <1>10, <2>1 DEF PoolJoined
<1>11. CASE Destroy
  BY <1>11, <1>p, ListType DEF Destroy
<1>12. ASSUME NEW w \in Workers, WorkerTurn(w) PROVE TypeInv'
  BY <1>12, WorkerTurnType DEF WorkerTurn
<1>13. ASSUME NEW w \in Workers, CallbackReturns(w) \/ SpuriousWakeUp(w) PROVE TypeInv'
  <2>1. Pool!TypeOK'
    BY <1>13 DEF CallbackReturns, SpuriousWakeUp, Pool!Finish, Pool!WakeUp, Pool!TypeOK
  <2> QED
    BY <1>13, <2>1 DEF CallbackReturns, SpuriousWakeUp
<1>14. CASE UNCHANGED vars
  BY <1>14, <1>p DEF vars
<1> QED
  BY <1>1, <1>2, <1>3, <1>4, <1>5, <1>6, <1>7, <1>8, <1>9, <1>10, <1>11, <1>12, <1>13, <1>14
     DEF Next, Io, Closer

\* The strengthened type invariant holds throughout.
LEMMA TypeInvHolds == Spec => []TypeInv
<1>1. Init => TypeInv
  <2>1. <<>> \in Seq(Conns) /\ <<>> \in Seq(Outcomes) /\ <<>> \in Seq(Works)
    OBVIOUS
  <2> SUFFICES ASSUME Init PROVE TypeInv
    OBVIOUS
  <2>2. Pool!TypeOK
    BY <2>1 DEF Init, Pool!Init, Pool!TypeOK
  <2>3. KnownInv
    BY DEF Init, KnownInv
  <2>4. calls \in [Conns -> Seq(Outcomes)] /\ toFinish \in [Threads -> Seq(Conns)]
    BY <2>1 DEF Init
  <2> QED
    BY <2>2, <2>3, <2>4, ConstantsAssumption DEF Init, TypeInv, TypeOK, Outcomes, Threads
<1> QED
  BY <1>1, TypeInductive, PTL DEF Spec

\* Every variable of the service keeps its type, whatever the requests and their
\* completions, and no connection is ever linked to itself.
THEOREM TypeCorrect == Spec => []TypeOK
<1>1. TypeInv => TypeOK
  BY DEF TypeInv
<1> QED
  BY <1>1, TypeInvHolds, PTL
-----------------------------------------------------------------------------
(* The callback pool *)

\* Answering a connection is a post, or leaves the pool alone.
LEMMA AnswerUsesPool ==
  ASSUME TypeInv, NEW c \in Conns, Answer(c)
  PROVE  [PoolProofs!Next]_poolVars
<1>1. [conn |-> c, how |-> outcome[c]] \in Works
  BY DEF TypeInv, TypeOK, Works
<1>2. CASE Pool!Post([conn |-> c, how |-> outcome[c]])
  BY <1>1, <1>2 DEF Pool!Post, PoolProofs!Next, PoolProofs!Post
<1> QED
  BY <1>2 DEF Answer

\* Each step of the service is a step of its callback pool or leaves it alone.
LEMMA StepsUsePool ==
  ASSUME TypeInv, [Next]_vars
  PROVE  [PoolProofs!Next]_poolVars
<1>1. CASE \E c \in Conns : Request(c) \/ FailOne(c)
  BY <1>1 DEF Request, FailOne
<1>2. CASE \/ SocketAction \/ ActionDone \/ FailedAll \/ IoExit \/ Cleanup \/ BeginShutdown
           \/ Destroy \/ UNCHANGED vars
  BY <1>2 DEF SocketAction, ActionDone, FailedAll, IoExit, Cleanup, BeginShutdown, Destroy, vars
<1>3. CASE \E c \in Conns, how \in {"complete", "error"} : HandleDone(c, how)
  BY <1>3 DEF HandleDone
<1>4. CASE \E t \in Threads : TakeDone(t) \/ Finished(t)
  BY <1>4 DEF TakeDone, Finished
<1>5. ASSUME NEW t \in Threads, FinishOne(t) PROVE [PoolProofs!Next]_poolVars
  <2>1. Head(toFinish[t]) \in Conns
    BY <1>5, TailType DEF FinishOne, TypeInv, TypeOK
  <2> QED
    BY <1>5, <2>1, AnswerUsesPool DEF FinishOne
<1>6. CASE IoJoined
  BY <1>6 DEF IoJoined, Pool!StopWorkers, PoolProofs!Next, PoolProofs!StopWorkers
<1>7. CASE PoolJoined
  BY <1>7 DEF PoolJoined, Pool!JoinWorkers, PoolProofs!Next, PoolProofs!JoinWorkers
<1>8. ASSUME NEW w \in Workers, WorkerTurn(w) PROVE [PoolProofs!Next]_poolVars
  BY <1>8 DEF WorkerTurn, Pool!Take, PoolProofs!Next, PoolProofs!Take
<1>9. ASSUME NEW w \in Workers, CallbackReturns(w) PROVE [PoolProofs!Next]_poolVars
  BY <1>9 DEF CallbackReturns, Pool!Finish, PoolProofs!Next, PoolProofs!Finish
<1>10. ASSUME NEW w \in Workers, SpuriousWakeUp(w) PROVE [PoolProofs!Next]_poolVars
  BY <1>10 DEF SpuriousWakeUp, Pool!WakeUp, PoolProofs!Next, PoolProofs!WakeUp
<1> QED
  BY <1>1, <1>2, <1>3, <1>4, <1>5, <1>6, <1>7, <1>8, <1>9, <1>10
     DEF Next, Io, Closer, Threads

\* What the service does to its pool is a behaviour of the pool.
LEMMA UsesPool == Spec => PoolProofs!Spec
<1>1. Init => PoolProofs!Init
  BY DEF Init, Pool!Init, PoolProofs!Init
<1>2. TypeInv /\ [Next]_vars => [PoolProofs!Next]_(PoolProofs!poolVars)
  BY StepsUsePool DEF PoolProofs!poolVars, poolVars
<1>3. Spec => []TypeInv
  BY TypeInvHolds
<1> QED
  BY <1>1, <1>2, <1>3, PTL DEF Spec, PoolProofs!Spec

\* For any number of requests and callback threads, a callback that was posted
\* never waits for a wakeup that nobody gives: while a thread of the pool sleeps
\* there is a free one for each posted callback.
THEOREM CallbacksServed == Spec => []CallbacksHaveWorkers
<1>1. PoolProofs!FiniteWorkers
  BY ConstantsAssumption
     DEF PoolProofs!FiniteWorkers, PoolProofs!IsFiniteSet, IsFiniteSet
<1>2. PoolProofs!Spec => []PoolProofs!SleepersNotNeeded
  BY <1>1, PoolProofs!SleepersSafe
<1>3. PoolProofs!SleepersNotNeeded => CallbacksHaveWorkers
  BY DEF CallbacksHaveWorkers, Pool!SleepersNotNeeded, Pool!Ready,
         PoolProofs!SleepersNotNeeded, PoolProofs!Ready,
         Pool!Cardinality, PoolProofs!Cardinality
<1> QED
  BY <1>2, <1>3, UsesPool, PTL
-----------------------------------------------------------------------------
(* Callbacks are called once *)

\* CalledAtMostOnce alone is not inductive: it does not say why a connection that
\* is finished now has not been answered before.  A connection is marked FINISHED
\* when it is answered, and only then is its callback posted or called; the queue
\* holds one entry per connection at most, and none for one that was called.
CalledIsFinished ==
  \A c \in Conns : Len(calls[c]) <= 1 /\ (calls[c] # <<>> => state[c] = "FINISHED")
QueuedIsUncalled ==
  \A i \in 1 .. Len(workQueue) :
    /\ calls[workQueue[i].conn] = <<>>
    /\ state[workQueue[i].conn] = "FINISHED"
QueuedOnce ==
  \A i, j \in 1 .. Len(workQueue) : workQueue[i].conn = workQueue[j].conn => i = j
OnceInv == CalledIsFinished /\ QueuedIsUncalled /\ QueuedOnce

\* What the type invariant says of the queue, the callbacks and the connections.
LEMMA OnceTypes ==
  ASSUME TypeInv
  PROVE  /\ workQueue \in Seq(Works) /\ DOMAIN workQueue = 1 .. Len(workQueue)
         /\ Len(workQueue) \in Nat
         /\ \A i \in 1 .. Len(workQueue) :
              /\ workQueue[i] \in Works
              /\ workQueue[i].conn \in Conns /\ workQueue[i].how \in Outcomes
         /\ state \in [Conns -> {"NONE", "IN_PROGRESS", "PENDING", "FINISHED"}]
         /\ calls \in [Conns -> Seq(Outcomes)]
         /\ outcome \in [Conns -> Outcomes]
         /\ \A c \in Conns : [conn |-> c, how |-> outcome[c]] \in Works
<1>1. workQueue \in Seq(Works)
  BY DEF TypeInv, TypeOK, Pool!TypeOK
<1>2. \A i \in 1 .. Len(workQueue) : workQueue[i] \in Works
  BY <1>1
<1>3. \A f \in Works : f.conn \in Conns /\ f.how \in Outcomes
  BY DEF Works
<1>4. /\ state \in [Conns -> {"NONE", "IN_PROGRESS", "PENDING", "FINISHED"}]
      /\ calls \in [Conns -> Seq(Outcomes)]
      /\ outcome \in [Conns -> Outcomes]
  BY DEF TypeInv, TypeOK
<1>5. \A c \in Conns : [conn |-> c, how |-> outcome[c]] \in Works
  BY <1>4 DEF Works
<1> QED
  BY <1>1, <1>2, <1>3, <1>4, <1>5

\* A step that calls and posts nothing keeps it, if what is finished stays so.
LEMMA QuietKeepsOnce ==
  ASSUME TypeInv, OnceInv, UNCHANGED <<calls, workQueue>>,
         \A c \in Conns : state[c] = "FINISHED" => state'[c] = "FINISHED"
  PROVE  OnceInv'
BY OnceTypes DEF OnceInv, CalledIsFinished, QueuedIsUncalled, QueuedOnce

\* What a connection waits for when it is finished: its first answer.
LEMMA AnswerKeepsOnce ==
  ASSUME TypeInv, OnceInv, NEW c \in Conns, state[c] = "PENDING", Answer(c),
         state' = [state EXCEPT ![c] = "FINISHED"]
  PROVE  OnceInv'
<1>1. /\ workQueue \in Seq(Works)
      /\ \A i \in 1 .. Len(workQueue) : workQueue[i].conn \in Conns
      /\ state \in [Conns -> {"NONE", "IN_PROGRESS", "PENDING", "FINISHED"}]
      /\ calls \in [Conns -> Seq(Outcomes)]
      /\ [conn |-> c, how |-> outcome[c]] \in Works
  BY OnceTypes
<1>2. calls[c] = <<>> /\ \A i \in 1 .. Len(workQueue) : workQueue[i].conn # c
  BY <1>1 DEF OnceInv, CalledIsFinished, QueuedIsUncalled, QueuedOnce
<1>3. CASE Pool!Post([conn |-> c, how |-> outcome[c]]) /\ UNCHANGED calls
  <2> DEFINE f == [conn |-> c, how |-> outcome[c]]
  <2>1. workQueue' = Append(workQueue, f) /\ f.conn = c
    BY <1>3 DEF Pool!Post
  <2> HIDE DEF f
  <2>2. /\ Len(workQueue') = Len(workQueue) + 1
        /\ \A i \in 1 .. Len(workQueue) : workQueue'[i] = workQueue[i]
        /\ workQueue'[Len(workQueue) + 1].conn = c
    BY <1>1, <2>1 DEF f
  <2>3. \A i \in 1 .. Len(workQueue') : i \in 1 .. Len(workQueue) \/ i = Len(workQueue) + 1
    BY <1>1, <2>2
  <2>4. \A d \in Conns : state'[d] = IF d = c THEN "FINISHED" ELSE state[d]
    BY <1>1
  <2>5. CalledIsFinished'
    BY <1>1, <1>3, <2>4 DEF OnceInv, CalledIsFinished
  <2>6. QueuedIsUncalled'
    <3> SUFFICES ASSUME NEW i \in 1 .. Len(workQueue')
                 PROVE  calls[workQueue'[i].conn] = <<>> /\ state'[workQueue'[i].conn] = "FINISHED"
      BY <1>3 DEF QueuedIsUncalled
    <3>1. CASE i \in 1 .. Len(workQueue)
      BY <1>1, <2>2, <2>4, <3>1 DEF OnceInv, QueuedIsUncalled
    <3>2. CASE i = Len(workQueue) + 1
      BY <1>2, <2>2, <2>4, <3>2
    <3> QED
      BY <2>3, <3>1, <3>2
  <2>7. QueuedOnce'
    <3> SUFFICES ASSUME NEW i \in 1 .. Len(workQueue'), NEW j \in 1 .. Len(workQueue'),
                        workQueue'[i].conn = workQueue'[j].conn
                 PROVE  i = j
      BY DEF QueuedOnce
    <3>1. CASE i \in 1 .. Len(workQueue) /\ j \in 1 .. Len(workQueue)
      BY <2>2, <3>1 DEF OnceInv, QueuedOnce
    <3>2. CASE i = Len(workQueue) + 1 \/ j = Len(workQueue) + 1
      BY <1>2, <2>2, <2>3, <3>2
    <3> QED
      BY <2>3, <3>1, <3>2
  <2> QED
    BY <2>5, <2>6, <2>7 DEF OnceInv
<1>4. CASE calls' = [calls EXCEPT ![c] = Append(@, "shutdown")] /\ UNCHANGED poolVars
  <2>1. \A d \in Conns : calls'[d] = IF d = c THEN Append(<<>>, "shutdown") ELSE calls[d]
    BY <1>1, <1>2, <1>4
  <2>2. Len(Append(<<>>, "shutdown")) = 1
    OBVIOUS
  <2>3. \A d \in Conns : state'[d] = IF d = c THEN "FINISHED" ELSE state[d]
    BY <1>1
  <2>4. workQueue' = workQueue
    BY <1>4 DEF poolVars
  <2>5. CalledIsFinished'
    <3> SUFFICES ASSUME NEW d \in Conns
                 PROVE  Len(calls'[d]) <= 1 /\ (calls'[d] # <<>> => state'[d] = "FINISHED")
      BY DEF CalledIsFinished
    <3>1. CASE d = c
      <4>1. calls'[d] = Append(<<>>, "shutdown") /\ state'[d] = "FINISHED"
        BY <2>1, <2>3, <3>1
      <4> QED
        BY <2>2, <4>1
    <3>2. CASE d # c
      BY <2>1, <2>3, <3>2 DEF OnceInv, CalledIsFinished
    <3> QED
      BY <3>1, <3>2
  <2>6. QueuedIsUncalled'
    BY <1>1, <1>2, <2>1, <2>3, <2>4 DEF OnceInv, QueuedIsUncalled
  <2>7. QueuedOnce'
    BY <2>4 DEF OnceInv, QueuedOnce
  <2> QED
    BY <2>5, <2>6, <2>7 DEF OnceInv
<1> QED
  BY <1>3, <1>4 DEF Answer

\* A worker calls what it takes off the queue, which has not been called.
LEMMA WorkerKeepsOnce ==
  ASSUME TypeInv, OnceInv, NEW w \in Workers, WorkerTurn(w)
  PROVE  OnceInv'
<1>0. /\ worker \in [Workers -> {"ready", "waiting", "working", "exited"}]
      /\ work \in [Workers -> Works \cup {NoWork}]
      /\ Pool!Take(w) /\ UNCHANGED state
  BY DEF TypeInv, TypeOK, Pool!TypeOK, WorkerTurn, connVars
<1>1. /\ workQueue \in Seq(Works)
      /\ \A i \in 1 .. Len(workQueue) : workQueue[i].conn \in Conns /\ workQueue[i].how \in Outcomes
      /\ calls \in [Conns -> Seq(Outcomes)]
  BY OnceTypes
<1>2. CASE workQueue = <<>> \/ ~accepting
  <2>1. UNCHANGED workQueue /\ worker'[w] # "working"
    BY <1>0, <1>2 DEF Pool!Take
  <2>2. UNCHANGED calls
    BY <2>1 DEF WorkerTurn
  <2> QED
    BY <1>0, <2>1, <2>2, QuietKeepsOnce
<1>3. CASE workQueue # <<>> /\ accepting
  <2> DEFINE c == workQueue[1].conn
  <2>0. /\ workQueue' = Tail(workQueue)
        /\ worker'[w] = "working" /\ work'[w] = Head(workQueue)
    BY <1>0, <1>3 DEF Pool!Take
  <2>1. /\ workQueue' = Tail(workQueue)
        /\ calls' = [calls EXCEPT ![c] = Append(@, workQueue[1].how)]
    <3>1. Head(workQueue) = workQueue[1]
      BY <1>1, <1>3
    <3> QED
      BY <2>0, <3>1 DEF WorkerTurn
  <2>2. /\ Len(workQueue) > 0 /\ Len(workQueue') = Len(workQueue) - 1
        /\ \A i \in 1 .. Len(workQueue') :
             i + 1 \in 1 .. Len(workQueue) /\ workQueue'[i] = workQueue[i + 1]
    BY <1>1, <1>3, <2>1
  <2>3. 1 \in 1 .. Len(workQueue) /\ c \in Conns /\ calls[c] = <<>> /\ state[c] = "FINISHED"
    BY <1>1, <2>2 DEF OnceInv, CalledIsFinished, QueuedIsUncalled, QueuedOnce
  <2>4. \A i \in 1 .. Len(workQueue') : workQueue'[i].conn # c
    <3> SUFFICES ASSUME NEW i \in 1 .. Len(workQueue'), workQueue[i + 1].conn = c PROVE FALSE
      BY <2>2
    <3>1. i + 1 = 1
      BY <2>2, <2>3 DEF OnceInv, CalledIsFinished, QueuedIsUncalled, QueuedOnce
    <3> QED
      BY <1>1, <2>2, <3>1
  <2>5. \A d \in Conns : calls'[d] = IF d = c THEN Append(<<>>, workQueue[1].how) ELSE calls[d]
    BY <1>1, <2>1, <2>3
  <2>6. Len(Append(<<>>, workQueue[1].how)) = 1
    OBVIOUS
  <2> HIDE DEF c
  <2>7. CalledIsFinished'
    <3> SUFFICES ASSUME NEW d \in Conns
                 PROVE  Len(calls'[d]) <= 1 /\ (calls'[d] # <<>> => state[d] = "FINISHED")
      BY <1>0 DEF CalledIsFinished
    <3>1. CASE d = c
      <4>1. calls'[d] = Append(<<>>, workQueue[1].how) /\ state[d] = "FINISHED"
        BY <2>3, <2>5, <3>1
      <4> QED
        BY <2>6, <4>1
    <3>2. CASE d # c
      <4>1. calls'[d] = calls[d]
        BY <2>5, <3>2
      <4> QED
        BY <4>1 DEF OnceInv, CalledIsFinished
    <3> QED
      BY <3>1, <3>2
  <2>8. QueuedIsUncalled'
    <3> SUFFICES ASSUME NEW i \in 1 .. Len(workQueue')
                 PROVE  /\ calls'[workQueue'[i].conn] = <<>>
                        /\ state[workQueue'[i].conn] = "FINISHED"
      BY <1>0 DEF QueuedIsUncalled
    <3>1. i + 1 \in 1 .. Len(workQueue) /\ workQueue'[i] = workQueue[i + 1]
      BY <2>2
    <3>2. workQueue[i + 1].conn \in Conns /\ workQueue[i + 1].conn # c
      BY <1>1, <2>4, <3>1
    <3> QED
      BY <2>5, <3>1, <3>2 DEF OnceInv, QueuedIsUncalled
  <2>9. QueuedOnce'
    <3> SUFFICES ASSUME NEW i \in 1 .. Len(workQueue'), NEW j \in 1 .. Len(workQueue'),
                        workQueue'[i].conn = workQueue'[j].conn
                 PROVE  i = j
      BY DEF QueuedOnce
    <3>1. i + 1 = j + 1
      BY <2>2, SMTT(60) DEF OnceInv, QueuedOnce
    <3> QED
      BY <3>1
  <2> QED
    BY <2>7, <2>8, <2>9 DEF OnceInv
<1> QED
  BY <1>2, <1>3

\* Every step of the service keeps it.
LEMMA NextKeepsOnce == TypeInv /\ OnceInv /\ [Next]_vars => OnceInv'
<1> SUFFICES ASSUME TypeInv, OnceInv, [Next]_vars PROVE OnceInv'
  OBVIOUS
<1>t. state \in [Conns -> {"NONE", "IN_PROGRESS", "PENDING", "FINISHED"}]
  BY DEF TypeInv, TypeOK
<1> USE DEF poolVars, ctlVars, connVars
<1>1. ASSUME NEW c \in Conns, Request(c) PROVE OnceInv'
  BY <1>t, <1>1, QuietKeepsOnce DEF Request
<1>2. CASE \/ SocketAction \/ ActionDone \/ FailedAll \/ IoExit \/ Cleanup \/ BeginShutdown
           \/ Destroy \/ PoolJoined \/ UNCHANGED vars
  BY <1>2, QuietKeepsOnce
     DEF SocketAction, ActionDone, FailedAll, IoExit, Cleanup, BeginShutdown, Destroy,
         PoolJoined, Pool!JoinWorkers, vars
<1>3. ASSUME NEW c \in Conns, NEW how, Queue(c, how), UNCHANGED <<calls, poolVars>>
      PROVE  OnceInv'
  BY <1>t, <1>3, QuietKeepsOnce DEF Queue
<1>4. ASSUME NEW c \in Conns, NEW how, HandleDone(c, how) \/ FailOne(c) PROVE OnceInv'
  BY <1>3, <1>4 DEF HandleDone, FailOne
<1>5. ASSUME NEW t \in Threads, TakeDone(t) \/ Finished(t) PROVE OnceInv'
  BY <1>5, QuietKeepsOnce DEF TakeDone, Finished
<1>6. ASSUME NEW t \in Threads, FinishOne(t) PROVE OnceInv'
  <2> DEFINE c == Head(toFinish[t])
  <2>1. c \in Conns
    BY <1>6, TailType DEF FinishOne, TypeInv, TypeOK
  <2>2. CASE state[c] = "PENDING"
    BY <1>6, <2>1, <2>2, AnswerKeepsOnce DEF FinishOne
  <2>3. CASE state[c] # "PENDING"
    BY <1>6, <2>3, QuietKeepsOnce DEF FinishOne
  <2> QED
    BY <2>2, <2>3
<1>7. CASE IoJoined
  BY <1>7, QuietKeepsOnce DEF IoJoined, Pool!StopWorkers
<1>8. ASSUME NEW w \in Workers, WorkerTurn(w) PROVE OnceInv'
  BY <1>8, WorkerKeepsOnce
<1>9. ASSUME NEW w \in Workers, CallbackReturns(w) \/ SpuriousWakeUp(w) PROVE OnceInv'
  BY <1>9, QuietKeepsOnce DEF CallbackReturns, SpuriousWakeUp, Pool!Finish, Pool!WakeUp
<1> QED
  BY <1>1, <1>2, <1>4, <1>5, <1>6, <1>7, <1>8, <1>9 DEF Next, Io, Closer, Threads

\* It bounds what CalledAtMostOnce counts.
LEMMA OnceCounts == TypeInv /\ OnceInv => CalledAtMostOnce
<1> SUFFICES ASSUME TypeInv, OnceInv, NEW c \in Conns
             PROVE  Len(calls[c]) + Cardinality(Posted(c)) <= 1
  BY DEF CalledAtMostOnce
<1>1. Len(calls[c]) \in Nat /\ Len(calls[c]) <= 1
  BY OnceTypes DEF OnceInv, CalledIsFinished
<1>2. CASE Posted(c) = {}
  <2>1. Cardinality(Posted(c)) = 0
    BY <1>2, FS_EmptySet
  <2> QED
    BY <1>1, <2>1
<1>3. CASE Posted(c) # {}
  <2>1. PICK i : i \in Posted(c)
    BY <1>3
  <2>2. i \in 1 .. Len(workQueue) /\ workQueue[i].conn = c
    BY <2>1, OnceTypes DEF Posted
  <2>3. Posted(c) = {i}
    BY <2>1, <2>2, OnceTypes DEF OnceInv, QueuedOnce, Posted
  <2>4. calls[c] = <<>>
    BY <2>2 DEF OnceInv, QueuedIsUncalled
  <2>5. Cardinality(Posted(c)) = 1
    BY <2>3, FS_Singleton
  <2>6. Len(calls[c]) = 0
    BY <2>4
  <2> QED
    BY <2>5, <2>6
<1> QED
  BY <1>2, <1>3

\* However completions, failures, shutdowns and destructors follow on each other,
\* no request's callback is called twice.
THEOREM CalledOnce == Spec => []CalledAtMostOnce
<1>1. Init => OnceInv
  BY DEF Init, Pool!Init, OnceInv, CalledIsFinished, QueuedIsUncalled, QueuedOnce
<1> QED
  BY <1>1, NextKeepsOnce, OnceCounts, TypeInvHolds, PTL DEF Spec
-----------------------------------------------------------------------------
(* Shutdown leaves no thread behind *)

\* Of the thread that shuts down: once it has joined the asio thread, and has not
\* begun another shutdown, the asio thread is gone; when it is idle again the
\* pool has been joined too.
JoinInv ==
  closing # "no" =>
    /\ pc["closer"] \in {"idle", "pool"} => pc["io"] = "exited"
    /\ pc["closer"] = "idle" => joined

\* A joined pool stays joined, and its workers stay gone.
LEMMA PoolStaysJoined ==
  ASSUME TypeInv, [Next]_vars
  PROVE  joined => joined'
<1>1. [PoolProofs!Next]_poolVars
  BY StepsUsePool
<1> QED
  BY <1>1 DEF PoolProofs!Next, PoolProofs!Take, PoolProofs!Finish, PoolProofs!WakeUp,
              PoolProofs!Post, PoolProofs!StopWorkers, PoolProofs!JoinWorkers, poolVars

\* Every step keeps JoinInv.
LEMMA JoinInductive == TypeInv /\ JoinInv /\ [Next]_vars => JoinInv'
<1> SUFFICES ASSUME TypeInv, JoinInv, [Next]_vars PROVE JoinInv'
  OBVIOUS
<1>0. pc \in [Threads -> {"idle", "in", "failing", "invoke", "finish", "cleanup", "join",
                          "pool", "destroy", "exited"}]
      /\ "io" \in Threads /\ "closer" \in Threads
  BY DEF TypeInv, TypeOK, Threads
<1>j. joined => joined'
  BY PoolStaysJoined
<1>1. ASSUME UNCHANGED <<pc, closing>> PROVE JoinInv'
  BY <1>j, <1>1 DEF JoinInv
<1>2. ASSUME NEW label \in {"idle", "in", "invoke", "finish", "exited"}, pc["io"] # "exited",
             Goto("io", label), closing' = closing
      PROVE  JoinInv'
  BY <1>0, <1>j, <1>2 DEF JoinInv, Goto
<1>3. ASSUME NEW label \in {"failing", "invoke", "finish", "cleanup", "join", "destroy", "exited"},
             Goto("closer", label)
      PROVE  JoinInv'
  BY <1>0, <1>3 DEF JoinInv, Goto
<1>4. CASE \E c \in Conns : Request(c)
  BY <1>1, <1>4 DEF Request, ctlVars
<1>5. CASE \E w \in Workers : WorkerTurn(w) \/ CallbackReturns(w) \/ SpuriousWakeUp(w)
  BY <1>1, <1>5 DEF WorkerTurn, CallbackReturns, SpuriousWakeUp, ctlVars
<1>6. CASE \/ \E c \in Conns, how \in {"complete", "error"} : HandleDone(c, how)
           \/ \E c \in Conns : FailOne(c)
           \/ \E t \in Threads : FinishOne(t)
           \/ UNCHANGED vars
  BY <1>1, <1>6 DEF HandleDone, FailOne, FinishOne, vars, ctlVars
<1>7. CASE SocketAction \/ ActionDone \/ IoExit
  BY <1>2, <1>7 DEF SocketAction, ActionDone, IoExit, At
<1>8. CASE TakeDone("io") \/ Finished("io")
  BY <1>2, <1>8 DEF TakeDone, Finished, At
<1>9. CASE TakeDone("closer") \/ Finished("closer")
  BY <1>3, <1>9 DEF TakeDone, Finished
<1>10. CASE BeginShutdown \/ FailedAll \/ Cleanup
  BY <1>3, <1>10 DEF BeginShutdown, FailedAll, Cleanup
<1>11. CASE Destroy
  BY <1>3, <1>11 DEF Destroy
<1>12. CASE IoJoined
  BY <1>0, <1>12 DEF IoJoined, JoinInv, At, Goto
<1>13. CASE PoolJoined
  BY <1>0, <1>13 DEF PoolJoined, Pool!JoinWorkers, JoinInv, At, Goto
<1> QED
  BY <1>4, <1>5, <1>6, <1>7, <1>8, <1>9, <1>10, <1>11, <1>12, <1>13 DEF Next, Io, Closer, Threads

\* When shutdown() has returned, no thread of the service is left: no callback
\* runs or starts, and curl is not entered again, also while the destructor shuts
\* the service down a second time and a third.
THEOREM QuietSafe == Spec => []QuietAfterShutdown
<1>1. Init => JoinInv
  BY DEF Init, JoinInv
<1>2. Spec => []JoinInv
  BY <1>1, JoinInductive, TypeInvHolds, PTL DEF Spec
<1>3. Spec => []PoolProofs!JoinedIsQuiet
  BY UsesPool, PoolProofs!JoinedSafe, PTL
<1>4. JoinInv /\ PoolProofs!JoinedIsQuiet => QuietAfterShutdown
  BY DEF JoinInv, PoolProofs!JoinedIsQuiet, QuietAfterShutdown, At
<1> QED
  BY <1>2, <1>3, <1>4, PTL
-----------------------------------------------------------------------------
(* Links and lists *)

\* A list that ends, visits nobody twice and holds only connections that were queued.
OnList == {"PENDING", "FINISHED"}
Chain(s, c) ==
  /\ IsListOf(s, c)
  /\ \A i, j \in 1 .. Len(s) : s[i] = s[j] => i = j
  /\ \A i \in 1 .. Len(s) : state[s[i]] \in OnList

\* Every queued connection starts such a list: Queue puts a connection that is
\* in nobody's list in front of one, FinishOne cuts lists off.
LinksAreQueued ==
  \A c \in Conns : next[c] # Nil => state[next[c]] \in OnList
ListsEnd == \A c \in Conns : state[c] \in OnList => \E s \in Seq(Conns) : Chain(s, c)
LinkInv == LinksAreQueued /\ ListsEnd

\* What links and states are.
LEMMA LinkTypes ==
  ASSUME TypeInv
  PROVE  /\ state \in [Conns -> {"NONE", "IN_PROGRESS", "PENDING", "FINISHED"}]
         /\ next \in [Conns -> Conns \cup {Nil}]
         /\ doneHead \in Conns \cup {Nil} /\ Nil \notin Conns
         /\ doneHead # Nil => state[doneHead] \in OnList
BY ConstantsAssumption DEF TypeInv, TypeOK, KnownInv, OnList

\* A chain is short enough to be one of Lists.
LEMMA ChainIsList ==
  ASSUME NEW s \in Seq(Conns), NEW c, Chain(s, c)
  PROVE  s \in Lists
<1>1. IsFiniteSet(Conns) /\ Len(s) \in Nat /\ s \in [1 .. Len(s) -> Conns]
  BY ConstantsAssumption
<1>2. s \in Injection(1 .. Len(s), Conns)
  BY <1>1 DEF Chain, Injection, IsInjective
<1>3. Cardinality(1 .. Len(s)) <= Cardinality(Conns)
  BY <1>1, <1>2, FS_Injection
<1>4. Cardinality(1 .. Len(s)) = Len(s) /\ Cardinality(Conns) \in Nat
  <2>1. Cardinality(1 .. Len(s)) = IF 1 > Len(s) THEN 0 ELSE Len(s) - 1 + 1
    BY <1>1, FS_Interval, SMTT(60)
  <2> QED
    BY <1>1, <2>1, FS_CardinalityType
<1>5. Len(s) \in 0 .. Cardinality(Conns)
  BY <1>1, <1>3, <1>4
<1> QED
  BY <1>1, <1>5 DEF Lists

\* So the list of a queued connection is there, begins with it, and holds queued
\* connections only.
LEMMA ListIs ==
  ASSUME TypeInv, LinkInv, NEW c \in Conns \cup {Nil}, c # Nil => state[c] \in OnList
  PROVE  /\ List(c) \in Seq(Conns) /\ IsListOf(List(c), c)
         /\ c # Nil => c \in Elements(List(c))
         /\ \A d \in Elements(List(c)) : d \in Conns /\ state[d] \in OnList
<1>0. <<>> \in Lists
  <2>1. Cardinality(Conns) \in Nat
    BY ConstantsAssumption, FS_CardinalityType
  <2>2. 0 \in 0 .. Cardinality(Conns) /\ <<>> \in [1 .. 0 -> Conns]
    BY <2>1
  <2> QED
    BY <2>2 DEF Lists
<1>1. \E s \in Lists : IsListOf(s, c)
  <2>1. CASE c = Nil
    BY <1>0, <2>1 DEF IsListOf
  <2>2. CASE c # Nil
    BY <2>2, ChainIsList DEF LinkInv, ListsEnd, Chain
  <2> QED
    BY <2>1, <2>2
<1>2. List(c) \in Lists /\ IsListOf(List(c), c)
  <2> DEFINE paths == {s \in Lists : IsListOf(s, c)}
  <2>1. paths # {}
    BY <1>1
  <2>2. List(c) = CHOOSE s \in paths : TRUE
    BY <2>1 DEF List
  <2>3. List(c) \in paths
    BY <2>1, <2>2
  <2> QED
    BY <2>3
<1>3. List(c) \in Seq(Conns)
  BY ListType
<1>4. PICK s \in Seq(Conns) : s = List(c)
  BY <1>3
<1>5. c # Nil => s # <<>> /\ s[1] = c
  BY <1>2, <1>4 DEF IsListOf
<1>6. \A i \in 1 .. Len(s) : s[i] \in Conns /\ state[s[i]] \in OnList
  <2> SUFFICES ASSUME NEW i \in 1 .. Len(s) PROVE s[i] \in Conns /\ state[s[i]] \in OnList
    OBVIOUS
  <2>0. s[i] \in Conns /\ s # <<>> /\ i \in Nat
    OBVIOUS
  <2>1. CASE i = 1
    BY <1>2, <1>4, <2>0, <2>1, LinkTypes DEF IsListOf
  <2>2. CASE i # 1
    <3>1. i - 1 \in 1 .. Len(s) /\ i - 1 # Len(s) /\ (i - 1) + 1 = i
      BY <2>0, <2>2
    <3>2. next[s[i - 1]] = s[i] /\ s[i - 1] \in Conns
      BY <1>2, <1>4, <2>0, <3>1 DEF IsListOf
    <3> QED
      BY <2>0, <3>2, LinkTypes DEF LinkInv, LinksAreQueued
  <2> QED
    BY <2>1, <2>2
<1> QED
  BY <1>2, <1>3, <1>4, <1>5, <1>6 DEF Elements

\* Nothing that is left alone is linked otherwise.
LEMMA SameLinks ==
  ASSUME TypeInv, LinkInv, UNCHANGED next,
         \A c \in Conns : (state[c] \in OnList) <=> (state'[c] \in OnList)
  PROVE  LinkInv'
<1>1. LinksAreQueued'
  BY LinkTypes DEF LinkInv, LinksAreQueued
<1>2. ListsEnd'
  <2> SUFFICES ASSUME NEW c \in Conns, state'[c] \in OnList
               PROVE  \E s \in Seq(Conns) : Chain(s, c)'
    BY DEF ListsEnd
  <2>1. PICK s \in Seq(Conns) : Chain(s, c)
    BY DEF LinkInv, ListsEnd
  <2>2. \A i \in 1 .. Len(s) : state'[s[i]] \in OnList
    BY <2>1 DEF Chain
  <2>3. Chain(s, c)'
    BY <2>1, <2>2 DEF Chain, IsListOf
  <2> QED
    BY <2>3
<1> QED
  BY <1>1, <1>2 DEF LinkInv

\* Queueing puts a connection that is in no list in front of the list.
LEMMA QueueLinks ==
  ASSUME TypeInv, LinkInv, NEW c \in Conns, NEW how, state[c] # "NONE", Queue(c, how)
  PROVE  LinkInv'
<1>1. CASE state[c] # "IN_PROGRESS"
  BY <1>1, SameLinks DEF Queue
<1>2. CASE state[c] = "IN_PROGRESS"
  <2>1. \A d \in Conns : state'[d] = IF d = c THEN "PENDING" ELSE state[d]
    BY <1>2, LinkTypes DEF Queue
  <2>2. \A d \in Conns : next'[d] = IF d = c THEN doneHead ELSE next[d]
    BY <1>2, LinkTypes DEF Queue
  <2>3. state[c] \notin OnList
    BY <1>2 DEF OnList
  <2>4. LinksAreQueued'
    BY <2>1, <2>2, LinkTypes DEF LinkInv, LinksAreQueued, OnList
  <2>5. ASSUME NEW d \in Conns, NEW s \in Seq(Conns), Chain(s, d)
        PROVE  Chain(s, d)'
    <3>1. \A i \in 1 .. Len(s) : s[i] \in Conns /\ s[i] # c
      BY <2>3, <2>5 DEF Chain
    <3>2. \A i \in 1 .. Len(s) : next'[s[i]] = next[s[i]] /\ state'[s[i]] = state[s[i]]
      BY <2>1, <2>2, <3>1
    <3> QED
      BY <2>5, <3>2 DEF Chain, IsListOf
  <2>6. \E s \in Seq(Conns) : Chain(s, c)'
    <3>1. CASE doneHead = Nil
      <4>1. <<c>> \in Seq(Conns) /\ Len(<<c>>) = 1 /\ <<c>>[1] = c
        OBVIOUS
      <4>2. next'[c] = Nil /\ state'[c] \in OnList
        BY <2>1, <2>2, <3>1 DEF OnList
      <4>3. Chain(<<c>>, c)'
        BY <4>1, <4>2 DEF Chain, IsListOf
      <4> QED
        BY <4>1, <4>3
    <3>2. CASE doneHead # Nil
      <4>1. PICK s \in Seq(Conns) : Chain(s, doneHead)
        BY <3>2, LinkTypes DEF LinkInv, ListsEnd
      <4>2. /\ s # <<>> /\ s[1] = doneHead
            /\ \A i \in 1 .. Len(s) : next[s[i]] = IF i = Len(s) THEN Nil ELSE s[i + 1]
        BY <3>2, <4>1 DEF Chain, IsListOf
      <4>3. \A i \in 1 .. Len(s) :
              s[i] \in Conns /\ s[i] # c /\ next'[s[i]] = next[s[i]] /\ state'[s[i]] \in OnList
        BY <2>1, <2>2, <2>3, <4>1 DEF Chain
      <4>4. PICK u \in Seq(Conns) :
              /\ Len(u) = Len(s) + 1
              /\ \A i \in 1 .. Len(u) : u[i] = IF i = 1 THEN c ELSE s[i - 1]
        <5>1. PICK u : u = [i \in 1 .. Len(s) + 1 |-> IF i = 1 THEN c ELSE s[i - 1]]
          OBVIOUS
        <5>2. \A i \in 1 .. Len(s) + 1 : i = 1 \/ s[i - 1] \in Conns
          OBVIOUS
        <5>3. u \in Seq(Conns) /\ Len(u) = Len(s) + 1
          BY <5>1, <5>2
        <5> QED
          BY <5>1, <5>3
      <4>5. /\ Len(u) = Len(s) + 1 /\ u[1] = c /\ Len(s) \in Nat \ {0}
            /\ \A i \in 1 .. Len(s) : u[i + 1] = s[i]
            /\ \A i \in 1 .. Len(u) : i = 1 \/ (i - 1 \in 1 .. Len(s) /\ u[i] = s[i - 1])
        BY <4>2, <4>4
      <4>6. \A i \in 1 .. Len(u) : next'[u[i]] = IF i = Len(u) THEN Nil ELSE u[i + 1]
        <5> SUFFICES ASSUME NEW i \in 1 .. Len(u)
                     PROVE  next'[u[i]] = IF i = Len(u) THEN Nil ELSE u[i + 1]
          OBVIOUS
        <5>1. CASE i = 1
          BY <2>2, <4>2, <4>5, <5>1
        <5>2. CASE i # 1
          <6>1. i - 1 \in 1 .. Len(s) /\ u[i] = s[i - 1] /\ i \in Nat
            BY <4>5, <5>2
          <6>2. next'[u[i]] = IF i - 1 = Len(s) THEN Nil ELSE s[(i - 1) + 1]
            BY <4>2, <4>3, <6>1
          <6>3. i - 1 # Len(s) => i \in 1 .. Len(s) /\ (i - 1) + 1 = i /\ u[i + 1] = s[i]
            BY <4>5, <6>1
          <6> QED
            BY <4>5, <6>1, <6>2, <6>3
        <5> QED
          BY <5>1, <5>2
      <4>7. \A i, j \in 1 .. Len(u) : u[i] = u[j] => i = j
        <5> SUFFICES ASSUME NEW i \in 1 .. Len(u), NEW j \in 1 .. Len(u), u[i] = u[j]
                     PROVE  i = j
          OBVIOUS
        <5>1. i = 1 \/ (i - 1 \in 1 .. Len(s) /\ u[i] = s[i - 1] /\ s[i - 1] # c)
          BY <4>3, <4>5
        <5>2. j = 1 \/ (j - 1 \in 1 .. Len(s) /\ u[j] = s[j - 1] /\ s[j - 1] # c)
          BY <4>3, <4>5
        <5>3. CASE i = 1 \/ j = 1
          BY <4>5, <5>1, <5>2, <5>3
        <5>4. CASE i # 1 /\ j # 1
          <6>1. i - 1 = j - 1
            BY <4>1, <5>1, <5>2, <5>4 DEF Chain
          <6> QED
            BY <6>1
        <5> QED
          BY <5>3, <5>4
      <4>8. \A i \in 1 .. Len(u) : state'[u[i]] \in OnList
        BY <2>1, <4>3, <4>5 DEF OnList
      <4>9. Chain(u, c)'
        BY <4>5, <4>6, <4>7, <4>8 DEF Chain, IsListOf
      <4> QED
        BY <4>9
    <3> QED
      BY <3>1, <3>2
  <2>7. ListsEnd'
    <3> SUFFICES ASSUME NEW d \in Conns, state'[d] \in OnList
                 PROVE  \E s \in Seq(Conns) : Chain(s, d)'
      BY DEF ListsEnd
    <3>1. CASE d # c
      BY <2>1, <2>5, <3>1 DEF LinkInv, ListsEnd
    <3> QED
      BY <2>6, <3>1
  <2> QED
    BY <2>4, <2>7 DEF LinkInv
<1> QED
  BY <1>1, <1>2

\* Finishing a connection cuts the lists that lead through it behind it.
LEMMA CutLinks ==
  ASSUME TypeInv, LinkInv, NEW c \in Conns, next' = [next EXCEPT ![c] = Nil],
         \A d \in Conns : (state[d] \in OnList) <=> (state'[d] \in OnList)
  PROVE  LinkInv'
<1>1. \A d \in Conns : next'[d] = IF d = c THEN Nil ELSE next[d]
  BY LinkTypes
<1>2. LinksAreQueued'
  BY <1>1, LinkTypes DEF LinkInv, LinksAreQueued
<1>3. ListsEnd'
  <2> SUFFICES ASSUME NEW d \in Conns, state'[d] \in OnList
               PROVE  \E s \in Seq(Conns) : Chain(s, d)'
    BY DEF ListsEnd
  <2>1. PICK s \in Seq(Conns) : Chain(s, d)
    BY DEF LinkInv, ListsEnd
  <2>2. /\ s # <<>> /\ s[1] = d /\ Len(s) \in Nat \ {0}
        /\ \A i \in 1 .. Len(s) : next[s[i]] = IF i = Len(s) THEN Nil ELSE s[i + 1]
        /\ \A i, j \in 1 .. Len(s) : s[i] = s[j] => i = j
        /\ \A i \in 1 .. Len(s) : s[i] \in Conns /\ state'[s[i]] \in OnList
    BY <2>1, LinkTypes DEF Chain, IsListOf
  <2>3. CASE \A i \in 1 .. Len(s) : s[i] # c
    <3>1. \A i \in 1 .. Len(s) : next'[s[i]] = next[s[i]]
      BY <1>1, <2>2, <2>3
    <3> QED
      BY <2>2, <3>1, ZenonT(60) DEF Chain, IsListOf
  <2>4. ASSUME NEW k \in 1 .. Len(s), s[k] = c
        PROVE  \E u \in Seq(Conns) : Chain(u, d)'
    <3>0. k \in Nat \ {0} /\ 1 \in 1 .. k /\ \A i \in 1 .. k : i \in 1 .. Len(s)
      BY <2>2
    <3>1. PICK u \in Seq(Conns) : Len(u) = k /\ \A i \in 1 .. k : u[i] = s[i]
      <4>1. \A i \in 1 .. k : s[i] \in Conns
        BY <2>2, <3>0
      <4>2. PICK u : u = [i \in 1 .. k |-> s[i]]
        OBVIOUS
      <4>3. u \in Seq(Conns) /\ Len(u) = k
        BY <3>0, <4>1, <4>2
      <4>4. \A i \in 1 .. k : u[i] = s[i]
        BY <4>2
      <4> QED
        BY <4>3, <4>4
    <3>2. u # <<>> /\ u[1] = s[1]
      BY <3>0, <3>1
    <3>3. \A i \in 1 .. k : next'[u[i]] = IF i = k THEN Nil ELSE u[i + 1]
      <4> SUFFICES ASSUME NEW i \in 1 .. k PROVE next'[u[i]] = IF i = k THEN Nil ELSE u[i + 1]
        OBVIOUS
      <4>1. CASE i = k
        BY <1>1, <2>4, <3>1, <4>1
      <4>2. CASE i # k
        <5>1. s[i] # c /\ i + 1 \in 1 .. k /\ i # Len(s) /\ i \in 1 .. Len(s)
          BY <2>2, <2>4, <3>0, <4>2
        <5> QED
          BY <1>1, <2>2, <3>1, <4>2, <5>1
      <4> QED
        BY <4>1, <4>2
    <3>4. u[1] = d /\ \A i \in 1 .. k : state'[u[i]] \in OnList
      BY <2>2, <3>0, <3>1, <3>2
    <3>5. \A i, j \in 1 .. k : u[i] = u[j] => i = j
      BY <2>2, <3>0, <3>1
    <3>6. Chain(u, d)'
      BY <3>1, <3>2, <3>3, <3>4, <3>5 DEF Chain, IsListOf
    <3> QED
      BY <3>6
  <2> QED
    BY <2>1, <2>3, <2>4
<1> QED
  BY <1>2, <1>3 DEF LinkInv

\* No step of the service breaks a link or closes a ring.
LEMMA LinksInductive == TypeInv /\ LinkInv /\ [Next]_vars => LinkInv'
<1> SUFFICES ASSUME TypeInv, LinkInv, [Next]_vars PROVE LinkInv'
  OBVIOUS
<1> USE DEF poolVars, ctlVars, connVars
<1>1. ASSUME NEW c \in Conns, Request(c) PROVE LinkInv'
  BY <1>1, LinkTypes, SameLinks DEF Request, OnList
<1>2. CASE \/ SocketAction \/ ActionDone \/ FailedAll \/ IoExit \/ Cleanup \/ BeginShutdown
           \/ Destroy \/ PoolJoined \/ IoJoined \/ UNCHANGED vars
  BY <1>2, SameLinks
     DEF SocketAction, ActionDone, FailedAll, IoExit, Cleanup, BeginShutdown, Destroy,
         PoolJoined, IoJoined, vars
<1>3. ASSUME NEW c \in Conns, NEW how, HandleDone(c, how) \/ FailOne(c) PROVE LinkInv'
  <2>1. state[c] # "NONE"
    BY <1>3 DEF HandleDone, FailOne, TypeInv, KnownInv
  <2> QED
    BY <1>3, <2>1, QueueLinks DEF HandleDone, FailOne
<1>4. ASSUME NEW t \in Threads, TakeDone(t) \/ Finished(t) PROVE LinkInv'
  BY <1>4, SameLinks DEF TakeDone, Finished
<1>5. ASSUME NEW t \in Threads, FinishOne(t) PROVE LinkInv'
  <2> DEFINE c == Head(toFinish[t])
  <2>1. c \in Conns
    BY <1>5, TailType DEF FinishOne, TypeInv, TypeOK
  <2>2. next' = [next EXCEPT ![c] = Nil]
    BY <1>5 DEF FinishOne
  <2>3. state' = state \/ (state[c] = "PENDING" /\ state' = [state EXCEPT ![c] = "FINISHED"])
    BY <1>5 DEF FinishOne
  <2>4. \A d \in Conns : (state[d] \in OnList) <=> (state'[d] \in OnList)
    BY <2>1, <2>3, LinkTypes DEF OnList
  <2> QED
    BY <2>1, <2>2, <2>4, CutLinks
<1>6. ASSUME NEW w \in Workers, WorkerTurn(w) \/ CallbackReturns(w) \/ SpuriousWakeUp(w)
      PROVE  LinkInv'
  BY <1>6, SameLinks DEF WorkerTurn, CallbackReturns, SpuriousWakeUp
<1> QED
  BY <1>1, <1>2, <1>3, <1>4, <1>5, <1>6 DEF Next, Io, Closer, Threads

\* What links connections is sound throughout.
LEMMA LinksHold == Spec => []LinkInv
<1>1. Init => LinkInv
  BY ConstantsAssumption DEF Init, LinkInv, LinksAreQueued, ListsEnd, OnList
<1> QED
  BY <1>1, LinksInductive, TypeInvHolds, PTL DEF Spec

\* A reversed list has the same elements.
LEMMA ReversedElements ==
  ASSUME NEW s \in Seq(Conns)
  PROVE  Elements(Reversed(s)) = Elements(s) /\ Reversed(s) \in Seq(Conns)
<1>1. DOMAIN s = 1 .. Len(s) /\ Len(s) \in Nat /\ \A i \in 1 .. Len(s) : s[i] \in Conns
  OBVIOUS
<1>2. \A i \in 1 .. Len(s) : Len(s) + 1 - i \in 1 .. Len(s)
  BY <1>1
<1>3. Reversed(s) = [i \in 1 .. Len(s) |-> s[Len(s) + 1 - i]]
  BY <1>1 DEF Reversed
<1>4. Reversed(s) \in Seq(Conns)
  BY <1>1, <1>2, <1>3
<1>5. \A i \in 1 .. Len(s) : Len(s) + 1 - (Len(s) + 1 - i) = i
  BY <1>1
<1>6. DOMAIN Reversed(s) = 1 .. Len(s)
  BY <1>3
<1>7. \A i \in 1 .. Len(s) : Reversed(s)[i] = s[Len(s) + 1 - i]
  BY <1>3
<1>8. \A i \in 1 .. Len(s) : Reversed(s)[Len(s) + 1 - i] = s[i]
  BY <1>2, <1>5, <1>7
<1>9. Elements(Reversed(s)) \subseteq Elements(s)
  BY <1>1, <1>2, <1>6, <1>7 DEF Elements
<1>10. Elements(s) \subseteq Elements(Reversed(s))
  BY <1>1, <1>2, <1>6, <1>8 DEF Elements
<1> QED
  BY <1>4, <1>9, <1>10

\* The tail has all but the head.
LEMMA TailElements ==
  ASSUME NEW s \in Seq(Conns), s # <<>>, NEW d \in Elements(s), d # Head(s)
  PROVE  d \in Elements(Tail(s))
<1>1. PICK i \in 1 .. Len(s) : s[i] = d
  BY DEF Elements
<1>2. Tail(s) \in Seq(Conns) /\ Len(Tail(s)) = Len(s) - 1 /\ Head(s) = s[1] /\ Len(s) \in Nat
  OBVIOUS
<1>3. i \in Nat /\ i # 1 /\ i - 1 \in 1 .. Len(Tail(s)) /\ (i - 1) + 1 = i
  BY <1>1, <1>2
<1>4. Tail(s)[i - 1] = s[i] /\ DOMAIN Tail(s) = 1 .. Len(Tail(s))
  BY <1>2, <1>3
<1>5. Tail(s)[i - 1] \in Elements(Tail(s))
  BY <1>3, <1>4 DEF Elements
<1> QED
  BY <1>1, <1>4, <1>5
-----------------------------------------------------------------------------
(* Who is answered, and who is still to be *)

\* A finished connection has been answered, or its callback is queued.
FinishedIsAnswered ==
  \A c \in Conns : state[c] = "FINISHED" =>
    calls[c] # <<>> \/ \E i \in 1 .. Len(workQueue) : workQueue[i].conn = c

\* An answer is not taken back.
LEMMA AnswersStay ==
  ASSUME TypeInv, FinishedIsAnswered, UNCHANGED <<calls, workQueue>>,
         \A c \in Conns : state'[c] = "FINISHED" => state[c] = "FINISHED"
  PROVE  FinishedIsAnswered'
BY DEF FinishedIsAnswered

\* Finishing a connection answers it.
LEMMA AnswerAnswers ==
  ASSUME TypeInv, FinishedIsAnswered, NEW c \in Conns, Answer(c),
         state' = [state EXCEPT ![c] = "FINISHED"]
  PROVE  FinishedIsAnswered'
<1>0. \A d \in Conns : d # c => state'[d] = state[d]
  BY OnceTypes
<1>1. CASE Pool!Post([conn |-> c, how |-> outcome[c]]) /\ UNCHANGED calls
  <2> DEFINE f == [conn |-> c, how |-> outcome[c]]
  <2>1. workQueue' = Append(workQueue, f) /\ f.conn = c /\ f \in Works
    BY <1>1, OnceTypes DEF Pool!Post
  <2> HIDE DEF f
  <2>2. /\ Len(workQueue') = Len(workQueue) + 1 /\ Len(workQueue) \in Nat
        /\ \A i \in 1 .. Len(workQueue) : workQueue'[i] = workQueue[i]
        /\ workQueue'[Len(workQueue) + 1] = f
    BY <2>1, OnceTypes
  <2>3. /\ \A i \in 1 .. Len(workQueue) : i \in 1 .. Len(workQueue')
        /\ Len(workQueue) + 1 \in 1 .. Len(workQueue')
    BY <2>2
  <2> QED
    BY <1>0, <1>1, <2>1, <2>2, <2>3 DEF FinishedIsAnswered
<1>2. CASE calls' = [calls EXCEPT ![c] = Append(@, "shutdown")] /\ UNCHANGED poolVars
  <2>1. \A d \in Conns : calls'[d] = IF d = c THEN Append(calls[c], "shutdown") ELSE calls[d]
    BY <1>2, OnceTypes
  <2>2. calls[c] \in Seq(Outcomes) /\ "shutdown" \in Outcomes
    BY OnceTypes DEF Outcomes
  <2>3. Append(calls[c], "shutdown") # <<>>
    BY <2>2
  <2> QED
    BY <1>0, <1>2, <2>1, <2>3, ZenonT(60) DEF FinishedIsAnswered, poolVars
<1> QED
  BY <1>1, <1>2 DEF Answer

\* What a worker takes off the queue it calls.
LEMMA WorkerAnswers ==
  ASSUME TypeInv, FinishedIsAnswered, NEW w \in Workers, WorkerTurn(w)
  PROVE  FinishedIsAnswered'
<1>0. /\ worker \in [Workers -> {"ready", "waiting", "working", "exited"}]
      /\ work \in [Workers -> Works \cup {NoWork}]
      /\ Pool!Take(w) /\ UNCHANGED state
  BY DEF TypeInv, TypeOK, Pool!TypeOK, WorkerTurn, connVars
<1>1. CASE workQueue = <<>> \/ ~accepting
  <2>1. UNCHANGED workQueue /\ worker'[w] # "working"
    BY <1>0, <1>1 DEF Pool!Take
  <2>2. UNCHANGED calls
    BY <2>1 DEF WorkerTurn
  <2> QED
    BY <1>0, <2>1, <2>2, AnswersStay
<1>2. CASE workQueue # <<>> /\ accepting
  <2>0. /\ workQueue' = Tail(workQueue)
        /\ worker'[w] = "working" /\ work'[w] = Head(workQueue)
    BY <1>0, <1>2 DEF Pool!Take
  <2>1. /\ Head(workQueue) = workQueue[1] /\ 1 \in 1 .. Len(workQueue)
        /\ Len(Tail(workQueue)) = Len(workQueue) - 1 /\ Len(workQueue) \in Nat
        /\ \A i \in 1 .. Len(workQueue) - 1 : Tail(workQueue)[i] = workQueue[i + 1]
    BY <1>2, OnceTypes
  <2> DEFINE c == workQueue[1].conn
             how == workQueue[1].how
  <2>2. c \in Conns /\ how \in Outcomes /\ calls \in [Conns -> Seq(Outcomes)]
    BY <2>1, OnceTypes
  <2>3. calls' = [calls EXCEPT ![c] = Append(@, how)]
    BY <2>0, <2>1 DEF WorkerTurn
  <2> HIDE DEF how
  <2>4. calls'[c] # <<>>
    <3>1. calls'[c] = Append(calls[c], how) /\ calls[c] \in Seq(Outcomes)
      BY <2>2, <2>3
    <3> QED
      BY <2>2, <3>1
  <2>5. ASSUME NEW d \in Conns, d # c, NEW i \in 1 .. Len(workQueue), workQueue[i].conn = d
        PROVE  \E j \in 1 .. Len(workQueue') : workQueue'[j].conn = d
    <3>1. i \in Nat /\ i # 1 /\ i - 1 \in 1 .. Len(workQueue) - 1 /\ (i - 1) + 1 = i
      BY <2>1, <2>5
    <3>2. workQueue'[i - 1].conn = d /\ i - 1 \in 1 .. Len(workQueue')
      BY <2>0, <2>1, <2>5, <3>1
    <3> QED
      BY <3>2
  <2>6. \A d \in Conns : d # c => calls'[d] = calls[d]
    BY <2>2, <2>3
  <2> QED
    BY <1>0, <2>4, <2>5, <2>6 DEF FinishedIsAnswered
<1> QED
  BY <1>1, <1>2

\* Every step of the service answers what it finishes.
LEMMA AnswersInductive ==
  TypeInv /\ FinishedIsAnswered /\ [Next]_vars => FinishedIsAnswered'
<1> SUFFICES ASSUME TypeInv, FinishedIsAnswered, [Next]_vars PROVE FinishedIsAnswered'
  OBVIOUS
<1>t. state \in [Conns -> {"NONE", "IN_PROGRESS", "PENDING", "FINISHED"}]
  BY DEF TypeInv, TypeOK
<1> USE DEF poolVars, ctlVars, connVars
<1>1. ASSUME NEW c \in Conns, Request(c) PROVE FinishedIsAnswered'
  BY <1>t, <1>1, AnswersStay DEF Request
<1>2. CASE \/ SocketAction \/ ActionDone \/ FailedAll \/ IoExit \/ Cleanup \/ BeginShutdown
           \/ Destroy \/ PoolJoined \/ IoJoined \/ UNCHANGED vars
  BY <1>2, AnswersStay
     DEF SocketAction, ActionDone, FailedAll, IoExit, Cleanup, BeginShutdown, Destroy,
         PoolJoined, Pool!JoinWorkers, IoJoined, Pool!StopWorkers, vars
<1>3. ASSUME NEW c \in Conns, NEW how, HandleDone(c, how) \/ FailOne(c)
      PROVE  FinishedIsAnswered'
  <2>1. UNCHANGED <<calls, workQueue>> /\ \E h : Queue(c, h)
    BY <1>3 DEF HandleDone, FailOne
  <2> QED
    BY <1>t, <2>1, AnswersStay DEF Queue
<1>4. ASSUME NEW t \in Threads, TakeDone(t) \/ Finished(t) PROVE FinishedIsAnswered'
  BY <1>4, AnswersStay DEF TakeDone, Finished
<1>5. ASSUME NEW t \in Threads, FinishOne(t) PROVE FinishedIsAnswered'
  <2> DEFINE c == Head(toFinish[t])
  <2>1. c \in Conns
    BY <1>5, TailType DEF FinishOne, TypeInv, TypeOK
  <2>2. CASE state[c] = "PENDING"
    BY <1>5, <2>1, <2>2, AnswerAnswers DEF FinishOne
  <2>3. CASE state[c] # "PENDING"
    BY <1>5, <2>3, AnswersStay DEF FinishOne
  <2> QED
    BY <2>2, <2>3
<1>6. ASSUME NEW w \in Workers, WorkerTurn(w) PROVE FinishedIsAnswered'
  BY <1>6, WorkerAnswers
<1>7. ASSUME NEW w \in Workers, CallbackReturns(w) \/ SpuriousWakeUp(w)
      PROVE  FinishedIsAnswered'
  BY <1>7, AnswersStay DEF CallbackReturns, SpuriousWakeUp, Pool!Finish, Pool!WakeUp
<1> QED
  BY <1>1, <1>2, <1>3, <1>4, <1>5, <1>6, <1>7 DEF Next, Io, Closer, Threads

\* Where the closing thread is, and what that means to the others.
CloserInv ==
  /\ \A t \in Threads : ~At(t, "finish") => toFinish[t] = <<>>
  /\ (~At("closer", "idle") \/ closing # "no") => ~running
  /\ closing = "gone" => At("io", "exited")
  /\ (At("closer", "destroy") \/ At("closer", "exited")) => closing = "gone"
  /\ At("closer", "exited") => active = {}

\* What is known of the control variables.
LEMMA ControlTypes ==
  ASSUME TypeInv
  PROVE  /\ pc \in [Threads -> {"idle", "in", "failing", "invoke", "finish", "cleanup", "join",
                                "pool", "destroy", "exited"}]
         /\ Threads = {"io", "closer"} /\ "io" \in Threads /\ "closer" \in Threads
         /\ toFinish \in [Threads -> Seq(Conns)]
         /\ running \in BOOLEAN
         /\ closing \in {"no", "shutdown", "destructor", "members", "gone"}
         /\ active \subseteq Conns /\ curl \subseteq Conns /\ toFail \subseteq Conns
BY DEF TypeInv, TypeOK, Threads

\* Shutdowns and destructors follow each other as the closing thread goes.
LEMMA CloserInductive == TypeInv /\ CloserInv /\ [Next]_vars => CloserInv'
<1> SUFFICES ASSUME TypeInv, CloserInv, [Next]_vars PROVE CloserInv'
  OBVIOUS
<1>0. /\ pc \in [Threads -> {"idle", "in", "failing", "invoke", "finish", "cleanup", "join",
                             "pool", "destroy", "exited"}]
      /\ Threads = {"io", "closer"} /\ "io" \in Threads /\ "closer" \in Threads
      /\ toFinish \in [Threads -> Seq(Conns)]
  BY ControlTypes
<1> USE DEF CloserInv, At, Goto
<1>1. ASSUME UNCHANGED <<pc, toFinish, running, closing, active>> PROVE CloserInv'
  BY <1>1
<1>2. ASSUME NEW c \in Conns, Request(c) PROVE CloserInv'
  BY <1>0, <1>2 DEF Request, ctlVars
<1>3. CASE \/ \E w \in Workers : WorkerTurn(w) \/ CallbackReturns(w) \/ SpuriousWakeUp(w)
           \/ \E c \in Conns, how \in {"complete", "error"} : HandleDone(c, how)
           \/ \E c \in Conns : FailOne(c)
           \/ UNCHANGED vars
  BY <1>1, <1>3 DEF WorkerTurn, CallbackReturns, SpuriousWakeUp, HandleDone, FailOne, vars,
                    ctlVars, connVars
<1>4. CASE SocketAction \/ ActionDone \/ IoExit
  <2>1. \E label \in {"in", "invoke", "exited"} : pc' = [pc EXCEPT !["io"] = label]
    BY <1>4 DEF SocketAction, ActionDone, IoExit
  <2>2. ~At("io", "exited") /\ ~At("io", "finish") /\ UNCHANGED <<toFinish, running, closing, active>>
    BY <1>4 DEF SocketAction, ActionDone, IoExit, connVars
  <2> QED
    BY <1>0, <2>1, <2>2
<1>5. ASSUME NEW t \in Threads, TakeDone(t) PROVE CloserInv'
  <2>1. /\ pc[t] = "invoke" /\ pc' = [pc EXCEPT ![t] = "finish"]
        /\ \A u \in Threads : u # t => toFinish'[u] = toFinish[u]
        /\ active' \subseteq active /\ UNCHANGED <<running, closing>>
    BY <1>0, <1>5 DEF TakeDone
  <2> QED
    BY <1>0, <2>1
<1>6. ASSUME NEW t \in Threads, FinishOne(t) PROVE CloserInv'
  <2>1. /\ pc[t] = "finish" /\ UNCHANGED <<pc, running, closing, active>>
        /\ \A u \in Threads : u # t => toFinish'[u] = toFinish[u]
    BY <1>0, <1>6 DEF FinishOne
  <2> QED
    BY <1>0, <2>1
<1>7. ASSUME NEW t \in Threads, Finished(t) PROVE CloserInv'
  <2>1. /\ pc[t] = "finish" /\ toFinish[t] = <<>>
        /\ UNCHANGED <<toFinish, running, closing, active>>
        /\ pc' = [pc EXCEPT ![t] = CASE t = "io" -> "idle"
                                     [] t = "closer" /\ closing = "gone" -> "destroy"
                                     [] OTHER -> "cleanup"]
    BY <1>7 DEF Finished, connVars
  <2>2. CASE t = "io"
    <3>1. pc' = [pc EXCEPT !["io"] = "idle"]
      BY <2>1, <2>2
    <3> QED
      BY <1>0, <2>1, <2>2, <3>1
  <2>3. CASE t = "closer" /\ closing = "gone"
    <3>1. pc' = [pc EXCEPT !["closer"] = "destroy"]
      BY <2>1, <2>3
    <3> QED
      BY <1>0, <2>1, <2>3, <3>1
  <2>4. CASE t = "closer" /\ closing # "gone"
    <3>1. pc' = [pc EXCEPT !["closer"] = "cleanup"]
      BY <2>1, <2>4
    <3> QED
      BY <1>0, <2>1, <2>4, <3>1
  <2> QED
    BY <1>0, <2>2, <2>3, <2>4
<1>8. CASE BeginShutdown
  BY <1>0, <1>8 DEF BeginShutdown, connVars
<1>9. CASE FailedAll \/ Cleanup \/ PoolJoined
  <2>1. /\ \E label \in {"invoke", "join", "idle"} :
             /\ pc' = [pc EXCEPT !["closer"] = label]
             /\ label = "idle" => pc["closer"] = "pool"
        /\ pc["closer"] \in {"failing", "cleanup", "pool"}
        /\ UNCHANGED <<toFinish, running, closing, active>>
    BY <1>9 DEF FailedAll, Cleanup, PoolJoined, connVars
  <2> QED
    BY <1>0, <2>1
<1>10. CASE IoJoined
  BY <1>0, <1>10 DEF IoJoined, connVars
<1>11. CASE Destroy
  <2>1. CASE active = {}
    BY <1>0, <1>11, <2>1 DEF Destroy
  <2>2. CASE active # {}
    <3>1. /\ pc["closer"] = "destroy" /\ pc' = [pc EXCEPT !["closer"] = "finish"]
          /\ toFinish'["io"] = toFinish["io"]
          /\ UNCHANGED <<running, closing>>
      BY <1>0, <1>11, <2>2 DEF Destroy
    <3> QED
      BY <1>0, <3>1
  <2> QED
    BY <2>1, <2>2
<1> QED
  BY <1>2, <1>3, <1>4, <1>5, <1>6, <1>7, <1>8, <1>9, <1>10, <1>11
     DEF Next, Io, Closer, Threads

\* So it is throughout.
LEMMA CloserHolds == Spec => []CloserInv
<1>1. Init => CloserInv
  BY DEF Init, CloserInv, At, Threads
<1> QED
  BY <1>1, CloserInductive, TypeInvHolds, PTL DEF Spec

\* A connection that has not been answered is among the active ones, unless a
\* thread is finishing it; once the service does not run any more, those that curl
\* has not reported are going to be failed before anything else happens.
OpenIsActive ==
  \A c \in Conns :
    /\ state[c] = "IN_PROGRESS" =>
         c \in active /\ (running \/ (At("closer", "failing") /\ c \in toFail))
    /\ state[c] = "PENDING" => c \in active \/ \E t \in Threads : c \in Elements(toFinish[t])

\* It depends on these only.
LEMMA OpenStays ==
  ASSUME OpenIsActive, UNCHANGED <<state, active, toFinish, running, toFail>>,
         At("closer", "failing") => At("closer", "failing")'
  PROVE  OpenIsActive'
BY DEF OpenIsActive

\* Queueing a connection changes no other; it becomes pending, and stays active.
LEMMA QueueStates ==
  ASSUME TypeInv, NEW c \in Conns, NEW how, Queue(c, how)
  PROVE  /\ \A d \in Conns : d # c => state'[d] = state[d]
         /\ state'[c] = IF state[c] = "IN_PROGRESS" THEN "PENDING" ELSE state[c]
BY LinkTypes DEF Queue

\* What is finished behind the back of the others.
LEMMA ListTaken ==
  ASSUME TypeInv, LinkInv, NEW t \in Threads, NEW c \in Conns \cup {Nil},
         c # Nil => state[c] \in OnList,
         toFinish' = [toFinish EXCEPT ![t] = Reversed(List(c))]
  PROVE  /\ \A u \in Threads : u # t => toFinish'[u] = toFinish[u]
         /\ Elements(toFinish'[t]) = Elements(List(c))
         /\ \A d \in Elements(List(c)) : d \in Conns /\ state[d] \in OnList
         /\ c # Nil => c \in Elements(List(c))
<1>1. List(c) \in Seq(Conns)
  BY ListIs
<1>2. toFinish'[t] = Reversed(List(c))
  BY ControlTypes
<1>3. \A u \in Threads : u # t => toFinish'[u] = toFinish[u]
  BY ControlTypes
<1> QED
  BY <1>1, <1>2, <1>3, ReversedElements, ListIs

\* No step of the service forgets a connection that has not been answered.
LEMMA OpenInductive ==
  TypeInv /\ LinkInv /\ CloserInv /\ OpenIsActive /\ [Next]_vars => OpenIsActive'
<1> SUFFICES ASSUME TypeInv, LinkInv, CloserInv, OpenIsActive, [Next]_vars PROVE OpenIsActive'
  OBVIOUS
<1>0. /\ pc \in [Threads -> {"idle", "in", "failing", "invoke", "finish", "cleanup", "join",
                             "pool", "destroy", "exited"}]
      /\ Threads = {"io", "closer"} /\ "io" \in Threads /\ "closer" \in Threads
      /\ toFinish \in [Threads -> Seq(Conns)]
      /\ active \subseteq Conns
  BY ControlTypes
<1>t. /\ state \in [Conns -> {"NONE", "IN_PROGRESS", "PENDING", "FINISHED"}]
      /\ doneHead \in Conns \cup {Nil} /\ Nil \notin Conns
      /\ doneHead # Nil => state[doneHead] \in OnList
  BY LinkTypes
<1>1. ASSUME NEW c \in Conns, Request(c) PROVE OpenIsActive'
  <2>1. /\ state' = [state EXCEPT ![c] = "IN_PROGRESS"] /\ active' = active \cup {c}
        /\ running /\ UNCHANGED <<running, pc, toFail, toFinish>>
    BY <1>1 DEF Request, ctlVars
  <2> QED
    BY <1>t, <2>1 DEF OpenIsActive, At
<1>2. CASE \/ \E w \in Workers : WorkerTurn(w) \/ CallbackReturns(w) \/ SpuriousWakeUp(w)
           \/ PoolJoined \/ IoJoined \/ UNCHANGED vars
  <2>1. UNCHANGED <<state, active, toFinish, running, toFail>>
    BY <1>2 DEF WorkerTurn, CallbackReturns, SpuriousWakeUp, PoolJoined, IoJoined, vars,
                ctlVars, connVars
  <2>2. At("closer", "failing") => At("closer", "failing")'
    BY <1>2 DEF WorkerTurn, CallbackReturns, SpuriousWakeUp, PoolJoined, IoJoined, vars,
                ctlVars, At
  <2> QED
    BY <2>1, <2>2, OpenStays
<1>3. CASE SocketAction \/ ActionDone \/ IoExit \/ Finished("io") \/ Cleanup \/ Finished("closer")
  <2>1. UNCHANGED <<state, active, toFinish, running, toFail>>
    BY <1>3 DEF SocketAction, ActionDone, IoExit, Finished, Cleanup, connVars
  <2>2. At("closer", "failing") => At("closer", "failing")'
    BY <1>0, <1>3 DEF SocketAction, ActionDone, IoExit, Finished, Cleanup, At, Goto
  <2> QED
    BY <2>1, <2>2, OpenStays
<1>4. CASE \E c \in Conns, how \in {"complete", "error"} : HandleDone(c, how)
  <2>1. PICK c \in Conns, how \in {"complete", "error"} : HandleDone(c, how)
    BY <1>4
  <2>2. UNCHANGED <<active, running, pc, toFail, toFinish>> /\ Queue(c, how)
    BY <2>1 DEF HandleDone, ctlVars
  <2> QED
    BY <2>2, QueueStates DEF OpenIsActive, At
<1>5. ASSUME NEW c \in Conns, FailOne(c) PROVE OpenIsActive'
  <2>1. /\ UNCHANGED <<active, running, pc, toFinish>> /\ Queue(c, "shutdown")
        /\ toFail' = toFail \ {c}
    BY <1>5 DEF FailOne
  <2> QED
    BY <2>1, QueueStates DEF OpenIsActive, At
<1>6. CASE FailedAll
  <2>1. /\ UNCHANGED <<state, active, toFinish, running>> /\ toFail = {}
    BY <1>6 DEF FailedAll, connVars
  <2> QED
    BY <2>1 DEF OpenIsActive
<1>7. ASSUME NEW t \in Threads, TakeDone(t) PROVE OpenIsActive'
  <2>1. /\ toFinish' = [toFinish EXCEPT ![t] = Reversed(List(doneHead))]
        /\ active' = active \ Elements(List(doneHead))
        /\ ~At("closer", "failing") /\ ~At(t, "finish")
        /\ UNCHANGED <<state, running, toFail>>
    BY <1>7 DEF TakeDone, MutexFree, At
  <2>2. toFinish[t] = <<>>
    BY <2>1 DEF CloserInv
  <2>3. /\ \A u \in Threads : u # t => toFinish'[u] = toFinish[u]
        /\ Elements(toFinish'[t]) = Elements(List(doneHead))
        /\ \A d \in Elements(List(doneHead)) : d \in Conns /\ state[d] \in OnList
    BY <1>t, <2>1, ListTaken
  <2>4. Elements(toFinish[t]) = {}
    BY <2>2 DEF Elements
  <2> QED
    BY <2>1, <2>3, <2>4 DEF OpenIsActive, OnList
<1>8. ASSUME NEW t \in Threads, FinishOne(t) PROVE OpenIsActive'
  <2> DEFINE c == Head(toFinish[t])
  <2>1. c \in Conns /\ toFinish[t] \in Seq(Conns) /\ toFinish[t] # <<>>
    BY <1>0, <1>8, TailType DEF FinishOne
  <2>2. /\ UNCHANGED <<active, running, pc, toFail>>
        /\ toFinish' = [toFinish EXCEPT ![t] = Tail(@)]
    BY <1>8 DEF FinishOne
  <2>3. \/ state[c] = "PENDING" /\ state' = [state EXCEPT ![c] = "FINISHED"]
        \/ state[c] # "PENDING" /\ state' = state
    BY <1>8 DEF FinishOne
  <2>4. \A d \in Conns : (d # c => state'[d] = state[d]) /\ state'[c] # "PENDING"
    BY <1>t, <2>1, <2>3
  <2>5. \A u \in Threads : toFinish'[u] = IF u = t THEN Tail(toFinish[t]) ELSE toFinish[u]
    BY <1>0, <2>2
  <2>6. \A d \in Conns, u \in Threads : d # c /\ d \in Elements(toFinish[u])
                                          => d \in Elements(toFinish'[u])
    BY <2>1, <2>5, TailElements
  <2>7. \A d \in Conns : state'[d] = "IN_PROGRESS" => state[d] = "IN_PROGRESS"
    BY <1>t, <2>1, <2>3
  <2> QED
    BY <2>2, <2>4, <2>6, <2>7 DEF OpenIsActive, At
<1>9. CASE BeginShutdown
  <2>1. /\ UNCHANGED <<state, active, toFinish>> /\ toFail' = active
        /\ pc' = [pc EXCEPT !["closer"] = "failing"]
    BY <1>9 DEF BeginShutdown, connVars, Goto
  <2>2. At("closer", "failing")'
    BY <1>0, <2>1 DEF At
  <2> QED
    BY <2>1, <2>2 DEF OpenIsActive
<1>10. CASE Destroy
  <2>0. /\ UNCHANGED <<state, running, toFail>> /\ At("closer", "destroy")
        /\ ~At("closer", "failing") /\ ~At("closer", "finish")
    BY <1>10 DEF Destroy, At
  <2>1. ~running /\ \A d \in Conns : state[d] # "IN_PROGRESS"
    BY <2>0 DEF OpenIsActive, CloserInv, At
  <2>2. CASE active = {}
    BY <1>10, <2>0, <2>1, <2>2 DEF Destroy, OpenIsActive
  <2>3. CASE active # {}
    <3>1. PICK c \in active :
            /\ active' = active \ {c}
            /\ toFinish' = [toFinish EXCEPT !["closer"] = Reversed(List(c))]
      BY <1>10, <2>3 DEF Destroy
    <3>2. c \in Conns /\ state[c] \in OnList /\ c # Nil
      BY <1>0, <1>t, <2>1 DEF TypeInv, KnownInv, OnList
    <3>3. /\ \A u \in Threads : u # "closer" => toFinish'[u] = toFinish[u]
          /\ Elements(toFinish'["closer"]) = Elements(List(c))
          /\ c \in Elements(List(c))
      BY <1>0, <3>1, <3>2, ListTaken
    <3>4. Elements(toFinish["closer"]) = {}
      BY <1>0, <2>0 DEF CloserInv, Elements
    <3> QED
      BY <1>0, <2>0, <2>1, <3>1, <3>3, <3>4 DEF OpenIsActive
  <2> QED
    BY <2>2, <2>3
<1> QED
  BY <1>1, <1>2, <1>3, <1>4, <1>5, <1>6, <1>7, <1>8, <1>9, <1>10 DEF Next, Io, Closer, Threads

\* Once the service is gone, however it was shut down and destroyed and whatever
\* was queued, pending or forgotten in the list then, every request it accepted
\* has been answered or its callback is in the queue of the pool.
THEOREM AnsweredSafe == Spec => []AnsweredWhenGone
<1>1. Init => OpenIsActive /\ FinishedIsAnswered
  BY DEF Init, OpenIsActive, FinishedIsAnswered
<1>2. TypeInv /\ LinkInv /\ CloserInv /\ OpenIsActive /\ FinishedIsAnswered => AnsweredWhenGone
  <2> SUFFICES ASSUME TypeInv, LinkInv, CloserInv, OpenIsActive, FinishedIsAnswered,
                      At("closer", "exited"), NEW c \in Conns, state[c] # "NONE"
               PROVE  calls[c] # <<>> \/ Posted(c) # {}
    BY DEF AnsweredWhenGone
  <2>1. ~running /\ active = {} /\ At("io", "exited") /\ ~At("closer", "failing")
    BY DEF CloserInv, At
  <2>2. \A t \in Threads : toFinish[t] = <<>>
    BY <2>1, ControlTypes DEF CloserInv, At
  <2>3. state[c] # "IN_PROGRESS" /\ state[c] # "PENDING"
    BY <2>1, <2>2 DEF OpenIsActive, Elements
  <2>4. state[c] = "FINISHED"
    BY <2>3, LinkTypes
  <2> QED
    BY <2>4, OnceTypes DEF FinishedIsAnswered, Posted
<1> QED
  BY <1>1, <1>2, AnswersInductive, OpenInductive, TypeInvHolds, LinksHold, CloserHolds, PTL
     DEF Spec
-----------------------------------------------------------------------------
(* The list of a running service *)

\* Until shutdown begins curl works on exactly the connections in progress, and
\* every pending one is in whatever list starts at the head, or in the list that
\* the asio thread has taken; it finishes that one before anything is queued again.
RunningInv ==
  running =>
    /\ At("io", "finish") => doneHead = Nil
    /\ \A c \in Conns : c \in curl <=> state[c] = "IN_PROGRESS"
    /\ \A c \in Conns : state[c] = "PENDING" =>
         \/ c \in Elements(toFinish["io"])
         \/ \A s \in Seq(Conns) : IsListOf(s, doneHead) => c \in Elements(s)

\* It depends on these only.
LEMMA RunningStays ==
  ASSUME RunningInv, UNCHANGED <<state, next, doneHead, curl, toFinish, running>>,
         At("io", "finish")' => At("io", "finish")
  PROVE  RunningInv'
BY DEF RunningInv, IsListOf

\* A list that starts at a connection queued just now goes on as the list before.
LEMMA ListBehind ==
  ASSUME TypeInv, LinkInv, NEW c \in Conns, NEW how, state[c] = "IN_PROGRESS", Queue(c, how),
         NEW s \in Seq(Conns), IsListOf(s, c)'
  PROVE  /\ s # <<>> /\ s[1] = c
         /\ Tail(s) \in Seq(Conns) /\ IsListOf(Tail(s), doneHead)
<1>0. /\ next \in [Conns -> Conns \cup {Nil}] /\ doneHead \in Conns \cup {Nil}
      /\ Nil \notin Conns
      /\ doneHead # Nil => state[doneHead] \in OnList
      /\ \A d \in Conns : next[d] # Nil => state[next[d]] \in OnList
  BY LinkTypes DEF LinkInv, LinksAreQueued
<1>1. \A d \in Conns : next'[d] = IF d = c THEN doneHead ELSE next[d]
  BY <1>0 DEF Queue
<1>2. /\ s # <<>> /\ s[1] = c
      /\ \A i \in 1 .. Len(s) : next'[s[i]] = IF i = Len(s) THEN Nil ELSE s[i + 1]
  BY <1>0 DEF IsListOf
<1>3. /\ Len(s) \in Nat \ {0} /\ Tail(s) \in Seq(Conns) /\ Len(Tail(s)) = Len(s) - 1
      /\ \A i \in 1 .. Len(s) - 1 : Tail(s)[i] = s[i + 1]
      /\ \A i \in 1 .. Len(s) : s[i] \in Conns
  BY <1>2
<1>l. Len(s) \in Nat \ {0}
  BY <1>3
<1>4. \A i \in 1 .. Len(s) - 1 : s[i + 1] # c
  <2> SUFFICES ASSUME NEW i \in 1 .. Len(s) - 1, s[i + 1] = c PROVE FALSE
    OBVIOUS
  <2>1. i \in 1 .. Len(s) /\ i # Len(s)
    BY <1>l, SMTT(60)
  <2>2. next'[s[i]] = c /\ s[i] \in Conns
    BY <1>2, <1>3, <2>1
  <2>3. state[c] \in OnList
    BY <1>0, <1>1, <2>2, SMTT(60)
  <2> QED
    BY <2>3 DEF OnList
<1>5. CASE Len(s) = 1
  <2>1. 1 \in 1 .. Len(s) /\ next'[s[1]] = Nil
    BY <1>2, <1>5, SMTT(60)
  <2>2. doneHead = Nil
    BY <1>1, <1>2, <1>3, <2>1
  <2>3. Tail(s) = <<>>
    <3>1. PICK r \in Seq(Conns) : r = Tail(s) /\ Len(r) = 0
      <4>1. Len(Tail(s)) = 0 /\ Tail(s) \in Seq(Conns)
        BY <1>3, <1>5
      <4> QED
        BY <4>1
    <3> QED
      BY <3>1
  <2> QED
    BY <1>2, <1>3, <2>2, <2>3 DEF IsListOf
<1>6. CASE Len(s) # 1
  <2>1. /\ 1 \in 1 .. Len(s) /\ 1 \in 1 .. Len(s) - 1 /\ Len(Tail(s)) # 0
        /\ 1 + 1 = 2
    BY <1>3, <1>6
  <2>2. next'[s[1]] = s[2]
    BY <1>2, <1>6, <2>1
  <2>3. Tail(s)[1] = doneHead /\ Tail(s) # <<>>
    <3>1. s[2] = doneHead /\ Tail(s)[1] = s[2]
      BY <1>1, <1>2, <1>3, <2>1, <2>2
    <3>2. PICK r \in Seq(Conns) : r = Tail(s) /\ Len(r) # 0
      <4>1. Len(Tail(s)) # 0 /\ Tail(s) \in Seq(Conns)
        BY <1>3, <2>1
      <4> QED
        BY <4>1
    <3> QED
      BY <3>1, <3>2
  <2>4. ASSUME NEW i \in 1 .. Len(Tail(s))
        PROVE  next[Tail(s)[i]] = IF i = Len(Tail(s)) THEN Nil ELSE Tail(s)[i + 1]
    <3>1. i \in 1 .. Len(s) - 1 /\ i + 1 \in 1 .. Len(s) /\ i \in Nat
      BY <1>3
    <3>2. next[s[i + 1]] = next'[s[i + 1]] /\ Tail(s)[i] = s[i + 1]
      BY <1>1, <1>3, <1>4, <3>1
    <3>3. next'[s[i + 1]] = IF i + 1 = Len(s) THEN Nil ELSE s[(i + 1) + 1]
      BY <1>2, <3>1, SMTT(60)
    <3>4. i + 1 # Len(s) => i + 1 \in 1 .. Len(s) - 1 /\ Tail(s)[i + 1] = s[(i + 1) + 1]
      <4>1. i + 1 # Len(s) => i + 1 \in 1 .. Len(s) - 1
        BY <1>l, <3>1
      <4> QED
        BY <1>3, <4>1
    <3>5. i + 1 = Len(s) <=> i = Len(Tail(s))
      BY <1>3, <3>1
    <3> QED
      BY <3>2, <3>3, <3>4, <3>5
  <2> QED
    BY <1>2, <1>3, <2>3, <2>4 DEF IsListOf
<1> QED
  BY <1>5, <1>6

\* What is in the tail is in the list.
LEMMA InTail ==
  ASSUME NEW s \in Seq(Conns), s # <<>>, NEW d \in Elements(Tail(s))
  PROVE  d \in Elements(s)
<1>1. PICK i \in 1 .. Len(Tail(s)) : Tail(s)[i] = d
  <2>1. DOMAIN Tail(s) = 1 .. Len(Tail(s))
    OBVIOUS
  <2> QED
    BY <2>1 DEF Elements
<1>2. i \in Nat /\ i + 1 \in 1 .. Len(s) /\ s[i + 1] = d
  BY <1>1
<1> QED
  BY <1>2 DEF Elements

\* A completed connection goes in front of those queued before.
LEMMA HandleDoneKeepsRunning ==
  ASSUME TypeInv, LinkInv, RunningInv, NEW c \in Conns, NEW how, HandleDone(c, how)
  PROVE  RunningInv'
<1>1. /\ Queue(c, how) /\ c \in curl /\ curl' = curl \ {c} /\ doneHead' = c
      /\ At("io", "in") /\ UNCHANGED <<pc, toFinish, running>>
  BY DEF HandleDone, Queue, ctlVars
<1> SUFFICES ASSUME running PROVE RunningInv'
  BY <1>1 DEF RunningInv
<1>2. state[c] = "IN_PROGRESS"
  BY <1>1 DEF RunningInv
<1>3. state'[c] = "PENDING" /\ \A d \in Conns : d # c => state'[d] = state[d]
  BY <1>1, <1>2, QueueStates
<1>4. ~At("io", "finish")'
  BY <1>1 DEF At
<1>5. \A d \in Conns : d \in curl' <=> state'[d] = "IN_PROGRESS"
  BY <1>1, <1>3 DEF RunningInv
<1>6. ASSUME NEW d \in Conns, state'[d] = "PENDING", d \notin Elements(toFinish'["io"]),
             NEW s \in Seq(Conns), IsListOf(s, doneHead)'
      PROVE  d \in Elements(s)
  <2>1. IsListOf(s, c)'
    BY <1>1, <1>6 DEF IsListOf
  <2>2. s # <<>> /\ s[1] = c /\ Tail(s) \in Seq(Conns) /\ IsListOf(Tail(s), doneHead)
    BY <1>1, <1>2, <2>1, ListBehind
  <2>3. CASE d = c
    <3>1. 1 \in DOMAIN s
      BY <2>2
    <3> QED
      BY <2>2, <2>3, <3>1 DEF Elements
  <2>4. CASE d # c
    <3>1. state[d] = "PENDING" /\ d \notin Elements(toFinish["io"])
      BY <1>1, <1>3, <1>6, <2>4
    <3>2. d \in Elements(Tail(s))
      BY <2>2, <3>1 DEF RunningInv
    <3> QED
      BY <2>2, <3>2, InTail
  <2> QED
    BY <2>3, <2>4
<1> QED
  BY <1>4, <1>5, <1>6 DEF RunningInv

\* The asio thread takes all of them.
LEMMA TakeDoneKeepsRunning ==
  ASSUME TypeInv, LinkInv, CloserInv, RunningInv, TakeDone("io")
  PROVE  RunningInv'
<1>1. /\ toFinish' = [toFinish EXCEPT !["io"] = Reversed(List(doneHead))]
      /\ curl' = curl \ Elements(List(doneHead)) /\ doneHead' = Nil
      /\ ~At("io", "finish") /\ UNCHANGED <<state, running>>
  BY DEF TakeDone, At
<1> SUFFICES ASSUME running PROVE RunningInv'
  BY <1>1 DEF RunningInv
<1>2. /\ doneHead \in Conns \cup {Nil}
      /\ doneHead # Nil => state[doneHead] \in OnList
      /\ "io" \in Threads /\ curl \subseteq Conns
  BY LinkTypes, ControlTypes
<1>3. List(doneHead) \in Seq(Conns) /\ IsListOf(List(doneHead), doneHead)
  BY <1>2, ListIs
<1>4. /\ Elements(toFinish'["io"]) = Elements(List(doneHead))
      /\ \A d \in Elements(List(doneHead)) : d \in Conns /\ state[d] \in OnList
  BY <1>1, <1>2, ListTaken
<1>5. \A d \in Conns : d \in curl' <=> state'[d] = "IN_PROGRESS"
  BY <1>1, <1>4 DEF RunningInv, OnList
<1>6. Elements(toFinish["io"]) = {}
  BY <1>1, <1>2 DEF CloserInv, Elements
<1>7. \A d \in Conns : state'[d] = "PENDING" => d \in Elements(toFinish'["io"])
  BY <1>1, <1>3, <1>4, <1>6 DEF RunningInv
<1> QED
  BY <1>1, <1>5, <1>7 DEF RunningInv

\* It finishes them while nothing is queued.
LEMMA FinishOneKeepsRunning ==
  ASSUME TypeInv, RunningInv, FinishOne("io")
  PROVE  RunningInv'
<1> DEFINE c == Head(toFinish["io"])
<1>0. /\ state \in [Conns -> {"NONE", "IN_PROGRESS", "PENDING", "FINISHED"}]
      /\ toFinish["io"] \in Seq(Conns)
      /\ toFinish' = [toFinish EXCEPT !["io"] = Tail(@)]
      /\ toFinish'["io"] = Tail(toFinish["io"])
  BY LinkTypes, ControlTypes DEF FinishOne
<1>1. /\ At("io", "finish") /\ toFinish["io"] # <<>> /\ c \in Conns
      /\ UNCHANGED <<doneHead, curl, running, pc>>
  BY <1>0, TailType DEF FinishOne
<1>2. \/ state[c] = "PENDING" /\ state' = [state EXCEPT ![c] = "FINISHED"]
      \/ state[c] # "PENDING" /\ state' = state
  BY DEF FinishOne
<1> SUFFICES ASSUME running PROVE RunningInv'
  BY <1>1 DEF RunningInv
<1>3. doneHead = Nil
  BY <1>1 DEF RunningInv
<1>4. \A d \in Conns : (d # c => state'[d] = state[d]) /\ state'[c] # "PENDING"
  BY <1>0, <1>1, <1>2
<1>5. \A d \in Conns : d \in curl' <=> state'[d] = "IN_PROGRESS"
  BY <1>0, <1>1, <1>2 DEF RunningInv
<1>6. ASSUME NEW d \in Conns, state'[d] = "PENDING" PROVE d \in Elements(toFinish'["io"])
  <2>1. d # c /\ state[d] = "PENDING"
    BY <1>4, <1>6
  <2>2. <<>> \in Seq(Conns) /\ IsListOf(<<>>, doneHead) /\ d \notin Elements(<<>>)
    BY <1>3 DEF IsListOf, Elements
  <2>3. d \in Elements(toFinish["io"])
    BY <2>1, <2>2 DEF RunningInv
  <2> QED
    BY <1>0, <1>1, <2>1, <2>3, TailElements
<1> QED
  BY <1>1, <1>3, <1>5, <1>6 DEF RunningInv

\* Every step keeps it: the closing thread is idle as long as the service runs.
LEMMA RunningInductive ==
  TypeInv /\ LinkInv /\ CloserInv /\ RunningInv /\ [Next]_vars => RunningInv'
<1> SUFFICES ASSUME TypeInv, LinkInv, CloserInv, RunningInv, [Next]_vars PROVE RunningInv'
  OBVIOUS
<1>0. /\ pc \in [Threads -> {"idle", "in", "failing", "invoke", "finish", "cleanup", "join",
                             "pool", "destroy", "exited"}]
      /\ "io" \in Threads
      /\ state \in [Conns -> {"NONE", "IN_PROGRESS", "PENDING", "FINISHED"}]
  BY ControlTypes, LinkTypes
<1>1. ASSUME ~At("closer", "idle"), running' = running PROVE RunningInv'
  BY <1>1 DEF RunningInv, CloserInv
<1>2. CASE BeginShutdown
  BY <1>2 DEF BeginShutdown, RunningInv
<1>3. CASE \/ FailedAll \/ TakeDone("closer") \/ FinishOne("closer") \/ Finished("closer")
           \/ Cleanup \/ IoJoined \/ PoolJoined \/ Destroy
           \/ \E c \in Conns : FailOne(c)
  BY <1>1, <1>3 DEF FailedAll, TakeDone, FinishOne, Finished, Cleanup, IoJoined, PoolJoined,
                    Destroy, FailOne, At
<1>4. ASSUME NEW c \in Conns, Request(c) PROVE RunningInv'
  <2>1. /\ state[c] = "NONE" /\ state' = [state EXCEPT ![c] = "IN_PROGRESS"]
        /\ curl' = curl \cup {c}
        /\ UNCHANGED <<next, doneHead, running, pc, toFinish>>
    BY <1>4 DEF Request, ctlVars
  <2>2. \A s, d : IsListOf(s, d)' <=> IsListOf(s, d)
    BY <2>1 DEF IsListOf
  <2>3. \A d \in Conns : state'[d] = IF d = c THEN "IN_PROGRESS" ELSE state[d]
    BY <1>0, <2>1
  <2> QED
    BY <2>1, <2>2, <2>3 DEF RunningInv, At, IsListOf
<1>5. CASE \E w \in Workers : WorkerTurn(w) \/ CallbackReturns(w) \/ SpuriousWakeUp(w)
  <2>1. UNCHANGED <<state, next, doneHead, curl, toFinish, running, pc>>
    BY <1>5 DEF WorkerTurn, CallbackReturns, SpuriousWakeUp, connVars, ctlVars
  <2> QED
    BY <2>1, RunningStays DEF At
<1>6. CASE SocketAction \/ ActionDone \/ IoExit \/ Finished("io") \/ UNCHANGED vars
  <2>1. UNCHANGED <<state, next, doneHead, curl, toFinish, running>>
    BY <1>6 DEF SocketAction, ActionDone, IoExit, Finished, connVars, ctlVars, vars
  <2>2. At("io", "finish")' => At("io", "finish")
    BY <1>0, <1>6 DEF SocketAction, ActionDone, IoExit, Finished, At, Goto, vars, ctlVars
  <2> QED
    BY <2>1, <2>2, RunningStays
<1>7. CASE \E c \in Conns, how \in {"complete", "error"} : HandleDone(c, how)
  BY <1>7, HandleDoneKeepsRunning
<1>8. CASE TakeDone("io") \/ FinishOne("io")
  BY <1>8, TakeDoneKeepsRunning, FinishOneKeepsRunning
<1> QED
  BY <1>2, <1>3, <1>4, <1>5, <1>6, <1>7, <1>8 DEF Next, Io, Closer

\* While the service runs, however completions and socket actions interleave with
\* new requests, the intrusive list loses no connection.
THEOREM NothingLostSafe == Spec => []NothingLost
<1>1. Init => OpenIsActive /\ RunningInv
  BY DEF Init, OpenIsActive, RunningInv, At
<1>2. TypeInv /\ LinkInv /\ OpenIsActive /\ RunningInv => NothingLost
  <2> SUFFICES ASSUME TypeInv, LinkInv, OpenIsActive, RunningInv, running, NEW c \in Conns
               PROVE  /\ state[c] = "PENDING" => InList(c)
                      /\ state[c] = "IN_PROGRESS" => c \in curl /\ c \in active
    BY DEF NothingLost
  <2>1. List(doneHead) \in Seq(Conns) /\ IsListOf(List(doneHead), doneHead)
    BY ListIs, LinkTypes
  <2>2. state[c] = "PENDING" => InList(c)
    BY <2>1, ControlTypes DEF RunningInv, InList
  <2> QED
    BY <2>2 DEF RunningInv, OpenIsActive
<1> QED
  BY <1>1, <1>2, OpenInductive, RunningInductive, TypeInvHolds, LinksHold, CloserHolds, PTL
     DEF Spec

-----------------------------------------------------------------------------
(* CurlSockets *)

HeldInv == \A fd \in held : sockets[fd].open /\ sockets[fd].known /\ sockets[fd].action = wish[fd]

Covered(fd, d) ==
  \/ sockets[fd].waits[d] > 0
  \/ Queued(SocketHandler(fd, d))
  \/ acting.by = SocketHandler(fd, d)

WatchInv == \A fd \in held \ failed : \A d \in wish[fd] : Covered(fd, d)

TimerInv == timerWish => timer \/ Queued(TimerHandler)

SocketsInv == SocketsTypeOK /\ HeldInv /\ WatchInv /\ TimerInv

-----------------------------------------------------------------------------
\* The queue of handlers.
LEMMA QueueFacts ==
  ASSUME NEW S, NEW q \in Seq(S)
  PROVE  /\ \A x \in S : /\ Append(q, x) \in Seq(S)
                         /\ ToSet(Append(q, x)) = ToSet(q) \cup {x}
         /\ q # <<>> => /\ Head(q) \in S /\ Tail(q) \in Seq(S)
                        /\ ToSet(q) = ToSet(Tail(q)) \cup {Head(q)}
<1>1. ASSUME NEW x \in S
      PROVE  Append(q, x) \in Seq(S) /\ ToSet(Append(q, x)) = ToSet(q) \cup {x}
  <2>1. Append(q, x) \in Seq(S) /\ Len(Append(q, x)) = Len(q) + 1 /\ Len(q) \in Nat
    OBVIOUS
  <2>2. /\ \A i \in 1 .. Len(q) : Append(q, x)[i] = q[i]
        /\ Append(q, x)[Len(q) + 1] = x
    OBVIOUS
  <2>3. DOMAIN q = 1 .. Len(q) /\ DOMAIN Append(q, x) = 1 .. Len(q) + 1
    BY <2>1
  <2>4. 1 .. Len(q) + 1 = (1 .. Len(q)) \cup {Len(q) + 1}
    BY <2>1
  <2> QED
    BY <2>1, <2>2, <2>3, <2>4 DEF ToSet
<1>2. ASSUME q # <<>>
      PROVE  /\ Head(q) \in S /\ Tail(q) \in Seq(S)
             /\ ToSet(q) = ToSet(Tail(q)) \cup {Head(q)}
  <2>1. /\ Head(q) = q[1] /\ Tail(q) \in Seq(S) /\ Len(q) \in Nat /\ Len(q) > 0
        /\ Len(Tail(q)) = Len(q) - 1 /\ Head(q) \in S
        /\ DOMAIN q = 1 .. Len(q)
    BY <1>2
  <2>2. \A i \in 1 .. Len(q) - 1 : Tail(q)[i] = q[i + 1]
    BY <1>2
  <2>3. DOMAIN Tail(q) = 1 .. Len(q) - 1
    BY <2>1
  <2>4. ASSUME NEW i \in 1 .. Len(q), i # 1 PROVE i - 1 \in DOMAIN Tail(q) /\ Tail(q)[i - 1] = q[i]
    BY <2>1, <2>2, <2>3, <2>4
  <2>5. \A i \in DOMAIN Tail(q) : i + 1 \in DOMAIN q /\ Tail(q)[i] = q[i + 1]
    BY <2>1, <2>2, <2>3
  <2>6. 1 \in DOMAIN q
    BY <2>1
  <2>7. ToSet(q) \subseteq ToSet(Tail(q)) \cup {Head(q)}
    BY <2>1, <2>4, ZenonT(60) DEF ToSet
  <2>8. ToSet(Tail(q)) \cup {Head(q)} \subseteq ToSet(q)
    BY <2>1, <2>5, <2>6 DEF ToSet
  <2> QED
    BY <2>1, <2>7, <2>8
<1> QED
  BY <1>1, <1>2

\* The handlers that are not called back when the timer is set anew.
LEMMA OldHandlers ==
  ASSUME SocketsTypeOK
  PROVE  /\ OldTimerHandlers \in Seq(Handlers)
         /\ \A fd \in Fds, d \in Dirs :
              Queued(SocketHandler(fd, d)) => SocketHandler(fd, d) \in ToSet(OldTimerHandlers)
<1>0. handlers \in Seq(Handlers) /\ DOMAIN handlers = 1 .. Len(handlers) /\ Len(handlers) \in Nat
  BY DEF SocketsTypeOK
<1>1. ASSUME NEW h \in Handlers
      PROVE  (IF h.of = "timer" THEN [h EXCEPT !.current = FALSE] ELSE h) \in Handlers
  <2>1. CASE h \in [of : {"timer"}, current : BOOLEAN]
    BY <2>1 DEF Handlers
  <2>2. CASE h \in [of : {"socket"}, fd : Fds, dir : Dirs]
    BY <2>2 DEF Handlers
  <2> QED
    BY <2>1, <2>2 DEF Handlers
<1>2. \A i \in 1 .. Len(handlers) : handlers[i] \in Handlers
  BY <1>0
<1>3. OldTimerHandlers \in Seq(Handlers)
  BY <1>0, <1>1, <1>2 DEF OldTimerHandlers
<1>4. ASSUME NEW fd \in Fds, NEW d \in Dirs, Queued(SocketHandler(fd, d))
      PROVE  SocketHandler(fd, d) \in ToSet(OldTimerHandlers)
  <2>1. PICK i \in DOMAIN handlers : handlers[i] = SocketHandler(fd, d)
    BY <1>4 DEF Queued, ToSet
  <2>2. SocketHandler(fd, d).of # "timer"
    BY DEF SocketHandler
  <2>3. OldTimerHandlers[i] = SocketHandler(fd, d) /\ i \in DOMAIN OldTimerHandlers
    BY <2>1, <2>2 DEF OldTimerHandlers
  <2> QED
    BY <2>3 DEF ToSet
<1> QED
  BY <1>3, <1>4

-----------------------------------------------------------------------------
\* What asyncSocketIo makes of a socket: its watches become more, in all the
\* directions asked for unless the connection is failed.
LEMMA AsyncFacts ==
  ASSUME SocketsTypeOK, NEW fd \in Fds, NEW s \in SocketType, NEW dirs \in SUBSET Dirs,
         AsyncSocketIo(fd, s, dirs)
  PROVE  /\ failed' \subseteq Fds
         /\ failed \subseteq failed'
         /\ \E r \in SocketType :
              /\ sockets' = [sockets EXCEPT ![fd] = r]
              /\ r.known = s.known /\ r.open = s.open /\ r.action = s.action
              /\ \A d \in Dirs : s.waits[d] > 0 => r.waits[d] > 0
              /\ fd \in failed' \/ \A d \in dirs : r.waits[d] > 0
<1>1. ASSUME NEW D \in SUBSET Dirs
      PROVE  LET r == Watching(s, D) IN
             /\ r \in SocketType
             /\ r.known = s.known /\ r.open = s.open /\ r.action = s.action
             /\ \A d \in Dirs : s.waits[d] > 0 => r.waits[d] > 0
             /\ \A d \in D : r.waits[d] > 0
  <2>1. s.waits \in [Dirs -> Nat] /\ DOMAIN s.waits = Dirs
    BY DEF SocketType
  <2>2. [d \in Dirs |-> IF d \in D THEN s.waits[d] + 1 ELSE s.waits[d]] \in [Dirs -> Nat]
    BY <2>1
  <2>3. Watching(s, D) \in SocketType
    BY <2>2 DEF Watching, SocketType
  <2>4. /\ Watching(s, D).known = s.known /\ Watching(s, D).open = s.open
        /\ Watching(s, D).action = s.action
        /\ Watching(s, D).waits = [d \in Dirs |-> IF d \in D THEN s.waits[d] + 1 ELSE s.waits[d]]
    BY DEF Watching, SocketType
  <2> QED
    BY <2>1, <2>3, <2>4
<1>2. CASE sockets' = [sockets EXCEPT ![fd] = Watching(s, dirs)] /\ UNCHANGED failed
  BY <1>1, <1>2 DEF SocketsTypeOK
<1>3. CASE /\ \E begun \in {{}, {"in"} \cap dirs} \ {dirs} :
                 sockets' = [sockets EXCEPT ![fd] = Watching(s, begun)]
           /\ failed' = failed \cup {fd}
  <2>1. PICK begun \in SUBSET Dirs : sockets' = [sockets EXCEPT ![fd] = Watching(s, begun)]
    BY <1>3
  <2> QED
    BY <1>1, <1>3, <2>1 DEF SocketsTypeOK
<1> QED
  BY <1>2, <1>3 DEF AsyncSocketIo

\* The socket records: none, and one that has just been opened.
LEMMA NewSockets ==
  /\ NoSocket \in SocketType /\ NewSocket \in SocketType
  /\ NewSocket.open /\ NewSocket.known /\ NewSocket.action = {}
BY DEF NoSocket, NewSocket, SocketType, Dirs

\* No sockets at first.
LEMMA SocketsInitInv == SocketsInit => SocketsInv
<1> SUFFICES ASSUME SocketsInit PROVE SocketsInv
  OBVIOUS
<1>1. <<>> \in Seq(Handlers)
  OBVIOUS
<1>2. NoCall \in Calls
  <2>1. [of |-> "none"] \in Callers
    BY DEF Callers
  <2> QED
    BY <2>1 DEF NoCall, Calls
<1>3. SocketsTypeOK
  BY <1>1, <1>2, NewSockets DEF SocketsInit, SocketsTypeOK
<1> QED
  BY <1>3 DEF SocketsInit, SocketsInv, HeldInv, WatchInv, TimerInv

\* A callback leaves who has made the call.
LEMMA CallbackFacts ==
  ASSUME SocketsTypeOK, Callback
  PROVE  /\ acting'.by = acting.by
         /\ acting' \in Calls
<1>1. acting' = [acting EXCEPT !.callbacks = @ + 1] /\ acting \in Calls
  BY DEF SocketsTypeOK, Callback
<1> QED
  BY <1>1 DEF Calls

-----------------------------------------------------------------------------
\* Directions that are new are watched, those that are not were covered before.
LEMMA SocketCallbackKeepsInv ==
  ASSUME SocketsInv, NEW fd \in Fds, NEW action \in SUBSET Dirs, SocketCallback(fd, action)
  PROVE  SocketsInv'
<1> USE DEF SocketsInv
<1>1. /\ fd \in held /\ sockets[fd].known /\ sockets[fd].open /\ sockets[fd].action = wish[fd]
      /\ sockets[fd] \in SocketType
      /\ UNCHANGED <<handlers, timer, held, timerWish>>
      /\ wish' = [wish EXCEPT ![fd] = action]
      /\ acting'.by = acting.by
      /\ acting' \in Calls
  BY CallbackFacts DEF SocketCallback, HeldInv, SocketsTypeOK
<1> DEFINE s == [sockets[fd] EXCEPT !.action = action]
           bits == action \ wish[fd]
<1>2. AsyncSocketIo(fd, s, bits)
  BY <1>1 DEF SocketCallback, SetAction
<1>3. /\ s \in SocketType /\ s.known /\ s.open /\ s.action = action
      /\ s.waits = sockets[fd].waits /\ bits \in SUBSET Dirs
  BY <1>1 DEF SocketType
<1> HIDE DEF s, bits
<1>4. PICK r \in SocketType :
        /\ sockets' = [sockets EXCEPT ![fd] = r]
        /\ r.known /\ r.open /\ r.action = action
        /\ \A d \in Dirs : sockets[fd].waits[d] > 0 => r.waits[d] > 0
        /\ fd \in failed' \/ \A d \in bits : r.waits[d] > 0
  BY <1>2, <1>3, AsyncFacts
<1>5. failed' \subseteq Fds /\ failed \subseteq failed'
  BY <1>2, <1>3, AsyncFacts
<1>6. SocketsTypeOK'
  BY <1>1, <1>4, <1>5 DEF SocketsTypeOK
<1>7. HeldInv' /\ TimerInv'
  BY <1>1, <1>4 DEF HeldInv, TimerInv, SocketsTypeOK, Queued
<1>8. WatchInv'
  <2> SUFFICES ASSUME NEW g \in held \ failed', NEW d \in wish'[g] PROVE Covered(g, d)'
    BY <1>1 DEF WatchInv
  <2>0. g \in Fds /\ d \in Dirs /\ g \notin failed
    BY <1>1, <1>5, <1>6 DEF SocketsTypeOK
  <2>1. CASE g # fd
    <3>1. sockets'[g] = sockets[g] /\ wish'[g] = wish[g]
      BY <1>1, <1>4, <2>0, <2>1 DEF SocketsTypeOK
    <3>2. Covered(g, d)
      BY <2>0, <3>1 DEF WatchInv
    <3> QED
      BY <1>1, <3>1, <3>2 DEF Covered, Queued
  <2>2. CASE g = fd
    <3>1. sockets'[g] = r /\ wish'[g] = action
      BY <1>1, <1>4, <2>2 DEF SocketsTypeOK
    <3>2. CASE d \in wish[g]
      <4>1. Covered(g, d)
        BY <2>0, <3>2 DEF WatchInv
      <4> QED
        BY <1>1, <1>4, <2>0, <2>2, <3>1, <4>1 DEF Covered, Queued
    <3>3. CASE d \notin wish[g]
      <4>1. d \in bits
        BY <2>2, <3>1, <3>3 DEF bits
      <4> QED
        BY <1>4, <2>2, <3>1, <4>1 DEF Covered
    <3> QED
      BY <3>2, <3>3
  <2> QED
    BY <2>1, <2>2
<1> QED
  BY <1>6, <1>7, <1>8

\* Sockets come and go; one that comes has no directions yet.
LEMMA OpenCloseKeepsInv ==
  ASSUME SocketsInv, NEW fd \in Fds, OpenSocket(fd) \/ CloseSocket(fd) \/ CloseUnseen(fd)
  PROVE  SocketsInv'
<1> USE DEF SocketsInv
<1>1. UNCHANGED <<handlers, timer, timerWish>> /\ TimerInv'
  BY DEF OpenSocket, CloseSocket, CloseUnseen, TimerInv, Queued
<1>2. /\ acting'.by = acting.by
      /\ acting' \in Calls
  <2>1. CASE OpenSocket(fd)
    <3>1. /\ acting \in Calls
          /\ \/ acting' = [acting EXCEPT !.opening = TRUE]
             \/ acting' = [acting EXCEPT !.callbacks = @ + 1, !.opening = FALSE]
      BY <2>1 DEF OpenSocket, SocketsTypeOK
    <3>2. CASE acting' = [acting EXCEPT !.opening = TRUE]
      BY <3>1, <3>2 DEF Calls
    <3>3. CASE acting' = [acting EXCEPT !.callbacks = @ + 1, !.opening = FALSE]
      <4>1. acting' = [by |-> acting.by, callbacks |-> acting.callbacks + 1, opening |-> FALSE]
        BY <3>1, <3>3 DEF Calls
      <4> QED
        BY <3>1, <4>1 DEF Calls
    <3> QED
      BY <3>1, <3>2, <3>3
  <2>2. CASE CloseSocket(fd) \/ CloseUnseen(fd)
    BY <2>2, CallbackFacts DEF CloseSocket, CloseUnseen
  <2> QED
    BY <2>1, <2>2
<1>3. PICK r \in SocketType :
        /\ sockets' = [sockets EXCEPT ![fd] = r]
        /\ failed' \subseteq failed /\ failed \subseteq failed' \cup {fd}
        /\ \/ /\ UNCHANGED <<wish, held>> /\ fd \notin held
           \/ /\ wish' = [wish EXCEPT ![fd] = {}]
              /\ held' = held \ {fd}
           \/ /\ wish' = [wish EXCEPT ![fd] = {}]
              /\ held' = held \cup {fd} /\ r = NewSocket
  <2>1. CASE OpenSocket(fd)
    <3>1. fd \notin held
      BY <2>1 DEF OpenSocket, FreeFds, HeldInv
    <3>2. CASE sockets[fd].known
      <4>1. sockets' = [sockets EXCEPT ![fd] = NoSocket] /\ UNCHANGED <<held, wish, failed>>
        BY <2>1, <3>2 DEF OpenSocket
      <4> QED
        BY <3>1, <4>1, NewSockets
    <3>3. CASE ~sockets[fd].known
      <4>1. /\ sockets' = [sockets EXCEPT ![fd] = NewSocket]
            /\ held' = held \cup {fd} /\ failed' = failed \ {fd}
            /\ wish' = [wish EXCEPT ![fd] = {}]
        BY <2>1, <3>3 DEF OpenSocket
      <4> QED
        BY <4>1, NewSockets
    <3> QED
      BY <3>2, <3>3
  <2>2. CASE CloseSocket(fd)
    BY <2>2, NewSockets DEF CloseSocket
  <2>3. CASE CloseUnseen(fd)
    <3> DEFINE r == [sockets[fd] EXCEPT !.open = FALSE]
    <3>1. r \in SocketType
      BY DEF SocketType, SocketsTypeOK
    <3>2. sockets' = [sockets EXCEPT ![fd] = r]
      BY <2>3 DEF CloseUnseen, SocketsTypeOK
    <3> QED
      BY <2>3, <3>1, <3>2 DEF CloseUnseen
  <2> QED
    BY <2>1, <2>2, <2>3
<1>4. SocketsTypeOK'
  BY <1>1, <1>2, <1>3 DEF SocketsTypeOK
<1>5. HeldInv'
  <2> SUFFICES ASSUME NEW g \in held'
               PROVE  sockets'[g].open /\ sockets'[g].known /\ sockets'[g].action = wish'[g]
    BY DEF HeldInv
  <2>1. CASE g = fd
    BY <1>3, <2>1, NewSockets DEF SocketsTypeOK
  <2>2. CASE g # fd
    BY <1>3, <2>2 DEF SocketsTypeOK, HeldInv
  <2> QED
    BY <2>1, <2>2
<1>6. WatchInv'
  <2> SUFFICES ASSUME NEW g \in held' \ failed', NEW d \in wish'[g] PROVE Covered(g, d)'
    BY DEF WatchInv
  <2>1. g # fd /\ g \in held \ failed /\ g \in Fds /\ d \in wish[g] /\ sockets'[g] = sockets[g]
    BY <1>3 DEF SocketsTypeOK
  <2>2. Covered(g, d)
    BY <2>1 DEF WatchInv
  <2> QED
    BY <1>1, <1>2, <2>1, <2>2 DEF Covered, Queued
<1> QED
  BY <1>1, <1>4, <1>5, <1>6

-----------------------------------------------------------------------------
\* Setting the timer leaves the handlers of sockets where they are.
LEMMA SetTimerKeepsInv ==
  ASSUME SocketsInv, NEW on \in BOOLEAN, SetSocketActionTimer(on)
  PROVE  SocketsInv'
<1> USE DEF SocketsInv
<1>1. /\ UNCHANGED <<sockets, failed, held, wish>> /\ timer' = on /\ timerWish' = on
      /\ handlers' = OldTimerHandlers
      /\ acting'.by = acting.by
      /\ acting' \in Calls
  BY CallbackFacts DEF SetSocketActionTimer
<1>2. SocketsTypeOK'
  BY <1>1, OldHandlers DEF SocketsTypeOK
<1>3. HeldInv' /\ TimerInv'
  BY <1>1 DEF HeldInv, TimerInv
<1>4. WatchInv'
  <2> SUFFICES ASSUME NEW g \in held \ failed, NEW d \in wish[g] PROVE Covered(g, d)'
    BY <1>1 DEF WatchInv
  <2>1. g \in Fds /\ d \in Dirs /\ Covered(g, d)
    BY DEF WatchInv, SocketsTypeOK
  <2> QED
    BY <1>1, <2>1, OldHandlers DEF Covered, Queued
<1> QED
  BY <1>2, <1>3, <1>4

\* A call begins; the handler that begins it covers the watch that has ended.
LEMMA BeginKeepsInv ==
  ASSUME SocketsInv, UserCall \/ RunHandler
  PROVE  SocketsInv'
<1> USE DEF SocketsInv
<1>1. CASE UserCall
  <2>1. acting.by.of = "none" /\ acting' = [NoCall EXCEPT !.by = [of |-> "user"]]
    BY <1>1 DEF UserCall
  <2>2. /\ UNCHANGED <<sockets, handlers, timer, failed, held, wish, timerWish>>
        /\ acting' \in Calls
    <3>1. acting' = [by |-> [of |-> "user"], callbacks |-> 0, opening |-> FALSE]
      BY <2>1 DEF NoCall
    <3>2. [of |-> "user"] \in Callers
      BY DEF Callers
    <3>3. acting' \in Calls
      BY <3>1, <3>2 DEF Calls
    <3> QED
      BY <1>1, <3>3 DEF UserCall
  <2>3. SocketsTypeOK' /\ HeldInv' /\ TimerInv'
    BY <2>2 DEF SocketsTypeOK, HeldInv, TimerInv, Queued
  <2>4. \A g, d : acting.by # SocketHandler(g, d)
    BY <2>1 DEF SocketHandler
  <2>5. WatchInv'
    BY <2>2, <2>4 DEF WatchInv, Covered, Queued
  <2> QED
    BY <2>3, <2>5
<1>2. CASE RunHandler
  <2> DEFINE h == Head(handlers)
  <2>1. /\ acting.by.of = "none" /\ handlers # <<>>
        /\ handlers' = Tail(handlers)
        /\ acting' = [NoCall EXCEPT !.by = h]
        /\ timerWish' = IF h.of = "timer" /\ h.current THEN FALSE ELSE timerWish
        /\ UNCHANGED <<sockets, timer, failed, held, wish>>
    BY <1>2 DEF RunHandler
  <2>2. /\ h \in Handlers /\ handlers' \in Seq(Handlers)
        /\ ToSet(handlers) = ToSet(handlers') \cup {h}
    BY <2>1, QueueFacts DEF SocketsTypeOK
  <2> HIDE DEF h
  <2>3. /\ acting'.by = h
        /\ acting' \in Calls
    <3>1. acting' = [by |-> h, callbacks |-> 0, opening |-> FALSE]
      BY <2>1 DEF NoCall
    <3>2. h \in Callers
      BY <2>2 DEF Callers
    <3>3. acting' \in Calls
      BY <3>1, <3>2 DEF Calls
    <3>4. acting'.by = h
      BY <3>1
    <3> QED
      BY <3>3, <3>4
  <2>4. timerWish' \in BOOLEAN /\ (timerWish' => timerWish /\ h # TimerHandler)
    <3>1. timerWish \in BOOLEAN
      BY DEF SocketsTypeOK
    <3>2. h = TimerHandler => h.of = "timer" /\ h.current
      <4>1. TimerHandler.of = "timer" /\ TimerHandler.current
        BY DEF TimerHandler
      <4> QED
        BY <4>1
    <3>3. CASE h.of = "timer" /\ h.current
      <4>1. timerWish' = FALSE
        BY <2>1, <3>3, Zenon
      <4> QED
        BY <4>1
    <3>4. CASE ~(h.of = "timer" /\ h.current)
      <4>1. timerWish' = timerWish
        BY <2>1, <3>4, Zenon
      <4> QED
        BY <3>1, <3>2, <3>4, <4>1, Zenon
    <3> QED
      BY <3>3, <3>4
  <2>5. SocketsTypeOK' /\ HeldInv'
    BY <2>1, <2>2, <2>3, <2>4 DEF SocketsTypeOK, HeldInv
  <2>6. TimerInv'
    BY <2>1, <2>2, <2>4 DEF TimerInv, Queued
  <2>7. \A g, d : acting.by # SocketHandler(g, d)
    BY <2>1 DEF SocketHandler
  <2>8. WatchInv'
    BY <2>1, <2>2, <2>3, <2>7 DEF WatchInv, Covered, Queued
  <2> QED
    BY <2>5, <2>6, <2>8
<1> QED
  BY <1>1, <1>2

\* A call ends: what its handler stood for is watched again, if libcurl still
\* wants it, or the connection fails.
LEMMA EndKeepsInv ==
  ASSUME SocketsInv, EndCall
  PROVE  SocketsInv'
<1> USE DEF SocketsInv
<1>1. acting' = NoCall /\ UNCHANGED <<handlers, timer, held, wish, timerWish>>
  BY DEF EndCall
<1>2. acting' \in Calls
  <2>1. [of |-> "none"] \in Callers
    BY DEF Callers
  <2> QED
    BY <1>1, <2>1 DEF NoCall, Calls
<1>3. TimerInv'
  BY <1>1 DEF TimerInv, Queued
<1>4. CASE acting.by.of = "socket" /\ sockets[acting.by.fd].known
  <2> DEFINE fd == acting.by.fd
             dir == acting.by.dir
             s == sockets[fd]
  <2>1. fd \in Fds /\ dir \in Dirs
    BY <1>4 DEF SocketsTypeOK, Handlers, Calls, Callers
  <2>2. s \in SocketType /\ AsyncSocketIo(fd, s, s.action \cap {dir}) /\ s.action \cap {dir} \in SUBSET Dirs
    BY <1>4, <2>1 DEF EndCall, EventComplete, SocketsTypeOK, SocketType
  <2>3. \A g, d : acting.by = SocketHandler(g, d) => g = fd /\ d = dir
    BY DEF SocketHandler
  <2> HIDE DEF fd, dir
  <2>4. PICK r \in SocketType :
          /\ sockets' = [sockets EXCEPT ![fd] = r]
          /\ r.known = s.known /\ r.open = s.open /\ r.action = s.action
          /\ \A d \in Dirs : s.waits[d] > 0 => r.waits[d] > 0
          /\ fd \in failed' \/ \A d \in s.action \cap {dir} : r.waits[d] > 0
    BY <2>1, <2>2, AsyncFacts
  <2>5. failed' \subseteq Fds /\ failed \subseteq failed'
    BY <2>1, <2>2, AsyncFacts
  <2>6. SocketsTypeOK'
    BY <1>1, <1>2, <2>4, <2>5 DEF SocketsTypeOK
  <2>7. HeldInv'
    BY <1>1, <2>1, <2>4 DEF HeldInv, SocketsTypeOK
  <2>8. WatchInv'
    <3> SUFFICES ASSUME NEW g \in held \ failed', NEW d \in wish[g] PROVE Covered(g, d)'
      BY <1>1 DEF WatchInv
    <3>1. g \in Fds /\ d \in Dirs /\ Covered(g, d) /\ sockets[g].action = wish[g]
      BY <2>5 DEF WatchInv, SocketsTypeOK, HeldInv
    <3>2. sockets[g].waits[d] > 0 => sockets'[g].waits[d] > 0
      BY <2>1, <2>4, <3>1 DEF SocketsTypeOK
    <3>3. acting.by = SocketHandler(g, d) => sockets'[g].waits[d] > 0
      <4> SUFFICES ASSUME acting.by = SocketHandler(g, d) PROVE sockets'[g].waits[d] > 0
        OBVIOUS
      <4>1. g = fd /\ d = dir
        BY <2>3
      <4>2. d \in s.action \cap {dir} /\ sockets'[g] = r
        BY <2>1, <2>4, <3>1, <4>1 DEF SocketsTypeOK
      <4> QED
        BY <2>4, <4>1, <4>2
    <3> QED
      BY <1>1, <3>1, <3>2, <3>3 DEF Covered, Queued
  <2> QED
    BY <1>3, <2>6, <2>7, <2>8
<1>5. CASE ~(acting.by.of = "socket" /\ sockets[acting.by.fd].known)
  <2>1. UNCHANGED <<sockets, failed>>
    BY <1>5 DEF EndCall
  <2>2. SocketsTypeOK' /\ HeldInv'
    BY <1>1, <1>2, <2>1 DEF SocketsTypeOK, HeldInv
  <2>3. \A g \in held, d \in Dirs : acting.by # SocketHandler(g, d)
    BY <1>5 DEF HeldInv, SocketHandler
  <2>4. WatchInv'
    BY <1>1, <2>1, <2>3 DEF WatchInv, Covered, Queued, SocketsTypeOK
  <2> QED
    BY <1>3, <2>2, <2>4
<1> QED
  BY <1>4, <1>5

\* A watch ends, and its handler is queued; the time is up, and so is its.
LEMMA AsioKeepsInv ==
  ASSUME SocketsInv, TimeIsUp \/ \E fd \in Fds, d \in Dirs : SocketReady(fd, d)
  PROVE  SocketsInv'
<1> USE DEF SocketsInv
<1>1. CASE TimeIsUp
  <2>1. /\ timer' = FALSE /\ handlers' = Append(handlers, TimerHandler)
        /\ UNCHANGED <<sockets, failed, held, wish, timerWish, acting>>
    BY <1>1 DEF TimeIsUp
  <2>2. TimerHandler \in Handlers
    BY DEF TimerHandler, Handlers
  <2>3. handlers' \in Seq(Handlers) /\ ToSet(handlers') = ToSet(handlers) \cup {TimerHandler}
    BY <2>1, <2>2, QueueFacts DEF SocketsTypeOK
  <2>4. SocketsTypeOK' /\ HeldInv' /\ TimerInv'
    BY <2>1, <2>3 DEF SocketsTypeOK, HeldInv, TimerInv, Queued
  <2>5. WatchInv'
    BY <2>1, <2>3 DEF WatchInv, Covered, Queued
  <2> QED
    BY <2>4, <2>5
<1>2. ASSUME NEW fd \in Fds, NEW d \in Dirs, SocketReady(fd, d) PROVE SocketsInv'
  <2>1. /\ sockets[fd].waits[d] > 0
        /\ sockets' = [sockets EXCEPT ![fd].waits[d] = @ - 1]
        /\ handlers' = Append(handlers, SocketHandler(fd, d))
        /\ UNCHANGED <<timer, failed, held, wish, timerWish, acting>>
    BY <1>2 DEF SocketReady
  <2>2. SocketHandler(fd, d) \in Handlers
    BY DEF SocketHandler, Handlers
  <2>3. handlers' \in Seq(Handlers) /\ ToSet(handlers') = ToSet(handlers) \cup {SocketHandler(fd, d)}
    BY <2>1, <2>2, QueueFacts DEF SocketsTypeOK
  <2> DEFINE s == sockets[fd]
             r == [s EXCEPT !.waits[d] = @ - 1]
  <2>4. s \in SocketType /\ s.waits[d] \in Nat
    BY DEF SocketsTypeOK, SocketType
  <2>5. /\ r \in SocketType /\ r.known = s.known /\ r.open = s.open /\ r.action = s.action
        /\ \A e \in Dirs : e # d => r.waits[e] = s.waits[e]
    <3>1. /\ [s.waits EXCEPT ![d] = @ - 1] \in [Dirs -> Nat]
          /\ \A e \in Dirs : e # d => [s.waits EXCEPT ![d] = @ - 1][e] = s.waits[e]
      BY <2>1, <2>4 DEF SocketType
    <3>2. r = [s EXCEPT !.waits = [s.waits EXCEPT ![d] = @ - 1]]
      BY <2>4 DEF SocketType
    <3> HIDE DEF s, r
    <3> QED
      BY <2>4, <3>1, <3>2 DEF SocketType
  <2>6. sockets' = [sockets EXCEPT ![fd] = r]
    BY <2>1 DEF SocketsTypeOK
  <2> HIDE DEF s, r
  <2>7. SocketsTypeOK'
    BY <2>1, <2>3, <2>5, <2>6 DEF SocketsTypeOK
  <2>8. HeldInv' /\ TimerInv'
    BY <2>1, <2>3, <2>5, <2>6 DEF HeldInv, TimerInv, Queued, SocketsTypeOK, s
  <2>9. WatchInv'
    <3> SUFFICES ASSUME NEW g \in held \ failed, NEW e \in wish[g] PROVE Covered(g, e)'
      BY <2>1 DEF WatchInv
    <3>1. g \in Fds /\ e \in Dirs /\ Covered(g, e)
      BY DEF WatchInv, SocketsTypeOK
    <3>2. CASE g = fd /\ e = d
      BY <2>3, <3>2 DEF Covered, Queued
    <3>3. CASE ~(g = fd /\ e = d)
      <4>1. sockets'[g].waits[e] = sockets[g].waits[e]
        BY <2>5, <2>6, <3>1, <3>3 DEF SocketsTypeOK, s
      <4> QED
        BY <2>1, <2>3, <3>1, <4>1 DEF Covered, Queued
    <3> QED
      BY <3>2, <3>3
  <2> QED
    BY <2>7, <2>8, <2>9
<1> QED
  BY <1>1, <1>2

-----------------------------------------------------------------------------
\* So SocketsInv always holds.
LEMMA SocketsInvHolds == SocketsSpec => []SocketsInv
<1>1. SocketsInv /\ [SocketsNext]_socketVars => SocketsInv'
  <2> SUFFICES ASSUME SocketsInv, [SocketsNext]_socketVars PROVE SocketsInv'
    OBVIOUS
  <2>1. CASE UNCHANGED socketVars
    BY <2>1 DEF socketVars, SocketsInv, SocketsTypeOK, HeldInv, WatchInv, TimerInv, Covered, Queued
  <2>2. CASE SocketsNext
    BY <2>2, SocketCallbackKeepsInv, OpenCloseKeepsInv, SetTimerKeepsInv, BeginKeepsInv,
       EndKeepsInv, AsioKeepsInv
    DEF SocketsNext
  <2> QED
    BY <2>1, <2>2
<1> QED
  BY <1>1, SocketsInitInv, PTL DEF SocketsSpec

\* The sockets, watches and handlers stay well typed.
THEOREM SocketsTypeCorrect == SocketsSpec => []SocketsTypeOK
<1>1. SocketsInv => SocketsTypeOK
  BY DEF SocketsInv
<1> QED
  BY <1>1, SocketsInvHolds, PTL

\* Between two calls of libcurl, whatever it waits for is watched or on its way
\* to it, for any number of sockets, any reuse of their numbers and any number
\* of handlers that come late.
THEOREM WatchedSafe == SocketsSpec => []WantedIsWatched
<1>1. SocketsInv => WantedIsWatched
  <2> SUFFICES ASSUME SocketsInv, acting.by.of = "none"
               PROVE  /\ \A fd \in held : sockets[fd].open
                      /\ \A fd \in held \ failed : \A d \in wish[fd] :
                           sockets[fd].waits[d] > 0 \/ Queued(SocketHandler(fd, d))
                      /\ timerWish => timer \/ Queued(TimerHandler)
    BY DEF WantedIsWatched
  <2>1. \A fd, d : acting.by # SocketHandler(fd, d)
    BY DEF SocketHandler
  <2> QED
    BY <2>1 DEF SocketsInv, HeldInv, WatchInv, TimerInv, Covered
<1> QED
  BY <1>1, SocketsInvHolds, PTL
=============================================================================
