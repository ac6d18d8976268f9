------------------------- MODULE ThreadPool_proofs -------------------------
(***************************************************************************)
(* Proofs about ThreadPool, for any finite number of workers and any work. *)
(***************************************************************************)
EXTENDS ThreadPool, FiniteSetTheorems, TLAPS

\* What Len, Head, Tail and Append make of a queue.
LEMMA QueueFacts ==
  ASSUME NEW S, NEW q \in Seq(S)
  PROVE  /\ Len(q) \in Nat
         /\ q # <<>> => /\ Head(q) \in S /\ Tail(q) \in Seq(S)
                        /\ Len(q) > 0 /\ Len(Tail(q)) = Len(q) - 1
         /\ \A x \in S : Append(q, x) \in Seq(S) /\ Len(Append(q, x)) = Len(q) + 1
  OBVIOUS

\* The state of the pool stays well typed.
LEMMA TypeInductive == TypeOK /\ [Next]_poolVars => TypeOK'
<1> SUFFICES ASSUME TypeOK, [Next]_poolVars PROVE TypeOK'
  OBVIOUS
<1>1. ASSUME NEW w \in Workers, Take(w) PROVE TypeOK'
  <2>1. CASE workQueue = <<>> \/ ~accepting
    BY <1>1, <2>1 DEF TypeOK, Take
  <2>2. CASE workQueue # <<>> /\ accepting
    <3>1. Head(workQueue) \in Works /\ Tail(workQueue) \in Seq(Works)
      BY <2>2, QueueFacts DEF TypeOK
    <3> QED
      BY <1>1, <2>2, <3>1 DEF TypeOK, Take
  <2> QED
    BY <2>1, <2>2
<1>2. ASSUME NEW w \in Workers, Finish(w) \/ WakeUp(w) PROVE TypeOK'
  BY <1>2 DEF TypeOK, Finish, WakeUp
<1>3. ASSUME NEW f \in Works, Post(f) PROVE TypeOK'
  BY <1>3, QueueFacts DEF TypeOK, Post
<1>4. CASE StopWorkers \/ JoinWorkers \/ UNCHANGED poolVars
  BY <1>4 DEF TypeOK, StopWorkers, JoinWorkers, poolVars
<1> QED
  BY <1>1, <1>2, <1>3, <1>4 DEF Next

\* The pool's type invariant, for any workers and any work.
THEOREM TypeCorrect == Spec => []TypeOK
<1>1. Init => TypeOK
  <2>1. <<>> \in Seq(Works)
    OBVIOUS
  <2> QED
    BY <2>1 DEF Init, TypeOK
<1> QED
  BY <1>1, TypeInductive, PTL DEF Spec

-----------------------------------------------------------------------------
\* The free workers can be counted.
LEMMA ReadyFinite ==
  ASSUME FiniteWorkers
  PROVE  IsFiniteSet(Ready) /\ Cardinality(Ready) \in Nat
BY FS_Subset, FS_CardinalityType DEF FiniteWorkers, Ready

\* One more, or one fewer, worker is free.
LEMMA OneMoreReady ==
  ASSUME FiniteWorkers, TypeOK, NEW w \in Workers, worker[w] # "ready",
         worker' = [worker EXCEPT ![w] = "ready"]
  PROVE  Cardinality(Ready') = Cardinality(Ready) + 1
<1>1. Ready' = Ready \cup {w} /\ w \notin Ready
  BY DEF Ready, TypeOK
<1> QED
  BY <1>1, ReadyFinite, FS_AddElement

\* Taking a ready task leaves one fewer.
LEMMA OneFewerReady ==
  ASSUME FiniteWorkers, TypeOK, NEW w \in Workers, worker[w] = "ready",
         worker' = [worker EXCEPT ![w] = "working"]
  PROVE  Cardinality(Ready') = Cardinality(Ready) - 1
<1>1. Ready' = Ready \ {w} /\ w \in Ready
  BY DEF Ready, TypeOK
<1> QED
  BY <1>1, ReadyFinite, FS_RemoveElement

\* A worker goes to sleep only when nothing is queued; each other step adds free
\* workers, takes one together with a piece of work, or adds a piece of work
\* together with a worker, unless nobody is asleep.
LEMMA SleepersInductive ==
  ASSUME FiniteWorkers
  PROVE  TypeOK /\ SleepersNotNeeded /\ [Next]_poolVars => SleepersNotNeeded'
<1> SUFFICES ASSUME TypeOK, SleepersNotNeeded, [Next]_poolVars,
                    accepting', \E v \in Workers : worker'[v] = "waiting"
             PROVE  Len(workQueue') <= Cardinality(Ready')
  BY DEF SleepersNotNeeded
<1> USE DEF TypeOK
<1>r. Len(workQueue) \in Nat /\ Cardinality(Ready) \in Nat
  BY ReadyFinite, QueueFacts
<1>1. ASSUME NEW w \in Workers, Take(w) PROVE Len(workQueue') <= Cardinality(Ready')
  <2>1. CASE workQueue = <<>>
    <3>1. workQueue' = <<>> /\ Ready' = Ready \ {w}
      BY <1>1, <2>1 DEF Take, Ready
    <3>2. IsFiniteSet(Ready \ {w})
      BY ReadyFinite, FS_Subset
    <3> QED
      BY <3>1, <3>2, FS_CardinalityType
  <2>2. CASE workQueue # <<>>
    <3>1. /\ accepting /\ worker[w] = "ready"
          /\ workQueue' = Tail(workQueue)
          /\ worker' = [worker EXCEPT ![w] = "working"]
      BY <1>1, <2>2 DEF Take
    <3>2. \E v \in Workers : worker[v] = "waiting"
      BY <3>1
    <3>3. Len(workQueue) <= Cardinality(Ready)
      BY <3>1, <3>2 DEF SleepersNotNeeded
    <3>4. Cardinality(Ready') = Cardinality(Ready) - 1
      BY <3>1, OneFewerReady
    <3>5. Len(workQueue') = Len(workQueue) - 1
      BY <3>1, <2>2, QueueFacts
    <3> QED
      BY <1>r, <3>3, <3>4, <3>5
  <2> QED
    BY <2>1, <2>2
<1>2. ASSUME NEW w \in Workers, Finish(w) \/ WakeUp(w)
      PROVE  Len(workQueue') <= Cardinality(Ready')
  <2>1. /\ worker[w] # "ready"
        /\ worker' = [worker EXCEPT ![w] = "ready"]
        /\ UNCHANGED <<workQueue, accepting>>
    BY <1>2 DEF Finish, WakeUp
  <2>2. \E v \in Workers : worker[v] = "waiting"
    BY <2>1
  <2>3. Cardinality(Ready') = Cardinality(Ready) + 1
    BY <2>1, OneMoreReady
  <2>4. Len(workQueue) <= Cardinality(Ready)
    BY <2>1, <2>2 DEF SleepersNotNeeded
  <2> QED
    BY <1>r, <2>1, <2>3, <2>4
<1>3. ASSUME NEW f \in Works, Post(f) PROVE Len(workQueue') <= Cardinality(Ready')
  <2>1. \E v \in Workers : worker[v] = "waiting"
    BY <1>3 DEF Post
  <2>2. PICK w \in Workers : worker[w] = "waiting" /\ worker' = [worker EXCEPT ![w] = "ready"]
    BY <1>3, <2>1 DEF Post
  <2>3. Cardinality(Ready') = Cardinality(Ready) + 1
    BY <2>2, OneMoreReady
  <2>4. Len(workQueue') = Len(workQueue) + 1
    BY <1>3, QueueFacts DEF Post
  <2>5. Len(workQueue) <= Cardinality(Ready)
    BY <1>3, <2>1 DEF Post, SleepersNotNeeded
  <2> QED
    BY <1>r, <2>3, <2>4, <2>5
<1>4. CASE StopWorkers \/ JoinWorkers
  BY <1>4 DEF StopWorkers, JoinWorkers
<1>5. CASE UNCHANGED poolVars
  <2>1. Ready' = Ready /\ UNCHANGED <<workQueue, accepting, worker>>
    BY <1>5 DEF poolVars, Ready
  <2> QED
    BY <2>1 DEF SleepersNotNeeded
<1> QED
  BY <1>1, <1>2, <1>3, <1>4, <1>5 DEF Next

\* While a worker sleeps there is a free one for each piece of queued work, for
\* any number of workers: notifying one of them in post loses no wakeup.
THEOREM SleepersSafe ==
  ASSUME FiniteWorkers
  PROVE  Spec => []SleepersNotNeeded
<1>1. Init => SleepersNotNeeded
  BY DEF Init, SleepersNotNeeded
<1>2. TypeOK /\ SleepersNotNeeded /\ [Next]_poolVars => SleepersNotNeeded'
  BY SleepersInductive
<1> QED
  BY <1>1, <1>2, TypeCorrect, PTL DEF Spec

-----------------------------------------------------------------------------
\* JoinedIsQuiet needs to know that a pool that has joined accepts nothing.
JoinedInv == joined => ~accepting /\ \A w \in Workers : worker[w] = "exited"

\* When shutdown has joined the workers, none is left, and none comes back.
THEOREM JoinedSafe == Spec => []JoinedIsQuiet
<1>1. Init => JoinedInv
  BY DEF Init, JoinedInv
<1>2. TypeOK /\ JoinedInv /\ [Next]_poolVars => JoinedInv'
  <2> SUFFICES ASSUME TypeOK, JoinedInv, [Next]_poolVars PROVE JoinedInv'
    OBVIOUS
  <2> USE DEF JoinedInv, TypeOK
  <2>1. ASSUME NEW w \in Workers, Take(w) \/ Finish(w) \/ WakeUp(w) PROVE JoinedInv'
    BY <2>1 DEF Take, Finish, WakeUp
  <2>2. ASSUME NEW f \in Works, Post(f) PROVE JoinedInv'
    BY <2>2 DEF Post
  <2>3. CASE StopWorkers \/ JoinWorkers \/ UNCHANGED poolVars
    BY <2>3 DEF StopWorkers, JoinWorkers, poolVars
  <2> QED
    BY <2>1, <2>2, <2>3 DEF Next
<1>3. JoinedInv => JoinedIsQuiet
  BY DEF JoinedInv, JoinedIsQuiet
<1> QED
  BY <1>1, <1>2, <1>3, TypeCorrect, PTL DEF Spec
=============================================================================
