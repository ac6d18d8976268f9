----------------------- MODULE ProblemManager_proofs ------------------------
(***************************************************************************)
(* Proofs about ProblemManager for any numbers of problems, threads,       *)
(* connections and answer callbacks, and any limits and retry timing.      *)
(*                                                                         *)
(* First the control of the threads, the slots, the requests, the timer    *)
(* and the queue of request types.  Then where problems and answer         *)
(* callbacks are kept: each action is reduced to what it moves (the        *)
(* ...Moves lemmas), and the invariants are kept move by move: what is     *)
(* carried (CarryInv), where answer callbacks are (FetchAt), where         *)
(* problems are (Placed) and what their records say (Recorded).            *)
(***************************************************************************)
EXTENDS ProblemManager, FiniteSetTheorems, SequenceTheorems, TLAPS

USE DEF LimitsAssumption, NamesAssumption

-----------------------------------------------------------------------------
(***************************************************************************)
(* Where threads are.  A thread in the part of a callback that comes       *)
(* before requestComplete owes that call; an idle thread and one in a call *)
(* that no callback makes owe none.                                        *)
(***************************************************************************)
CallbackPcs ==
  {"stop", "update", "cancelcheck", "pushcancel", "requeue", "retry", "fail",
   "resubmit", "recancel", "deliver", "complete"}
CallPcs == {"idle", "return", "readd"}

ControlInv ==
  /\ pc \in [Everyone -> Pcs]
  /\ owed \subseteq Everyone
  /\ \A t \in Everyone : pc[t] \in CallbackPcs => t \in owed
  /\ \A t \in Everyone : pc[t] \in CallPcs => t \notin owed

\* processRequestQueue returns to requestComplete exactly in a callback that owes it.
LEMMA ReturnedPc ==
  ASSUME NEW t
  PROVE  /\ Returned(t) \in {"complete", "return", "idle"}
         /\ Returned(t) = "complete" <=> t \in owed
  BY DEF Returned

\* A step in which one thread moves and owed stays the same.
LEMMA MoveKeepsControl ==
  ASSUME ControlInv, NEW t \in Everyone, NEW label \in Pcs, Goto(t, label),
         label \in CallbackPcs => t \in owed,
         label \in CallPcs => t \notin owed,
         owed' = owed
  PROVE  ControlInv'
  BY DEF ControlInv, Goto

\* Every step inside the manager's code keeps the control invariant.
LEMMA StepKeepsControl ==
  ASSUME ControlInv, NEW t \in Everyone, Step(t)
  PROVE  ControlInv'
  <1> USE DEF At, Pcs, SenderPcs
  <1>1. CASE Enter(t)
    BY <1>1, MoveKeepsControl, ReturnedPc DEF Enter, Loop, CallbackPcs, CallPcs
  <1>2. CASE TakeProblems(t)
    BY <1>2, MoveKeepsControl DEF TakeProblems, CallbackPcs, CallPcs
  <1>3. CASE TakeCancels(t)
    BY <1>3, MoveKeepsControl DEF TakeCancels, CallbackPcs, CallPcs
  <1>4. CASE TakeFetch(t)
    BY <1>4, MoveKeepsControl DEF TakeFetch, CallbackPcs, CallPcs
  <1>5. CASE Issue(t)
    BY <1>5, MoveKeepsControl DEF Issue, CallbackPcs, CallPcs
  <1>6. CASE Sent(t)
    BY <1>6, MoveKeepsControl, ReturnedPc DEF Sent, Loop, CallbackPcs, CallPcs
  <1>7. CASE Unsent(t)
    BY <1>7, MoveKeepsControl, ReturnedPc DEF Unsent, Loop, CallbackPcs, CallPcs
  <1>20. pc[t] \in CallbackPcs => t \in owed
    BY DEF ControlInv
  <1>8. CASE StopRetrying(t)
    BY <1>8, <1>20, MoveKeepsControl DEF StopRetrying, CallbackPcs, CallPcs
  <1>9. CASE RetryFailedRequest(t)
    BY <1>9, <1>20, MoveKeepsControl DEF RetryFailedRequest, CallbackPcs, CallPcs
  <1>10. CASE StatusComplete(t)
    BY <1>10, <1>20, MoveKeepsControl DEF StatusComplete, CallbackPcs, CallPcs
  <1>11. CASE FailProblems(t)
    BY <1>11, <1>20, MoveKeepsControl DEF FailProblems, CallbackPcs, CallPcs
  <1>12. CASE CheckCancelled(t)
    BY <1>12, <1>20, MoveKeepsControl DEF CheckCancelled, CallbackPcs, CallPcs
  <1>13. CASE PushCancel(t)
    BY <1>13, <1>20, MoveKeepsControl DEF PushCancel, CallbackPcs, CallPcs
  <1>14. CASE QueueActive(t)
    BY <1>14, <1>20, MoveKeepsControl DEF QueueActive, CallbackPcs, CallPcs
  <1>15. CASE RetrySubmit(t)
    BY <1>15, MoveKeepsControl DEF RetrySubmit, CallbackPcs, CallPcs
  <1>16. CASE RetryCancel(t)
    BY <1>16, MoveKeepsControl DEF RetryCancel, CallbackPcs, CallPcs
  <1>17. CASE FetchAnswer(t)
    BY <1>17, MoveKeepsControl DEF FetchAnswer, CallbackPcs, CallPcs
  <1>18. CASE DeliverAnswer(t)
    BY <1>18, <1>20, MoveKeepsControl DEF DeliverAnswer, CallbackPcs, CallPcs
  <1>19. CASE Push(t)
    BY <1>19, MoveKeepsControl DEF Push, CallbackPcs, CallPcs
  <1>21. CASE AddSubmittedProblem(t)
    BY <1>21, MoveKeepsControl DEF AddSubmittedProblem, CallbackPcs, CallPcs
  <1>22. CASE RequestComplete(t)
    BY <1>22 DEF RequestComplete, ControlInv, Goto, CallbackPcs, CallPcs
  <1> QED
    BY <1>1, <1>2, <1>3, <1>4, <1>5, <1>6, <1>7, <1>8, <1>9, <1>10, <1>11, <1>12, <1>13,
       <1>14, <1>15, <1>16, <1>17, <1>18, <1>19, <1>21, <1>22 DEF Step

\* So do calls, replies and the timer's thread.
LEMMA NextKeepsControl ==
  ASSUME ControlInv, [Next]_vars
  PROVE  ControlInv'
  <1>1. CASE \E t \in Everyone : Step(t)
    BY <1>1, StepKeepsControl
  <1>2. CASE UserCall
    <2> USE DEF At, Pcs, SenderPcs, CallbackPcs, CallPcs
    <2>1. CASE \E t \in Threads, p \in Problems : Submit(t, p) \/ Add(t, p) \/ Retry(t, p)
      <3> PICK t \in Threads, p \in Problems : Submit(t, p) \/ Add(t, p) \/ Retry(t, p)
        BY <2>1
      <3>1. t \in Everyone /\ (pc[t] = "idle" => t \notin owed)
        BY DEF Everyone, ControlInv
      <3>2. CASE Submit(t, p)
        BY <3>1, <3>2, MoveKeepsControl DEF Submit
      <3>3. CASE Add(t, p)
        BY <3>1, <3>3, MoveKeepsControl DEF Add
      <3>4. CASE Retry(t, p)
        BY <3>1, <3>4, MoveKeepsControl DEF Retry
      <3> QED
        BY <3>2, <3>3, <3>4
    <2>2. CASE \E t \in Threads, p \in Problems, f \in Fetches : Answer(t, p, f)
      <3> PICK t \in Threads, p \in Problems, f \in Fetches : Answer(t, p, f)
        BY <2>2
      <3>1. t \in Everyone
        BY DEF Everyone
      <3>2. CASE Answerable(prob[p])
        BY <3>1, <3>2, MoveKeepsControl DEF Answer
      <3>3. CASE ~Answerable(prob[p])
        BY <3>3 DEF Answer, ControlInv
      <3> QED
        BY <3>2, <3>3
    <2>3. CASE \E p \in Problems : Cancel(p) \/ Drop(p)
      BY <2>3 DEF Cancel, Drop, ControlInv
    <2> QED
      BY <1>2, <2>1, <2>2, <2>3 DEF UserCall
  <1>3. CASE ServiceReply
    <2> PICK t \in Threads, c \in Conns, outcome \in {"ok", "network", "other"} :
             Reply(t, c, outcome)
      BY <1>3 DEF ServiceReply
    <2>1. t \in Everyone /\ owed' = owed \cup {t}
      BY DEF Everyone, Reply
    <2>2. PICK label \in {"retry", "fail", "stop"} : pc' = [pc EXCEPT ![t] = label]
      BY DEF Reply, Goto
    <2> QED
      BY <2>1, <2>2 DEF ControlInv, Pcs, SenderPcs, CallbackPcs, CallPcs
  <1>4. CASE AsioStep
    BY <1>4 DEF AsioStep, ControlInv
  <1>5. CASE RetryNotification
    BY <1>5, MoveKeepsControl
       DEF RetryNotification, Everyone, Pcs, SenderPcs, CallbackPcs, CallPcs
  <1>6. CASE NotificationReturns
    <2>1. Io \in Everyone /\ Io \notin owed
      BY <1>6 DEF NotificationReturns, At, Everyone, ControlInv, CallPcs
    <2> QED
      BY <1>6, <2>1, MoveKeepsControl
         DEF NotificationReturns, Pcs, SenderPcs, CallbackPcs, CallPcs
  <1>7. CASE UNCHANGED vars
    BY <1>7 DEF vars, ControlInv
  <1> QED
    BY <1>1, <1>2, <1>3, <1>4, <1>5, <1>6, <1>7 DEF Next

\* The control invariant holds throughout.
LEMMA ControlHolds == Spec => []ControlInv
  <1>1. Init => ControlInv
    BY DEF Init, ControlInv, Pcs, SenderPcs, CallbackPcs, CallPcs
  <1> QED
    BY <1>1, NextKeepsControl, PTL DEF Spec

-----------------------------------------------------------------------------
(***************************************************************************)
(* Slots.  Every step either leaves the four terms of SlotsAccounted alone *)
(* or moves one slot from one term to another.                             *)
(***************************************************************************)
SlotInv ==
  /\ available \in Nat
  /\ IsFiniteSet(DOMAIN inflight)
  /\ SlotsAccounted

\* Threads, senders and callbacks can be counted.
LEMMA FiniteActors ==
  ASSUME ControlInv
  PROVE  /\ IsFiniteSet(Everyone)
         /\ IsFiniteSet(Senders) /\ Cardinality(Senders) \in Nat
         /\ IsFiniteSet(owed) /\ Cardinality(owed) \in Nat
  <1>1. IsFiniteSet(Everyone)
    BY NamesAssumption, FS_AddElement DEF Everyone
  <1>2. Senders \subseteq Everyone /\ owed \subseteq Everyone
    BY DEF Senders, ControlInv
  <1> QED
    BY <1>1, <1>2, FS_Subset, FS_CardinalityType

\* A thread that moves without becoming or ceasing to be a sender.
LEMMA SendersStay ==
  ASSUME ControlInv, NEW t \in Everyone, NEW label, Goto(t, label),
         pc[t] \in SenderPcs <=> label \in SenderPcs
  PROVE  Senders' = Senders
  BY DEF ControlInv, Goto, Senders

\* A thread that becomes a sender, or ceases to be one.
LEMMA SenderStarts ==
  ASSUME ControlInv, NEW t \in Everyone, NEW label \in SenderPcs, Goto(t, label),
         pc[t] \notin SenderPcs
  PROVE  /\ Cardinality(Senders') = Cardinality(Senders) + 1
  <1>1. Senders' = Senders \cup {t} /\ t \notin Senders
    BY DEF ControlInv, Goto, Senders
  <1> QED
    BY <1>1, FiniteActors, FS_AddElement

\* The converse: one sender fewer.
LEMMA SenderStops ==
  ASSUME ControlInv, NEW t \in Everyone, NEW label, label \notin SenderPcs, Goto(t, label),
         pc[t] \in SenderPcs
  PROVE  /\ Cardinality(Senders') = Cardinality(Senders) - 1
  <1>1. Senders' = Senders \ {t} /\ t \in Senders
    BY DEF ControlInv, Goto, Senders
  <1> QED
    BY <1>1, FiniteActors, FS_RemoveElement

\* The loop's head, with one more free slot than before or the same number.
LEMMA LoopKeepsSlots ==
  ASSUME ControlInv, SlotInv, NEW t \in Everyone, NEW free \in Nat, Loop(t, free),
         UNCHANGED <<inflight, owed>>,
         \/ free = available /\ pc[t] \notin SenderPcs
         \/ free = available + 1 /\ pc[t] \in SenderPcs
  PROVE  SlotInv'
  <1>. DEFINE others == Cardinality(DOMAIN inflight) + Cardinality(owed)
  <1>1. /\ Cardinality(Senders) \in Nat /\ Cardinality(owed) \in Nat
        /\ Cardinality(DOMAIN inflight) \in Nat
    BY FiniteActors, FS_CardinalityType DEF SlotInv
  <1>2. Returned(t) \notin SenderPcs /\ "take" \in SenderPcs
    BY ReturnedPc DEF SenderPcs
  <1>3. CASE free > 0 /\ requestQueue # <<>>
    <2>1. available' = free - 1 /\ available' \in Nat /\ Goto(t, "take")
      BY <1>3 DEF Loop
    <2>2. CASE pc[t] \in SenderPcs
      BY <1>1, <1>2, <2>1, <2>2, SendersStay DEF SlotInv, SlotsAccounted
    <2>3. CASE pc[t] \notin SenderPcs
      BY <1>1, <1>2, <2>1, <2>3, SenderStarts DEF SlotInv, SlotsAccounted
    <2> QED
      BY <2>2, <2>3
  <1>4. CASE ~(free > 0 /\ requestQueue # <<>>)
    <2>1. available' = free /\ Goto(t, Returned(t))
      BY <1>4 DEF Loop
    <2>2. CASE pc[t] \in SenderPcs
      BY <1>1, <1>2, <2>1, <2>2, SenderStops DEF SlotInv, SlotsAccounted
    <2>3. CASE pc[t] \notin SenderPcs
      BY <1>1, <1>2, <2>1, <2>3, SendersStay DEF SlotInv, SlotsAccounted
    <2> QED
      BY <2>2, <2>3
  <1> QED
    BY <1>3, <1>4

\* A step that touches no slot.
LEMMA QuietStep ==
  ASSUME ControlInv, SlotInv, NEW t \in Everyone, NEW label, Goto(t, label),
         pc[t] \in SenderPcs <=> label \in SenderPcs,
         UNCHANGED <<available, inflight, owed>>
  PROVE  SlotInv'
  BY SendersStay DEF SlotInv, SlotsAccounted

\* Issue: the sender's slot becomes the open request's, on a fresh connection.
LEMMA IssueKeepsSlots ==
  ASSUME ControlInv, SlotInv, NEW t \in Everyone, Issue(t)
  PROVE  SlotInv'
  <1>1. /\ Cardinality(Senders) \in Nat /\ Cardinality(owed) \in Nat
        /\ Cardinality(DOMAIN inflight) \in Nat
    BY FiniteActors, FS_CardinalityType DEF SlotInv
  <1>2. "sent" \notin SenderPcs /\ "unsent" \in SenderPcs /\ pc[t] \in SenderPcs
    BY DEF SenderPcs, Issue, At
  <1>3. CASE Sendable(out[t])
    <2> DEFINE c == FreeConn
    <2>0. c \notin DOMAIN inflight /\ DOMAIN inflight' = DOMAIN inflight \cup {c}
      BY <1>3 DEF Issue, Open, FreeConn
    <2> HIDE DEF c
    <2>1. DOMAIN inflight' = DOMAIN inflight \cup {c}
      BY <2>0
    <2>2. /\ IsFiniteSet(DOMAIN inflight')
          /\ Cardinality(DOMAIN inflight') = Cardinality(DOMAIN inflight) + 1
      BY <2>0, <2>1, FS_AddElement DEF SlotInv
    <2>3. Goto(t, "sent") /\ UNCHANGED <<available, owed>>
      BY <1>3 DEF Issue
    <2>4. Cardinality(Senders') = Cardinality(Senders) - 1
      BY <1>2, <2>3, SenderStops
    <2> QED
      BY <1>1, <2>2, <2>3, <2>4 DEF SlotInv, SlotsAccounted
  <1>4. CASE ~Sendable(out[t])
    BY <1>2, <1>4, QuietStep DEF Issue
  <1> QED
    BY <1>3, <1>4

\* requestComplete: the callback's slot becomes free.
LEMMA CompleteKeepsSlots ==
  ASSUME ControlInv, SlotInv, NEW t \in Everyone, RequestComplete(t)
  PROVE  SlotInv'
  <1>1. /\ Cardinality(Senders) \in Nat /\ Cardinality(DOMAIN inflight) \in Nat
    BY FiniteActors, FS_CardinalityType DEF SlotInv
  <1>2. t \in owed
    BY DEF RequestComplete, At, ControlInv, CallbackPcs
  <1>3. Cardinality(owed') = Cardinality(owed) - 1 /\ Cardinality(owed) \in Nat
    BY <1>2, FiniteActors, FS_RemoveElement DEF RequestComplete
  <1>4. Senders' = Senders
    BY SendersStay DEF RequestComplete, At, SenderPcs
  <1> QED
    BY <1>1, <1>3, <1>4 DEF RequestComplete, SlotInv, SlotsAccounted

\* Every step inside the manager's code keeps the count of slots.
LEMMA StepKeepsSlots ==
  ASSUME ControlInv, SlotInv, NEW t \in Everyone, Step(t)
  PROVE  SlotInv'
  <1> USE DEF At, SenderPcs
  <1>0. available \in Nat /\ available + 1 \in Nat
    BY DEF SlotInv
  <1>1. CASE Enter(t)
    <2>1. CASE retryState = "WAITING_TO_RETRY"
      BY <1>1, <2>1, QuietStep, ReturnedPc DEF Enter
    <2>2. CASE retryState # "WAITING_TO_RETRY"
      BY <1>0, <1>1, <2>2, LoopKeepsSlots DEF Enter
    <2> QED
      BY <2>1, <2>2
  <1>2. CASE TakeProblems(t)
    BY <1>2, QuietStep DEF TakeProblems, queueVars
  <1>3. CASE TakeCancels(t)
    BY <1>3, QuietStep DEF TakeCancels, queueVars
  <1>4. CASE TakeFetch(t)
    BY <1>4, QuietStep DEF TakeFetch, queueVars
  <1>5. CASE Issue(t)
    BY <1>5, IssueKeepsSlots
  <1>6. CASE Sent(t)
    BY <1>0, <1>6, LoopKeepsSlots DEF Sent
  <1>7. CASE Unsent(t)
    BY <1>0, <1>7, LoopKeepsSlots DEF Unsent
  <1>8. CASE StopRetrying(t)
    BY <1>8, QuietStep DEF StopRetrying
  <1>9. CASE RetryFailedRequest(t)
    BY <1>9, QuietStep DEF RetryFailedRequest
  <1>10. CASE StatusComplete(t)
    BY <1>10, QuietStep DEF StatusComplete, queueVars
  <1>11. CASE FailProblems(t)
    BY <1>11, QuietStep DEF FailProblems, queueVars
  <1>12. CASE CheckCancelled(t)
    BY <1>12, QuietStep DEF CheckCancelled, queueVars
  <1>13. CASE PushCancel(t)
    BY <1>13, QuietStep DEF PushCancel
  <1>14. CASE QueueActive(t)
    BY <1>14, QuietStep DEF QueueActive
  <1>15. CASE RetrySubmit(t)
    BY <1>15, QuietStep DEF RetrySubmit, queueVars
  <1>16. CASE RetryCancel(t)
    BY <1>16, QuietStep DEF RetryCancel, queueVars
  <1>17. CASE FetchAnswer(t)
    BY <1>17, QuietStep DEF FetchAnswer, queueVars
  <1>18. CASE DeliverAnswer(t)
    BY <1>18, QuietStep DEF DeliverAnswer, queueVars
  <1>19. CASE Push(t)
    BY <1>19, QuietStep DEF Push
  <1>20. CASE AddSubmittedProblem(t)
    BY <1>20, QuietStep DEF AddSubmittedProblem, queueVars
  <1>21. CASE RequestComplete(t)
    BY <1>21, CompleteKeepsSlots
  <1> QED
    BY <1>1, <1>2, <1>3, <1>4, <1>5, <1>6, <1>7, <1>8, <1>9, <1>10, <1>11, <1>12, <1>13,
       <1>14, <1>15, <1>16, <1>17, <1>18, <1>19, <1>20, <1>21 DEF Step

\* A callback starts: the open request's slot becomes the callback's.
LEMMA ReplyKeepsSlots ==
  ASSUME ControlInv, SlotInv, ServiceReply
  PROVE  SlotInv'
  <1> PICK t \in Threads, c \in Conns, outcome \in {"ok", "network", "other"} :
           Reply(t, c, outcome)
    BY DEF ServiceReply
  <1>1. t \in Everyone /\ t \notin owed /\ pc[t] = "idle"
    BY DEF Everyone, Reply, At, ControlInv, CallPcs
  <1>2. DOMAIN inflight' = DOMAIN inflight \ {c} /\ c \in DOMAIN inflight
    BY DEF Reply
  <1>3. /\ IsFiniteSet(DOMAIN inflight')
        /\ Cardinality(DOMAIN inflight') = Cardinality(DOMAIN inflight) - 1
        /\ Cardinality(DOMAIN inflight) \in Nat
    BY <1>2, FS_RemoveElement, FS_CardinalityType DEF SlotInv
  <1>4. Cardinality(owed') = Cardinality(owed) + 1 /\ Cardinality(owed) \in Nat
    BY <1>1, FiniteActors, FS_AddElement DEF Reply
  <1>5. PICK label \in {"retry", "fail", "stop"} : Goto(t, label)
    BY DEF Reply
  <1>6. Senders' = Senders /\ Cardinality(Senders) \in Nat
    BY <1>1, <1>5, SendersStay, FiniteActors DEF SenderPcs
  <1>7. available' = available
    BY DEF Reply, queueVars
  <1> QED
    BY <1>3, <1>4, <1>6, <1>7 DEF SlotInv, SlotsAccounted

\* So do calls, replies and the timer's thread.
LEMMA NextKeepsSlots ==
  ASSUME ControlInv, SlotInv, [Next]_vars
  PROVE  SlotInv'
  <1> USE DEF At, SenderPcs, queueVars
  <1>1. CASE \E t \in Everyone : Step(t)
    BY <1>1, StepKeepsSlots
  <1>2. CASE UserCall
    <2>1. CASE \E t \in Threads, p \in Problems : Submit(t, p) \/ Add(t, p) \/ Retry(t, p)
      <3> PICK t \in Threads, p \in Problems : Submit(t, p) \/ Add(t, p) \/ Retry(t, p)
        BY <2>1
      <3>1. t \in Everyone
        BY DEF Everyone
      <3>2. PICK label \in {"push", "readd"} : Goto(t, label)
        BY DEF Submit, Add, Retry
      <3>3. pc[t] = "idle" /\ UNCHANGED <<available, inflight, owed>>
        BY DEF Submit, Add, Retry
      <3> QED
        BY <3>1, <3>2, <3>3, QuietStep
    <2>2. CASE \E t \in Threads, p \in Problems, f \in Fetches : Answer(t, p, f)
      <3> PICK t \in Threads, p \in Problems, f \in Fetches : Answer(t, p, f)
        BY <2>2
      <3>1. t \in Everyone /\ pc[t] = "idle" /\ UNCHANGED <<available, inflight, owed>>
        BY DEF Everyone, Answer
      <3>2. CASE Answerable(prob[p])
        BY <3>1, <3>2, QuietStep DEF Answer
      <3>3. CASE ~Answerable(prob[p])
        BY <3>1, <3>3 DEF Answer, SlotInv, SlotsAccounted, Senders
      <3> QED
        BY <3>2, <3>3
    <2>3. CASE \E p \in Problems : Cancel(p) \/ Drop(p)
      BY <2>3 DEF Cancel, Drop, SlotInv, SlotsAccounted, Senders
    <2> QED
      BY <1>2, <2>1, <2>2, <2>3 DEF UserCall
  <1>3. CASE ServiceReply
    BY <1>3, ReplyKeepsSlots
  <1>4. CASE AsioStep
    BY <1>4 DEF AsioStep, SlotInv, SlotsAccounted, Senders
  <1>5. CASE RetryNotification
    BY <1>5, QuietStep DEF RetryNotification, Everyone
  <1>6. CASE NotificationReturns
    BY <1>6, QuietStep DEF NotificationReturns, Everyone
  <1>7. CASE UNCHANGED vars
    BY <1>7 DEF vars, SlotInv, SlotsAccounted, Senders
  <1> QED
    BY <1>1, <1>2, <1>3, <1>4, <1>5, <1>6, <1>7 DEF Next

\* The count of slots is right throughout.
LEMMA SlotInvHolds == Spec => []SlotInv
  <1>1. Init => SlotInv
    <2> SUFFICES ASSUME Init PROVE SlotInv
      OBVIOUS
    <2>1. DOMAIN inflight = {} /\ Senders = {} /\ owed = {}
      BY DEF Init, Senders, SenderPcs
    <2>2. IsFiniteSet({}) /\ Cardinality({}) = 0
      BY FS_EmptySet
    <2>3. available = MaxActiveRequests /\ available \in Nat
      BY LimitsAssumption DEF Init
    <2> QED
      BY <2>1, <2>2, <2>3 DEF SlotInv, SlotsAccounted
  <1> QED
    BY <1>1, NextKeepsSlots, ControlHolds, PTL DEF Spec

\* No interleaving of calls, replies and retries loses or invents a request slot.
THEOREM SlotsSafe == Spec => []SlotsAccounted
  <1>1. SlotInv => SlotsAccounted
    BY DEF SlotInv
  <1> QED
    BY <1>1, SlotInvHolds, PTL

\* What MaxActiveRequests promises.
OpenRequestsBounded == Cardinality(DOMAIN inflight) <= MaxActiveRequests

\* Hence the server never has more than MaxActiveRequests requests of this
\* manager open at once, whatever threads, replies and retries do.
THEOREM RequestsBounded == Spec => []OpenRequestsBounded
  <1>1. ControlInv /\ SlotInv => OpenRequestsBounded
    BY FiniteActors, FS_CardinalityType, LimitsAssumption
       DEF SlotInv, SlotsAccounted, OpenRequestsBounded
  <1> QED
    BY <1>1, ControlHolds, SlotInvHolds, PTL

-----------------------------------------------------------------------------
(***************************************************************************)
(* No queued request is forgotten.  A step either leaves its thread at     *)
(* work, or the thread leaves processRequestQueue for one of the reasons   *)
(* QueueServed allows.                                                     *)
(***************************************************************************)
LEMMA BusyServes ==
  ASSUME ControlInv, NEW t \in Everyone, NEW label, label \notin {"idle", "return"},
         Goto(t, label)
  PROVE  QueueServed'
  BY DEF ControlInv, Goto, QueueServed, Busy

\* The loop's head is left only when nothing is queued or no slot is free.
LEMMA LoopServes ==
  ASSUME ControlInv, NEW t \in Everyone, NEW free \in Nat, Loop(t, free)
  PROVE  QueueServed'
  <1>1. CASE free > 0 /\ requestQueue # <<>>
    BY <1>1, BusyServes DEF Loop
  <1>2. CASE ~(free > 0 /\ requestQueue # <<>>)
    BY <1>2 DEF Loop, QueueServed
  <1> QED
    BY <1>1, <1>2

\* Every step inside the manager's code leaves a queue that can be served served.
LEMMA StepServes ==
  ASSUME ControlInv, SlotInv, NEW t \in Everyone, Step(t)
  PROVE  QueueServed'
  <1>0. available \in Nat /\ available + 1 \in Nat
    BY DEF SlotInv
  <1>1. CASE Enter(t)
    <2>1. CASE retryState = "WAITING_TO_RETRY"
      BY <1>1, <2>1 DEF Enter, QueueServed
    <2>2. CASE retryState # "WAITING_TO_RETRY"
      BY <1>0, <1>1, <2>2, LoopServes DEF Enter
    <2> QED
      BY <2>1, <2>2
  <1>2. CASE TakeProblems(t) \/ TakeCancels(t) \/ TakeFetch(t)
    BY <1>2, BusyServes DEF TakeProblems, TakeCancels, TakeFetch
  <1>3. CASE Issue(t)
    BY <1>3, BusyServes DEF Issue
  <1>4. CASE Sent(t) \/ Unsent(t)
    BY <1>0, <1>4, LoopServes DEF Sent, Unsent
  <1>5. CASE StopRetrying(t) \/ RetryFailedRequest(t)
    BY <1>5, BusyServes DEF StopRetrying, RetryFailedRequest
  <1>6. CASE StatusComplete(t)
    <2>1. PICK label \in {"complete", "cancelcheck"} : Goto(t, label)
      BY <1>6 DEF StatusComplete
    <2> QED
      BY <2>1, BusyServes
  <1>7. CASE FailProblems(t) \/ CheckCancelled(t) \/ PushCancel(t) \/ QueueActive(t)
    BY <1>7, BusyServes DEF FailProblems, CheckCancelled, PushCancel, QueueActive
  <1>8. CASE RetrySubmit(t) \/ RetryCancel(t) \/ FetchAnswer(t) \/ DeliverAnswer(t)
    BY <1>8, BusyServes DEF RetrySubmit, RetryCancel, FetchAnswer, DeliverAnswer
  <1>9. CASE Push(t) \/ AddSubmittedProblem(t) \/ RequestComplete(t)
    BY <1>9, BusyServes DEF Push, AddSubmittedProblem, RequestComplete
  <1> QED
    BY <1>1, <1>2, <1>3, <1>4, <1>5, <1>6, <1>7, <1>8, <1>9 DEF Step

\* Outside a retry wait, a queued request with a free slot always has a thread
\* that is on its way to processRequestQueue.
THEOREM QueueServedSafe == Spec => []QueueServed
  <1>1. Init => QueueServed
    BY DEF Init, QueueServed
  <1>2. ControlInv /\ SlotInv /\ QueueServed /\ [Next]_vars => QueueServed'
    <2> SUFFICES ASSUME ControlInv, SlotInv, QueueServed, [Next]_vars PROVE QueueServed'
      OBVIOUS
    <2>1. CASE \E t \in Everyone : Step(t)
      BY <2>1, StepServes
    <2>2. CASE UserCall
      <3>1. CASE \E t \in Threads, p \in Problems : Submit(t, p) \/ Add(t, p) \/ Retry(t, p)
        BY <3>1, BusyServes DEF Submit, Add, Retry, Everyone
      <3>2. CASE \E t \in Threads, p \in Problems, f \in Fetches : Answer(t, p, f)
        <4> PICK t \in Threads, p \in Problems, f \in Fetches : Answer(t, p, f)
          BY <3>2
        <4>1. CASE Answerable(prob[p])
          BY <4>1, BusyServes DEF Answer, Everyone
        <4>2. CASE ~Answerable(prob[p])
          BY <4>2 DEF Answer, QueueServed, Busy, queueVars
        <4> QED
          BY <4>1, <4>2
      <3>3. CASE \E p \in Problems : Cancel(p) \/ Drop(p)
        BY <3>3 DEF Cancel, Drop, QueueServed, Busy, queueVars
      <3> QED
        BY <2>2, <3>1, <3>2, <3>3 DEF UserCall
    <2>3. CASE ServiceReply
      <3> PICK t \in Threads, c \in Conns, outcome \in {"ok", "network", "other"} :
               Reply(t, c, outcome)
        BY <2>3 DEF ServiceReply
      <3>1. PICK label \in {"retry", "fail", "stop"} : Goto(t, label)
        BY DEF Reply
      <3> QED
        BY <3>1, BusyServes DEF Everyone
    <2>4. CASE AsioStep
      BY <2>4 DEF AsioStep, QueueServed, Busy, queueVars
    <2>5. CASE RetryNotification
      BY <2>5, BusyServes DEF RetryNotification, Everyone
    <2>6. CASE NotificationReturns
      BY <2>6 DEF NotificationReturns, QueueServed, Busy, queueVars, At, Goto, ControlInv, Everyone
    <2>7. CASE UNCHANGED vars
      BY <2>7 DEF vars, QueueServed, Busy
    <2> QED
      BY <2>1, <2>2, <2>3, <2>4, <2>5, <2>6, <2>7 DEF Next
  <1> QED
    BY <1>1, <1>2, ControlHolds, SlotInvHolds, PTL DEF Spec

-----------------------------------------------------------------------------
(***************************************************************************)
(* The manager and its timer.                                              *)
(***************************************************************************)
\* Which steps touch the timer or the retry state, and how.
LEMMA TimerSteps ==
  ASSUME [Next]_vars
  PROVE  \/ UNCHANGED <<timerVars, retryState>>
         \/ UNCHANGED timerVars /\ retryState' \in {retryState, "RETRY_NOW", "WAITING_TO_RETRY"}
                                /\ (retryState = "NO_RETRY" \/ retryState' # "NO_RETRY")
         \/ Timer!Success /\ retryState' = "NO_RETRY"
         \/ \E t \in Everyone : RetryFailedRequest(t)
         \/ (Timer!Expire \/ Timer!TimerExpired \/ Timer!NotifyReturn) /\ UNCHANGED retryState
  <1> USE DEF queueVars
  <1>1. CASE \E t \in Everyone : Step(t)
    <2> PICK t \in Everyone : Step(t)
      BY <1>1
    <2>1. CASE Enter(t) \/ TakeProblems(t) \/ TakeCancels(t) \/ TakeFetch(t) \/ Issue(t) \/ Unsent(t)
      BY <2>1 DEF Enter, TakeProblems, TakeCancels, TakeFetch, Issue, Unsent
    <2>2. CASE Sent(t)
      BY <2>2 DEF Sent
    <2>3. CASE StopRetrying(t)
      BY <2>3 DEF StopRetrying
    <2>4. CASE RetryFailedRequest(t)
      BY <2>4
    <2>5. CASE StatusComplete(t) \/ FailProblems(t) \/ CheckCancelled(t) \/ PushCancel(t)
      BY <2>5 DEF StatusComplete, FailProblems, CheckCancelled, PushCancel
    <2>6. CASE QueueActive(t) \/ RetrySubmit(t) \/ RetryCancel(t) \/ FetchAnswer(t)
      BY <2>6 DEF QueueActive, RetrySubmit, RetryCancel, FetchAnswer
    <2>7. CASE DeliverAnswer(t) \/ Push(t) \/ AddSubmittedProblem(t) \/ RequestComplete(t)
      BY <2>7 DEF DeliverAnswer, Push, AddSubmittedProblem, RequestComplete
    <2> QED
      BY <2>1, <2>2, <2>3, <2>4, <2>5, <2>6, <2>7 DEF Step
  <1>2. CASE UserCall
    BY <1>2, ZenonT(60) DEF UserCall, Submit, Add, Retry, Answer, Cancel, Drop
  <1>3. CASE ServiceReply
    BY <1>3 DEF ServiceReply, Reply
  <1>4. CASE AsioStep
    BY <1>4 DEF AsioStep
  <1>5. CASE RetryNotification
    BY <1>5 DEF RetryNotification
  <1>6. CASE NotificationReturns
    BY <1>6 DEF NotificationReturns
  <1>7. CASE UNCHANGED vars
    BY <1>7 DEF vars, timerVars
  <1> QED
    BY <1>1, <1>2, <1>3, <1>4, <1>5, <1>6, <1>7 DEF Next

\* Every behaviour of the manager is, seen from its timer, a behaviour of
\* RetryTimer.
THEOREM ImplementsTimer == Spec => TimerSpec
  <1>1. Init => Timer!Init
    BY DEF Init
  <1>2. [Next]_vars => [Timer!Next]_(Timer!timerVars)
    <2> SUFFICES ASSUME [Next]_vars PROVE [Timer!Next]_(Timer!timerVars)
      OBVIOUS
    <2>1. CASE UNCHANGED timerVars
      BY <2>1 DEF timerVars, Timer!timerVars
    <2>2. CASE \E t \in Everyone : RetryFailedRequest(t)
      BY <2>2 DEF RetryFailedRequest, Timer!Next
    <2> QED
      BY <2>1, <2>2, TimerSteps DEF Timer!Next
  <1> QED
    BY <1>1, <1>2, PTL DEF Spec, TimerSpec, Timer!Spec

FreshTimerInv == present = TRUE /\ NoRetryMeansFreshTimer

\* The timer is as new outside a retry wait, and it is never shut down here.
LEMMA FreshTimerHolds == Spec => []FreshTimerInv
  <1>1. Init => FreshTimerInv
    BY DEF Init, Timer!Init, FreshTimerInv, NoRetryMeansFreshTimer
  <1>2. FreshTimerInv /\ [Next]_vars => FreshTimerInv'
    <2> SUFFICES ASSUME FreshTimerInv, [Next]_vars PROVE FreshTimerInv'
      OBVIOUS
    <2> USE DEF FreshTimerInv, NoRetryMeansFreshTimer
    <2>1. CASE UNCHANGED timerVars /\ (retryState = "NO_RETRY" \/ retryState' # "NO_RETRY")
      BY <2>1 DEF timerVars
    <2>2. CASE UNCHANGED <<timerVars, retryState>>
      BY <2>2 DEF timerVars
    <2>3. CASE Timer!Success /\ retryState' = "NO_RETRY"
      BY <2>3 DEF Timer!Success
    <2>4. CASE \E t \in Everyone : RetryFailedRequest(t)
      <3>1. Timer!RetryAction # "SHUTDOWN"
        BY DEF Timer!RetryAction
      <3>2. retryState' # "NO_RETRY" /\ Timer!Retry
        BY <2>4, <3>1 DEF RetryFailedRequest
      <3> QED
        BY <3>2 DEF Timer!Retry
    <2>5. CASE (Timer!Expire \/ Timer!TimerExpired \/ Timer!NotifyReturn) /\ UNCHANGED retryState
      <3>1. CASE Timer!TimerExpired
        BY <2>5, <3>1 DEF Timer!TimerExpired
      <3>2. CASE Timer!Expire
        BY <2>5, <3>2, Zenon DEF Timer!Expire
      <3>3. CASE Timer!NotifyReturn
        BY <2>5, <3>3, Zenon DEF Timer!NotifyReturn
      <3> QED
        BY <2>5, <3>1, <3>2, <3>3
    <2> QED
      BY <2>1, <2>2, <2>3, <2>4, <2>5, TimerSteps
  <1> QED
    BY <1>1, <1>2, PTL DEF Spec

\* After a success the timer is as new until the next network failure, whatever
\* notifications of earlier waits are still under way.
THEOREM FreshTimerSafe == Spec => []NoRetryMeansFreshTimer
  <1>1. FreshTimerInv => NoRetryMeansFreshTimer
    BY DEF FreshTimerInv
  <1> QED
    BY <1>1, FreshTimerHolds, PTL

-----------------------------------------------------------------------------
(***************************************************************************)
(* No work is forgotten.  WorkIsRequested follows the request types from   *)
(* the queue through a thread's pc and back; that needs to know what kind  *)
(* of request a thread at each place has in hand.                          *)
(***************************************************************************)
\* A request, whatever problems and ids it carries.
IsRequest(r) ==
  /\ r = [kind |-> r.kind, probs |-> r.probs, ids |-> r.ids, fetch |-> r.fetch, more |-> r.more]
  /\ r.kind \in Kinds \cup {"NONE"} /\ r.fetch \in Fetches \cup {NoFetch}

\* A job and a request, and what a thread at each place has of them.
Valid(j, r) ==
  /\ j = [req |-> j.req, outcome |-> j.outcome]
  /\ IsRequest(j.req) /\ IsRequest(r)
Hand(label, j, r) ==
  /\ label \in {"take", "issue"} => r.kind \in Kinds
  /\ label \in {"push", "retry"} => j.req.kind \in Kinds
  /\ label = "resubmit" => j.req.kind = "SUBMIT"
  /\ label = "recancel" => j.req.kind = "CANCEL"
  /\ label = "refetch" => j.req.kind = "ANSWER"
  /\ label = "readd" => j.req.kind \in StatusKinds

SharedRequests ==
  /\ requestQueue \in Seq(Kinds)
  /\ fetches \in Seq(Fetches \cup {NoFetch})
  /\ \A c \in DOMAIN inflight : IsRequest(inflight[c]) /\ inflight[c].kind \in Kinds
HandInv ==
  /\ SharedRequests
  /\ out = [t \in Everyone |-> out[t]] /\ job = [t \in Everyone |-> job[t]]
  /\ \A t \in Everyone : Valid(job[t], out[t]) /\ Hand(pc[t], job[t], out[t])
WorkInv == HandInv /\ WorkIsRequested

\* pushRequest adds the request type and loses none.
LEMMA PushedKinds ==
  ASSUME NEW q \in Seq(Kinds), NEW k \in Kinds
  PROVE  /\ Pushed(q, k) \in Seq(Kinds)
         /\ Elements(Pushed(q, k)) = Elements(q) \cup {k}
  <1>1. CASE k \in Elements(q)
    BY <1>1 DEF Pushed
  <1>2. CASE k \notin Elements(q)
    <2> DEFINE r == Append(q, k)
    <2>1. Pushed(q, k) = r
      BY <1>2 DEF Pushed
    <2>2. /\ r \in Seq(Kinds) /\ DOMAIN r = DOMAIN q \cup {Len(q) + 1}
          /\ r[Len(q) + 1] = k /\ \A i \in DOMAIN q : r[i] = q[i]
      OBVIOUS
    <2> HIDE DEF r
    <2>3. Elements(r) = Elements(q) \cup {k}
      BY <2>2 DEF Elements
    <2> QED
      BY <2>1, <2>2, <2>3
  <1> QED
    BY <1>1, <1>2

\* A queue is its head and the rest.
LEMMA QueueSplit ==
  ASSUME NEW q \in Seq(Kinds), q # <<>>
  PROVE  /\ Head(q) \in Kinds /\ Tail(q) \in Seq(Kinds)
         /\ Elements(q) = Elements(Tail(q)) \cup {Head(q)}
  <1>1. /\ Head(q) \in Kinds /\ Tail(q) \in Seq(Kinds)
        /\ Len(q) \in Nat /\ Len(q) > 0 /\ DOMAIN q = 1 .. Len(q)
        /\ DOMAIN Tail(q) = 1 .. Len(q) - 1
        /\ Head(q) = q[1] /\ \A i \in 1 .. Len(q) - 1 : Tail(q)[i] = q[i + 1]
    OBVIOUS
  <1>2. \A i \in DOMAIN q : i = 1 \/ (i - 1 \in DOMAIN Tail(q) /\ q[i] = Tail(q)[i - 1])
    BY <1>1
  <1>3. \A i \in DOMAIN Tail(q) : i + 1 \in DOMAIN q /\ q[i + 1] = Tail(q)[i]
    BY <1>1
  <1>4. Elements(q) \subseteq Elements(Tail(q)) \cup {Head(q)}
    BY <1>1, <1>2 DEF Elements
  <1>5. Elements(Tail(q)) \cup {Head(q)} \subseteq Elements(q)
    BY <1>1, <1>3 DEF Elements
  <1> QED
    BY <1>1, <1>4, <1>5

\* Requests and jobs with one field changed.
LEMMA RequestUpdates ==
  ASSUME NEW r, IsRequest(r)
  PROVE  /\ \A x : LET s == [r EXCEPT !.probs = x] IN IsRequest(s) /\ s.kind = r.kind
         /\ \A x : LET s == [r EXCEPT !.ids = x] IN IsRequest(s) /\ s.kind = r.kind
         /\ \A x : LET s == [r EXCEPT !.more = x] IN IsRequest(s) /\ s.kind = r.kind
         /\ \A x \in Fetches \cup {NoFetch} :
              LET s == [r EXCEPT !.fetch = x] IN IsRequest(s) /\ s.kind = r.kind
         /\ \A x \in Kinds : LET s == [r EXCEPT !.kind = x] IN IsRequest(s) /\ s.kind = x
  BY DEF IsRequest

\* NoRequest is a request record of kind NONE, and so is one of each kind.
LEMMA NoRequestIs ==
  /\ IsRequest(NoRequest) /\ NoRequest.kind = "NONE"
  /\ \A k \in Kinds :
       LET s == [NoRequest EXCEPT !.kind = k] IN IsRequest(s) /\ s.kind = k
<1>1. IsRequest(NoRequest) /\ NoRequest.kind = "NONE"
  BY DEF IsRequest, NoRequest
<1> QED
  BY <1>1, RequestUpdates

\* Thread t moves, with a new job and a new request.
Moves(t, label, j, r) ==
  Goto(t, label) /\ job' = [job EXCEPT ![t] = j] /\ out' = [out EXCEPT ![t] = r]

\* What becomes of the three functions then.
LEMMA MovedValues ==
  ASSUME ControlInv, HandInv, NEW t \in Everyone, NEW label, NEW j, NEW r, Moves(t, label, j, r)
  PROVE  /\ pc'[t] = label /\ job'[t] = j /\ out'[t] = r
         /\ \A u \in Everyone \ {t} : pc'[u] = pc[u] /\ job'[u] = job[u] /\ out'[u] = out[u]
         /\ job' = [u \in Everyone |-> job'[u]] /\ out' = [u \in Everyone |-> out'[u]]
  BY DEF ControlInv, HandInv, Moves, Goto

\* Such a step keeps what threads have in hand if t has what its new place asks for.
LEMMA MoveKeepsHand ==
  ASSUME ControlInv, HandInv, NEW t \in Everyone, NEW label, NEW j, NEW r, Moves(t, label, j, r),
         Valid(j, r), Hand(label, j, r), SharedRequests'
  PROVE  HandInv'
<1>1. ASSUME NEW u \in Everyone
      PROVE  Valid(job'[u], out'[u]) /\ Hand(pc'[u], job'[u], out'[u])
  <2>1. CASE u = t
    BY <2>1, MovedValues
  <2>2. CASE u # t
    BY <2>2, MovedValues DEF HandInv
  <2> QED
    BY <2>1, <2>2
<1>2. job' = [u \in Everyone |-> job'[u]] /\ out' = [u \in Everyone |-> out'[u]]
  BY MovedValues
<1> QED
  BY <1>1, <1>2 DEF HandInv, Valid, Hand, IsRequest

\* A list with something on it, and what thread t and the queue do for it.
Work(kind) ==
  \/ kind = "SUBMIT" /\ unsubmitted # <<>>
  \/ kind = "STATUS" /\ active # <<>>
  \/ kind = "CANCEL" /\ cancelIds # {}
  \/ kind = "ANSWER" /\ fetches # <<>>
Asks(t, kind) ==
  \/ At(t, "push") /\ job[t].req.kind = kind
  \/ At(t, "pushcancel") /\ kind = "CANCEL"
  \/ At(t, "take") /\ out[t].kind = kind
  \/ At(t, "issue") /\ out[t].kind = kind /\ out[t].more
Here(t, kind) == kind \in Elements(requestQueue) \/ Asks(t, kind)

\* WorkIsRequested, with who asks for a kind of work named by Asks.
LEMMA WorkRequested ==
  WorkIsRequested <=>
    \A kind \in Kinds : Work(kind) =>
      kind \in Elements(requestQueue) \/ \E t \in Everyone : Asks(t, kind)
  BY DEF WorkIsRequested, Requested, Work, Asks, Kinds, StatusKinds

\* A step of thread t keeps the invariant if all the work there is after it is
\* asked for by t or by the queue, or was there before and asked for by others.
LEMMA MoveKeepsWork ==
  ASSUME ControlInv, WorkInv, NEW t \in Everyone, NEW label, NEW j, NEW r, Moves(t, label, j, r),
         Valid(j, r), Hand(label, j, r), SharedRequests',
         \A kind \in Kinds : Work(kind)' => Here(t, kind)' \/ (Work(kind) /\ ~Here(t, kind))
  PROVE  WorkInv'
<1>1. \A u \in Everyone \ {t} : pc'[u] = pc[u] /\ job'[u] = job[u] /\ out'[u] = out[u]
  BY MovedValues DEF WorkInv
<1>2. \A u \in Everyone \ {t} : \A kind \in Kinds : Asks(u, kind) => Asks(u, kind)'
  BY <1>1 DEF Asks, At
<1>3. ASSUME NEW kind \in Kinds, Work(kind)'
      PROVE  kind \in Elements(requestQueue)' \/ \E u \in Everyone : Asks(u, kind)'
  <2>1. CASE Here(t, kind)'
    BY <2>1 DEF Here
  <2>2. CASE Work(kind) /\ ~Here(t, kind)
    <3>1. PICK u \in Everyone : Asks(u, kind)
      BY <2>2, WorkRequested DEF Here, WorkInv
    <3>2. u # t
      BY <2>2, <3>1 DEF Here
    <3> QED
      BY <1>2, <3>1, <3>2
  <2> QED
    BY <1>3, <2>1, <2>2
<1>4. WorkIsRequested'
  BY <1>3 DEF WorkIsRequested, Requested, Work, Asks, Kinds, StatusKinds
<1> QED
  BY <1>4, MoveKeepsHand DEF WorkInv

\* So does a step that ends no asking if it asks for the work it adds.
LEMMA QuietKeepsWork ==
  ASSUME ControlInv, WorkInv, NEW t \in Everyone, NEW label, NEW j, NEW r, Moves(t, label, j, r),
         Valid(j, r), Hand(label, j, r), SharedRequests',
         pc[t] \notin {"push", "pushcancel", "take", "issue"},
         Elements(requestQueue) \subseteq Elements(requestQueue'),
         \A kind \in Kinds : Work(kind)' => Work(kind) \/ Here(t, kind)'
  PROVE  WorkInv'
<1>1. \A kind \in Kinds : ~Asks(t, kind)
  BY DEF Asks, At
<1>2. \A kind \in Kinds : Work(kind)' => Here(t, kind)' \/ (Work(kind) /\ ~Here(t, kind))
  BY <1>1 DEF Here
<1> QED
  BY <1>2, MoveKeepsWork

\* A thread that does not move its job or request.
LEMMA SameHands ==
  ASSUME WorkInv, NEW t \in Everyone
  PROVE  /\ job = [job EXCEPT ![t] = job[t]] /\ out = [out EXCEPT ![t] = out[t]]
         /\ Valid(job[t], out[t]) /\ Hand(pc[t], job[t], out[t])
         /\ Valid(job[t], NoRequest) /\ Valid(NoJob, out[t])
         /\ IsRequest(out[t]) /\ IsRequest(job[t].req)
  BY NoRequestIs DEF WorkInv, HandInv, Valid, NoJob

\* Jobs with one part changed.
LEMMA JobUpdates ==
  ASSUME WorkInv, NEW t \in Everyone
  PROVE  /\ \A r : IsRequest(r) =>
              LET j == [job[t] EXCEPT !.req = r] IN j.req = r /\ Valid(j, out[t])
         /\ \A x : LET j == [job[t] EXCEPT !.outcome = x] IN
                j.req = job[t].req /\ Valid(j, out[t])
         /\ \A x : LET j == [job[t] EXCEPT !.req.probs = x] IN
                j.req.kind = job[t].req.kind /\ Valid(j, out[t])
         /\ LET j == [job[t] EXCEPT !.req.fetch = NoFetch] IN
                j.req.kind = job[t].req.kind /\ Valid(j, out[t])
         /\ \A r, x : IsRequest(r) =>
              LET j == [req |-> r, outcome |-> x] IN j.req = r /\ Valid(j, out[t])
  <1>1. Valid(job[t], out[t])
    BY SameHands
  <1> QED
    BY <1>1 DEF Valid, IsRequest

\* The loop's head.
LEMMA LoopKeepsWork ==
  ASSUME ControlInv, WorkInv, NEW t \in Everyone, NEW free \in Nat, Loop(t, free),
         pc[t] \in {"enter", "sent", "unsent"},
         UNCHANGED <<listVars, inflight, job>>
  PROVE  WorkInv'
<1>0. /\ UNCHANGED <<unsubmitted, active, cancelIds, fetches>>
      /\ \A kind \in Kinds : Work(kind)' => Work(kind)
      /\ SharedRequests
  BY DEF listVars, Work, WorkInv, HandInv
<1>1. CASE free > 0 /\ requestQueue # <<>>
  <2>1. PICK k : k = Head(requestQueue)
    OBVIOUS
  <2>2. PICK r : r = [NoRequest EXCEPT !.kind = k]
    OBVIOUS
  <2>3. requestQueue' = Tail(requestQueue) /\ Moves(t, "take", job[t], r)
    BY <1>1, <2>1, <2>2, SameHands DEF Loop, Moves
  <2>4. /\ k \in Kinds /\ requestQueue' \in Seq(Kinds)
        /\ Elements(requestQueue) = Elements(requestQueue') \cup {k}
    BY <1>0, <1>1, <2>1, <2>3, QueueSplit DEF SharedRequests
  <2>5. IsRequest(r) /\ r.kind = k
    BY <2>2, <2>4, NoRequestIs
  <2>6. SharedRequests'
    BY <1>0, <2>4 DEF SharedRequests
  <2>7. Valid(job[t], r) /\ Hand("take", job[t], r)
    BY <2>4, <2>5, SameHands DEF Valid, Hand
  <2>8. out'[t].kind = k /\ pc'[t] = "take"
    BY <2>3, <2>5, MovedValues DEF WorkInv
  <2>9. \A kind \in Kinds : Here(t, kind) => Here(t, kind)'
    BY <2>4, <2>8 DEF Here, Asks, At
  <2> QED
    BY <1>0, <2>3, <2>6, <2>7, <2>9, MoveKeepsWork
<1>2. CASE ~(free > 0 /\ requestQueue # <<>>)
  <2>1. PICK label \in {"complete", "return", "idle"} :
          Moves(t, label, job[t], NoRequest) /\ requestQueue' = requestQueue
    BY <1>2, ReturnedPc, SameHands DEF Loop, Moves
  <2>2. Hand(label, job[t], NoRequest) /\ Valid(job[t], NoRequest)
    BY SameHands DEF Hand
  <2>3. SharedRequests'
    BY <1>0, <2>1 DEF SharedRequests
  <2> QED
    BY <1>0, <2>1, <2>2, <2>3, QuietKeepsWork
<1> QED
  BY <1>1, <1>2

\* A list-taking step: what is left is asked for by "more".
LEMMA TakesKeepWork ==
  ASSUME ControlInv, WorkInv, NEW t \in Everyone,
         TakeProblems(t) \/ TakeCancels(t) \/ TakeFetch(t)
  PROVE  WorkInv'
<1> USE DEF At
<1>0. /\ SharedRequests /\ IsRequest(out[t]) /\ out[t].kind \in Kinds
      /\ Valid(job[t], out[t]) /\ job = [job EXCEPT ![t] = job[t]]
      /\ pc[t] = "take" /\ requestQueue' = requestQueue /\ inflight' = inflight /\ job' = job
  BY SameHands DEF WorkInv, HandInv, Hand, TakeProblems, TakeCancels, TakeFetch, queueVars
<1>1. ASSUME NEW r, Moves(t, "issue", job[t], r), IsRequest(r), r.kind = out[t].kind,
             fetches' \in Seq(Fetches \cup {NoFetch}),
             \A kind \in Kinds \ {r.kind} : Work(kind)' => Work(kind),
             Work(r.kind)' => r.more
      PROVE  WorkInv'
  <2>1. SharedRequests'
    BY <1>0, <1>1 DEF SharedRequests
  <2>2. Valid(job[t], r) /\ Hand("issue", job[t], r)
    BY <1>0, <1>1 DEF Valid, Hand
  <2>3. pc'[t] = "issue" /\ out'[t] = r
    BY <1>1, MovedValues DEF WorkInv
  <2>4. \A kind \in Kinds : Here(t, kind) => kind = r.kind \/ Here(t, kind)'
    BY <1>0, <1>1, <2>3 DEF Here, Asks
  <2>5. Work(r.kind)' => Here(t, r.kind)'
    BY <1>1, <2>3 DEF Here, Asks
  <2> QED
    BY <1>1, <2>1, <2>2, <2>4, <2>5, MoveKeepsWork
<1>2. ASSUME NEW x, NEW y
      PROVE  LET r == [out[t] EXCEPT !.probs = x, !.more = y] IN
             IsRequest(r) /\ r.kind = out[t].kind /\ r.more = y
  <2>1. PICK s : s = [out[t] EXCEPT !.probs = x]
    OBVIOUS
  <2>2. IsRequest(s) /\ s.kind = out[t].kind
    BY <1>0, <2>1, RequestUpdates
  <2>3. [s EXCEPT !.more = y].more = y
    BY <2>2 DEF IsRequest
  <2> QED
    BY <2>1, <2>2, <2>3, RequestUpdates, ZenonT(60)
<1>3. CASE TakeProblems(t) /\ out[t].kind = "SUBMIT"
  <2>1. PICK x : x = Left(unsubmitted, MaxProblemsPerSubmission)
    OBVIOUS
  <2>2. PICK m : m = (x # <<>>)
    OBVIOUS
  <2>5. PICK r : r = [out[t] EXCEPT !.probs = Taken(unsubmitted, MaxProblemsPerSubmission), !.more = m]
    OBVIOUS
  <2>6. IsRequest(r) /\ r.kind = out[t].kind /\ r.more = m
    BY <1>2, <2>5
  <2>3. /\ unsubmitted' = x /\ Goto(t, "issue") /\ UNCHANGED <<active, cancelIds, fetches>>
        /\ out' = [out EXCEPT ![t] = r]
    BY <1>3, <2>1, <2>2, <2>5 DEF TakeProblems
  <2>4. Moves(t, "issue", job[t], r)
    BY <1>0, <2>3 DEF Moves
  <2> QED
    BY <1>0, <1>1, <1>3, <2>2, <2>3, <2>4, <2>6 DEF Work, SharedRequests
<1>4. CASE TakeProblems(t) /\ out[t].kind # "SUBMIT"
  <2>1. PICK x : x = Left(active, MaxIdsPerStatusQuery)
    OBVIOUS
  <2>2. PICK m : m = (x # <<>>)
    OBVIOUS
  <2>5. PICK r : r = [out[t] EXCEPT !.probs = Taken(active, MaxIdsPerStatusQuery), !.more = m]
    OBVIOUS
  <2>6. IsRequest(r) /\ r.kind = out[t].kind /\ r.more = m
    BY <1>2, <2>5
  <2>3. /\ active' = x /\ Goto(t, "issue") /\ UNCHANGED <<unsubmitted, cancelIds, fetches>>
        /\ out' = [out EXCEPT ![t] = r] /\ out[t].kind = "STATUS"
    BY <1>4, <2>1, <2>2, <2>5 DEF TakeProblems
  <2>4. Moves(t, "issue", job[t], r)
    BY <1>0, <2>3 DEF Moves
  <2> QED
    BY <1>0, <1>1, <2>2, <2>3, <2>4, <2>6 DEF Work, SharedRequests
<1>5. CASE TakeCancels(t)
  <2>1. PICK r : r = [out[t] EXCEPT !.ids = cancelIds]
    OBVIOUS
  <2>2. IsRequest(r) /\ r.kind = "CANCEL" /\ out[t].kind = "CANCEL"
    BY <1>0, <1>5, <2>1, RequestUpdates DEF TakeCancels
  <2>3. /\ cancelIds' = {} /\ UNCHANGED <<unsubmitted, active, fetches>>
        /\ Moves(t, "issue", job[t], r)
    BY <1>0, <1>5, <2>1 DEF TakeCancels, Moves
  <2> QED
    BY <1>0, <1>1, <2>2, <2>3 DEF Work, SharedRequests
<1>6. CASE TakeFetch(t) /\ fetches = <<>>
  <2>1. /\ UNCHANGED <<unsubmitted, active, cancelIds, fetches>> /\ out[t].kind = "ANSWER"
        /\ Moves(t, "issue", job[t], out[t])
    BY <1>0, <1>6, SameHands DEF TakeFetch, Moves
  <2> QED
    BY <1>0, <1>1, <1>6, <2>1 DEF Work, SharedRequests
<1>7. CASE TakeFetch(t) /\ fetches # <<>>
  <2>1. /\ Head(fetches) \in Fetches \cup {NoFetch}
        /\ Tail(fetches) \in Seq(Fetches \cup {NoFetch})
        /\ Tail(fetches) # <<>> => Len(fetches) > 1
    BY <1>0, <1>7 DEF SharedRequests
  <2>2. PICK f \in Fetches \cup {NoFetch} : f = Head(fetches)
    BY <2>1
  <2>3. PICK m : m = (Len(fetches) > 1)
    OBVIOUS
  <2>4. PICK r : r = [out[t] EXCEPT !.fetch = f, !.more = m]
    OBVIOUS
  <2>5. IsRequest(r) /\ r.kind = out[t].kind /\ r.more = m
    BY <1>0, <2>2, <2>4 DEF IsRequest
  <2>6. /\ fetches' = Tail(fetches) /\ UNCHANGED <<unsubmitted, active, cancelIds>>
        /\ out[t].kind = "ANSWER" /\ Moves(t, "issue", job[t], r)
    BY <1>0, <1>7, <2>2, <2>3, <2>4 DEF TakeFetch, Moves
  <2> QED
    BY <1>0, <1>1, <2>1, <2>3, <2>5, <2>6 DEF Work, SharedRequests
<1> QED
  BY <1>3, <1>4, <1>5, <1>6, <1>7

\* A request is made: what was left of the list is asked for on the queue.
LEMMA IssueKeepsWork ==
  ASSUME ControlInv, WorkInv, NEW t \in Everyone, Issue(t)
  PROVE  WorkInv'
<1>1. /\ SharedRequests /\ IsRequest(out[t]) /\ out[t].kind \in Kinds /\ pc[t] = "issue"
      /\ \A kind \in Kinds : Work(kind)' => Work(kind)
  BY SameHands DEF WorkInv, HandInv, Hand, Issue, At, Work, listVars
<1>2. PICK label \in {"sent", "unsent"} : Moves(t, label, job[t], NoRequest)
  BY SameHands DEF Issue, Moves
<1>3. Valid(job[t], NoRequest) /\ Hand(label, job[t], NoRequest)
  BY SameHands DEF Hand
<1>4. /\ requestQueue' \in Seq(Kinds) /\ Elements(requestQueue) \subseteq Elements(requestQueue')
      /\ out[t].more => out[t].kind \in Elements(requestQueue')
  <2>1. CASE out[t].more
    BY <1>1, <2>1, PushedKinds DEF Issue, SharedRequests
  <2>2. CASE ~out[t].more
    BY <1>1, <2>2 DEF Issue, SharedRequests
  <2> QED
    BY <2>1, <2>2
<1>5. SharedRequests'
  <2>1. PICK r : r = [out[t] EXCEPT !.more = FALSE]
    OBVIOUS
  <2>2. IsRequest(r) /\ r.kind \in Kinds
    BY <1>1, <2>1, RequestUpdates
  <2>3. inflight' = inflight \/ Open(r)
    BY <2>1 DEF Issue
  <2>4. \A c \in DOMAIN inflight' : IsRequest(inflight'[c]) /\ inflight'[c].kind \in Kinds
    BY <1>1, <2>2, <2>3 DEF Open, SharedRequests
  <2> QED
    BY <1>1, <1>4, <2>4 DEF Issue, SharedRequests, listVars
<1>6. \A kind \in Kinds : Here(t, kind) => Here(t, kind)'
  BY <1>1, <1>4 DEF Here, Asks, At
<1> QED
  BY <1>1, <1>2, <1>3, <1>5, <1>6, MoveKeepsWork


\* The queue after a push, and who asks for what.
LEMMA PushKeepsWork ==
  ASSUME ControlInv, WorkInv, NEW t \in Everyone, Push(t) \/ PushCancel(t)
  PROVE  WorkInv'
<1>0. /\ SharedRequests /\ \A kind \in Kinds : Work(kind)' => Work(kind)
      /\ UNCHANGED <<fetches, inflight, out>>
  BY DEF WorkInv, HandInv, Push, PushCancel, Work, listVars
<1>1. CASE Push(t)
  <2>1. job[t].req.kind \in Kinds /\ pc[t] = "push"
    BY <1>1, SameHands DEF Hand, Push, At
  <2>2. Moves(t, "enter", NoJob, out[t])
    BY <1>1, <1>0, SameHands DEF Push, Moves
  <2>3. Valid(NoJob, out[t]) /\ Hand("enter", NoJob, out[t])
    BY SameHands DEF Hand
  <2>4. /\ requestQueue' \in Seq(Kinds)
        /\ Elements(requestQueue') = Elements(requestQueue) \cup {job[t].req.kind}
    BY <1>0, <1>1, <2>1, PushedKinds DEF Push, SharedRequests
  <2>5. SharedRequests'
    BY <1>0, <2>4 DEF SharedRequests
  <2>6. \A kind \in Kinds : Here(t, kind) => Here(t, kind)'
    BY <2>1, <2>4 DEF Here, Asks, At
  <2> QED
    BY <1>0, <2>2, <2>3, <2>5, <2>6, MoveKeepsWork
<1>2. CASE PushCancel(t)
  <2>1. pc[t] = "pushcancel" /\ "CANCEL" \in Kinds
    BY <1>2 DEF PushCancel, At, Kinds
  <2>2. Moves(t, "requeue", job[t], out[t])
    BY <1>2, <1>0, SameHands DEF PushCancel, Moves
  <2>3. Valid(job[t], out[t]) /\ Hand("requeue", job[t], out[t])
    BY SameHands DEF Hand
  <2>4. /\ requestQueue' \in Seq(Kinds)
        /\ Elements(requestQueue') = Elements(requestQueue) \cup {"CANCEL"}
    BY <1>0, <1>2, <2>1, PushedKinds DEF PushCancel, SharedRequests
  <2>5. SharedRequests'
    BY <1>0, <2>4 DEF SharedRequests
  <2>6. \A kind \in Kinds : Here(t, kind) => Here(t, kind)'
    BY <2>1, <2>4 DEF Here, Asks, At
  <2> QED
    BY <1>0, <2>2, <2>3, <2>5, <2>6, MoveKeepsWork
<1> QED
  BY <1>1, <1>2

\* Steps that leave the queue, the fetches and the open requests alone and put
\* nothing on a list without asking for it.
LEMMA OtherKeepsWork ==
  ASSUME ControlInv, WorkInv, NEW t \in Everyone, NEW label, NEW j,
         Goto(t, label), job' = [job EXCEPT ![t] = j],
         UNCHANGED <<requestQueue, inflight, out>>,
         Valid(j, out[t]), Hand(label, j, out[t]),
         pc[t] \notin {"push", "pushcancel", "take", "issue"},
         fetches' \in Seq(Fetches \cup {NoFetch}),
         \A kind \in Kinds : Work(kind)' => Work(kind) \/ Here(t, kind)'
  PROVE  WorkInv'
<1>1. Moves(t, label, j, out[t])
  BY SameHands DEF Moves
<1>2. SharedRequests'
  BY DEF SharedRequests, WorkInv, HandInv
<1> QED
  BY <1>1, <1>2, QuietKeepsWork

\* The callbacks' steps that add to no list.
LEMMA CallbackKeepsWork ==
  ASSUME ControlInv, WorkInv, NEW t \in Everyone,
         \/ StopRetrying(t) \/ RetryFailedRequest(t) \/ StatusComplete(t)
         \/ FailProblems(t) \/ DeliverAnswer(t) \/ RequestComplete(t)
  PROVE  WorkInv'
<1>0. /\ UNCHANGED <<requestQueue, inflight, out, unsubmitted, active, cancelIds, fetches>>
      /\ pc[t] \in {"stop", "retry", "update", "fail", "deliver", "complete"}
  BY DEF StopRetrying, RetryFailedRequest, StatusComplete, FailProblems, DeliverAnswer,
         RequestComplete, listVars, queueVars, At
<1>1. /\ \A kind \in Kinds : Work(kind)' => Work(kind)
      /\ fetches' \in Seq(Fetches \cup {NoFetch})
  BY <1>0 DEF Work, WorkInv, HandInv, SharedRequests
<1>2. ASSUME NEW label, NEW j, Goto(t, label), job' = [job EXCEPT ![t] = j],
             Valid(j, out[t]), j.req.kind = job[t].req.kind \/ label = "enter",
             \/ label \in {"update", "deliver", "complete", "enter", "cancelcheck", "fail", "stop"}
             \/ label = "resubmit" /\ job[t].req.kind = "SUBMIT"
             \/ label = "recancel" /\ job[t].req.kind = "CANCEL"
             \/ label = "refetch" /\ job[t].req.kind = "ANSWER"
      PROVE  WorkInv'
  <2>1. Hand(label, j, out[t])
    BY <1>2 DEF Hand
  <2> QED
    BY <1>0, <1>1, <1>2, <2>1, OtherKeepsWork
<1>3. CASE StopRetrying(t)
  <2>1. PICK label \in {"update", "deliver", "complete"} : Goto(t, label)
    BY <1>3 DEF StopRetrying
  <2>2. job' = [job EXCEPT ![t] = job[t]] /\ Valid(job[t], out[t])
    BY <1>3, SameHands DEF StopRetrying
  <2> QED
    BY <1>2, <2>1, <2>2
<1>4. CASE RetryFailedRequest(t)
  <2>1. PICK x : job' = [job EXCEPT ![t] = [job[t] EXCEPT !.outcome = x]]
    BY <1>4 DEF RetryFailedRequest
  <2>2. job[t].req.kind \in Kinds
    BY <1>4, SameHands DEF RetryFailedRequest, At, Hand
  <2>3. PICK label :
          /\ Goto(t, label)
          /\ \/ label \in {"fail", "complete", "deliver"}
             \/ label = "recancel" /\ job[t].req.kind = "CANCEL"
             \/ label = "refetch" /\ job[t].req.kind = "ANSWER"
    BY <1>4, <2>2 DEF RetryFailedRequest, Kinds
  <2> QED
    BY <1>2, <2>1, <2>3, JobUpdates, ZenonT(60)
<1>5. CASE StatusComplete(t)
  <2>1. PICK x : job' = [job EXCEPT ![t] = [job[t] EXCEPT !.req.probs = x]]
    BY <1>5 DEF StatusComplete
  <2>2. PICK label \in {"complete", "cancelcheck"} : Goto(t, label)
    BY <1>5 DEF StatusComplete
  <2> QED
    BY <1>2, <2>1, <2>2, JobUpdates, ZenonT(60)
<1>6. CASE FailProblems(t)
  <2>1. PICK label :
          /\ Goto(t, label)
          /\ \/ label \in {"cancelcheck", "complete", "stop"}
             \/ label = "resubmit" /\ job[t].req.kind = "SUBMIT"
    BY <1>6 DEF FailProblems
  <2>2. CASE job[t].outcome = "retry"
    <3>1. job' = [job EXCEPT ![t] = job[t]] /\ Valid(job[t], out[t])
      BY <1>6, <2>2, SameHands DEF FailProblems
    <3> QED
      BY <1>2, <2>1, <3>1
  <2>3. CASE job[t].outcome # "retry"
    <3>1. job' = [job EXCEPT ![t] = [job[t] EXCEPT !.req.probs = <<>>]]
      BY <1>6, <2>3 DEF FailProblems
    <3> QED
      BY <1>2, <2>1, <3>1, JobUpdates, ZenonT(60)
  <2> QED
    BY <2>2, <2>3
<1>7. CASE DeliverAnswer(t)
  <2>1. /\ job' = [job EXCEPT ![t] = [job[t] EXCEPT !.req.fetch = NoFetch]]
        /\ Goto(t, "complete")
    BY <1>7 DEF DeliverAnswer
  <2> QED
    BY <1>2, <2>1, JobUpdates
<1>8. CASE RequestComplete(t)
  <2>1. job' = [job EXCEPT ![t] = NoJob] /\ Goto(t, "enter") /\ Valid(NoJob, out[t])
    BY <1>8, SameHands DEF RequestComplete
  <2> QED
    BY <1>2, <2>1
<1> QED
  BY <1>3, <1>4, <1>5, <1>6, <1>7, <1>8


\* The steps that add to a list: the thread's next place asks for it.
LEMMA ListKeepsWork ==
  ASSUME ControlInv, WorkInv, NEW t \in Everyone,
         \/ CheckCancelled(t) \/ QueueActive(t) \/ RetrySubmit(t)
         \/ RetryCancel(t) \/ FetchAnswer(t) \/ AddSubmittedProblem(t)
  PROVE  WorkInv'
<1>0. /\ UNCHANGED <<inflight, out>> /\ SharedRequests
      /\ pc[t] \in {"cancelcheck", "requeue", "resubmit", "recancel", "refetch", "readd"}
      /\ Hand(pc[t], job[t], out[t])
  BY SameHands DEF CheckCancelled, QueueActive, RetrySubmit, RetryCancel, FetchAnswer,
         AddSubmittedProblem, At, WorkInv, HandInv
<1>1. ASSUME NEW label, NEW j, Goto(t, label), job' = [job EXCEPT ![t] = j],
             UNCHANGED requestQueue, fetches' \in Seq(Fetches \cup {NoFetch}),
             Valid(j, out[t]), j.req.kind = job[t].req.kind,
             label \in {"pushcancel", "requeue", "push", "enter"},
             label = "push" => job[t].req.kind \in Kinds,
             \A kind \in Kinds : Work(kind)' =>
               \/ Work(kind)
               \/ label = "push" /\ kind = job[t].req.kind
               \/ label = "pushcancel" /\ kind = "CANCEL"
      PROVE  WorkInv'
  <2>1. Hand(label, j, out[t])
    BY <1>1 DEF Hand
  <2>2. Moves(t, label, j, out[t])
    BY <1>0, <1>1, SameHands DEF Moves
  <2>3. pc'[t] = label /\ job'[t] = j
    BY <2>2, MovedValues DEF WorkInv
  <2>4. \A kind \in Kinds : Work(kind)' => Work(kind) \/ Here(t, kind)'
    BY <1>1, <2>3 DEF Here, Asks, At
  <2> QED
    BY <1>0, <1>1, <2>1, <2>4, OtherKeepsWork
<1>2. CASE CheckCancelled(t)
  <2>1. job' = [job EXCEPT ![t] = job[t]] /\ Valid(job[t], out[t])
    BY <1>2, SameHands DEF CheckCancelled
  <2>2. /\ UNCHANGED <<requestQueue, unsubmitted, active, fetches>>
        /\ \/ Goto(t, "requeue") /\ cancelIds' = cancelIds
           \/ Goto(t, "pushcancel")
    BY <1>2 DEF CheckCancelled, queueVars
  <2>3. fetches' \in Seq(Fetches \cup {NoFetch})
    BY <1>0, <2>2 DEF SharedRequests
  <2>4. CASE Goto(t, "requeue") /\ cancelIds' = cancelIds
    BY <1>1, <2>1, <2>2, <2>3, <2>4 DEF Work
  <2>5. CASE Goto(t, "pushcancel")
    BY <1>1, <2>1, <2>2, <2>3, <2>5 DEF Work
  <2> QED
    BY <2>2, <2>4, <2>5
<1>3. CASE QueueActive(t)
  <2>1. /\ job' = [job EXCEPT ![t] = NoJob] /\ Valid(NoJob, out[t]) /\ Goto(t, "complete")
        /\ Hand("complete", NoJob, out[t]) /\ Moves(t, "complete", NoJob, out[t])
    BY <1>0, <1>3, SameHands DEF QueueActive, Moves, Hand
  <2>2. /\ requestQueue' \in Seq(Kinds) /\ "STATUS" \in Elements(requestQueue')
        /\ Elements(requestQueue) \subseteq Elements(requestQueue')
    BY <1>0, <1>3, PushedKinds DEF QueueActive, SharedRequests, Kinds, StatusKinds
  <2>3. SharedRequests' /\ UNCHANGED <<unsubmitted, cancelIds, fetches>>
    BY <1>0, <1>3, <2>2 DEF QueueActive, SharedRequests
  <2>4. \A kind \in Kinds : Work(kind)' => Work(kind) \/ Here(t, kind)'
    BY <2>2, <2>3 DEF Here, Work
  <2> QED
    BY <1>0, <2>1, <2>2, <2>3, <2>4, QuietKeepsWork
<1>4. CASE RetrySubmit(t)
  <2>1. PICK j : j = [job[t] EXCEPT !.req.probs = <<>>]
    OBVIOUS
  <2>2. j.req.kind = job[t].req.kind /\ Valid(j, out[t])
    BY <2>1, JobUpdates
  <2>3. /\ job' = [job EXCEPT ![t] = j] /\ Goto(t, "push")
        /\ UNCHANGED <<requestQueue, active, cancelIds, fetches>>
        /\ job[t].req.kind = "SUBMIT"
    BY <1>0, <1>4, <2>1 DEF RetrySubmit, queueVars, At, Hand
  <2> QED
    BY <1>0, <1>1, <2>2, <2>3 DEF Work, SharedRequests, Kinds, StatusKinds
<1>5. CASE RetryCancel(t)
  <2>1. job' = [job EXCEPT ![t] = job[t]] /\ Valid(job[t], out[t])
    BY <1>5, SameHands DEF RetryCancel
  <2>2. /\ UNCHANGED <<requestQueue, unsubmitted, active, fetches>>
        /\ job[t].req.kind = "CANCEL"
        /\ \/ Goto(t, "enter") /\ cancelIds' = {}
           \/ Goto(t, "push")
    BY <1>0, <1>5 DEF RetryCancel, queueVars, At, Hand
  <2>3. fetches' \in Seq(Fetches \cup {NoFetch}) /\ "CANCEL" \in Kinds
    BY <1>0, <2>2 DEF SharedRequests, Kinds
  <2>4. CASE Goto(t, "enter") /\ cancelIds' = {}
    BY <1>1, <2>1, <2>2, <2>3, <2>4 DEF Work
  <2>5. CASE Goto(t, "push")
    BY <1>1, <2>1, <2>2, <2>3, <2>5 DEF Work
  <2> QED
    BY <2>2, <2>4, <2>5
<1>6. CASE FetchAnswer(t)
  <2>1. PICK j : j = [job[t] EXCEPT !.req.fetch = NoFetch]
    OBVIOUS
  <2>2. j.req.kind = job[t].req.kind /\ Valid(j, out[t])
    BY <2>1, JobUpdates
  <2>3. /\ job' = [job EXCEPT ![t] = j] /\ Goto(t, "push")
        /\ UNCHANGED <<requestQueue, unsubmitted, active, cancelIds>>
        /\ job[t].req.kind = "ANSWER"
    BY <1>0, <1>6, <2>1 DEF FetchAnswer, queueVars, At, Hand
  <2>4. job[t].req.fetch \in Fetches \cup {NoFetch}
    BY SameHands DEF IsRequest
  <2>5. fetches' \in Seq(Fetches \cup {NoFetch})
    BY <1>0, <1>6, <2>4 DEF FetchAnswer, SharedRequests
  <2> QED
    BY <1>1, <2>2, <2>3, <2>5 DEF Work, Kinds
<1>7. CASE AddSubmittedProblem(t)
  <2>1. PICK j : j = [job[t] EXCEPT !.req.probs = <<>>]
    OBVIOUS
  <2>2. j.req.kind = job[t].req.kind /\ Valid(j, out[t])
    BY <2>1, JobUpdates
  <2>3. /\ job' = [job EXCEPT ![t] = j] /\ Goto(t, "push")
        /\ UNCHANGED <<requestQueue, cancelIds, fetches>>
        /\ job[t].req.kind \in StatusKinds
        /\ job[t].req.kind = "SUBMIT" => active' = active
        /\ job[t].req.kind # "SUBMIT" => unsubmitted' = unsubmitted
    BY <1>0, <1>7, <2>1 DEF AddSubmittedProblem, queueVars, At, Hand
  <2> QED
    BY <1>0, <1>1, <2>2, <2>3 DEF Work, SharedRequests, Kinds, StatusKinds
<1> QED
  BY <1>2, <1>3, <1>4, <1>5, <1>6, <1>7

\* Every step inside the manager's code keeps the invariant.
LEMMA StepKeepsWork ==
  ASSUME ControlInv, SlotInv, WorkInv, NEW t \in Everyone, Step(t)
  PROVE  WorkInv'
<1>0. available \in Nat /\ available + 1 \in Nat
  BY DEF SlotInv
<1>1. CASE Enter(t)
  <2>1. CASE retryState = "WAITING_TO_RETRY"
    <3>1. PICK label \in {"complete", "return", "idle"} : Goto(t, label)
      BY <1>1, <2>1, ReturnedPc DEF Enter
    <3>2. /\ UNCHANGED <<requestQueue, inflight, out, job, unsubmitted, active, cancelIds, fetches>>
          /\ pc[t] = "enter"
      BY <1>1, <2>1 DEF Enter, listVars, At
    <3>3. Hand(label, job[t], out[t]) /\ Valid(job[t], out[t]) /\ job' = [job EXCEPT ![t] = job[t]]
      BY <3>2, SameHands DEF Hand
    <3>4. /\ fetches' \in Seq(Fetches \cup {NoFetch})
          /\ \A kind \in Kinds : Work(kind)' => Work(kind)
      BY <3>2 DEF Work, WorkInv, HandInv, SharedRequests
    <3> QED
      BY <3>1, <3>2, <3>3, <3>4, OtherKeepsWork
  <2>2. CASE retryState # "WAITING_TO_RETRY"
    BY <1>0, <1>1, <2>2, LoopKeepsWork DEF Enter, At
  <2> QED
    BY <2>1, <2>2
<1>2. CASE TakeProblems(t) \/ TakeCancels(t) \/ TakeFetch(t)
  BY <1>2, TakesKeepWork
<1>3. CASE Issue(t)
  BY <1>3, IssueKeepsWork
<1>4. CASE Sent(t) \/ Unsent(t)
  BY <1>0, <1>4, LoopKeepsWork DEF Sent, Unsent, At
<1>5. CASE Push(t) \/ PushCancel(t)
  BY <1>5, PushKeepsWork
<1>6. CASE \/ StopRetrying(t) \/ RetryFailedRequest(t) \/ StatusComplete(t)
           \/ FailProblems(t) \/ DeliverAnswer(t) \/ RequestComplete(t)
  BY <1>6, CallbackKeepsWork
<1>7. CASE \/ CheckCancelled(t) \/ QueueActive(t) \/ RetrySubmit(t)
           \/ RetryCancel(t) \/ FetchAnswer(t) \/ AddSubmittedProblem(t)
  BY <1>7, ListKeepsWork
<1> QED
  BY <1>1, <1>2, <1>3, <1>4, <1>5, <1>6, <1>7 DEF Step

\* Users' calls: the first step of one that adds to a list asks for it.
LEMMA CallKeepsWork ==
  ASSUME ControlInv, WorkInv, UserCall
  PROVE  WorkInv'
<1>0. SharedRequests
  BY DEF WorkInv, HandInv
<1>1. ASSUME NEW t \in Everyone, pc[t] = "idle", NEW r, NEW label \in {"push", "readd", "refetch"},
             job' = [job EXCEPT ![t] = Call(r)], Goto(t, label),
             UNCHANGED <<requestQueue, inflight, out, fetches, cancelIds>>,
             IsRequest(r), Hand(label, Call(r), out[t]),
             unsubmitted' = unsubmitted \/ (label = "push" /\ r.kind = "SUBMIT"),
             active' = active \/ (label = "push" /\ r.kind = "STATUS")
      PROVE  WorkInv'
  <2>1. Valid(Call(r), out[t]) /\ Call(r).req = r
    BY <1>1, JobUpdates DEF Call
  <2>2. Moves(t, label, Call(r), out[t])
    BY <1>1, SameHands DEF Moves
  <2>3. pc'[t] = label /\ job'[t] = Call(r)
    BY <2>2, MovedValues DEF WorkInv
  <2>4. \A kind \in Kinds : Work(kind)' => Work(kind) \/ Here(t, kind)'
    BY <1>1, <2>1, <2>3 DEF Work, Here, Asks, At
  <2>5. fetches' \in Seq(Fetches \cup {NoFetch})
    BY <1>0, <1>1 DEF SharedRequests
  <2> QED
    BY <1>1, <2>1, <2>4, <2>5, OtherKeepsWork
<1>2. ASSUME NEW k \in Kinds
      PROVE  /\ \A x : LET r == [NoRequest EXCEPT !.kind = k, !.probs = x] IN
                  IsRequest(r) /\ r.kind = k
             /\ \A f \in Fetches : LET r == [NoRequest EXCEPT !.kind = k, !.fetch = f] IN
                  IsRequest(r) /\ r.kind = k
  <2>1. PICK s : s = [NoRequest EXCEPT !.kind = k]
    OBVIOUS
  <2> QED
    BY <1>2, <2>1, NoRequestIs, RequestUpdates
<1>3. ASSUME NEW t \in Threads, NEW p \in Problems, Submit(t, p) PROVE WorkInv'
  <2>1. PICK r : r = [NoRequest EXCEPT !.kind = "SUBMIT"]
    OBVIOUS
  <2>2. IsRequest(r) /\ r.kind = "SUBMIT"
    BY <2>1, NoRequestIs DEF Kinds, StatusKinds
  <2>3. /\ job' = [job EXCEPT ![t] = Call(r)] /\ Goto(t, "push") /\ t \in Everyone
        /\ UNCHANGED <<requestQueue, inflight, out, fetches, cancelIds, active>> /\ pc[t] = "idle"
    BY <1>3, <2>1 DEF Submit, queueVars, At, Everyone
  <2>4. Hand("push", Call(r), out[t])
    BY <2>2 DEF Hand, Call, Kinds, StatusKinds
  <2> QED
    BY <1>1, <2>2, <2>3, <2>4
<1>4. ASSUME NEW t \in Threads, NEW p \in Problems, Add(t, p) PROVE WorkInv'
  <2>1. PICK r : r = [NoRequest EXCEPT !.kind = "STATUS"]
    OBVIOUS
  <2>2. IsRequest(r) /\ r.kind = "STATUS"
    BY <2>1, NoRequestIs DEF Kinds, StatusKinds
  <2>3. /\ job' = [job EXCEPT ![t] = Call(r)] /\ Goto(t, "push") /\ t \in Everyone
        /\ UNCHANGED <<requestQueue, inflight, out, fetches, cancelIds, unsubmitted>>
        /\ pc[t] = "idle"
    BY <1>4, <2>1 DEF Add, queueVars, At, Everyone
  <2>4. Hand("push", Call(r), out[t])
    BY <2>2 DEF Hand, Call, Kinds, StatusKinds
  <2> QED
    BY <1>1, <2>2, <2>3, <2>4
<1>5. ASSUME NEW t \in Threads, NEW p \in Problems, Retry(t, p) PROVE WorkInv'
  <2>1. PICK k \in StatusKinds :
          k = IF prob[p].lastGood = "SUBMITTING" THEN "SUBMIT" ELSE "STATUS"
    BY DEF StatusKinds
  <2>2. PICK r : r = [NoRequest EXCEPT !.kind = k, !.probs = <<p>>]
    OBVIOUS
  <2>3. IsRequest(r) /\ r.kind = k
    BY <1>2, <2>1, <2>2 DEF Kinds
  <2>4. /\ job' = [job EXCEPT ![t] = Call(r)] /\ Goto(t, "readd") /\ t \in Everyone
        /\ UNCHANGED <<requestQueue, inflight, out, fetches, cancelIds, unsubmitted, active>>
        /\ pc[t] = "idle"
    BY <1>5, <2>1, <2>2 DEF Retry, queueVars, listVars, At, Everyone
  <2>5. Hand("readd", Call(r), out[t])
    BY <2>1, <2>3 DEF Hand, Call
  <2> QED
    BY <1>1, <2>3, <2>4, <2>5
<1>6. ASSUME NEW t \in Threads, NEW p \in Problems, NEW f \in Fetches, Answer(t, p, f),
             Answerable(prob[p])
      PROVE  WorkInv'
  <2>1. PICK r : r = [NoRequest EXCEPT !.kind = "ANSWER", !.fetch = f]
    OBVIOUS
  <2>2. IsRequest(r) /\ r.kind = "ANSWER"
    BY <1>2, <2>1 DEF Kinds
  <2>3. /\ job' = [job EXCEPT ![t] = Call(r)] /\ Goto(t, "refetch") /\ t \in Everyone
        /\ UNCHANGED <<requestQueue, inflight, out, fetches, cancelIds, unsubmitted, active>>
        /\ pc[t] = "idle"
    BY <1>6, <2>1 DEF Answer, queueVars, listVars, At, Everyone
  <2>4. Hand("refetch", Call(r), out[t])
    BY <2>2 DEF Hand, Call
  <2> QED
    BY <1>1, <2>2, <2>3, <2>4
<1>7. ASSUME UNCHANGED <<listVars, queueVars, inflight, pc, job, out>> PROVE WorkInv'
  BY <1>7 DEF WorkInv, HandInv, SharedRequests, WorkIsRequested, Requested, At, listVars, queueVars
<1>8. ASSUME NEW t \in Threads, NEW p \in Problems, NEW f \in Fetches, Answer(t, p, f),
             ~Answerable(prob[p])
      PROVE  WorkInv'
  BY <1>7, <1>8 DEF Answer
<1> QED
  BY <1>3, <1>4, <1>5, <1>6, <1>7, <1>8 DEF UserCall, Cancel, Drop

\* A callback starts with the request it is the reply to.
LEMMA ReplyKeepsWork ==
  ASSUME ControlInv, WorkInv, NEW t \in Threads, NEW c \in Conns, NEW outcome,
         Reply(t, c, outcome)
  PROVE  WorkInv'
<1>1. PICK j : j = [req |-> inflight[c], outcome |-> outcome]
  OBVIOUS
<1>2. PICK label \in {"retry", "fail", "stop"} : Goto(t, label)
  BY DEF Reply
<1>3. /\ t \in Everyone /\ pc[t] = "idle" /\ SharedRequests
      /\ UNCHANGED <<requestQueue, unsubmitted, active, cancelIds, fetches>>
      /\ IsRequest(inflight[c]) /\ inflight[c].kind \in Kinds
  BY DEF Reply, At, Everyone, WorkInv, HandInv, SharedRequests, listVars, queueVars
<1>4. Valid(j, out[t]) /\ j.req = inflight[c]
  BY <1>1, <1>3, JobUpdates
<1>5. Hand(label, j, out[t])
  BY <1>3, <1>4 DEF Hand
<1>6. Moves(t, label, j, out[t])
  BY <1>1, <1>2, <1>3, SameHands DEF Reply, Moves
<1>7. SharedRequests'
  <2>1. inflight' = [d \in DOMAIN inflight \ {c} |-> inflight[d]]
    BY DEF Reply
  <2>2. \A d \in DOMAIN inflight' : d \in DOMAIN inflight /\ inflight'[d] = inflight[d]
    BY <2>1
  <2> QED
    BY <1>3, <2>2 DEF SharedRequests
<1>8. \A kind \in Kinds : Work(kind)' => Work(kind)
  BY <1>3 DEF Work
<1> QED
  BY <1>3, <1>4, <1>5, <1>6, <1>7, <1>8, QuietKeepsWork

\* So do calls, replies and the timer's thread.
LEMMA NextKeepsWork ==
  ASSUME ControlInv, SlotInv, WorkInv, [Next]_vars
  PROVE  WorkInv'
<1>1. CASE \E t \in Everyone : Step(t)
  BY <1>1, StepKeepsWork
<1>2. CASE UserCall
  BY <1>2, CallKeepsWork
<1>3. CASE ServiceReply
  BY <1>3, ReplyKeepsWork DEF ServiceReply
<1>4. CASE AsioStep \/ UNCHANGED vars
  BY <1>4 DEF AsioStep, vars, WorkInv, HandInv, SharedRequests, WorkIsRequested, Requested, At,
              listVars, queueVars
<1>5. CASE RetryNotification \/ NotificationReturns
  <2>1. /\ Io \in Everyone /\ pc[Io] \in {"idle", "return"}
        /\ UNCHANGED <<requestQueue, unsubmitted, active, cancelIds, fetches, inflight, job, out>>
    BY <1>5 DEF RetryNotification, NotificationReturns, At, Everyone, listVars, queueVars
  <2>2. PICK label \in {"enter", "idle"} : Goto(Io, label)
    BY <1>5 DEF RetryNotification, NotificationReturns
  <2>3. /\ Valid(job[Io], out[Io]) /\ Hand(label, job[Io], out[Io])
        /\ job' = [job EXCEPT ![Io] = job[Io]]
    BY <2>1, SameHands DEF Hand
  <2>4. /\ fetches' \in Seq(Fetches \cup {NoFetch})
        /\ \A kind \in Kinds : Work(kind)' => Work(kind)
    BY <2>1 DEF Work, WorkInv, HandInv, SharedRequests
  <2> QED
    BY <2>1, <2>2, <2>3, <2>4, OtherKeepsWork
<1> QED
  BY <1>1, <1>2, <1>3, <1>4, <1>5 DEF Next

\* Every request a thread or the manager has is well formed, and no wakeup is lost.
LEMMA WorkInvHolds == Spec => []WorkInv
<1>1. Init => WorkInv
  <2> SUFFICES ASSUME Init PROVE WorkInv
    OBVIOUS
  <2>1. /\ requestQueue = <<>> /\ fetches = <<>> /\ DOMAIN inflight = {}
        /\ unsubmitted = <<>> /\ active = <<>> /\ cancelIds = {}
    BY DEF Init
  <2>2. SharedRequests /\ WorkIsRequested
    BY <2>1 DEF SharedRequests, WorkIsRequested
  <2>3. Valid(NoJob, NoRequest) /\ Hand("idle", NoJob, NoRequest)
    BY NoRequestIs DEF Valid, Hand, NoJob
  <2>4. \A t \in Everyone : Valid(job[t], out[t]) /\ Hand(pc[t], job[t], out[t])
    BY <2>3 DEF Init
  <2>5. out = [t \in Everyone |-> out[t]] /\ job = [t \in Everyone |-> job[t]]
    BY DEF Init
  <2> QED
    BY <2>2, <2>4, <2>5 DEF WorkInv, HandInv
<1>2. ControlInv /\ SlotInv /\ WorkInv /\ [Next]_vars => WorkInv'
  BY NextKeepsWork
<1> QED
  BY <1>1, <1>2, ControlHolds, SlotInvHolds, PTL DEF Spec

\* Whatever the interleaving, a list with something on it has been or is about to
\* be asked for: pushRequest's one entry per kind and the lists' mutexes lose no
\* wakeup.
THEOREM WorkSafe == Spec => []WorkIsRequested
<1>1. WorkInv => WorkIsRequested
  BY DEF WorkInv
<1> QED
  BY <1>1, WorkInvHolds, PTL

-----------------------------------------------------------------------------
(* Who ends a retry wait. *)
Reporter(t) ==
  \/ pc[t] \in {"stop", "retry"}
  \/ pc[t] = "fail" /\ job[t].outcome \notin {"retry", "giveup"}
WaitEnds == DOMAIN inflight # {} \/ (\E t \in Everyone : Reporter(t)) \/ TimerWillNotify
MayWait ==
  \/ retryState = "WAITING_TO_RETRY"
  \/ retryState = "RETRY_NOW" /\ \E t \in Everyone : At(t, "sent")
NotifierInv ==
  /\ expired > 0 => ~notifying
  /\ ~notifying => At(Io, "idle")
WakerInv == NotifierInv /\ (MayWait => WaitEnds)

\* A step of a thread that leaves the timer and the open requests alone.
LEMMA MoveKeepsWaker ==
  ASSUME ControlInv, WakerInv, NEW t \in Everyone, NEW label, Goto(t, label),
         UNCHANGED <<inflight, timerVars>>,
         pc[t] = "idle" => t # Io, label = "idle" => t # Io,
         \A u \in Everyone \ {t} : job'[u] = job[u],
         retryState' = "WAITING_TO_RETRY" =>
           retryState = "WAITING_TO_RETRY" \/ (retryState = "RETRY_NOW" /\ pc[t] = "sent"),
         retryState' = "RETRY_NOW" => retryState = "RETRY_NOW" /\ label # "sent",
         Reporter(t) => Reporter(t)' \/ retryState' = "NO_RETRY"
  PROVE  WakerInv'
<1>1. pc'[t] = label /\ \A u \in Everyone \ {t} : pc'[u] = pc[u]
  BY DEF ControlInv, Goto
<1>2. NotifierInv'
  BY <1>1 DEF WakerInv, NotifierInv, At, timerVars, Everyone
<1>3. ASSUME MayWait' PROVE WaitEnds'
  <2>1. MayWait
    BY <1>1, <1>3 DEF MayWait, At
  <2>2. retryState' # "NO_RETRY"
    BY <1>3 DEF MayWait
  <2>3. CASE DOMAIN inflight # {}
    BY <2>3 DEF WaitEnds
  <2>4. CASE TimerWillNotify
    BY <1>1, <2>4 DEF WaitEnds, TimerWillNotify, At, timerVars, Everyone
  <2>5. ASSUME NEW u \in Everyone, Reporter(u) PROVE WaitEnds'
    <3>1. Reporter(u)'
      BY <1>1, <2>2, <2>5 DEF Reporter
    <3> QED
      BY <3>1 DEF WaitEnds
  <2> QED
    BY <2>1, <2>3, <2>4, <2>5 DEF WakerInv, WaitEnds
<1> QED
  BY <1>2, <1>3 DEF WakerInv

\* In its own code a thread that is not a reporter changes neither the timer nor,
\* except where it takes the notification for its own, the retry state.
LEMMA OrdinaryMoves ==
  ASSUME ControlInv, WorkInv, NEW t \in Everyone, Step(t),
         ~Issue(t), ~StopRetrying(t), ~RetryFailedRequest(t)
  PROVE  /\ pc[t] \notin {"idle", "stop", "retry"}
         /\ UNCHANGED <<inflight, timerVars>>
         /\ \A u \in Everyone \ {t} : job'[u] = job[u]
         /\ retryState' = "WAITING_TO_RETRY" =>
              retryState = "WAITING_TO_RETRY" \/ (retryState = "RETRY_NOW" /\ pc[t] = "sent")
         /\ retryState' = "RETRY_NOW" => retryState = "RETRY_NOW"
         /\ \E label : /\ Goto(t, label) /\ label # "sent" /\ (label = "idle" => t # Io)
                       /\ pc[t] = "fail" /\ job[t].outcome \notin {"retry", "giveup"}
                            => label = "stop"
<1>0. job = [u \in Everyone |-> job[u]]
  BY DEF WorkInv, HandInv
<1>1. ASSUME NEW free, Loop(t, free)
      PROVE  \E label \in {"take", "complete", "return", "idle"} :
               Goto(t, label) /\ (label = "idle" => t # Io)
  <2>1. CASE free > 0 /\ requestQueue # <<>>
    BY <1>1, <2>1 DEF Loop
  <2>2. CASE ~(free > 0 /\ requestQueue # <<>>)
    BY <1>1, <2>2, ReturnedPc DEF Loop, Returned
  <2> QED
    BY <2>1, <2>2
<1>2. CASE Enter(t)
  <2>1. CASE retryState = "WAITING_TO_RETRY"
    BY <1>2, <2>1, ReturnedPc DEF Enter, At, timerVars, Returned
  <2>2. CASE retryState # "WAITING_TO_RETRY"
    BY <1>1, <1>2, <2>2 DEF Enter, At, timerVars
  <2> QED
    BY <2>1, <2>2
<1>3. CASE Sent(t)
  <2>1. PICK label \in {"take", "complete", "return", "idle"} :
               Goto(t, label) /\ (label = "idle" => t # Io)
    BY <1>1, <1>3 DEF Sent
  <2> QED
    BY <1>3, <2>1 DEF Sent, At, timerVars
<1>4. CASE Unsent(t)
  <2>1. PICK label \in {"take", "complete", "return", "idle"} :
               Goto(t, label) /\ (label = "idle" => t # Io)
    BY <1>1, <1>4 DEF Unsent
  <2> QED
    BY <1>4, <2>1 DEF Unsent, At, timerVars
<1>5. CASE TakeProblems(t) \/ TakeCancels(t) \/ TakeFetch(t)
  BY <1>5 DEF TakeProblems, TakeCancels, TakeFetch, At, timerVars, queueVars
<1>6. CASE StatusComplete(t)
  BY <1>0, <1>6 DEF StatusComplete, At, timerVars, queueVars
<1>7. CASE FailProblems(t)
  <2>1. /\ pc[t] = "fail" /\ UNCHANGED <<inflight, timerVars, retryState>>
        /\ \A u \in Everyone \ {t} : job'[u] = job[u]
    BY <1>0, <1>7 DEF FailProblems, At, timerVars, queueVars
  <2>2. PICK label : /\ Goto(t, label) /\ label # "sent" /\ label # "idle"
                     /\ job[t].outcome \notin {"retry", "giveup"} => label = "stop"
    <3>1. CASE job[t].outcome = "retry"
      BY <1>7, <3>1 DEF FailProblems
    <3>2. CASE job[t].outcome = "giveup"
      BY <1>7, <3>2 DEF FailProblems
    <3>3. CASE job[t].outcome \notin {"retry", "giveup"}
      BY <1>7, <3>3 DEF FailProblems
    <3> QED
      BY <3>1, <3>2, <3>3
  <2> QED
    BY <2>1, <2>2
<1>8. CASE CheckCancelled(t)
  BY <1>8 DEF CheckCancelled, At, timerVars, queueVars
<1>9. CASE PushCancel(t) \/ QueueActive(t) \/ RetrySubmit(t) \/ RetryCancel(t)
  BY <1>0, <1>9 DEF PushCancel, QueueActive, RetrySubmit, RetryCancel, At, timerVars, queueVars
<1>10. CASE FetchAnswer(t) \/ DeliverAnswer(t) \/ Push(t) \/ AddSubmittedProblem(t) \/ RequestComplete(t)
  BY <1>0, <1>10
     DEF FetchAnswer, DeliverAnswer, Push, AddSubmittedProblem, RequestComplete, At, timerVars, queueVars
<1> QED
  BY <1>2, <1>3, <1>4, <1>5, <1>6, <1>7, <1>8, <1>9, <1>10 DEF Step

\* retryFailedRequest leaves the timer with a wait.
LEMMA RetryArms ==
  ASSUME Timer!Retry, present = TRUE, Timer!WaitingHasWait, nextDelay \in Nat \ {0}
  PROVE  armed' > 0 \/ expired' > 0
  BY DEF Timer!Retry, Timer!WaitingHasWait

\* Every step of a thread keeps the waker.
LEMMA StepKeepsWaker ==
  ASSUME ControlInv, WorkInv, WakerInv, present = TRUE, Timer!WaitingHasWait,
         nextDelay \in Nat \ {0}, NEW t \in Everyone, Step(t)
  PROVE  WakerInv'
<1>1. CASE Issue(t)
  <2>1. /\ pc[t] = "issue" /\ UNCHANGED <<retryState, timerVars, job>>
        /\ \/ Goto(t, "unsent") /\ inflight' = inflight
           \/ Goto(t, "sent") /\ DOMAIN inflight' = DOMAIN inflight \cup {FreeConn}
    BY <1>1 DEF Issue, At, Open, timerVars
  <2>2. CASE Goto(t, "unsent") /\ inflight' = inflight
    BY <2>1, <2>2, MoveKeepsWaker DEF Reporter
  <2>3. CASE Goto(t, "sent") /\ DOMAIN inflight' = DOMAIN inflight \cup {FreeConn}
    <3>1. WaitEnds'
      BY <2>3 DEF WaitEnds
    <3>2. NotifierInv'
      BY <2>1, <2>3 DEF WakerInv, NotifierInv, ControlInv, Goto, At, timerVars, Everyone
    <3> QED
      BY <3>1, <3>2 DEF WakerInv
  <2> QED
    BY <2>1, <2>2, <2>3
<1>2. CASE StopRetrying(t)
  <2>1. /\ pc[t] = "stop" /\ retryState' = "NO_RETRY"
        /\ UNCHANGED <<expired, notifying>>
    BY <1>2 DEF StopRetrying, At, Timer!Success, timerVars
  <2>2. PICK label : Goto(t, label)
    BY <1>2 DEF StopRetrying
  <2> QED
    BY <2>1, <2>2 DEF WakerInv, MayWait, NotifierInv, ControlInv, Goto, At, Everyone
<1>3. CASE RetryFailedRequest(t)
  <2>1. pc[t] = "retry" /\ Timer!Retry /\ UNCHANGED <<expired, notifying>>
    BY <1>3 DEF RetryFailedRequest, At, Timer!Retry
  <2>2. PICK label : Goto(t, label)
    BY <1>3 DEF RetryFailedRequest
  <2>3. WaitEnds'
    BY <2>1, RetryArms DEF WaitEnds, TimerWillNotify
  <2> QED
    BY <2>1, <2>2, <2>3 DEF WakerInv, NotifierInv, ControlInv, Goto, At, Everyone
<1>4. CASE ~Issue(t) /\ ~StopRetrying(t) /\ ~RetryFailedRequest(t)
  <2>1. PICK label : /\ Goto(t, label) /\ label # "sent" /\ (label = "idle" => t # Io)
                     /\ pc[t] = "fail" /\ job[t].outcome \notin {"retry", "giveup"}
                            => label = "stop"
    BY <1>4, OrdinaryMoves
  <2>2. Reporter(t) => Reporter(t)'
    BY <1>4, <2>1, OrdinaryMoves DEF Reporter, Goto, ControlInv
  <2> QED
    BY <1>4, <2>1, <2>2, OrdinaryMoves, MoveKeepsWaker
<1> QED
  BY <1>1, <1>2, <1>3, <1>4

\* Every step keeps the waker.
LEMMA NextKeepsWaker ==
  ASSUME PromptSenders, ControlInv, WorkInv, WakerInv, present = TRUE, Timer!WaitingHasWait,
         nextDelay \in Nat \ {0}, [Next]_vars
  PROVE  WakerInv'
<1>0. pc \in [Everyone -> Pcs] /\ Io \in Everyone /\ Io \notin Threads
  BY NamesAssumption DEF ControlInv, Everyone
<1>1. ASSUME NEW t \in Everyone, Step(t) PROVE WakerInv'
  BY <1>1, StepKeepsWaker
<1>2. ASSUME NEW t \in Threads, NEW p \in Problems, Submit(t, p) \/ Add(t, p) \/ Retry(t, p)
      PROVE  WakerInv'
  <2>1. /\ t \in Everyone /\ pc[t] = "idle" /\ t # Io
        /\ UNCHANGED <<inflight, timerVars, retryState>>
        /\ \A u \in Everyone \ {t} : job'[u] = job[u]
    BY <1>2 DEF Submit, Add, Retry, At, Everyone, queueVars, timerVars, WorkInv, HandInv
  <2>2. Goto(t, "push") \/ Goto(t, "readd")
    BY <1>2 DEF Submit, Add, Retry
  <2> QED
    BY <2>1, <2>2, MoveKeepsWaker DEF Reporter
<1>3. ASSUME UNCHANGED <<pc, job, retryState, inflight, timerVars>> PROVE WakerInv'
  BY <1>3 DEF WakerInv, NotifierInv, MayWait, WaitEnds, Reporter, TimerWillNotify, At, timerVars
<1>4. ASSUME NEW t \in Threads, NEW p \in Problems, NEW f \in Fetches, Answer(t, p, f)
      PROVE  WakerInv'
  <2>1. CASE Answerable(prob[p])
    <3>1. /\ t \in Everyone /\ pc[t] = "idle" /\ t # Io /\ Goto(t, "refetch")
          /\ UNCHANGED <<inflight, timerVars, retryState>>
          /\ \A u \in Everyone \ {t} : job'[u] = job[u]
      BY <1>4, <2>1 DEF Answer, At, Everyone, queueVars, timerVars, WorkInv, HandInv
    <3> QED
      BY <3>1, MoveKeepsWaker DEF Reporter
  <2>2. CASE ~Answerable(prob[p])
    BY <1>3, <1>4, <2>2 DEF Answer, queueVars
  <2> QED
    BY <2>1, <2>2
<1>5. ASSUME NEW p \in Problems, Cancel(p) \/ Drop(p) PROVE WakerInv'
  BY <1>3, <1>5 DEF Cancel, Drop, queueVars
<1>6. ASSUME NEW t \in Threads, NEW c \in Conns, NEW outcome \in {"ok", "network", "other"},
             Reply(t, c, outcome)
      PROVE  WakerInv'
  <2>1. /\ t \in Everyone /\ t # Io /\ UNCHANGED <<timerVars, retryState>>
        /\ job'[t].outcome = outcome
    BY <1>6 DEF Reply, queueVars, Everyone, WorkInv, HandInv
  <2>2. PICK label : /\ Goto(t, label)
          /\ label = CASE outcome = "network" -> "retry"
                       [] outcome = "other" /\ inflight[c].kind \in StatusKinds -> "fail"
                       [] OTHER -> "stop"
    BY <1>6 DEF Reply
  <2>3. label \in {"retry", "stop"} \/ (label = "fail" /\ outcome = "other")
    BY <2>2
  <2>4. Reporter(t)'
    BY <1>0, <2>1, <2>2, <2>3 DEF Reporter, Goto
  <2>5. WaitEnds'
    BY <2>1, <2>4 DEF WaitEnds
  <2>6. NotifierInv'
    BY <1>0, <2>1, <2>2 DEF WakerInv, NotifierInv, Goto, At, timerVars
  <2> QED
    BY <2>5, <2>6 DEF WakerInv
<1>7. ASSUME AsioStep PROVE WakerInv'
  <2>1. UNCHANGED <<pc, job, retryState, inflight>>
    BY <1>7 DEF AsioStep, queueVars
  <2>2. \/ armed > 0 /\ ~notifying /\ expired' = armed /\ UNCHANGED notifying
        \/ expired > 0 /\ expired' = 0 /\ notifying' = TRUE
    BY <1>7 DEF AsioStep, Timer!Expire, Timer!TimerExpired
  <2>3. NotifierInv' /\ TimerWillNotify'
    BY <2>1, <2>2 DEF WakerInv, NotifierInv, TimerWillNotify, At
  <2> QED
    BY <2>3 DEF WakerInv, WaitEnds
<1>8. ASSUME RetryNotification PROVE WakerInv'
  <2>1. /\ notifying /\ UNCHANGED timerVars /\ retryState' = "RETRY_NOW"
        /\ Goto(Io, "enter") /\ \A t \in Everyone : ~At(t, "sent")
    BY <1>8 DEF RetryNotification
  <2>2. ~MayWait'
    BY <1>0, <2>1 DEF MayWait, At, Goto
  <2>3. NotifierInv'
    BY <2>1 DEF WakerInv, NotifierInv, timerVars
  <2> QED
    BY <2>2, <2>3 DEF WakerInv
<1>9. ASSUME NotificationReturns PROVE WakerInv'
  <2>1. /\ pc[Io] = "return" /\ Goto(Io, "idle") /\ notifying /\ notifying' = FALSE
        /\ UNCHANGED <<armed, expired, job, retryState, inflight>>
    BY <1>9 DEF NotificationReturns, Timer!NotifyReturn, At, queueVars
  <2>2. NotifierInv'
    BY <1>0, <2>1 DEF WakerInv, NotifierInv, At, Goto
  <2>3. MayWait' => MayWait
    BY <1>0, <2>1 DEF MayWait, At, Goto
  <2>4. WaitEnds => WaitEnds'
    BY <1>0, <2>1 DEF WaitEnds, Reporter, TimerWillNotify, At, Goto
  <2> QED
    BY <2>2, <2>3, <2>4 DEF WakerInv
<1>10. ASSUME UNCHANGED vars PROVE WakerInv'
  BY <1>3, <1>10 DEF vars, timerVars
<1> QED
  BY <1>1, <1>2, <1>4, <1>5, <1>6, <1>7, <1>8, <1>9, <1>10 DEF Next, UserCall, ServiceReply

\* The timer's own theorems, for the timer of the manager.
TimerFacts == INSTANCE RetryTimer_proofs
\* The timer of the manager is one of RetryTimer's.
LEMMA TimerHolds == Spec => [](Timer!WaitingHasWait /\ nextDelay \in Nat \ {0})
<1>1. TimerFacts!TimingAssumption
  BY DelaysAssumption DEF TimerFacts!TimingAssumption
<1>2. TimerFacts!Spec => []TimerFacts!WaitingHasWait
  BY <1>1, TimerFacts!WaitingSafe
<1>3. TimerFacts!Spec => []TimerFacts!TypeOK
  BY <1>1, TimerFacts!TypeCorrect
<1>4. Timer!Init => TimerFacts!Init
  BY DEF Timer!Init, TimerFacts!Init
<1>5. [Timer!Next]_(Timer!timerVars) => [TimerFacts!Next]_(TimerFacts!timerVars)
  BY DEF Timer!Next, TimerFacts!Next, Timer!timerVars, TimerFacts!timerVars,
     Timer!Retry, Timer!Success, Timer!Expire, Timer!TimerExpired, Timer!NotifyReturn,
     Timer!Shutdown, TimerFacts!Retry, TimerFacts!Success, TimerFacts!Expire,
     TimerFacts!TimerExpired, TimerFacts!NotifyReturn, TimerFacts!Shutdown,
     Timer!Backoff, TimerFacts!Backoff
<1>6. TimerFacts!TypeOK /\ TimerFacts!WaitingHasWait =>
        Timer!WaitingHasWait /\ nextDelay \in Nat \ {0}
  BY DelaysAssumption DEF Timer!WaitingHasWait, TimerFacts!WaitingHasWait,
     TimerFacts!TypeOK, TimerFacts!Delays
<1> QED
  BY <1>2, <1>3, <1>4, <1>5, <1>6, ImplementsTimer, PTL DEF TimerSpec, Timer!Spec, TimerFacts!Spec

\* So whoever waits for a sender has one.
LEMMA WakerHolds == ASSUME PromptSenders PROVE Spec => []WakerInv
<1>1. Init => WakerInv
  BY DEF Init, Timer!Init, WakerInv, NotifierInv, MayWait, At, Everyone
<1>2. ControlInv /\ WorkInv /\ FreshTimerInv /\ Timer!WaitingHasWait /\ nextDelay \in Nat \ {0}
        /\ WakerInv /\ [Next]_vars => WakerInv'
  BY NextKeepsWaker DEF FreshTimerInv
<1> QED
  BY <1>1, <1>2, ControlHolds, WorkInvHolds, FreshTimerHolds, TimerHolds, PTL DEF Spec

\* With every thread idle and no request under way, a queue that waits has the
\* timer to wake it.
LEMMA WaiterIsWoken ==
  ASSUME ControlInv, SlotInv, QueueServed, WakerInv, requestQueue # <<>>
  PROVE  SomebodyWillCome
<1> SUFFICES ASSUME \A t \in Everyone : ~Busy(t), DOMAIN inflight = {}
             PROVE  TimerWillNotify
  BY DEF SomebodyWillCome
<1>1. Senders = {} /\ owed = {}
  BY DEF Senders, SenderPcs, Busy, ControlInv, CallPcs
<1>2. available = MaxActiveRequests
  BY <1>1, FS_EmptySet DEF SlotInv, SlotsAccounted
<1>3. retryState = "WAITING_TO_RETRY"
  BY <1>2, LimitsAssumption DEF QueueServed
<1>4. WaitEnds
  BY <1>3 DEF WakerInv, MayWait
<1> QED
  BY <1>4 DEF WaitEnds, Reporter, Busy

\* With a sender that has its mutex back before the shortest delay is over,
\* queued requests always have somebody who will come back to them.
THEOREM WakerSafe == ASSUME PromptSenders PROVE Spec => []QueueHasWaker
<1>1. ControlInv /\ SlotInv /\ QueueServed /\ WakerInv => QueueHasWaker
  BY WaiterIsWoken DEF QueueHasWaker
<1> QED
  BY <1>1, ControlHolds, SlotInvHolds, QueueServedSafe, WakerHolds, PTL

HIDE DEF LimitsAssumption, NamesAssumption

-----------------------------------------------------------------------------
(***************************************************************************)
(* Lists without repetitions.                                              *)
(***************************************************************************)
\* A condition as a number, for adding places up.
Bit(b) == IF b THEN 1 ELSE 0
\* An element occurs at most once.
Once(s, x) == \A i, j \in DOMAIN s : s[i] = x /\ s[j] = x => i = j

\* Counting the places of an element that occurs at most once.
LEMMA CountOnce ==
  ASSUME NEW X, NEW s \in Seq(X), NEW x
  PROVE  /\ CountIn(s, x) \in Nat
         /\ CountIn(s, x) <= 1 <=> Once(s, x)
         /\ Once(s, x) => CountIn(s, x) = Bit(x \in Elements(s))
<1> DEFINE I == {i \in DOMAIN s : s[i] = x}
<1>1. /\ DOMAIN s = 1 .. Len(s) /\ Len(s) \in Nat
  OBVIOUS
<1>2. IsFiniteSet(I) /\ Cardinality(I) \in Nat
  <2>1. IsFiniteSet(1 .. Len(s)) /\ I \in SUBSET (1 .. Len(s))
    BY <1>1, FS_Interval
  <2> QED
    BY <2>1, FS_Subset, FS_CardinalityType
<1>3. (Cardinality(I) = 0 <=> I = {}) /\ (Cardinality(I) = 1 <=> \E i : I = {i})
  BY <1>2, FS_EmptySet, FS_Singleton
<1>4. CountIn(s, x) = Cardinality(I)
  BY DEF CountIn
<1>5. I = {} <=> x \notin Elements(s)
  BY DEF Elements
<1>6. Once(s, x) <=> \A i, j \in I : i = j
  BY DEF Once
<1> HIDE DEF I
<1>7. (\A i, j \in I : i = j) <=> (I = {} \/ \E i : I = {i})
  <2>1. CASE \A i, j \in I : i = j
    <3>1. \A i \in I : I = {i}
      BY <2>1
    <3> QED
      BY <2>1, <3>1
  <2> QED
    BY <2>1
<1>8. Cardinality(I) <= 1 <=> Cardinality(I) = 0 \/ Cardinality(I) = 1
  BY <1>2
<1> QED
  BY <1>2, <1>3, <1>4, <1>5, <1>6, <1>7, <1>8 DEF Bit

\* Two lists one after the other.
LEMMA ConcatOnce ==
  ASSUME NEW X, NEW a \in Seq(X), NEW b \in Seq(X)
  PROVE  /\ a \o b \in Seq(X)
         /\ Elements(a \o b) = Elements(a) \cup Elements(b)
         /\ \A x : Once(a, x) /\ Once(b, x) /\ ~(x \in Elements(a) /\ x \in Elements(b))
              <=> Once(a \o b, x)
<1>0. PICK s : s = a \o b
  OBVIOUS
<1>1. /\ s \in Seq(X) /\ Len(a) \in Nat /\ Len(b) \in Nat
      /\ DOMAIN a = 1 .. Len(a) /\ DOMAIN b = 1 .. Len(b)
      /\ DOMAIN s = 1 .. Len(a) + Len(b)
      /\ \A i \in 1 .. Len(a) + Len(b) : s[i] = IF i <= Len(a) THEN a[i] ELSE b[i - Len(a)]
  BY <1>0, ConcatProperties
<1>2. /\ \A i \in DOMAIN a : i \in DOMAIN s /\ s[i] = a[i]
      /\ \A i \in DOMAIN b : i + Len(a) \in DOMAIN s /\ s[i + Len(a)] = b[i]
      /\ \A i \in DOMAIN s : i \in DOMAIN a \/ (i - Len(a) \in DOMAIN b /\ s[i] = b[i - Len(a)])
  BY <1>1
<1>3. Elements(s) = Elements(a) \cup Elements(b)
  BY <1>2 DEF Elements
<1>4. ASSUME NEW x, Once(a, x), Once(b, x), ~(x \in Elements(a) /\ x \in Elements(b))
      PROVE  Once(s, x)
  <2> SUFFICES ASSUME NEW i \in DOMAIN s, NEW j \in DOMAIN s, s[i] = x, s[j] = x PROVE i = j
    BY DEF Once
  <2> QED
    BY <1>1, <1>2, <1>4 DEF Once, Elements
<1>5. ASSUME NEW x, Once(s, x)
      PROVE  Once(a, x) /\ Once(b, x) /\ ~(x \in Elements(a) /\ x \in Elements(b))
  <2>1. Once(a, x)
    BY <1>2, <1>5 DEF Once
  <2>2. Once(b, x)
    BY <1>1, <1>2, <1>5 DEF Once
  <2>3. ASSUME x \in Elements(a), x \in Elements(b) PROVE FALSE
    <3>1. PICK i \in DOMAIN a, j \in DOMAIN b : a[i] = x /\ b[j] = x
      BY <2>3 DEF Elements
    <3>2. i = j + Len(a)
      BY <1>2, <1>5, <3>1 DEF Once
    <3> QED
      BY <1>1, <3>2
  <2> QED
    BY <2>1, <2>2, <2>3
<1> QED
  BY <1>0, <1>1, <1>3, <1>4, <1>5

\* A single element.
LEMMA SingleOnce ==
  ASSUME NEW X, NEW p \in X
  PROVE  /\ <<p>> \in Seq(X) /\ Elements(<<p>>) = {p} /\ \A x : Once(<<p>>, x)
         /\ \A s \in Seq(X) : Append(s, p) = s \o <<p>>
<1>1. <<p>> \in Seq(X) /\ DOMAIN <<p>> = {1} /\ <<p>>[1] = p
  OBVIOUS
<1>2. \A s \in Seq(X) : Append(s, p) = s \o <<p>>
  BY AppendIsConcat
<1> QED
  BY <1>1, <1>2 DEF Elements, Once

\* Nothing is in the empty list.
LEMMA EmptyOnce ==
  /\ Elements(<<>>) = {} /\ \A x : Once(<<>>, x)
  /\ \A X : \A s \in Seq(X) : Elements(s) = {} <=> s = <<>>
  BY DEF Elements, Once

\* A list is its head and the rest.
LEMMA HeadTail ==
  ASSUME NEW X, NEW s \in Seq(X), s # <<>>
  PROVE  /\ Head(s) \in X /\ Tail(s) \in Seq(X) /\ s = <<Head(s)>> \o Tail(s)
         /\ Tail(s) # <<>> <=> Len(s) > 1
<1>1. PICK h, t : h = Head(s) /\ t = Tail(s)
  OBVIOUS
<1>2. /\ h \in X /\ t \in Seq(X) /\ Len(s) \in Nat /\ Len(s) > 0 /\ Len(t) = Len(s) - 1
      /\ s[1] = h /\ \A i \in 1 .. Len(t) : t[i] = s[i + 1]
  BY <1>1, HeadTailProperties
<1>3. /\ <<h>> \o t \in Seq(X) /\ Len(<<h>> \o t) = Len(s)
      /\ \A i \in 1 .. Len(s) : (<<h>> \o t)[i] = s[i]
  BY <1>2
<1>4. s = <<h>> \o t
  BY <1>3, SeqEqual, SMTT(60)
<1> QED
  BY <1>1, <1>2, <1>4

\* A list cut in two.
LEMMA CutOnce ==
  ASSUME NEW X, NEW s \in Seq(X), NEW n \in 0 .. Len(s)
  PROVE  /\ SubSeq(s, 1, n) \in Seq(X) /\ SubSeq(s, n + 1, Len(s)) \in Seq(X)
         /\ s = SubSeq(s, 1, n) \o SubSeq(s, n + 1, Len(s))
<1>1. /\ Len(s) \in Nat /\ n \in Nat /\ \A i \in 1 .. n : i \in 1 .. Len(s)
      /\ \A i \in n + 1 .. Len(s) : i \in 1 .. Len(s)
  OBVIOUS
<1>2. SubSeq(s, 1, n) \in Seq(X) /\ SubSeq(s, n + 1, Len(s)) \in Seq(X)
  BY <1>1, SubSeqProperties
<1>3. SubSeq(s, 1, Len(s)) = s
  BY SubSeqFull
<1>4. SubSeq(s, 1, n) \o SubSeq(s, n + 1, Len(s)) = SubSeq(s, 1, Len(s))
  <2>1. 1 \in 1 .. Len(s) + 1 /\ n \in 1 - 1 .. Len(s) /\ Len(s) \in n .. Len(s)
    BY <1>1
  <2> QED
    BY <2>1, ConcatAdjacentSubSeq
<1> QED
  BY <1>2, <1>3, <1>4

\* How much a send takes is a length of a front of the list.
LEMMA TakenLenBound ==
  ASSUME NEW X, NEW s \in Seq(X), NEW quota
  PROVE  TakenLen(s, quota) \in 0 .. Len(s)
<1> DEFINE I == {i \in DOMAIN s : Cardinality({j \in 1 .. i - 1 : s[j] \in live}) < quota}
<1>1. I \in SUBSET (1 .. Len(s)) /\ Len(s) \in Nat
  OBVIOUS
<1>2. IsFiniteSet(1 .. Len(s)) /\ Cardinality(1 .. Len(s)) = Len(s)
  BY <1>1, FS_Interval, SMTT(60)
<1>3. Cardinality(I) \in Nat /\ Cardinality(I) <= Len(s)
  BY <1>1, <1>2, FS_Subset, FS_CardinalityType
<1> QED
  BY <1>1, <1>3 DEF TakenLen

\* The kept elements, one by one: the n-th element of I is the one with n
\* elements of I up to it.
LEMMA RankBijection ==
  ASSUME NEW m \in Nat, NEW I \in SUBSET (1 .. m)
  PROVE  /\ Cardinality(I) \in Nat
         /\ \A k \in 1 .. Cardinality(I) :
              \E i \in I : Cardinality({j \in I : j <= i}) = k
         /\ \A i \in I : Cardinality({j \in I : j <= i}) \in 1 .. Cardinality(I)
         /\ \A i, h \in I :
              Cardinality({j \in I : j <= i}) = Cardinality({j \in I : j <= h}) => i = h
<1> DEFINE Low(i) == {j \in I : j <= i}
           r == [i \in I |-> Cardinality(Low(i))]
<1>1. IsFiniteSet(I) /\ Cardinality(I) \in Nat /\ I \subseteq Nat
  <2>1. IsFiniteSet(1 .. m) /\ 1 .. m \subseteq Nat
    BY FS_Interval
  <2>2. IsFiniteSet(I)
    BY <2>1, FS_Subset
  <2> QED
    BY <2>1, <2>2, FS_CardinalityType
<1>2. \A i \in I : /\ Low(i) \in SUBSET I /\ IsFiniteSet(Low(i)) /\ Cardinality(Low(i)) \in Nat
                   /\ Cardinality(Low(i)) <= Cardinality(I) /\ Cardinality(Low(i)) # 0
  <2> TAKE i \in I
  <2>1. Low(i) \in SUBSET I /\ i \in Low(i)
    BY <1>1
  <2> QED
    BY <1>1, <2>1, FS_Subset, FS_CardinalityType, FS_EmptySet
<1>3. ASSUME NEW i \in I, NEW h \in I, i < h PROVE Cardinality(Low(i)) # Cardinality(Low(h))
  <2>1. \A j \in I : j <= i => j <= h
    BY <1>1, <1>3
  <2>2. h <= h /\ ~(h <= i)
    BY <1>1, <1>3
  <2>3. Low(i) \in SUBSET Low(h) /\ h \in Low(h) /\ h \notin Low(i)
    BY <2>1, <2>2
  <2> QED
    BY <1>2, <2>3, FS_Subset
<1>4. \A i, h \in I : Cardinality(Low(i)) = Cardinality(Low(h)) => i = h
  BY <1>1, <1>3
<1>5. \A i \in I : Cardinality(Low(i)) \in 1 .. Cardinality(I)
  BY <1>1, <1>2
<1>6. r \in Injection(I, 1 .. Cardinality(I))
  BY <1>4, <1>5 DEF Injection, IsInjective
<1>7. IsFiniteSet(1 .. Cardinality(I)) /\ Cardinality(1 .. Cardinality(I)) = Cardinality(I)
  BY <1>1, FS_Interval
<1>8. r \in Surjection(I, 1 .. Cardinality(I))
  BY <1>6, <1>7, FS_Injection
<1>9. \A k \in 1 .. Cardinality(I) : \E i \in I : r[i] = k
  BY <1>8 DEF Surjection
<1> QED
  BY <1>1, <1>4, <1>5, <1>9

\* What is kept: the elements that are in S, each as often as before.
LEMMA KeptOnce ==
  ASSUME NEW X, NEW s \in Seq(X), NEW S
  PROVE  /\ Kept(s, S) \in Seq(X)
         /\ Elements(Kept(s, S)) = Elements(s) \cap S
         /\ \A x : Once(s, x) => Once(Kept(s, S), x)
<1> DEFINE I == {i \in DOMAIN s : s[i] \in S}
           Nth(k) == CHOOSE i \in I : Cardinality({j \in I : j <= i}) = k
           n == Cardinality(I)
<1>1. I \in SUBSET (1 .. Len(s)) /\ Len(s) \in Nat /\ DOMAIN s = 1 .. Len(s)
  OBVIOUS
<1>2. /\ n \in Nat
      /\ \A k \in 1 .. n : \E i \in I : Cardinality({j \in I : j <= i}) = k
      /\ \A i \in I : Cardinality({j \in I : j <= i}) \in 1 .. n
      /\ \A i, h \in I : Cardinality({j \in I : j <= i}) = Cardinality({j \in I : j <= h}) => i = h
  BY <1>1, RankBijection
<1>3. \A k \in 1 .. n : Nth(k) \in I /\ Cardinality({j \in I : j <= Nth(k)}) = k
  BY <1>2
<1>4. \A i \in I : \E k \in 1 .. n : Nth(k) = i
  BY <1>2, <1>3
<1>5. PICK t : t = Kept(s, S)
  OBVIOUS
<1>6. t = [k \in 1 .. n |-> s[Nth(k)]]
  BY <1>5 DEF Kept
<1>8. \A i \in I : i \in DOMAIN s /\ s[i] \in S /\ s[i] \in X
  BY <1>1
<1>9. \A i \in DOMAIN s : s[i] \in S => i \in I
  OBVIOUS
<1> HIDE DEF Nth
<1>7. \A k, l \in 1 .. n : Nth(k) = Nth(l) => k = l
  BY <1>3
<1> HIDE DEF I, n
<1>10. t \in Seq(X) /\ DOMAIN t = 1 .. n /\ \A k \in 1 .. n : t[k] = s[Nth(k)]
  <2>1. t \in [1 .. n -> X]
    BY <1>3, <1>6, <1>8
  <2> QED
    BY <1>2, <1>6, <2>1
<1>11. Elements(t) \subseteq Elements(s) \cap S
  BY <1>3, <1>8, <1>10 DEF Elements
<1>12. Elements(s) \cap S \subseteq Elements(t)
  BY <1>4, <1>9, <1>10 DEF Elements
<1>13. \A x : Once(s, x) => Once(t, x)
  BY <1>3, <1>7, <1>8, <1>10 DEF Once
<1> QED
  BY <1>5, <1>10, <1>11, <1>12, <1>13

(***************************************************************************)
(* What threads carry.                                                     *)
(***************************************************************************)
Carried(r) ==
  /\ r.probs \in Seq(Problems) /\ r.ids \in SUBSET Problems /\ r.more \in BOOLEAN
  /\ r.probs # <<>> => r.kind \in StatusKinds
  /\ r.fetch # NoFetch => r.kind = "ANSWER"

\* Where a thread may have problems or an answer callback in its job.
ProblemPcs == {"update", "cancelcheck", "pushcancel", "requeue", "fail", "resubmit", "readd"}
FetchPcs == {"stop", "retry", "refetch", "deliver"}
Load(label, j, r) ==
  /\ Carried(r) /\ Carried(j.req) /\ j.outcome \in Outcomes
  /\ label # "issue" => r.probs = <<>> /\ r.fetch = NoFetch /\ r.ids = {}
  /\ j.req.probs # <<>> =>
       label \in ProblemPcs \cup {"retry"} \/ (label = "stop" /\ j.outcome = "ok")
  /\ label \in FetchPcs /\ j.req.kind = "ANSWER" <=> j.req.fetch # NoFetch
  /\ label \in ProblemPcs => j.req.kind \in StatusKinds

\* What the lists and the table of problems hold.
SharedData ==
  /\ unsubmitted \in Seq(Problems) /\ active \in Seq(Problems)
  /\ cancelIds \in SUBSET Problems /\ fetches \in Seq(Fetches)
  /\ prob \in [Problems -> ProblemType] /\ live \in SUBSET Problems
  /\ answers \in [Fetches -> {"unused", "waiting", "done"}]
\* What open requests carry.
OpenRequests ==
  \A c \in DOMAIN inflight :
    Carried(inflight[c]) /\ (inflight[c].kind = "ANSWER" => inflight[c].fetch # NoFetch)
\* Everything that is carried, together.
CarryInv ==
  /\ SharedData /\ OpenRequests
  /\ \A t \in Everyone : Load(pc[t], job[t], out[t])

\* Somebody has the problem, or it has not begun.
Known(p) == p \in live \/ prob[p].state = "NEW"
\* No list and no request has a problem twice.
Carriers(p) ==
  /\ Once(unsubmitted, p) /\ Once(active, p)
  /\ \A c \in DOMAIN inflight : Once(inflight[c].probs, p)
  /\ \A t \in Everyone : Once(out[t].probs, p) /\ Once(job[t].req.probs, p)

\* What the fields of a record say of each other.
RecordFits(r) ==
  /\ r.state = "NEW" <=> r.lastGood = "NEW"
  /\ r.state = "DONE" <=> r.lastGood = "DONE"
  /\ r.lastGood \in {"NEW", "SUBMITTING", "SUBMITTED", "DONE"}
  /\ r.lastGood \in {"NEW", "SUBMITTING"} => ~r.hasId
  /\ r.lastGood = "SUBMITTED" => r.hasId
\* Only problems in the right state are submitted or polled.
Asked(kind, r) ==
  /\ kind = "SUBMIT" => r.lastGood = "SUBMITTING"
  /\ kind = "STATUS" => r.lastGood = "SUBMITTED"


-----------------------------------------------------------------------------
(* Records with one field changed, field by field. *)
LEMMA RequestFields ==
  ASSUME NEW r, IsRequest(r)
  PROVE  /\ \A x : LET s == [r EXCEPT !.probs = x] IN
              /\ s.probs = x /\ s.kind = r.kind /\ s.ids = r.ids
              /\ s.fetch = r.fetch /\ s.more = r.more
         /\ \A x, y : LET s == [r EXCEPT !.probs = x, !.more = y] IN
              /\ s.probs = x /\ s.kind = r.kind /\ s.ids = r.ids
              /\ s.fetch = r.fetch /\ s.more = y
         /\ \A x, y : LET s == [r EXCEPT !.fetch = x, !.more = y] IN
              /\ s.probs = r.probs /\ s.kind = r.kind /\ s.ids = r.ids
              /\ s.fetch = x /\ s.more = y
         /\ \A x : LET s == [r EXCEPT !.ids = x] IN
              /\ s.probs = r.probs /\ s.kind = r.kind /\ s.ids = x
              /\ s.fetch = r.fetch /\ s.more = r.more
         /\ \A x : LET s == [r EXCEPT !.more = x] IN
              /\ s.probs = r.probs /\ s.kind = r.kind /\ s.ids = r.ids
              /\ s.fetch = r.fetch /\ s.more = x
         /\ \A x : LET s == [r EXCEPT !.fetch = x] IN
              /\ s.probs = r.probs /\ s.kind = r.kind /\ s.ids = r.ids
              /\ s.fetch = x /\ s.more = r.more
  BY DEF IsRequest

\* A job with one field changed.
LEMMA JobFields ==
  ASSUME WorkInv, NEW t \in Everyone
  PROVE  /\ \A x : LET j == [job[t] EXCEPT !.req.probs = x] IN
              /\ j.outcome = job[t].outcome
              /\ j.req.probs = x /\ j.req.kind = job[t].req.kind /\ j.req.ids = job[t].req.ids
              /\ j.req.fetch = job[t].req.fetch /\ j.req.more = job[t].req.more
         /\ \A x : LET j == [job[t] EXCEPT !.req.fetch = x] IN
              /\ j.outcome = job[t].outcome
              /\ j.req.probs = job[t].req.probs /\ j.req.kind = job[t].req.kind
              /\ j.req.ids = job[t].req.ids
              /\ j.req.fetch = x /\ j.req.more = job[t].req.more
         /\ \A x : LET j == [job[t] EXCEPT !.outcome = x] IN
              j.outcome = x /\ j.req = job[t].req
<1>1. Valid(job[t], out[t])
  BY SameHands
<1> QED
  BY <1>1 DEF Valid, IsRequest

\* A request that carries nothing.
Blank(r) == r.probs = <<>> /\ r.ids = {} /\ r.fetch = NoFetch /\ r.more \in BOOLEAN

\* New requests and jobs are blank.
LEMMA BlankRequests ==
  /\ Blank(NoRequest) /\ Blank(NoJob.req) /\ NoJob.req.kind = "NONE" /\ NoJob.outcome = "call"
  /\ \A k : LET r == [NoRequest EXCEPT !.kind = k] IN Blank(r) /\ r.kind = k
  /\ \A r : Blank(r) => Carried(r) /\ Elements(r.probs) = {} /\ \A x : Once(r.probs, x)
<1>1. <<>> \in Seq(Problems)
  OBVIOUS
<1> QED
  BY <1>1, EmptyOnce DEF Blank, NoRequest, NoJob, Carried

-----------------------------------------------------------------------------
(* The steps of a thread: its next place, its job and request there. *)
\* What the steps below start from.
Base == ControlInv /\ SlotInv /\ WorkInv /\ CarryInv

\* Steps that only move a thread.
Quiet == UNCHANGED <<usage, prob, live, answers, unsubmitted, active, cancelIds, fetches, inflight>>

\* In processRequestQueue, outside the sends: nothing is carried.
LEMMA LoopMoves ==
  ASSUME Base, NEW t \in Everyone, Enter(t) \/ Sent(t) \/ Unsent(t)
  PROVE  /\ Quiet /\ pc[t] \in {"enter", "sent", "unsent"}
         /\ \E label, r :
              /\ label \in {"take", "complete", "return", "idle"}
              /\ Moves(t, label, job[t], r) /\ Blank(r)
<1>1. Quiet /\ pc[t] \in {"enter", "sent", "unsent"} /\ job' = [job EXCEPT ![t] = job[t]]
  BY SameHands DEF Base, Enter, Sent, Unsent, Loop, At, Quiet, userVars, listVars
<1>2. Blank(out[t]) /\ out = [out EXCEPT ![t] = out[t]]
  BY <1>1, SameHands DEF Base, CarryInv, SharedData, Load, Carried, Blank
<1>3. CASE Enter(t) /\ retryState = "WAITING_TO_RETRY"
  <2>1. Goto(t, Returned(t)) /\ out' = out
    BY <1>3 DEF Enter
  <2> QED
    BY <1>1, <1>2, <2>1, ReturnedPc DEF Moves
<1>4. CASE \E free : Loop(t, free)
  <2>1. PICK free : Loop(t, free)
    BY <1>4
  <2>2. CASE free > 0 /\ requestQueue # <<>>
    <3>1. PICK r : r = [NoRequest EXCEPT !.kind = Head(requestQueue)]
      OBVIOUS
    <3>2. Blank(r)
      BY <3>1, BlankRequests
    <3>3. Moves(t, "take", job[t], r)
      BY <1>1, <2>1, <2>2, <3>1 DEF Loop, Moves
    <3> QED
      BY <1>1, <3>2, <3>3
  <2>3. CASE ~(free > 0 /\ requestQueue # <<>>)
    <3>1. Moves(t, Returned(t), job[t], NoRequest)
      BY <1>1, <2>1, <2>3 DEF Loop, Moves
    <3> QED
      BY <1>1, <3>1, ReturnedPc, BlankRequests
  <2> QED
    BY <2>2, <2>3
<1> QED
  BY <1>3, <1>4 DEF Enter, Sent, Unsent

\* A send takes the front of list s.
FrontTaken(t, s, quota) ==
  out' = [out EXCEPT ![t].probs = Taken(s, quota), ![t].more = Left(s, quota) # <<>>]

\* What goes with it and what is left.
FrontIs(t, s, rest, r, a, b) ==
  /\ out' = [out EXCEPT ![t] = r] /\ s = a \o b /\ rest = b
  /\ a \in Seq(Problems) /\ b \in Seq(Problems)
  /\ r.kind = out[t].kind /\ r.probs = Alive(a) /\ r.ids = {} /\ r.fetch = NoFetch
  /\ r.more \in BOOLEAN

\* submitProblems and updateProblems cut the front off their list, and send what is alive.
LEMMA TakeProblemsMoves ==
  ASSUME Base, NEW t \in Everyone, TakeProblems(t)
  PROVE  /\ pc[t] = "take" /\ Blank(out[t]) /\ out[t].kind \in StatusKinds
         /\ UNCHANGED <<usage, prob, live, answers, cancelIds, fetches, inflight>>
         /\ \E r, a, b : 
              /\ Moves(t, "issue", job[t], r)
              /\ r.kind = out[t].kind /\ r.probs = Alive(a) /\ r.ids = {} /\ r.fetch = NoFetch
              /\ r.more \in BOOLEAN
              /\ a \in Seq(Problems) /\ b \in Seq(Problems)
              /\ IF out[t].kind = "SUBMIT"
                 THEN unsubmitted = a \o b /\ unsubmitted' = b /\ active' = active
                 ELSE active = a \o b /\ active' = b /\ unsubmitted' = unsubmitted
<1>1. pc[t] = "take" /\ job' = [job EXCEPT ![t] = job[t]] /\ IsRequest(out[t])
  BY SameHands DEF Base, TakeProblems, At
<1>2. Blank(out[t])
  BY <1>1 DEF Base, CarryInv, SharedData, Load, Carried, Blank
<1>3. ASSUME NEW s \in Seq(Problems), NEW quota
      PROVE  \E a \in Seq(Problems), b \in Seq(Problems) :
               s = a \o b /\ Taken(s, quota) = Alive(a) /\ Left(s, quota) = b
  <2>1. PICK n \in 0 .. Len(s) : n = TakenLen(s, quota)
    BY TakenLenBound
  <2> QED
    BY <2>1, CutOnce DEF Taken, Left
<1>4. ASSUME NEW s \in Seq(Problems), NEW quota, FrontTaken(t, s, quota)
      PROVE  \E r, a, b : FrontIs(t, s, Left(s, quota), r, a, b)
  <2>1. PICK a \in Seq(Problems), b \in Seq(Problems) :
               s = a \o b /\ Taken(s, quota) = Alive(a) /\ Left(s, quota) = b
    BY <1>3
  <2>2. PICK m \in BOOLEAN : m = (b # <<>>)
    OBVIOUS
  <2>3. PICK r : r = [out[t] EXCEPT !.probs = Alive(a), !.more = m]
    OBVIOUS
  <2>4. out' = [out EXCEPT ![t] = r]
    BY <1>4, <2>1, <2>2, <2>3 DEF FrontTaken
  <2>5. r.kind = out[t].kind /\ r.probs = Alive(a) /\ r.ids = {} /\ r.fetch = NoFetch /\ r.more = m
    BY <1>1, <1>2, <2>3, RequestFields DEF Blank
  <2> QED
    BY <2>1, <2>2, <2>4, <2>5 DEF FrontIs
<1>5. unsubmitted \in Seq(Problems) /\ active \in Seq(Problems)
  BY DEF Base, CarryInv, SharedData
<1>6. CASE out[t].kind = "SUBMIT"
  <2>0. PICK s \in Seq(Problems), quota \in {MaxProblemsPerSubmission} :
          s = unsubmitted
    BY <1>5
  <2>1. /\ FrontTaken(t, s, quota)
        /\ unsubmitted' = Left(s, quota) /\ active' = active
        /\ Goto(t, "issue")
        /\ UNCHANGED <<usage, prob, live, answers, cancelIds, fetches, inflight>>
    BY <1>6, <2>0 DEF TakeProblems, userVars, FrontTaken
  <2>2. PICK r, a, b : FrontIs(t, s, Left(s, quota), r, a, b)
    BY <1>4, <2>1
  <2>3. Moves(t, "issue", job[t], r)
    BY <1>1, <2>1, <2>2 DEF Moves, FrontIs
  <2>4. unsubmitted' = b /\ unsubmitted = a \o b
    BY <2>0, <2>1, <2>2 DEF FrontIs
  <2> QED
    BY <1>1, <1>2, <1>6, <2>1, <2>2, <2>3, <2>4 DEF StatusKinds, FrontIs
<1>7. CASE out[t].kind # "SUBMIT"
  <2>0. PICK s \in Seq(Problems), quota \in {MaxIdsPerStatusQuery} :
          s = active
    BY <1>5
  <2>1. /\ FrontTaken(t, s, quota)
        /\ active' = Left(s, quota) /\ unsubmitted' = unsubmitted
        /\ Goto(t, "issue") /\ out[t].kind = "STATUS"
        /\ UNCHANGED <<usage, prob, live, answers, cancelIds, fetches, inflight>>
    BY <1>7, <2>0 DEF TakeProblems, userVars, FrontTaken
  <2>2. PICK r, a, b : FrontIs(t, s, Left(s, quota), r, a, b)
    BY <1>4, <2>1
  <2>3. Moves(t, "issue", job[t], r)
    BY <1>1, <2>1, <2>2 DEF Moves, FrontIs
  <2>4. active' = b /\ active = a \o b
    BY <2>0, <2>1, <2>2 DEF FrontIs
  <2> QED
    BY <1>1, <1>2, <1>7, <2>1, <2>2, <2>3, <2>4 DEF StatusKinds, FrontIs
<1> QED
  BY <1>6, <1>7

\* cancelProblems takes every id there is.
LEMMA TakeCancelsMoves ==
  ASSUME Base, NEW t \in Everyone, TakeCancels(t)
  PROVE  /\ UNCHANGED <<usage, prob, live, answers, unsubmitted, active, fetches, inflight>>
         /\ pc[t] = "take" /\ Blank(out[t]) /\ cancelIds' = {}
         /\ \E r : /\ Moves(t, "issue", job[t], r)
                   /\ r.kind = "CANCEL" /\ r.probs = <<>> /\ r.ids = cancelIds
                   /\ r.fetch = NoFetch /\ r.more \in BOOLEAN
<1>1. /\ pc[t] = "take" /\ job' = [job EXCEPT ![t] = job[t]] /\ IsRequest(out[t])
      /\ out[t].kind = "CANCEL" /\ cancelIds' = {} /\ Goto(t, "issue")
      /\ UNCHANGED <<usage, prob, live, answers, unsubmitted, active, fetches, inflight>>
  BY SameHands DEF Base, TakeCancels, At, userVars
<1>2. Blank(out[t])
  BY <1>1 DEF Base, CarryInv, SharedData, Load, Carried, Blank
<1>3. PICK r : r = [out[t] EXCEPT !.ids = cancelIds]
  OBVIOUS
<1>4. r.kind = "CANCEL" /\ r.probs = <<>> /\ r.ids = cancelIds /\ r.fetch = NoFetch /\ r.more \in BOOLEAN
  BY <1>1, <1>2, <1>3, RequestFields DEF Blank
<1>5. Moves(t, "issue", job[t], r)
  BY <1>1, <1>3 DEF TakeCancels, Moves
<1> QED
  BY <1>1, <1>2, <1>4, <1>5

\* fetchAnswer takes the first answer callback.
LEMMA TakeFetchMoves ==
  ASSUME Base, NEW t \in Everyone, TakeFetch(t)
  PROVE  /\ UNCHANGED <<usage, prob, live, answers, unsubmitted, active, cancelIds, inflight>>
         /\ pc[t] = "take" /\ Blank(out[t])
         /\ \/ fetches' = fetches /\ Moves(t, "issue", job[t], out[t])
            \/ \E r : \E f \in Fetches, rest \in Seq(Fetches) :
                 /\ Moves(t, "issue", job[t], r) /\ fetches = <<f>> \o rest /\ fetches' = rest
                 /\ r.kind = "ANSWER" /\ r.probs = <<>> /\ r.ids = {} /\ r.fetch = f
                 /\ r.more \in BOOLEAN
<1>1. /\ pc[t] = "take" /\ job' = [job EXCEPT ![t] = job[t]] /\ IsRequest(out[t])
      /\ out = [out EXCEPT ![t] = out[t]]
      /\ out[t].kind = "ANSWER" /\ Goto(t, "issue") /\ fetches \in Seq(Fetches)
      /\ UNCHANGED <<usage, prob, live, answers, unsubmitted, active, cancelIds, inflight>>
  BY SameHands DEF Base, CarryInv, SharedData, TakeFetch, At, userVars
<1>2. Blank(out[t])
  BY <1>1 DEF Base, CarryInv, SharedData, Load, Carried, Blank
<1>3. CASE fetches = <<>>
  BY <1>1, <1>2, <1>3 DEF TakeFetch, Moves
<1>4. CASE fetches # <<>>
  <2>1. PICK f \in Fetches, rest \in Seq(Fetches) :
          f = Head(fetches) /\ rest = Tail(fetches) /\ fetches = <<f>> \o rest
    BY <1>1, <1>4, HeadTail
  <2>6. (Len(fetches) > 1) \in BOOLEAN
    BY <1>1
  <2>2. PICK m \in BOOLEAN : m = (Len(fetches) > 1)
    BY <2>6, Zenon
  <2>3. PICK r : r = [out[t] EXCEPT !.fetch = f, !.more = m]
    OBVIOUS
  <2>4. r.kind = "ANSWER" /\ r.probs = <<>> /\ r.ids = {} /\ r.fetch = f /\ r.more \in BOOLEAN
    BY <1>1, <1>2, <2>3, RequestFields DEF Blank
  <2>5. Moves(t, "issue", job[t], r) /\ fetches' = rest
    BY <1>1, <1>4, <2>1, <2>2, <2>3 DEF TakeFetch, Moves
  <2> QED
    BY <1>1, <1>2, <2>1, <2>4, <2>5
<1> QED
  BY <1>3, <1>4

\* The request is sent, or there was nothing to send.
LEMMA IssueMoves ==
  ASSUME Base, NEW t \in Everyone, Issue(t)
  PROVE  /\ UNCHANGED <<usage, prob, live, answers, unsubmitted, active, cancelIds, fetches>>
         /\ pc[t] = "issue" /\ out[t].kind \in Kinds
         /\ \E label \in {"sent", "unsent"} : Moves(t, label, job[t], NoRequest)
         /\ \/ inflight' = inflight /\ out[t].probs = <<>> /\ out[t].fetch = NoFetch
            \/ \E c, q :
                 /\ c \notin DOMAIN inflight /\ DOMAIN inflight' = DOMAIN inflight \cup {c}
                 /\ \A d \in DOMAIN inflight : inflight'[d] = inflight[d]
                 /\ inflight'[c] = q /\ q.kind = out[t].kind /\ q.probs = out[t].probs
                 /\ q.ids = out[t].ids /\ q.fetch = out[t].fetch /\ q.more = FALSE
                 /\ q.kind = "ANSWER" => q.fetch # NoFetch
<1>1. /\ pc[t] = "issue" /\ job' = [job EXCEPT ![t] = job[t]] /\ IsRequest(out[t])
      /\ out[t].kind \in Kinds
      /\ UNCHANGED <<usage, prob, live, answers, unsubmitted, active, cancelIds, fetches>>
  BY SameHands DEF Base, Issue, At, userVars, listVars, Hand
<1>2. \E label \in {"sent", "unsent"} : Moves(t, label, job[t], NoRequest)
  BY <1>1 DEF Issue, Moves
<1>3. Carried(out[t])
  BY <1>1 DEF Base, CarryInv, SharedData, Load
<1>4. CASE Sendable(out[t])
  <2>1. PICK q : q = [out[t] EXCEPT !.more = FALSE]
    OBVIOUS
  <2>2. /\ q.kind = out[t].kind /\ q.probs = out[t].probs
        /\ q.ids = out[t].ids /\ q.fetch = out[t].fetch /\ q.more = FALSE
    BY <1>1, <2>1, RequestFields
  <2>3. q.kind = "ANSWER" => q.fetch # NoFetch
    BY <1>4, <2>2 DEF Sendable, StatusKinds
  <2>4. PICK c : c = FreeConn
    OBVIOUS
  <2>5. c \notin DOMAIN inflight
    BY <1>4, <2>4 DEF Issue, Open, FreeConn
  <2>6. inflight' = [d \in DOMAIN inflight \cup {c} |-> IF d = c THEN q ELSE inflight[d]]
    BY <1>4, <2>1, <2>4 DEF Issue, Open
  <2>7. /\ DOMAIN inflight' = DOMAIN inflight \cup {c} /\ inflight'[c] = q
        /\ \A d \in DOMAIN inflight : inflight'[d] = inflight[d]
    BY <2>5, <2>6
  <2> QED
    BY <1>1, <1>2, <2>2, <2>3, <2>5, <2>7
<1>5. CASE ~Sendable(out[t])
  <2>1. out[t].probs = <<>> /\ out[t].fetch = NoFetch
    BY <1>1, <1>3, <1>5 DEF Sendable, Carried, Kinds, StatusKinds
  <2> QED
    BY <1>1, <1>2, <1>5, <2>1 DEF Issue
<1> QED
  BY <1>4, <1>5

\* The steps of a callback that leave what it carries alone.
LEMMA StopMoves ==
  ASSUME Base, NEW t \in Everyone, StopRetrying(t)
  PROVE  /\ Quiet /\ pc[t] = "stop"
         /\ \E label : /\ Moves(t, label, job[t], out[t])
              /\ label = CASE job[t].outcome = "ok" /\ job[t].req.kind \in StatusKinds -> "update"
                           [] job[t].req.kind = "ANSWER" -> "deliver"
                           [] OTHER -> "complete"
  BY SameHands DEF Base, StopRetrying, At, Quiet, userVars, listVars, Moves

\* After a network failure the callback goes on by kind, with the verdict of the timer.
LEMMA RetryMoves ==
  ASSUME Base, NEW t \in Everyone, RetryFailedRequest(t)
  PROVE  /\ Quiet /\ pc[t] = "retry" /\ job[t].req.kind \in Kinds
         /\ \E label, j : \E retry \in BOOLEAN :
              /\ Moves(t, label, j, out[t]) /\ j.req = job[t].req
              /\ j.outcome = IF retry THEN "retry" ELSE "giveup"
              /\ label = CASE job[t].req.kind \in StatusKinds -> "fail"
                  [] job[t].req.kind = "CANCEL" -> IF retry THEN "recancel" ELSE "complete"
                  [] OTHER -> IF retry THEN "refetch" ELSE "deliver"
<1>1. /\ Quiet /\ pc[t] = "retry" /\ job[t].req.kind \in Kinds /\ out' = [out EXCEPT ![t] = out[t]]
  BY SameHands DEF Base, RetryFailedRequest, At, Quiet, userVars, listVars, Hand
<1>2. PICK retry \in BOOLEAN : retry = (Timer!RetryAction = "RETRY")
  OBVIOUS
<1>3. PICK j : j = [job[t] EXCEPT !.outcome = IF retry THEN "retry" ELSE "giveup"]
  OBVIOUS
<1>4. job' = [job EXCEPT ![t] = j]
  BY <1>2, <1>3 DEF RetryFailedRequest
<1>5. j.req = job[t].req /\ j.outcome = IF retry THEN "retry" ELSE "giveup"
  BY <1>3, JobFields DEF Base
<1>6. PICK label : label = CASE job[t].req.kind \in StatusKinds -> "fail"
                  [] job[t].req.kind = "CANCEL" -> IF retry THEN "recancel" ELSE "complete"
                  [] OTHER -> IF retry THEN "refetch" ELSE "deliver"
  OBVIOUS
<1>7. Goto(t, label)
  BY <1>2, <1>6 DEF RetryFailedRequest
<1>8. Moves(t, label, j, out[t])
  BY <1>1, <1>4, <1>7 DEF Moves
<1> QED
  BY <1>1, <1>5, <1>6, <1>8

\* What the server says of a problem in a request of the given kind.
Told(kind, before, after) ==
  \E status \in {"PENDING", "COMPLETED", "FAILED"} :
    IF kind = "SUBMIT"
    THEN \E given \in BOOLEAN :
           (~given => status = "FAILED") /\ after = WithStatus(WithId(before, given), status)
    ELSE after = WithStatus(before, status)

\* StatusCallback::complete tells each problem what the server says and keeps the pending ones.
LEMMA StatusMoves ==
  ASSUME Base, NEW t \in Everyone, StatusComplete(t)
  PROVE  /\ UNCHANGED <<usage, live, answers, unsubmitted, active, cancelIds, fetches, inflight>>
         /\ pc[t] = "update"
         /\ \E label, j, S :
              /\ Moves(t, label, j, out[t]) /\ j.outcome = job[t].outcome
              /\ label = IF j.req.probs = <<>> THEN "complete" ELSE "cancelcheck"
              /\ j.req.kind = job[t].req.kind /\ j.req.ids = job[t].req.ids
              /\ j.req.fetch = job[t].req.fetch /\ j.req.more = job[t].req.more
              /\ j.req.probs = Kept(job[t].req.probs, S)
              /\ S \subseteq Elements(job[t].req.probs) \cap live
              /\ prob' = [p \in Problems |-> prob'[p]]
              /\ \A p \in Problems :
                   IF p \in Elements(job[t].req.probs) \cap live
                   THEN /\ Told(job[t].req.kind, prob[p], prob'[p])
                        /\ p \in S <=> prob'[p].remote = "PENDING"
                   ELSE prob'[p] = prob[p]
<1> DEFINE held == Elements(job[t].req.probs) \cap live
           submit == job[t].req.kind = "SUBMIT"
<1>1. /\ pc[t] = "update" /\ out' = [out EXCEPT ![t] = out[t]]
      /\ UNCHANGED <<usage, live, answers, unsubmitted, active, cancelIds, fetches, inflight>>
  BY SameHands DEF Base, StatusComplete, At, listVars
<1>2. PICK status \in [held -> {"PENDING", "COMPLETED", "FAILED"}],
           rejected \in SUBSET (IF submit THEN held ELSE {}) :
          /\ \A p \in rejected : status[p] = "FAILED"
          /\ prob' = [p \in Problems |->
               IF p \in held
               THEN WithStatus(IF submit THEN WithId(prob[p], p \notin rejected) ELSE prob[p],
                               status[p])
               ELSE prob[p]]
          /\ LET open == Kept(job[t].req.probs, {p \in held : status[p] = "PENDING"})
             IN /\ job' = [job EXCEPT ![t].req.probs = open]
                /\ Goto(t, IF open = <<>> THEN "complete" ELSE "cancelcheck")
  BY DEF StatusComplete
<1>3. PICK S : S = {p \in held : status[p] = "PENDING"}
  OBVIOUS
<1>4. PICK open : open = Kept(job[t].req.probs, S)
  OBVIOUS
<1>5. PICK j : j = [job[t] EXCEPT !.req.probs = open]
  OBVIOUS
<1>6. /\ job' = [job EXCEPT ![t] = j]
      /\ Goto(t, IF open = <<>> THEN "complete" ELSE "cancelcheck")
  BY <1>2, <1>3, <1>4, <1>5
<1>7. /\ j.outcome = job[t].outcome /\ j.req.probs = open
      /\ j.req.kind = job[t].req.kind /\ j.req.ids = job[t].req.ids
      /\ j.req.fetch = job[t].req.fetch /\ j.req.more = job[t].req.more
  BY <1>5, JobFields DEF Base
<1>8. S \subseteq held
  BY <1>3
<1>9. prob' = [p \in Problems |-> prob'[p]]
  BY <1>2
<1>10. ASSUME NEW p \in held, p \in Problems
       PROVE  Told(job[t].req.kind, prob[p], prob'[p]) /\ (p \in S <=> prob'[p].remote = "PENDING")
  <2>1. PICK st \in {"PENDING", "COMPLETED", "FAILED"} : st = status[p]
    BY <1>2, <1>10
  <2>2. PICK given \in BOOLEAN : given = (p \notin rejected)
    OBVIOUS
  <2>3. PICK r : r = IF submit THEN WithId(prob[p], given) ELSE prob[p]
    OBVIOUS
  <2>4. prob'[p] = WithStatus(r, st)
    BY <1>2, <1>10, <2>1, <2>2, <2>3
  <2>5. ~given => st = "FAILED"
    BY <1>2, <2>1, <2>2
  <2>6. Told(job[t].req.kind, prob[p], prob'[p])
    BY <2>3, <2>4, <2>5 DEF Told
  <2>7. prob[p] \in ProblemType
    BY <1>10 DEF Base, CarryInv, SharedData
  <2>8. r \in ProblemType
    BY <2>3, <2>7 DEF WithId, ProblemType
  <2>9. prob'[p].remote = st
    BY <2>4, <2>8 DEF WithStatus, WithError, ProblemType
  <2>10. p \in S <=> st = "PENDING"
    BY <1>3, <1>10, <2>1
  <2> QED
    BY <2>6, <2>9, <2>10
<1>11. \A p \in Problems : p \notin held => prob'[p] = prob[p]
  BY <1>2
<1>12. PICK label : label = IF open = <<>> THEN "complete" ELSE "cancelcheck"
  OBVIOUS
<1>13. Moves(t, label, j, out[t])
  BY <1>1, <1>6, <1>12 DEF Moves
<1> QED
  BY <1>1, <1>4, <1>7, <1>8, <1>9, <1>10, <1>11, <1>12, <1>13

\* A failed request tells its problems, and returns them only when there is a retry.
LEMMA FailMoves ==
  ASSUME Base, NEW t \in Everyone, FailProblems(t)
  PROVE  /\ UNCHANGED <<usage, live, answers, unsubmitted, active, cancelIds, fetches, inflight>>
         /\ pc[t] = "fail"
         /\ \E label, j : \E retry \in BOOLEAN, error \in {"OTHER", "NETWORK"} :
              /\ Moves(t, label, j, out[t]) /\ j.outcome = job[t].outcome
              /\ retry <=> job[t].outcome = "retry"
              /\ label = CASE retry -> IF job[t].req.kind = "SUBMIT" THEN "resubmit" ELSE "cancelcheck"
                           [] job[t].outcome = "giveup" -> "complete"
                           [] OTHER -> "stop"
              /\ j.req.kind = job[t].req.kind /\ j.req.ids = job[t].req.ids
              /\ j.req.fetch = job[t].req.fetch /\ j.req.more = job[t].req.more
              /\ j.req.probs = IF retry THEN job[t].req.probs ELSE <<>>
              /\ prob' = [p \in Problems |-> prob'[p]]
              /\ \A p \in Problems :
                   IF p \in Elements(job[t].req.probs) \cap live
                   THEN prob'[p] = WithError(prob[p], error, retry)
                   ELSE prob'[p] = prob[p]
<1>1. /\ pc[t] = "fail" /\ out' = [out EXCEPT ![t] = out[t]]
      /\ UNCHANGED <<usage, live, answers, unsubmitted, active, cancelIds, fetches, inflight>>
  BY SameHands DEF Base, FailProblems, At, listVars
<1>2. PICK retry \in BOOLEAN : retry = (job[t].outcome = "retry")
  OBVIOUS
<1>3. PICK error \in {"OTHER", "NETWORK"} :
        error = IF job[t].outcome = "other" THEN "OTHER" ELSE "NETWORK"
  OBVIOUS
<1>4. PICK j : j = IF retry THEN job[t] ELSE [job[t] EXCEPT !.req.probs = <<>>]
  OBVIOUS
<1>5. job' = [job EXCEPT ![t] = j]
  BY <1>2, <1>4, SameHands DEF FailProblems, Base
<1>6. /\ j.outcome = job[t].outcome
      /\ j.req.kind = job[t].req.kind /\ j.req.ids = job[t].req.ids
      /\ j.req.fetch = job[t].req.fetch /\ j.req.more = job[t].req.more
      /\ j.req.probs = IF retry THEN job[t].req.probs ELSE <<>>
  BY <1>4, JobFields DEF Base
<1>7. PICK label : label =
        CASE retry -> IF job[t].req.kind = "SUBMIT" THEN "resubmit" ELSE "cancelcheck"
          [] job[t].outcome = "giveup" -> "complete"
          [] OTHER -> "stop"
  OBVIOUS
<1>8. Goto(t, label)
  BY <1>2, <1>7 DEF FailProblems
<1>9. Moves(t, label, j, out[t])
  BY <1>1, <1>5, <1>8 DEF Moves
<1>10. prob' = [p \in Problems |-> IF p \in Elements(job[t].req.probs) \cap live
                                   THEN WithError(prob[p], error, retry) ELSE prob[p]]
  BY <1>2, <1>3 DEF FailProblems
<1> QED
  BY <1>1, <1>2, <1>6, <1>7, <1>9, <1>10

\* The ids of problems cancelled in the meantime join the cancel list.
LEMMA CancelCheckMoves ==
  ASSUME Base, NEW t \in Everyone, CheckCancelled(t)
  PROVE  /\ UNCHANGED <<usage, live, answers, unsubmitted, active, fetches, inflight>>
         /\ pc[t] = "cancelcheck"
         /\ \E label \in {"requeue", "pushcancel"} : Moves(t, label, job[t], out[t])
         /\ prob' = [p \in Problems |-> prob'[p]]
         /\ \A p \in Problems :
              prob'[p] = prob[p] \/ prob'[p] = [prob[p] EXCEPT !.cancelled = FALSE]
         /\ \E cancels : /\ cancels \subseteq Elements(job[t].req.probs) \cap live
                         /\ cancelIds' = cancelIds \cup cancels
<1>1. /\ pc[t] = "cancelcheck"
      /\ out' = [out EXCEPT ![t] = out[t]] /\ job' = [job EXCEPT ![t] = job[t]]
      /\ UNCHANGED <<usage, live, answers, unsubmitted, active, fetches, inflight>>
  BY SameHands DEF Base, CheckCancelled, At
<1>2. PICK cancels : cancels = {p \in Elements(job[t].req.probs) \cap live : prob[p].cancelled}
  OBVIOUS
<1>3. /\ cancels \subseteq Elements(job[t].req.probs) \cap live
      /\ cancelIds' = cancelIds \cup cancels
      /\ prob' = [p \in Problems |->
                  IF p \in cancels THEN [prob[p] EXCEPT !.cancelled = FALSE] ELSE prob[p]]
      /\ Goto(t, IF cancels = {} THEN "requeue" ELSE "pushcancel")
  BY <1>2 DEF CheckCancelled
<1>4. \E label \in {"requeue", "pushcancel"} : Moves(t, label, job[t], out[t])
  BY <1>1, <1>3 DEF Moves
<1> QED
  BY <1>1, <1>3, <1>4

\* Polled problems go back on the active list.
LEMMA QueueActiveMoves ==
  ASSUME Base, NEW t \in Everyone, QueueActive(t)
  PROVE  /\ UNCHANGED <<usage, prob, live, answers, unsubmitted, cancelIds, fetches, inflight>>
         /\ pc[t] = "requeue" /\ Moves(t, "complete", NoJob, out[t])
         /\ active' \in {job[t].req.probs \o active, active \o job[t].req.probs}
  BY SameHands DEF Base, QueueActive, At, userVars, Moves

\* Problems whose submission failed go back to the front.
LEMMA RetrySubmitMoves ==
  ASSUME Base, NEW t \in Everyone, RetrySubmit(t)
  PROVE  /\ UNCHANGED <<usage, prob, live, answers, active, cancelIds, fetches, inflight>>
         /\ pc[t] = "resubmit" /\ unsubmitted' = job[t].req.probs \o unsubmitted
         /\ job[t].req.kind = "SUBMIT"
         /\ \E j : /\ Moves(t, "push", j, out[t]) /\ j.outcome = job[t].outcome
                   /\ j.req.kind = job[t].req.kind /\ j.req.ids = job[t].req.ids
                   /\ j.req.fetch = job[t].req.fetch /\ j.req.more = job[t].req.more
                   /\ j.req.probs = <<>>
<1>1. PICK j : j = [job[t] EXCEPT !.req.probs = <<>>]
  OBVIOUS
<1>2. /\ UNCHANGED <<usage, prob, live, answers, active, cancelIds, fetches, inflight>>
      /\ pc[t] = "resubmit" /\ unsubmitted' = job[t].req.probs \o unsubmitted
      /\ job[t].req.kind = "SUBMIT" /\ Moves(t, "push", j, out[t])
  BY <1>1, SameHands DEF Base, RetrySubmit, At, userVars, Moves, Hand
<1>5. /\ j.outcome = job[t].outcome /\ j.req.probs = <<>>
      /\ j.req.kind = job[t].req.kind /\ j.req.ids = job[t].req.ids
      /\ j.req.fetch = job[t].req.fetch /\ j.req.more = job[t].req.more
  BY <1>1, JobFields DEF Base
<1> QED
  BY <1>2, <1>5

\* retry() puts the problem at the end of the list its last good state asks for.
LEMMA AddSubmittedMoves ==
  ASSUME Base, NEW t \in Everyone, AddSubmittedProblem(t)
  PROVE  /\ UNCHANGED <<usage, prob, live, answers, cancelIds, fetches, inflight>>
         /\ pc[t] = "readd"
         /\ IF job[t].req.kind = "SUBMIT"
            THEN unsubmitted' = unsubmitted \o job[t].req.probs /\ active' = active
            ELSE active' = active \o job[t].req.probs /\ unsubmitted' = unsubmitted
         /\ \E j : /\ Moves(t, "push", j, out[t]) /\ j.outcome = job[t].outcome
                   /\ j.req.kind = job[t].req.kind /\ j.req.ids = job[t].req.ids
                   /\ j.req.fetch = job[t].req.fetch /\ j.req.more = job[t].req.more
                   /\ j.req.probs = <<>>
<1>1. PICK j : j = [job[t] EXCEPT !.req.probs = <<>>]
  OBVIOUS
<1>2. /\ UNCHANGED <<usage, prob, live, answers, cancelIds, fetches, inflight>>
      /\ pc[t] = "readd" /\ Moves(t, "push", j, out[t])
      /\ IF job[t].req.kind = "SUBMIT"
         THEN unsubmitted' = unsubmitted \o job[t].req.probs /\ active' = active
         ELSE active' = active \o job[t].req.probs /\ unsubmitted' = unsubmitted
  BY <1>1, SameHands DEF Base, AddSubmittedProblem, At, userVars, Moves
<1>5. /\ j.outcome = job[t].outcome /\ j.req.probs = <<>>
      /\ j.req.kind = job[t].req.kind /\ j.req.ids = job[t].req.ids
      /\ j.req.fetch = job[t].req.fetch /\ j.req.more = job[t].req.more
  BY <1>1, JobFields DEF Base
<1> QED
  BY <1>2, <1>5

\* Ids whose cancellation failed go back on the list.
LEMMA RetryCancelMoves ==
  ASSUME Base, NEW t \in Everyone, RetryCancel(t)
  PROVE  /\ UNCHANGED <<usage, prob, live, answers, unsubmitted, active, fetches, inflight>>
         /\ pc[t] = "recancel" /\ cancelIds' = cancelIds \cup job[t].req.ids
         /\ job[t].req.kind = "CANCEL"
         /\ \E label \in {"enter", "push"} : Moves(t, label, job[t], out[t])
  BY SameHands DEF Base, RetryCancel, At, userVars, Moves, Hand

\* An answer callback goes, or goes back, on its list.
LEMMA FetchAnswerMoves ==
  ASSUME Base, NEW t \in Everyone, FetchAnswer(t)
  PROVE  /\ UNCHANGED <<usage, prob, live, answers, unsubmitted, active, cancelIds, inflight>>
         /\ pc[t] = "refetch" /\ job[t].req.fetch \in Fetches
         /\ fetches' = fetches \o <<job[t].req.fetch>>
         /\ \E j : /\ Moves(t, "push", j, out[t]) /\ j.outcome = job[t].outcome
                   /\ j.req.kind = job[t].req.kind /\ j.req.ids = job[t].req.ids
                   /\ j.req.fetch = NoFetch /\ j.req.more = job[t].req.more
                   /\ j.req.probs = job[t].req.probs
<1>1. PICK j : j = [job[t] EXCEPT !.req.fetch = NoFetch]
  OBVIOUS
<1>2. /\ UNCHANGED <<usage, prob, live, answers, unsubmitted, active, cancelIds, inflight>>
      /\ pc[t] = "refetch" /\ Moves(t, "push", j, out[t]) /\ job[t].req.kind = "ANSWER"
      /\ fetches' = Append(fetches, job[t].req.fetch) /\ IsRequest(job[t].req)
  BY <1>1, SameHands DEF Base, FetchAnswer, At, userVars, Moves, Hand
<1>3. job[t].req.fetch \in Fetches /\ fetches \in Seq(Fetches)
  BY <1>2 DEF Base, CarryInv, SharedData, Load, FetchPcs, IsRequest
<1>5. /\ j.outcome = job[t].outcome /\ j.req.probs = job[t].req.probs
      /\ j.req.kind = job[t].req.kind /\ j.req.ids = job[t].req.ids
      /\ j.req.fetch = NoFetch /\ j.req.more = job[t].req.more
  BY <1>1, JobFields DEF Base
<1>6. fetches' = fetches \o <<job[t].req.fetch>>
  BY <1>2, <1>3, SingleOnce
<1> QED
  BY <1>2, <1>3, <1>5, <1>6

\* The answer callback is called and forgotten.
LEMMA DeliverMoves ==
  ASSUME Base, NEW t \in Everyone, DeliverAnswer(t)
  PROVE  /\ UNCHANGED <<usage, prob, live, unsubmitted, active, cancelIds, fetches, inflight>>
         /\ pc[t] = "deliver"
         /\ answers' = [f \in Fetches |-> IF f = job[t].req.fetch THEN "done" ELSE answers[f]]
         /\ \E j : /\ Moves(t, "complete", j, out[t]) /\ j.outcome = job[t].outcome
                   /\ j.req.kind = job[t].req.kind /\ j.req.ids = job[t].req.ids
                   /\ j.req.fetch = NoFetch /\ j.req.more = job[t].req.more
                   /\ j.req.probs = job[t].req.probs
<1>1. PICK j : j = [job[t] EXCEPT !.req.fetch = NoFetch]
  OBVIOUS
<1>2. /\ UNCHANGED <<usage, prob, live, unsubmitted, active, cancelIds, fetches, inflight>>
      /\ pc[t] = "deliver" /\ Moves(t, "complete", j, out[t])
      /\ answers' = [answers EXCEPT ![job[t].req.fetch] = "done"]
  BY <1>1, SameHands DEF Base, DeliverAnswer, At, listVars, Moves
<1>3. answers \in [Fetches -> {"unused", "waiting", "done"}]
  BY DEF Base, CarryInv, SharedData
<1>4. answers' = [f \in Fetches |-> IF f = job[t].req.fetch THEN "done" ELSE answers[f]]
  BY <1>2, <1>3
<1>5. /\ j.outcome = job[t].outcome /\ j.req.probs = job[t].req.probs
      /\ j.req.kind = job[t].req.kind /\ j.req.ids = job[t].req.ids
      /\ j.req.fetch = NoFetch /\ j.req.more = job[t].req.more
  BY <1>1, JobFields DEF Base
<1> QED
  BY <1>2, <1>4, <1>5

\* The steps after which a thread carries nothing in its job.
LEMMA EndMoves ==
  ASSUME Base, NEW t \in Everyone, Push(t) \/ RequestComplete(t)
  PROVE  Quiet /\ pc[t] \in {"push", "complete"} /\ Moves(t, "enter", NoJob, out[t])
  BY SameHands DEF Base, Push, RequestComplete, At, Quiet, userVars, listVars, Moves

\* The push of a cancel request moves the thread only.
LEMMA PushCancelMoves ==
  ASSUME Base, NEW t \in Everyone, PushCancel(t)
  PROVE  Quiet /\ pc[t] = "pushcancel" /\ Moves(t, "requeue", job[t], out[t])
  BY SameHands DEF Base, PushCancel, At, Quiet, userVars, listVars, Moves

-----------------------------------------------------------------------------
(* Calls, replies and the timer's thread. *)
LEMMA SubmitMoves ==
  ASSUME Base, NEW t \in Threads, NEW p \in Problems, Submit(t, p)
  PROVE  /\ UNCHANGED <<usage, answers, active, cancelIds, fetches, inflight>>
         /\ t \in Everyone /\ pc[t] = "idle" /\ prob[p].state = "NEW"
         /\ prob' = [prob EXCEPT ![p] = SubmittingProblem] /\ live' = live \cup {p}
         /\ unsubmitted' = unsubmitted \o <<p>>
         /\ \E j : /\ Moves(t, "push", j, out[t]) /\ Blank(j.req) /\ j.req.kind = "SUBMIT"
                   /\ j.outcome = "call"
<1>1. PICK r : r = [NoRequest EXCEPT !.kind = "SUBMIT"]
  OBVIOUS
<1>2. Blank(r) /\ r.kind = "SUBMIT"
  BY <1>1, BlankRequests
<1>3. PICK j : j = Call(r)
  OBVIOUS
<1>4. j.req = r /\ j.outcome = "call"
  BY <1>3 DEF Call
<1>5. /\ UNCHANGED <<usage, answers, active, cancelIds, fetches, inflight>>
      /\ pc[t] = "idle" /\ prob[p].state = "NEW"
      /\ prob' = [prob EXCEPT ![p] = SubmittingProblem] /\ live' = live \cup {p}
      /\ unsubmitted' = Append(unsubmitted, p)
      /\ job' = [job EXCEPT ![t] = j] /\ Goto(t, "push") /\ out' = out
  BY <1>1, <1>3 DEF Submit, Creatable, At
<1>6. t \in Everyone
  BY DEF Everyone
<1>7. Moves(t, "push", j, out[t])
  BY <1>5, <1>6, SameHands DEF Base, Moves
<1>8. unsubmitted' = unsubmitted \o <<p>>
  BY <1>5, SingleOnce DEF Base, CarryInv, SharedData
<1> QED
  BY <1>2, <1>4, <1>5, <1>6, <1>7, <1>8

\* addProblem makes the problem and puts it on the active list.
LEMMA AddMoves ==
  ASSUME Base, NEW t \in Threads, NEW p \in Problems, Add(t, p)
  PROVE  /\ UNCHANGED <<usage, answers, unsubmitted, cancelIds, fetches, inflight>>
         /\ t \in Everyone /\ pc[t] = "idle" /\ prob[p].state = "NEW"
         /\ prob' = [prob EXCEPT ![p] = AddedProblem] /\ live' = live \cup {p}
         /\ active' = active \o <<p>>
         /\ \E j : /\ Moves(t, "push", j, out[t]) /\ Blank(j.req) /\ j.req.kind = "STATUS"
                   /\ j.outcome = "call"
<1>1. PICK r : r = [NoRequest EXCEPT !.kind = "STATUS"]
  OBVIOUS
<1>2. Blank(r) /\ r.kind = "STATUS"
  BY <1>1, BlankRequests
<1>3. PICK j : j = Call(r)
  OBVIOUS
<1>4. j.req = r /\ j.outcome = "call"
  BY <1>3 DEF Call
<1>5. /\ UNCHANGED <<usage, answers, unsubmitted, cancelIds, fetches, inflight>>
      /\ pc[t] = "idle" /\ prob[p].state = "NEW"
      /\ prob' = [prob EXCEPT ![p] = AddedProblem] /\ live' = live \cup {p}
      /\ active' = Append(active, p)
      /\ job' = [job EXCEPT ![t] = j] /\ Goto(t, "push") /\ out' = out
  BY <1>1, <1>3 DEF Add, Creatable, At
<1>6. t \in Everyone
  BY DEF Everyone
<1>7. Moves(t, "push", j, out[t])
  BY <1>5, <1>6, SameHands DEF Base, Moves
<1>8. active' = active \o <<p>>
  BY <1>5, SingleOnce DEF Base, CarryInv, SharedData
<1> QED
  BY <1>2, <1>4, <1>5, <1>6, <1>7, <1>8

\* The first half of retry().
LEMMA RetryCallMoves ==
  ASSUME Base, NEW t \in Threads, NEW p \in Problems, Retry(t, p)
  PROVE  /\ UNCHANGED <<usage, live, answers, unsubmitted, active, cancelIds, fetches, inflight>>
         /\ t \in Everyone /\ pc[t] = "idle" /\ p \in live /\ Retryable(prob[p])
         /\ prob' = [prob EXCEPT ![p] = WithRetry(prob[p])]
         /\ \E j : /\ Moves(t, "readd", j, out[t]) /\ j.outcome = "call"
                   /\ j.req.probs = <<p>> /\ j.req.ids = {} /\ j.req.fetch = NoFetch
                   /\ j.req.more \in BOOLEAN
                   /\ j.req.kind = IF prob[p].lastGood = "SUBMITTING" THEN "SUBMIT" ELSE "STATUS"
<1>1. PICK k : k = IF prob[p].lastGood = "SUBMITTING" THEN "SUBMIT" ELSE "STATUS"
  OBVIOUS
<1>2. PICK r : r = [NoRequest EXCEPT !.kind = k, !.probs = <<p>>]
  OBVIOUS
<1>3. r.kind = k /\ r.probs = <<p>> /\ r.ids = {} /\ r.fetch = NoFetch /\ r.more \in BOOLEAN
  BY <1>2 DEF NoRequest
<1>4. PICK j : j = Call(r)
  OBVIOUS
<1>5. j.req = r /\ j.outcome = "call"
  BY <1>4 DEF Call
<1>6. /\ UNCHANGED <<usage, live, answers, unsubmitted, active, cancelIds, fetches, inflight>>
      /\ pc[t] = "idle" /\ p \in live /\ Retryable(prob[p])
      /\ prob' = [prob EXCEPT ![p] = WithRetry(prob[p])]
      /\ job' = [job EXCEPT ![t] = j] /\ Goto(t, "readd") /\ out' = out
  BY <1>1, <1>2, <1>4 DEF Retry, At, listVars
<1>7. t \in Everyone
  BY DEF Everyone
<1>8. Moves(t, "readd", j, out[t])
  BY <1>6, <1>7, SameHands DEF Base, Moves
<1> QED
  BY <1>1, <1>3, <1>5, <1>6, <1>7, <1>8

\* What an answer() does.
AnswerMade(t, f) ==
  /\ UNCHANGED <<usage, prob, live, unsubmitted, active, cancelIds, fetches, inflight>>
  /\ t \in Everyone /\ pc[t] = "idle" /\ answers[f] = "unused"
  /\ \/ UNCHANGED <<pc, job, out>> /\ answers' = [answers EXCEPT ![f] = "done"]
     \/ /\ answers' = [answers EXCEPT ![f] = "waiting"]
        /\ \E j : /\ Moves(t, "refetch", j, out[t]) /\ j.outcome = "call"
                  /\ j.req.probs = <<>> /\ j.req.ids = {} /\ j.req.fetch = f
                  /\ j.req.more \in BOOLEAN /\ j.req.kind = "ANSWER"

\* answer() fails at once or brings its callback.
LEMMA AnswerMoves ==
  ASSUME Base, NEW t \in Threads, NEW p \in Problems, NEW f \in Fetches, Answer(t, p, f)
  PROVE  AnswerMade(t, f)
<1>1. /\ UNCHANGED <<usage, prob, live, unsubmitted, active, cancelIds, fetches, inflight, out>>
      /\ t \in Everyone /\ pc[t] = "idle" /\ answers[f] = "unused"
  BY DEF Answer, Everyone, At, listVars
<1>2. CASE ~Answerable(prob[p])
  BY <1>1, <1>2 DEF Answer, AnswerMade
<1>3. CASE Answerable(prob[p])
  <2>1. PICK r : r = [NoRequest EXCEPT !.kind = "ANSWER", !.fetch = f]
    OBVIOUS
  <2>2. r.kind = "ANSWER" /\ r.probs = <<>> /\ r.ids = {} /\ r.fetch = f /\ r.more \in BOOLEAN
    BY <2>1 DEF NoRequest
  <2>3. PICK j : j = Call(r)
    OBVIOUS
  <2>4. j.req = r /\ j.outcome = "call"
    BY <2>3 DEF Call
  <2>5. /\ answers' = [answers EXCEPT ![f] = "waiting"]
        /\ job' = [job EXCEPT ![t] = j] /\ Goto(t, "refetch")
    BY <1>3, <2>1, <2>3 DEF Answer
  <2>6. Moves(t, "refetch", j, out[t])
    BY <1>1, <2>5, SameHands DEF Base, Moves
  <2> QED
    BY <1>1, <2>2, <2>4, <2>5, <2>6 DEF AnswerMade
<1> QED
  BY <1>2, <1>3

\* What a reply does.
ReplyTaken(t, c, outcome) ==
  /\ UNCHANGED <<usage, prob, live, answers, unsubmitted, active, cancelIds, fetches>>
  /\ t \in Everyone /\ pc[t] = "idle"
  /\ c \in DOMAIN inflight /\ DOMAIN inflight' = DOMAIN inflight \ {c}
  /\ \A d \in DOMAIN inflight' : inflight'[d] = inflight[d]
  /\ \E label, j :
       /\ Moves(t, label, j, out[t]) /\ j.req = inflight[c] /\ j.outcome = outcome
       /\ label = CASE outcome = "network" -> "retry"
                    [] outcome = "other" /\ inflight[c].kind \in StatusKinds -> "fail"
                    [] OTHER -> "stop"

\* A reply closes its request and hands it to the thread.
LEMMA ReplyMoves ==
  ASSUME Base, NEW t \in Threads, NEW c \in Conns, NEW outcome \in {"ok", "network", "other"},
         Reply(t, c, outcome)
  PROVE  ReplyTaken(t, c, outcome)
<1>1. /\ UNCHANGED <<usage, prob, live, answers, unsubmitted, active, cancelIds, fetches, out>>
      /\ t \in Everyone /\ pc[t] = "idle" /\ c \in DOMAIN inflight
      /\ inflight' = [d \in DOMAIN inflight \ {c} |-> inflight[d]]
  BY DEF Reply, Everyone, At, userVars, listVars
<1>2. PICK j : j = [req |-> inflight[c], outcome |-> outcome]
  OBVIOUS
<1>3. PICK label : label = CASE outcome = "network" -> "retry"
                           [] outcome = "other" /\ inflight[c].kind \in StatusKinds -> "fail"
                           [] OTHER -> "stop"
  OBVIOUS
<1>4. Moves(t, label, j, out[t])
  BY <1>1, <1>2, <1>3, SameHands DEF Base, Reply, Moves
<1> QED
  BY <1>1, <1>2, <1>3, <1>4 DEF ReplyTaken

\* The notification moves the timer's thread only.
LEMMA IoMoves ==
  ASSUME Base, RetryNotification \/ NotificationReturns
  PROVE  /\ Quiet /\ Io \in Everyone /\ pc[Io] \in {"idle", "return"}
         /\ \E label \in {"enter", "idle"} : Moves(Io, label, job[Io], out[Io])
<1>1. Io \in Everyone
  BY DEF Everyone
<1> QED
  BY <1>1, SameHands
     DEF Base, RetryNotification, NotificationReturns, At, Quiet, userVars, listVars, Moves

\* Everything else: no thread moves.
LEMMA StillMoves ==
  ASSUME Base, (\E p \in Problems : Cancel(p) \/ Drop(p)) \/ AsioStep \/ UNCHANGED vars
  PROVE  /\ UNCHANGED <<pc, job, out, inflight, usage, answers,
                        unsubmitted, active, cancelIds, fetches>>
         /\ live' \subseteq live /\ prob' = [p \in Problems |-> prob'[p]]
         /\ \A p \in Problems :
              prob'[p] = prob[p] \/ prob'[p] = [prob[p] EXCEPT !.cancelled = TRUE]
<1>1. prob = [p \in Problems |-> prob[p]]
  BY DEF Base, CarryInv, SharedData
<1>2. CASE \E p \in Problems : Cancel(p)
  BY <1>1, <1>2 DEF Cancel, listVars
<1>3. CASE (\E p \in Problems : Drop(p)) \/ AsioStep \/ UNCHANGED vars
  BY <1>1, <1>3 DEF Drop, AsioStep, vars, listVars, userVars
<1> QED
  BY <1>2, <1>3

-----------------------------------------------------------------------------
(* The carrying invariant is kept. *)
LEMMA MoveKeepsCarry ==
  ASSUME Base, NEW t \in Everyone, NEW label, NEW j, NEW r, Moves(t, label, j, r),
         Load(label, j, r), SharedData', OpenRequests'
  PROVE  CarryInv'
<1>1. ASSUME NEW u \in Everyone PROVE Load(pc'[u], job'[u], out'[u])
  <2>1. CASE u = t
    BY <2>1, MovedValues DEF Base, WorkInv
  <2>2. CASE u # t
    BY <2>2, MovedValues DEF Base, WorkInv, CarryInv
  <2> QED
    BY <2>1, <2>2
<1> QED
  BY <1>1 DEF CarryInv, Load, Carried

\* What the problem's record can become.
LEMMA RecordTypes ==
  ASSUME NEW r \in ProblemType
  PROVE  /\ \A kind, after : Told(kind, r, after) => after \in ProblemType
         /\ \A error \in Errors, retry \in BOOLEAN : WithError(r, error, retry) \in ProblemType
         /\ \A b \in BOOLEAN : [r EXCEPT !.cancelled = b] \in ProblemType
         /\ WithRetry(r) \in ProblemType
         /\ SubmittingProblem \in ProblemType /\ AddedProblem \in ProblemType
<1>0. ASSUME NEW s \in ProblemType
      PROVE  /\ \A x \in States : [s EXCEPT !.state = x] \in ProblemType
             /\ \A x \in States : [s EXCEPT !.lastGood = x] \in ProblemType
             /\ \A x \in Statuses : [s EXCEPT !.remote = x] \in ProblemType
             /\ \A x \in Errors : [s EXCEPT !.error = x] \in ProblemType
             /\ \A x \in BOOLEAN : [s EXCEPT !.hasId = x] \in ProblemType
             /\ \A x \in BOOLEAN : [s EXCEPT !.cancelled = x] \in ProblemType
             /\ \A x \in States, e \in Errors :
                  [s EXCEPT !.state = x, !.error = e] \in ProblemType
             /\ \A x, y \in States :
                  [s EXCEPT !.state = x, !.lastGood = y] \in ProblemType
             /\ \A x, y \in States, e \in Errors :
                  [s EXCEPT !.state = x, !.lastGood = y, !.error = e] \in ProblemType
  BY <1>0 DEF ProblemType
<1>1. ASSUME NEW e \in Errors, NEW retry \in BOOLEAN, NEW s \in ProblemType
      PROVE  WithError(s, e, retry) \in ProblemType
  <2>1. {"DONE", "RETRYING", "FAILED"} \subseteq States /\ "SOLVE" \in Errors
    BY DEF States, Errors
  <2>2. CASE e = "SOLVE"
    BY <1>0, <2>1, <2>2 DEF WithError
  <2>3. CASE e # "SOLVE" /\ retry
    BY <1>0, <2>1, <2>3 DEF WithError
  <2>4. CASE e # "SOLVE" /\ ~retry
    BY <1>0, <2>1, <2>4 DEF WithError
  <2> QED
    BY <2>2, <2>3, <2>4
<1>2. ASSUME NEW s \in ProblemType, NEW status \in {"PENDING", "COMPLETED", "FAILED"}
      PROVE  WithStatus(s, status) \in ProblemType
  <2>1. status \in Statuses /\ {"DONE", "SUBMITTED"} \subseteq States /\ "SOLVE" \in Errors
    BY DEF States, Statuses, Errors
  <2>2. PICK u \in ProblemType : u = [s EXCEPT !.remote = status]
    BY <1>0, <2>1
  <2>3. CASE status = "PENDING"
    BY <1>0, <2>1, <2>2, <2>3 DEF WithStatus
  <2>4. CASE status = "COMPLETED"
    BY <1>0, <2>1, <2>2, <2>4 DEF WithStatus
  <2>5. CASE status = "FAILED"
    BY <1>1, <2>1, <2>2, <2>5 DEF WithStatus
  <2> QED
    BY <2>3, <2>4, <2>5
<1>3. \A b \in BOOLEAN : WithId(r, b) \in ProblemType
  BY <1>0 DEF WithId
<1>4. \A kind, after : Told(kind, r, after) => after \in ProblemType
  BY <1>2, <1>3 DEF Told
<1>5. "RETRYING" \in States
  BY DEF States
<1>6. WithRetry(r) \in ProblemType
  BY <1>0, <1>5 DEF WithRetry
<1>7. NoProblem \in ProblemType
  BY DEF NoProblem, ProblemType, States, Statuses, Errors
<1>8. SubmittingProblem \in ProblemType /\ AddedProblem \in ProblemType
  BY DEF SubmittingProblem, AddedProblem, NoProblem, ProblemType, States, Statuses, Errors
<1>9. \A b \in BOOLEAN : [r EXCEPT !.cancelled = b] \in ProblemType
  BY <1>0
<1> QED
  BY <1>1, <1>4, <1>6, <1>8, <1>9

\* Every step keeps what is carried where it may be carried.
LEMMA NextKeepsCarry ==
  ASSUME Base, [Next]_vars
  PROVE  CarryInv'
<1>0. /\ SharedData /\ OpenRequests
      /\ \A t \in Everyone : /\ Load(pc[t], job[t], out[t]) /\ IsRequest(out[t])
                             /\ IsRequest(job[t].req) /\ Hand(pc[t], job[t], out[t])
  BY SameHands DEF Base, CarryInv
<1> USE DEF ProblemPcs, FetchPcs
<1>1. ASSUME NEW t \in Everyone, Enter(t) \/ Sent(t) \/ Unsent(t) PROVE CarryInv'
  <2>1. PICK label, r :
          /\ label \in {"take", "complete", "return", "idle"}
          /\ Moves(t, label, job[t], r) /\ Blank(r)
    BY <1>1, LoopMoves
  <2>2. Load(label, job[t], r)
    BY <1>0, <1>1, <2>1, LoopMoves, BlankRequests DEF Load, Blank
  <2> QED
    BY <1>0, <1>1, <2>1, <2>2, LoopMoves, MoveKeepsCarry DEF Quiet, SharedData, OpenRequests
<1>2. ASSUME NEW t \in Everyone, TakeProblems(t) PROVE CarryInv'
  <2>1. PICK r, a, b :
              /\ Moves(t, "issue", job[t], r)
              /\ r.kind = out[t].kind /\ r.probs = Alive(a) /\ r.ids = {} /\ r.fetch = NoFetch
              /\ r.more \in BOOLEAN
              /\ a \in Seq(Problems) /\ b \in Seq(Problems)
              /\ IF out[t].kind = "SUBMIT"
                 THEN unsubmitted = a \o b /\ unsubmitted' = b /\ active' = active
                 ELSE active = a \o b /\ active' = b /\ unsubmitted' = unsubmitted
    BY <1>2, TakeProblemsMoves
  <2>2. r.probs \in Seq(Problems)
    BY <2>1, KeptOnce DEF Alive
  <2>3. Load("issue", job[t], r)
    BY <1>0, <1>2, <2>1, <2>2, TakeProblemsMoves DEF Load, Carried
  <2> QED
    BY <1>0, <1>2, <2>1, <2>3, TakeProblemsMoves, MoveKeepsCarry, SMTT(60) DEF SharedData, OpenRequests
<1>3. ASSUME NEW t \in Everyone, TakeCancels(t) PROVE CarryInv'
  <2>1. PICK r : /\ Moves(t, "issue", job[t], r)
                 /\ r.kind = "CANCEL" /\ r.probs = <<>> /\ r.ids = cancelIds
                 /\ r.fetch = NoFetch /\ r.more \in BOOLEAN
    BY <1>3, TakeCancelsMoves
  <2>2. Load("issue", job[t], r)
    BY <1>0, <1>3, <2>1, TakeCancelsMoves, ZenonT(60) DEF Load, Carried, SharedData
  <2>3. UNCHANGED <<prob, live, answers, unsubmitted, active, fetches, inflight>> /\ cancelIds' = {}
    BY <1>3, TakeCancelsMoves
  <2>4. SharedData' /\ OpenRequests'
    BY <1>0, <2>3 DEF SharedData, OpenRequests
  <2> QED
    BY <1>3, <2>1, <2>2, <2>4, MoveKeepsCarry
<1>4. ASSUME NEW t \in Everyone, TakeFetch(t) PROVE CarryInv'
  <2>1. CASE fetches' = fetches /\ Moves(t, "issue", job[t], out[t])
    <3>1. Load("issue", job[t], out[t])
      BY <1>0, <1>4, TakeFetchMoves DEF Load
    <3> QED
      BY <1>0, <1>4, <2>1, <3>1, TakeFetchMoves, MoveKeepsCarry, ZenonT(60) DEF SharedData, OpenRequests
  <2>2. ASSUME NEW r, NEW f \in Fetches, NEW rest \in Seq(Fetches),
               Moves(t, "issue", job[t], r), fetches' = rest,
               r.kind = "ANSWER", r.probs = <<>>, r.ids = {}, r.fetch = f, r.more \in BOOLEAN
        PROVE  CarryInv'
    <3>1. Load("issue", job[t], r)
      BY <1>0, <1>4, <2>2, TakeFetchMoves DEF Load, Carried
    <3> QED
      BY <1>0, <1>4, <2>2, <3>1, TakeFetchMoves, MoveKeepsCarry, ZenonT(60) DEF SharedData, OpenRequests
  <2> QED
    BY <1>4, <2>1, <2>2, TakeFetchMoves
<1>5. ASSUME NEW t \in Everyone, Issue(t) PROVE CarryInv'
  <2>1. PICK label \in {"sent", "unsent"} : Moves(t, label, job[t], NoRequest)
    BY <1>5, IssueMoves
  <2>2. Load(label, job[t], NoRequest)
    BY <1>0, <1>5, IssueMoves, BlankRequests DEF Load, Blank
  <2>3. UNCHANGED <<prob, live, answers, unsubmitted, active, cancelIds, fetches>>
    BY <1>5, IssueMoves
  <2>4. SharedData'
    BY <1>0, <2>3 DEF SharedData
  <2>5. CASE inflight' = inflight
    BY <1>0, <1>5, <2>1, <2>2, <2>4, <2>5, MoveKeepsCarry DEF OpenRequests
  <2>6. CASE inflight' # inflight
    <3>1. PICK c, q :
                 /\ c \notin DOMAIN inflight /\ DOMAIN inflight' = DOMAIN inflight \cup {c}
                 /\ \A d \in DOMAIN inflight : inflight'[d] = inflight[d]
                 /\ inflight'[c] = q /\ q.kind = out[t].kind /\ q.probs = out[t].probs
                 /\ q.ids = out[t].ids /\ q.fetch = out[t].fetch /\ q.more = FALSE
                 /\ q.kind = "ANSWER" => q.fetch # NoFetch
      BY <1>5, <2>6, IssueMoves
    <3>2. Carried(q)
      BY <1>0, <3>1 DEF Load, Carried
    <3>3. OpenRequests'
      BY <1>0, <3>1, <3>2 DEF OpenRequests, Carried
    <3> QED
      BY <1>5, <2>1, <2>2, <2>4, <3>3, MoveKeepsCarry
  <2> QED
    BY <2>5, <2>6
<1>6. ASSUME NEW t \in Everyone, StopRetrying(t) PROVE CarryInv'
  <2>1. PICK label : /\ Moves(t, label, job[t], out[t])
              /\ label = CASE job[t].outcome = "ok" /\ job[t].req.kind \in StatusKinds -> "update"
                           [] job[t].req.kind = "ANSWER" -> "deliver"
                           [] OTHER -> "complete"
    BY <1>6, StopMoves
  <2>2. Load(label, job[t], out[t])
    BY <1>0, <1>6, <2>1, StopMoves DEF Load, Carried, StatusKinds
  <2> QED
    BY <1>0, <1>6, <2>1, <2>2, StopMoves, MoveKeepsCarry DEF Quiet, SharedData, OpenRequests
<1>7. ASSUME NEW t \in Everyone, RetryFailedRequest(t) PROVE CarryInv'
  <2>1. PICK label, j : \E retry \in BOOLEAN :
              /\ Moves(t, label, j, out[t]) /\ j.req = job[t].req
              /\ j.outcome = IF retry THEN "retry" ELSE "giveup"
              /\ label = CASE job[t].req.kind \in StatusKinds -> "fail"
                  [] job[t].req.kind = "CANCEL" -> IF retry THEN "recancel" ELSE "complete"
                  [] OTHER -> IF retry THEN "refetch" ELSE "deliver"
    BY <1>7, RetryMoves
  <2>2. Load(label, j, out[t])
    BY <1>0, <1>7, <2>1, RetryMoves DEF Load, Carried, Kinds, StatusKinds, Outcomes
  <2> QED
    BY <1>0, <1>7, <2>1, <2>2, RetryMoves, MoveKeepsCarry DEF Quiet, SharedData, OpenRequests
<1>8. ASSUME NEW t \in Everyone, StatusComplete(t) PROVE CarryInv'
  <2>1. PICK label, j, S :
              /\ Moves(t, label, j, out[t]) /\ j.outcome = job[t].outcome
              /\ label = IF j.req.probs = <<>> THEN "complete" ELSE "cancelcheck"
              /\ j.req.kind = job[t].req.kind /\ j.req.ids = job[t].req.ids
              /\ j.req.fetch = job[t].req.fetch /\ j.req.more = job[t].req.more
              /\ j.req.probs = Kept(job[t].req.probs, S)
              /\ prob' = [p \in Problems |-> prob'[p]]
              /\ \A p \in Problems :
                   prob'[p] = prob[p] \/ Told(job[t].req.kind, prob[p], prob'[p])
    BY <1>8, StatusMoves
  <2>2. j.req.probs \in Seq(Problems)
    BY <1>0, <2>1, KeptOnce DEF Load, Carried
  <2>3. Load(label, j, out[t])
    BY <1>0, <1>8, <2>1, <2>2, StatusMoves DEF Load, Carried
  <2>4. SharedData'
    BY <1>0, <1>8, <2>1, StatusMoves, RecordTypes, ZenonT(60) DEF SharedData
  <2> QED
    BY <1>0, <1>8, <2>1, <2>3, <2>4, StatusMoves, MoveKeepsCarry DEF OpenRequests
<1>9. ASSUME NEW t \in Everyone, FailProblems(t) PROVE CarryInv'
  <2>0. /\ UNCHANGED <<live, answers, unsubmitted, active, cancelIds, fetches, inflight>>
        /\ pc[t] = "fail"
    BY <1>9, FailMoves
  <2>1. PICK label, j : \E retry \in BOOLEAN, error \in {"OTHER", "NETWORK"} :
              /\ Moves(t, label, j, out[t]) /\ j.outcome = job[t].outcome
              /\ retry <=> job[t].outcome = "retry"
              /\ label = CASE retry -> IF job[t].req.kind = "SUBMIT" THEN "resubmit" ELSE "cancelcheck"
                           [] job[t].outcome = "giveup" -> "complete"
                           [] OTHER -> "stop"
              /\ j.req.kind = job[t].req.kind /\ j.req.ids = job[t].req.ids
              /\ j.req.fetch = job[t].req.fetch /\ j.req.more = job[t].req.more
              /\ j.req.probs = IF retry THEN job[t].req.probs ELSE <<>>
              /\ prob' = [p \in Problems |-> prob'[p]]
              /\ \A p \in Problems :
                   prob'[p] = prob[p] \/ prob'[p] = WithError(prob[p], error, retry)
    BY <1>9, FailMoves
  <2>1a. PICK retry \in BOOLEAN, error \in {"OTHER", "NETWORK"} :
              /\ Moves(t, label, j, out[t]) /\ j.outcome = job[t].outcome
              /\ retry <=> job[t].outcome = "retry"
              /\ label = CASE retry -> IF job[t].req.kind = "SUBMIT" THEN "resubmit" ELSE "cancelcheck"
                           [] job[t].outcome = "giveup" -> "complete"
                           [] OTHER -> "stop"
              /\ j.req.kind = job[t].req.kind
              /\ j.req.fetch = job[t].req.fetch
              /\ j.req.ids = job[t].req.ids /\ j.req.more = job[t].req.more
              /\ j.req.probs = IF retry THEN job[t].req.probs ELSE <<>>
              /\ prob' = [p \in Problems |-> prob'[p]]
              /\ \A p \in Problems :
                   prob'[p] = prob[p] \/ prob'[p] = WithError(prob[p], error, retry)
    BY <2>1
  <2>2. /\ label \in {"resubmit", "cancelcheck"} \/ (label \in {"complete", "stop"} /\ j.req.probs = <<>>)
        /\ j.req.probs \in {job[t].req.probs, <<>>}
    <3>1. CASE retry
      BY <2>1a, <3>1
    <3>2. CASE ~retry
      BY <2>1a, <3>2
    <3> QED
      BY <3>1, <3>2
  <2>3. job[t].req.kind \in StatusKinds /\ job[t].req.fetch = NoFetch
    BY <1>0, <2>0 DEF Load
  <2>4. j.req.kind # "ANSWER" /\ j.req.fetch = NoFetch /\ j.req.kind \in StatusKinds
    BY <2>1a, <2>3 DEF StatusKinds
  <2>5. Carried(j.req)
    BY <1>0, <2>1a, <2>2, <2>4 DEF Load, Carried
  <2>6. Load(label, j, out[t])
    BY <1>0, <2>0, <2>1a, <2>2, <2>4, <2>5 DEF Load
  <2>7. \A p \in Problems : prob'[p] \in ProblemType
    <3>1. error \in Errors /\ retry \in BOOLEAN
      BY <2>1a DEF Errors
    <3>2. \A r \in ProblemType : WithError(r, error, retry) \in ProblemType
      BY <3>1, RecordTypes
    <3> QED
      BY <1>0, <2>1a, <3>2 DEF SharedData
  <2>8. SharedData' /\ OpenRequests'
    BY <1>0, <2>0, <2>1a, <2>7 DEF SharedData, OpenRequests
  <2> QED
    BY <1>9, <2>1a, <2>6, <2>8, MoveKeepsCarry
<1>10. ASSUME NEW t \in Everyone, CheckCancelled(t) PROVE CarryInv'
  <2>1. PICK label \in {"requeue", "pushcancel"} : Moves(t, label, job[t], out[t])
    BY <1>10, CancelCheckMoves
  <2>2. Load(label, job[t], out[t])
    BY <1>0, <1>10, <2>1, CancelCheckMoves DEF Load
  <2>3. /\ UNCHANGED <<live, answers, unsubmitted, active, fetches, inflight>>
        /\ prob' = [p \in Problems |-> prob'[p]]
        /\ \A p \in Problems :
             prob'[p] = prob[p] \/ prob'[p] = [prob[p] EXCEPT !.cancelled = FALSE]
    BY <1>10, CancelCheckMoves
  <2>4. \A p \in Problems : prob'[p] \in ProblemType
    BY <1>0, <2>3, RecordTypes DEF SharedData
  <2>5. cancelIds' \in SUBSET Problems
    <3>1. PICK cancels : cancels \subseteq live /\ cancelIds' = cancelIds \cup cancels
      BY <1>10, CancelCheckMoves
    <3> QED
      BY <1>0, <3>1 DEF SharedData
  <2>6. SharedData' /\ OpenRequests'
    BY <1>0, <2>3, <2>4, <2>5 DEF SharedData, OpenRequests
  <2> QED
    BY <1>10, <2>1, <2>2, <2>6, MoveKeepsCarry
<1>11. ASSUME NEW t \in Everyone, QueueActive(t) PROVE CarryInv'
  <2>1. Load("complete", NoJob, out[t])
    BY <1>0, <1>11, QueueActiveMoves, BlankRequests DEF Load, Blank, Outcomes
  <2>2. job[t].req.probs \in Seq(Problems)
    BY <1>0 DEF Load, Carried
  <2>3. /\ UNCHANGED <<prob, live, answers, unsubmitted, cancelIds, fetches, inflight>>
        /\ Moves(t, "complete", NoJob, out[t])
        /\ active' \in {job[t].req.probs \o active, active \o job[t].req.probs}
    BY <1>11, QueueActiveMoves
  <2>4. active \in Seq(Problems)
    BY <1>0 DEF SharedData
  <2>5. active' \in Seq(Problems)
    <3>1. PICK a \in Seq(Problems), b \in Seq(Problems) : a = job[t].req.probs /\ b = active
      BY <2>2, <2>4
    <3>2. a \o b \in Seq(Problems) /\ b \o a \in Seq(Problems)
      BY ConcatOnce
    <3> QED
      BY <2>3, <3>1, <3>2
  <2>6. SharedData' /\ OpenRequests'
    BY <1>0, <2>3, <2>5 DEF SharedData, OpenRequests
  <2> QED
    BY <1>11, <2>1, <2>3, <2>6, MoveKeepsCarry
<1>12. ASSUME NEW t \in Everyone, RetrySubmit(t) \/ AddSubmittedProblem(t) PROVE CarryInv'
  <2>1. PICK j : /\ Moves(t, "push", j, out[t]) /\ j.outcome = job[t].outcome
                   /\ j.req.kind = job[t].req.kind /\ j.req.ids = job[t].req.ids
                   /\ j.req.fetch = job[t].req.fetch /\ j.req.more = job[t].req.more
                   /\ j.req.probs = <<>>
    BY <1>12, RetrySubmitMoves, AddSubmittedMoves
  <2>0. /\ UNCHANGED <<prob, live, answers, cancelIds, fetches, inflight>>
        /\ pc[t] \in {"resubmit", "readd"}
        /\ unsubmitted' \in {unsubmitted, job[t].req.probs \o unsubmitted,
                             unsubmitted \o job[t].req.probs}
        /\ active' \in {active, active \o job[t].req.probs}
    BY <1>12, RetrySubmitMoves, AddSubmittedMoves
  <2>2. Load("push", j, out[t])
    BY <1>0, <2>0, <2>1 DEF Load, Carried
  <2>3. job[t].req.probs \in Seq(Problems)
    BY <1>0 DEF Load, Carried
  <2>5. unsubmitted \in Seq(Problems) /\ active \in Seq(Problems)
    BY <1>0 DEF SharedData
  <2>6. unsubmitted' \in Seq(Problems) /\ active' \in Seq(Problems)
    <3>1. \A a, b \in Seq(Problems) : a \o b \in Seq(Problems)
      BY ConcatOnce
    <3> QED
      BY <2>0, <2>3, <2>5, <3>1
  <2>4. SharedData'
    BY <1>0, <2>0, <2>6 DEF SharedData
  <2> QED
    BY <1>0, <2>0, <2>1, <2>2, <2>4, MoveKeepsCarry DEF OpenRequests
<1>13. ASSUME NEW t \in Everyone, RetryCancel(t) PROVE CarryInv'
  <2>1. PICK label \in {"enter", "push"} : Moves(t, label, job[t], out[t])
    BY <1>13, RetryCancelMoves
  <2>2. Load(label, job[t], out[t])
    BY <1>0, <1>13, <2>1, RetryCancelMoves DEF Load
  <2>3. job[t].req.ids \in SUBSET Problems
    BY <1>0 DEF Load, Carried
  <2>4. SharedData'
    BY <1>0, <1>13, <2>3, RetryCancelMoves DEF SharedData
  <2> QED
    BY <1>0, <1>13, <2>1, <2>2, <2>4, RetryCancelMoves, MoveKeepsCarry DEF OpenRequests
<1>14. ASSUME NEW t \in Everyone, FetchAnswer(t) PROVE CarryInv'
  <2>1. PICK j : /\ Moves(t, "push", j, out[t]) /\ j.outcome = job[t].outcome
                   /\ j.req.kind = job[t].req.kind /\ j.req.ids = job[t].req.ids
                   /\ j.req.fetch = NoFetch /\ j.req.more = job[t].req.more
                   /\ j.req.probs = job[t].req.probs
    BY <1>14, FetchAnswerMoves
  <2>2. Load("push", j, out[t])
    BY <1>0, <1>14, <2>1, FetchAnswerMoves, ZenonT(60) DEF Load, Carried
  <2>3. /\ UNCHANGED <<prob, live, answers, unsubmitted, active, cancelIds, inflight>>
        /\ job[t].req.fetch \in Fetches /\ fetches' = fetches \o <<job[t].req.fetch>>
    BY <1>14, FetchAnswerMoves
  <2>4. fetches \in Seq(Fetches) /\ <<job[t].req.fetch>> \in Seq(Fetches)
    BY <1>0, <2>3, SingleOnce DEF SharedData
  <2>5. fetches' \in Seq(Fetches)
    BY <2>3, <2>4, ConcatOnce
  <2>6. SharedData' /\ OpenRequests'
    BY <1>0, <2>3, <2>5 DEF SharedData, OpenRequests
  <2> QED
    BY <1>14, <2>1, <2>2, <2>6, MoveKeepsCarry
<1>15. ASSUME NEW t \in Everyone, DeliverAnswer(t) PROVE CarryInv'
  <2>1. PICK j : /\ Moves(t, "complete", j, out[t]) /\ j.outcome = job[t].outcome
                   /\ j.req.kind = job[t].req.kind /\ j.req.ids = job[t].req.ids
                   /\ j.req.fetch = NoFetch /\ j.req.more = job[t].req.more
                   /\ j.req.probs = job[t].req.probs
    BY <1>15, DeliverMoves
  <2>2. Load("complete", j, out[t])
    BY <1>0, <1>15, <2>1, DeliverMoves DEF Load, Carried
  <2>3. SharedData'
    BY <1>0, <1>15, DeliverMoves DEF SharedData
  <2> QED
    BY <1>0, <1>15, <2>1, <2>2, <2>3, DeliverMoves, MoveKeepsCarry DEF OpenRequests
<1>16. ASSUME NEW t \in Everyone, Push(t) \/ RequestComplete(t) PROVE CarryInv'
  <2>1. Load("enter", NoJob, out[t])
    BY <1>0, <1>16, EndMoves, BlankRequests DEF Load, Blank, Outcomes
  <2> QED
    BY <1>0, <1>16, <2>1, EndMoves, MoveKeepsCarry DEF Quiet, SharedData, OpenRequests
<1>17. ASSUME NEW t \in Everyone, PushCancel(t) PROVE CarryInv'
  <2>1. Load("requeue", job[t], out[t])
    BY <1>0, <1>17, PushCancelMoves DEF Load
  <2> QED
    BY <1>0, <1>17, <2>1, PushCancelMoves, MoveKeepsCarry DEF Quiet, SharedData, OpenRequests
<1>18. ASSUME NEW t \in Threads, NEW p \in Problems, Submit(t, p) PROVE CarryInv'
  <2>1. PICK j : /\ Moves(t, "push", j, out[t]) /\ Blank(j.req) /\ j.req.kind = "SUBMIT"
                   /\ j.outcome = "call"
    BY <1>18, SubmitMoves
  <2>2. Load("push", j, out[t])
    BY <1>0, <1>18, <2>1, SubmitMoves, BlankRequests DEF Load, Blank, Outcomes
  <2>3. SharedData'
    <3>0. /\ UNCHANGED <<answers, active, cancelIds, fetches>> /\ unsubmitted' = unsubmitted \o <<p>>
          /\ live' = live \cup {p} /\ inflight' = inflight
          /\ prob' = [prob EXCEPT ![p] = SubmittingProblem]
      BY <1>18, SubmitMoves
    <3>1. unsubmitted \in Seq(Problems) /\ <<p>> \in Seq(Problems)
      BY <1>0, SingleOnce DEF SharedData
    <3>2. unsubmitted' \in Seq(Problems)
      BY <3>0, <3>1, ConcatOnce
    <3>3. prob[p] \in ProblemType
      BY <1>0 DEF SharedData
    <3>4. prob' \in [Problems -> ProblemType]
      BY <1>0, <3>0, <3>3, RecordTypes DEF SharedData
    <3> QED
      BY <1>0, <3>0, <3>2, <3>4 DEF SharedData
  <2>4. inflight' = inflight /\ t \in Everyone
    BY <1>18, SubmitMoves
  <2> QED
    BY <1>0, <2>1, <2>2, <2>3, <2>4, MoveKeepsCarry DEF OpenRequests
<1>19. ASSUME NEW t \in Threads, NEW p \in Problems, Add(t, p) PROVE CarryInv'
  <2>1. PICK j : /\ Moves(t, "push", j, out[t]) /\ Blank(j.req) /\ j.req.kind = "STATUS"
                   /\ j.outcome = "call"
    BY <1>19, AddMoves
  <2>2. Load("push", j, out[t])
    BY <1>0, <1>19, <2>1, AddMoves, BlankRequests DEF Load, Blank, Outcomes
  <2>3. SharedData'
    <3>0. /\ UNCHANGED <<answers, unsubmitted, cancelIds, fetches>> /\ active' = active \o <<p>>
          /\ live' = live \cup {p} /\ inflight' = inflight
          /\ prob' = [prob EXCEPT ![p] = AddedProblem]
      BY <1>19, AddMoves
    <3>1. active \in Seq(Problems) /\ <<p>> \in Seq(Problems)
      BY <1>0, SingleOnce DEF SharedData
    <3>2. active' \in Seq(Problems)
      BY <3>0, <3>1, ConcatOnce
    <3>3. prob[p] \in ProblemType
      BY <1>0 DEF SharedData
    <3>4. prob' \in [Problems -> ProblemType]
      BY <1>0, <3>0, <3>3, RecordTypes DEF SharedData
    <3> QED
      BY <1>0, <3>0, <3>2, <3>4 DEF SharedData
  <2>4. inflight' = inflight /\ t \in Everyone
    BY <1>19, AddMoves
  <2> QED
    BY <1>0, <2>1, <2>2, <2>3, <2>4, MoveKeepsCarry DEF OpenRequests
<1>20. ASSUME NEW t \in Threads, NEW p \in Problems, Retry(t, p) PROVE CarryInv'
  <2>1. PICK j : /\ Moves(t, "readd", j, out[t]) /\ j.outcome = "call"
                   /\ j.req.probs = <<p>> /\ j.req.ids = {} /\ j.req.fetch = NoFetch
                   /\ j.req.more \in BOOLEAN /\ j.req.kind \in StatusKinds
    <3>1. PICK j : /\ Moves(t, "readd", j, out[t]) /\ j.outcome = "call"
                   /\ j.req.probs = <<p>> /\ j.req.ids = {} /\ j.req.fetch = NoFetch
                   /\ j.req.more \in BOOLEAN
                   /\ j.req.kind = IF prob[p].lastGood = "SUBMITTING" THEN "SUBMIT" ELSE "STATUS"
      BY <1>20, RetryCallMoves
    <3>2. j.req.kind \in StatusKinds
      BY <3>1 DEF StatusKinds
    <3> QED
      BY <3>1, <3>2
  <2>2. <<p>> \in Seq(Problems)
    BY SingleOnce
  <2>3. Load("readd", j, out[t])
    BY <1>0, <1>20, <2>1, <2>2, RetryCallMoves DEF Load, Carried, Outcomes, StatusKinds
  <2>4. SharedData'
    BY <1>0, <1>20, RetryCallMoves, RecordTypes, SMTT(60) DEF SharedData
  <2> QED
    BY <1>0, <1>20, <2>1, <2>3, <2>4, RetryCallMoves, MoveKeepsCarry DEF OpenRequests
<1>21. ASSUME NEW t \in Threads, NEW p \in Problems, NEW f \in Fetches, Answer(t, p, f)
       PROVE  CarryInv'
  <2>0. AnswerMade(t, f)
    BY <1>21, AnswerMoves
  <2>1. SharedData' /\ OpenRequests'
    BY <1>0, <2>0 DEF SharedData, OpenRequests, AnswerMade
  <2>2. CASE UNCHANGED <<pc, job, out>>
    BY <1>0, <2>1, <2>2 DEF CarryInv, Load, Carried
  <2>3. ASSUME NEW j, Moves(t, "refetch", j, out[t]), j.outcome = "call",
               j.req.probs = <<>>, j.req.ids = {}, j.req.fetch = f,
               j.req.more \in BOOLEAN, j.req.kind = "ANSWER"
        PROVE  CarryInv'
    <3>0. pc[t] = "idle" /\ t \in Everyone
      BY <2>0 DEF AnswerMade
    <3>3. <<>> \in Seq(Problems) /\ f # NoFetch
      BY NamesAssumption DEF NamesAssumption
    <3>1. Carried(j.req) /\ f # NoFetch /\ j.outcome \in Outcomes
      BY <2>3, <3>3 DEF Carried, Outcomes
    <3>2. Load("refetch", j, out[t])
      BY <1>0, <2>3, <3>0, <3>1 DEF Load
    <3> QED
      BY <2>1, <2>3, <3>0, <3>2, MoveKeepsCarry
  <2> QED
    BY <2>0, <2>2, <2>3 DEF AnswerMade
<1>22. ASSUME NEW t \in Threads, NEW c \in Conns, NEW outcome \in {"ok", "network", "other"},
              Reply(t, c, outcome)
       PROVE  CarryInv'
  <2>a. ReplyTaken(t, c, outcome)
    BY <1>22, ReplyMoves
  <2>0. /\ UNCHANGED <<prob, live, answers, unsubmitted, active, cancelIds, fetches>>
        /\ t \in Everyone /\ pc[t] = "idle"
        /\ c \in DOMAIN inflight /\ DOMAIN inflight' = DOMAIN inflight \ {c}
        /\ \A d \in DOMAIN inflight' : inflight'[d] = inflight[d]
    BY <2>a DEF ReplyTaken
  <2>1. PICK label, j :
              /\ Moves(t, label, j, out[t]) /\ j.req = inflight[c] /\ j.outcome = outcome
              /\ label = CASE outcome = "network" -> "retry"
                           [] outcome = "other" /\ inflight[c].kind \in StatusKinds -> "fail"
                           [] OTHER -> "stop"
    BY <2>a DEF ReplyTaken
  <2>2. Carried(j.req) /\ (j.req.kind = "ANSWER" => j.req.fetch # NoFetch)
    BY <1>0, <2>0, <2>1 DEF OpenRequests
  <2>3. /\ label \in {"retry", "stop"} \/ (label = "fail" /\ j.req.kind \in StatusKinds)
        /\ label = "stop" => outcome = "ok" \/ j.req.kind \notin StatusKinds
        /\ j.outcome \in Outcomes
    BY <2>1 DEF Outcomes
  <2>4. j.req.probs # <<>> => j.req.kind \in StatusKinds
    BY <2>2 DEF Carried
  <2>5. j.req.fetch # NoFetch <=> j.req.kind = "ANSWER"
    BY <2>2 DEF Carried
  <2>6. Load(label, j, out[t])
    BY <1>0, <2>0, <2>1, <2>2, <2>3, <2>4, <2>5 DEF Load, StatusKinds
  <2>7. SharedData' /\ OpenRequests'
    BY <1>0, <2>0 DEF SharedData, OpenRequests
  <2> QED
    BY <2>0, <2>1, <2>6, <2>7, MoveKeepsCarry
<1>23. ASSUME RetryNotification \/ NotificationReturns PROVE CarryInv'
  <2>1. PICK label \in {"enter", "idle"} : Moves(Io, label, job[Io], out[Io])
    BY <1>23, IoMoves
  <2>2. Load(label, job[Io], out[Io])
    BY <1>0, <1>23, <2>1, IoMoves DEF Load
  <2> QED
    BY <1>0, <1>23, <2>1, <2>2, IoMoves, MoveKeepsCarry DEF Quiet, SharedData, OpenRequests
<1>24. ASSUME (\E p \in Problems : Cancel(p) \/ Drop(p)) \/ AsioStep \/ UNCHANGED vars
       PROVE  CarryInv'
  <2>1. SharedData'
    BY <1>0, <1>24, StillMoves, RecordTypes DEF SharedData
  <2> QED
    BY <1>0, <1>24, <2>1, StillMoves DEF CarryInv, OpenRequests, Load, Carried
<1> QED
  BY <1>1, <1>2, <1>3, <1>4, <1>5, <1>6, <1>7, <1>8, <1>9, <1>10, <1>11, <1>12, <1>13, <1>14,
     <1>15, <1>16, <1>17, <1>18, <1>19, <1>20, <1>21, <1>22, <1>23, <1>24
     DEF Next, Step, UserCall, ServiceReply

\* These four hold throughout.
LEMMA BaseHolds == Spec => []Base
<1>1. Init => CarryInv
  <2> SUFFICES ASSUME Init PROVE CarryInv
    OBVIOUS
  <2>1. NoProblem \in ProblemType
    BY DEF NoProblem, ProblemType, States, Statuses, Errors
  <2>2. SharedData
    BY <2>1 DEF Init, SharedData
  <2>3. OpenRequests
    BY DEF Init, OpenRequests
  <2>4. Load("idle", NoJob, NoRequest)
    BY BlankRequests DEF Load, Blank, ProblemPcs, FetchPcs, Outcomes
  <2>5. \A t \in Everyone : pc[t] = "idle" /\ job[t] = NoJob /\ out[t] = NoRequest
    BY DEF Init
  <2> QED
    BY <2>2, <2>3, <2>4, <2>5 DEF CarryInv
<1>2. ControlInv /\ SlotInv /\ WorkInv /\ CarryInv /\ [Next]_vars => CarryInv'
  BY NextKeepsCarry DEF Base
<1>3. Base <=> ControlInv /\ SlotInv /\ WorkInv /\ CarryInv
  BY DEF Base
<1> QED
  BY <1>1, <1>2, <1>3, ControlHolds, SlotInvHolds, WorkInvHolds, PTL DEF Spec

-----------------------------------------------------------------------------
(* Counting. *)
\* Two sets that differ in one element at most.
LEMMA OneChanges ==
  ASSUME NEW A, NEW B, NEW t, IsFiniteSet(A), A \ {t} = B \ {t}
  PROVE  /\ IsFiniteSet(B) /\ Cardinality(A) \in Nat /\ Cardinality(B) \in Nat
         /\ Cardinality(B) + Bit(t \in A) = Cardinality(A) + Bit(t \in B)
<1>1. ASSUME NEW S, IsFiniteSet(S)
      PROVE  /\ IsFiniteSet(S \ {t}) /\ Cardinality(S) \in Nat
             /\ Cardinality(S) = Cardinality(S \ {t}) + Bit(t \in S)
  <2>1. IsFiniteSet(S \ {t}) /\ Cardinality(S) \in Nat /\ Cardinality(S \ {t}) \in Nat
    BY <1>1, FS_Subset, FS_CardinalityType
  <2>2. CASE t \in S
    <3>1. Cardinality(S \ {t}) = Cardinality(S) - 1
      BY <1>1, <2>2, FS_RemoveElement
    <3> QED
      BY <2>1, <2>2, <3>1 DEF Bit
  <2>3. CASE t \notin S
    <3>1. S \ {t} = S
      BY <2>3
    <3>2. Cardinality(S \ {t}) = Cardinality(S)
      BY <3>1
    <3>3. Bit(t \in S) = 0
      BY <2>3 DEF Bit
    <3> QED
      BY <2>1, <3>2, <3>3
  <2> QED
    BY <2>2, <2>3
<1>2. IsFiniteSet(B)
  <2>1. IsFiniteSet(B \ {t})
    BY <1>1
  <2>2. IsFiniteSet((B \ {t}) \cup {t})
    BY <2>1, FS_AddElement
  <2>3. B \subseteq (B \ {t}) \cup {t}
    OBVIOUS
  <2> QED
    BY <2>2, <2>3, FS_Subset
<1>3. Cardinality(A \ {t}) \in Nat
  BY <1>1, FS_CardinalityType
<1>4. Bit(t \in A) \in Nat /\ Bit(t \in B) \in Nat
  BY DEF Bit
<1>5. PICK n \in Nat, a \in Nat, b \in Nat :
        n = Cardinality(A \ {t}) /\ a = Bit(t \in A) /\ b = Bit(t \in B)
  BY <1>3, <1>4
<1>6. Cardinality(A) = n + a /\ Cardinality(B) = n + b
  BY <1>1, <1>2, <1>5
<1> QED
  BY <1>1, <1>2, <1>5, <1>6

\* Sets that are counted.
LEMMA CountedSets ==
  ASSUME Base
  PROVE  /\ \A S \in SUBSET Everyone : IsFiniteSet(S) /\ Cardinality(S) \in Nat
         /\ \A S \in SUBSET DOMAIN inflight : IsFiniteSet(S) /\ Cardinality(S) \in Nat
         /\ \A S : IsFiniteSet(S) => (Cardinality(S) = 0 <=> S = {})
<1>1. IsFiniteSet(Everyone) /\ IsFiniteSet(DOMAIN inflight)
  BY FiniteActors DEF Base, SlotInv
<1> QED
  BY <1>1, FS_Subset, FS_CardinalityType, FS_EmptySet

-----------------------------------------------------------------------------
(* Answer callbacks. *)
\* Where an answer callback is, and that it is in one place while it waits.
FetchesSent(f) == {t \in Everyone : out[t].fetch = f}
FetchesHandled(f) == {t \in Everyone : job[t].req.fetch = f}
FetchesOpen(f) == {c \in DOMAIN inflight : inflight[c].fetch = f}
FetchAt(f) ==
  CountIn(fetches, f) + Cardinality(FetchesOpen(f)) + Cardinality(FetchesSent(f))
    + Cardinality(FetchesHandled(f)) = Bit(answers[f] = "waiting")

\* The property, callback by callback.
LEMMA FetchAtEach == FetchInOnePlace <=> \A f \in Fetches : FetchAt(f)
  BY DEF FetchInOnePlace, FetchAt, FetchesSent, FetchesHandled, FetchesOpen, Bit

\* A callback that is somewhere is nowhere else.
LEMMA FetchAlone ==
  ASSUME Base, NEW f \in Fetches, FetchAt(f)
  PROVE  /\ Once(fetches, f) /\ CountIn(fetches, f) = Bit(f \in Elements(fetches))
         /\ \A t \in Everyone : job[t].req.fetch = f =>
              f \notin Elements(fetches) /\ answers[f] = "waiting"
<1> DEFINE n == CountIn(fetches, f)
           o == Cardinality(FetchesOpen(f))
           s == Cardinality(FetchesSent(f))
           h == Cardinality(FetchesHandled(f))
           w == Bit(answers[f] = "waiting")
<1>1. /\ FetchesSent(f) \in SUBSET Everyone /\ FetchesHandled(f) \in SUBSET Everyone
      /\ FetchesOpen(f) \in SUBSET DOMAIN inflight
  BY DEF FetchesSent, FetchesHandled, FetchesOpen
<1>2. o \in Nat /\ s \in Nat /\ h \in Nat
  BY <1>1, CountedSets
<1>3. /\ n \in Nat /\ (n <= 1 <=> Once(fetches, f))
      /\ Once(fetches, f) => n = Bit(f \in Elements(fetches))
  BY CountOnce DEF Base, CarryInv, SharedData
<1>4. w \in {0, 1} /\ (w = 1 <=> answers[f] = "waiting") /\ n + o + s + h = w
  BY DEF FetchAt, Bit
<1> HIDE DEF n, o, s, h, w
<1>5. n <= 1
  BY <1>2, <1>3, <1>4
<1>6. ASSUME NEW t \in Everyone, job[t].req.fetch = f
      PROVE  f \notin Elements(fetches) /\ answers[f] = "waiting"
  <2>1. h # 0
    BY <1>1, <1>6, CountedSets DEF FetchesHandled, h
  <2>2. n = 0 /\ w = 1
    BY <1>2, <1>3, <1>4, <2>1
  <2> QED
    BY <1>3, <1>4, <1>5, <2>2 DEF Bit
<1> QED
  BY <1>3, <1>5, <1>6 DEF n

\* A step of thread t keeps the balance if it does so for what t and the list have.
LEMMA MoveKeepsFetch ==
  ASSUME Base, NEW f \in Fetches, FetchAt(f),
         NEW t \in Everyone, NEW label, NEW j, NEW r, Moves(t, label, j, r),
         inflight' = inflight, CountIn(fetches', f) \in Nat,
         CountIn(fetches, f) + Bit(out[t].fetch = f) + Bit(job[t].req.fetch = f)
             + Bit(answers'[f] = "waiting")
           = CountIn(fetches', f) + Bit(r.fetch = f) + Bit(j.req.fetch = f)
             + Bit(answers[f] = "waiting")
  PROVE  FetchAt(f)'
<1>0. /\ pc'[t] = label /\ job'[t] = j /\ out'[t] = r
      /\ \A u \in Everyone \ {t} : pc'[u] = pc[u] /\ job'[u] = job[u] /\ out'[u] = out[u]
  BY MovedValues DEF Base, WorkInv
<1>1. /\ FetchesSent(f) \ {t} = FetchesSent(f)' \ {t}
      /\ FetchesHandled(f) \ {t} = FetchesHandled(f)' \ {t}
      /\ FetchesOpen(f)' = FetchesOpen(f)
  BY <1>0 DEF FetchesSent, FetchesHandled, FetchesOpen
<1>2. /\ t \in FetchesSent(f) <=> out[t].fetch = f
      /\ t \in FetchesSent(f)' <=> r.fetch = f
      /\ t \in FetchesHandled(f) <=> job[t].req.fetch = f
      /\ t \in FetchesHandled(f)' <=> j.req.fetch = f
  BY <1>0 DEF FetchesSent, FetchesHandled
<1>3. IsFiniteSet(FetchesSent(f)) /\ IsFiniteSet(FetchesHandled(f))
  BY CountedSets DEF FetchesSent, FetchesHandled
<1>4. /\ Cardinality(FetchesSent(f)) \in Nat /\ Cardinality(FetchesSent(f)') \in Nat
      /\ Cardinality(FetchesSent(f)') + Bit(out[t].fetch = f)
           = Cardinality(FetchesSent(f)) + Bit(r.fetch = f)
  BY <1>1, <1>2, <1>3, OneChanges DEF Bit
<1>5. /\ Cardinality(FetchesHandled(f)) \in Nat /\ Cardinality(FetchesHandled(f)') \in Nat
      /\ Cardinality(FetchesHandled(f)') + Bit(job[t].req.fetch = f)
           = Cardinality(FetchesHandled(f)) + Bit(j.req.fetch = f)
  BY <1>1, <1>2, <1>3, OneChanges DEF Bit
<1>6. Cardinality(FetchesOpen(f)) \in Nat
  BY CountedSets DEF FetchesOpen
<1>7. CountIn(fetches, f) \in Nat
  BY CountOnce DEF Base, CarryInv, SharedData
<1>8. \A b \in BOOLEAN : Bit(b) \in Nat
  BY DEF Bit
<1>9. PICK a1 \in Nat, a2 \in Nat, b1 \in Nat, b2 \in Nat, w1 \in Nat, w2 \in Nat :
        /\ a1 = Bit(out[t].fetch = f) /\ a2 = Bit(r.fetch = f)
        /\ b1 = Bit(job[t].req.fetch = f) /\ b2 = Bit(j.req.fetch = f)
        /\ w1 = Bit(answers[f] = "waiting") /\ w2 = Bit(answers'[f] = "waiting")
  BY <1>8
<1> QED
  BY <1>1, <1>4, <1>5, <1>6, <1>7, <1>9 DEF FetchAt

\* So it does if neither changes.
LEMMA SameFetch ==
  ASSUME Base, NEW f \in Fetches, FetchAt(f),
         NEW t \in Everyone, NEW label, NEW j, NEW r, Moves(t, label, j, r),
         UNCHANGED <<answers, fetches, inflight>>,
         r.fetch = out[t].fetch, j.req.fetch = job[t].req.fetch
  PROVE  FetchAt(f)'
<1>1. CountIn(fetches', f) \in Nat
  BY CountOnce DEF Base, CarryInv, SharedData
<1> QED
  BY <1>1, MoveKeepsFetch

\* Every step keeps every answer callback in one place.
LEMMA NextKeepsFetches ==
  ASSUME Base, Base', [Next]_vars, NEW f \in Fetches, FetchAt(f)
  PROVE  FetchAt(f)'
<1>0. /\ SharedData /\ OpenRequests
      /\ \A t \in Everyone :
           /\ pc[t] # "issue" => out[t].fetch = NoFetch
           /\ pc[t] \notin FetchPcs => job[t].req.fetch = NoFetch
  BY DEF Base, CarryInv, Load
<1>00. f # NoFetch /\ NoRequest.fetch = NoFetch /\ NoJob.req.fetch = NoFetch
  BY BlankRequests, NamesAssumption DEF Blank, NamesAssumption
<1>000. CountIn(fetches', f) \in Nat /\ CountIn(fetches, f) \in Nat
  BY CountOnce DEF Base, CarryInv, SharedData
<1> USE DEF FetchPcs
<1>1. ASSUME NEW t \in Everyone, Enter(t) \/ Sent(t) \/ Unsent(t) PROVE FetchAt(f)'
  <2>1. PICK label, r :
          /\ label \in {"take", "complete", "return", "idle"}
          /\ Moves(t, label, job[t], r) /\ Blank(r)
    BY <1>1, LoopMoves
  <2>2. /\ UNCHANGED <<answers, fetches, inflight>> /\ r.fetch = out[t].fetch
    BY <1>0, <1>1, <2>1, LoopMoves DEF Quiet, Blank
  <2> QED
    BY <2>1, <2>2, SameFetch
<1>2. ASSUME NEW t \in Everyone, TakeProblems(t) PROVE FetchAt(f)'
  <2>1. PICK r : Moves(t, "issue", job[t], r) /\ r.fetch = NoFetch
    BY <1>2, TakeProblemsMoves
  <2>2. /\ UNCHANGED <<answers, fetches, inflight>> /\ out[t].fetch = NoFetch
    BY <1>2, TakeProblemsMoves DEF Blank
  <2> QED
    BY <2>1, <2>2, SameFetch
<1>3. ASSUME NEW t \in Everyone, TakeCancels(t) PROVE FetchAt(f)'
  <2>1. PICK r : Moves(t, "issue", job[t], r) /\ r.fetch = NoFetch
    BY <1>3, TakeCancelsMoves
  <2>2. /\ UNCHANGED <<answers, fetches, inflight>> /\ out[t].fetch = NoFetch
    BY <1>3, TakeCancelsMoves DEF Blank
  <2> QED
    BY <2>1, <2>2, SameFetch
<1>4. ASSUME NEW t \in Everyone, TakeFetch(t) PROVE FetchAt(f)'
  <2>0. UNCHANGED <<answers, inflight>> /\ out[t].fetch = NoFetch
    BY <1>4, TakeFetchMoves DEF Blank
  <2>1. CASE fetches' = fetches /\ Moves(t, "issue", job[t], out[t])
    BY <2>0, <2>1, SameFetch
  <2>2. ASSUME NEW r, NEW g \in Fetches, NEW rest \in Seq(Fetches),
               Moves(t, "issue", job[t], r), fetches = <<g>> \o rest, fetches' = rest,
               r.fetch = g
        PROVE  FetchAt(f)'
    <3>1. /\ <<g>> \in Seq(Fetches) /\ Elements(<<g>>) = {g} /\ Once(<<g>>, f)
      BY SingleOnce
    <3>2. Once(fetches, f) /\ CountIn(fetches, f) = Bit(f \in Elements(fetches))
      BY FetchAlone
    <3>3. /\ Once(rest, f) /\ ~(f = g /\ f \in Elements(rest))
          /\ f \in Elements(fetches) <=> f = g \/ f \in Elements(rest)
      <4>1. PICK a \in Seq(Fetches) : a = <<g>>
        BY <3>1
      <4>2. /\ Elements(a \o rest) = Elements(a) \cup Elements(rest)
            /\ Once(a \o rest, f)
                 => Once(rest, f) /\ ~(f \in Elements(a) /\ f \in Elements(rest))
        BY ConcatOnce
      <4> QED
        BY <2>2, <3>1, <3>2, <4>1, <4>2
    <3>4. CountIn(fetches', f) = Bit(f \in Elements(rest))
      BY <2>2, <3>3, CountOnce
    <3>5. CountIn(fetches, f) + Bit(out[t].fetch = f) = CountIn(fetches', f) + Bit(r.fetch = f)
      BY <1>00, <2>0, <2>2, <3>2, <3>3, <3>4 DEF Bit
    <3>6. /\ CountIn(fetches, f) + Bit(out[t].fetch = f) + Bit(job[t].req.fetch = f)
               + Bit(answers'[f] = "waiting")
             = CountIn(fetches', f) + Bit(r.fetch = f) + Bit(job[t].req.fetch = f)
               + Bit(answers[f] = "waiting")
      BY <2>0, <3>5
    <3> QED
      BY <1>000, <2>0, <2>2, <3>6, MoveKeepsFetch
  <2> QED
    BY <1>4, <2>1, <2>2, TakeFetchMoves
<1>5. ASSUME NEW t \in Everyone, Issue(t) PROVE FetchAt(f)'
  <2>1. PICK label : Moves(t, label, job[t], NoRequest)
    BY <1>5, IssueMoves
  <2>2. UNCHANGED <<answers, fetches>>
    BY <1>5, IssueMoves
  <2>3. CASE inflight' = inflight /\ out[t].fetch = NoFetch
    BY <1>00, <2>1, <2>2, <2>3, SameFetch
  <2>4. ASSUME NEW c, NEW q, 
               c \notin DOMAIN inflight, DOMAIN inflight' = DOMAIN inflight \cup {c},
               \A d \in DOMAIN inflight : inflight'[d] = inflight[d],
               inflight'[c] = q, q.fetch = out[t].fetch
        PROVE  FetchAt(f)'
    <3>0. /\ job'[t] = job[t] /\ out'[t] = NoRequest
          /\ \A u \in Everyone \ {t} : job'[u] = job[u] /\ out'[u] = out[u]
      BY <2>1, MovedValues DEF Base, WorkInv
    <3>1. /\ FetchesSent(f) \ {t} = FetchesSent(f)' \ {t}
          /\ FetchesHandled(f)' = FetchesHandled(f)
          /\ FetchesOpen(f)' \ {c} = FetchesOpen(f) \ {c}
      BY <2>4, <3>0 DEF FetchesSent, FetchesHandled, FetchesOpen
    <3>2. /\ t \in FetchesSent(f) <=> out[t].fetch = f
          /\ t \notin FetchesSent(f)'
          /\ c \notin FetchesOpen(f)
          /\ c \in FetchesOpen(f)' <=> out[t].fetch = f
      BY <1>00, <2>4, <3>0 DEF FetchesSent, FetchesOpen
    <3>3. /\ IsFiniteSet(FetchesSent(f)) /\ IsFiniteSet(FetchesOpen(f))
          /\ Cardinality(FetchesHandled(f)) \in Nat
      BY CountedSets DEF FetchesSent, FetchesOpen, FetchesHandled
    <3>4. /\ Cardinality(FetchesSent(f)) \in Nat /\ Cardinality(FetchesSent(f)') \in Nat
          /\ Cardinality(FetchesSent(f)') + Bit(out[t].fetch = f) = Cardinality(FetchesSent(f))
      BY <3>1, <3>2, <3>3, OneChanges DEF Bit
    <3>5. /\ Cardinality(FetchesOpen(f)) \in Nat /\ Cardinality(FetchesOpen(f)') \in Nat
          /\ Cardinality(FetchesOpen(f)') = Cardinality(FetchesOpen(f)) + Bit(out[t].fetch = f)
      BY <3>1, <3>2, <3>3, OneChanges DEF Bit
    <3>6. Bit(out[t].fetch = f) \in Nat
      BY DEF Bit
    <3> QED
      BY <1>000, <2>2, <3>1, <3>3, <3>4, <3>5, <3>6 DEF FetchAt
  <2>5. CASE inflight' # inflight
    <3>1. PICK c, q :
            /\ c \notin DOMAIN inflight /\ DOMAIN inflight' = DOMAIN inflight \cup {c}
            /\ \A d \in DOMAIN inflight : inflight'[d] = inflight[d]
            /\ inflight'[c] = q /\ q.fetch = out[t].fetch
      BY <1>5, <2>5, IssueMoves
    <3> QED
      BY <2>4, <3>1
  <2>6. CASE inflight' = inflight
    <3>1. out[t].fetch = NoFetch
      <4>1. ~ \E c : c \notin DOMAIN inflight /\ DOMAIN inflight' = DOMAIN inflight \cup {c}
        BY <2>6
      <4> QED
        BY <1>5, <4>1, IssueMoves
    <3> QED
      BY <2>3, <2>6, <3>1
  <2> QED
    BY <2>5, <2>6
<1>6. ASSUME NEW t \in Everyone, StopRetrying(t) PROVE FetchAt(f)'
  BY <1>6, StopMoves, SameFetch DEF Quiet
<1>7. ASSUME NEW t \in Everyone, RetryFailedRequest(t) PROVE FetchAt(f)'
  <2>1. PICK label, j : Moves(t, label, j, out[t]) /\ j.req = job[t].req
    BY <1>7, RetryMoves
  <2> QED
    BY <1>7, <2>1, RetryMoves, SameFetch DEF Quiet
<1>8. ASSUME NEW t \in Everyone, StatusComplete(t) PROVE FetchAt(f)'
  <2>1. PICK label, j : Moves(t, label, j, out[t]) /\ j.req.fetch = job[t].req.fetch
    BY <1>8, StatusMoves
  <2>2. UNCHANGED <<answers, fetches, inflight>>
    BY <1>8, StatusMoves
  <2> QED
    BY <2>1, <2>2, SameFetch
<1>9. ASSUME NEW t \in Everyone, FailProblems(t) PROVE FetchAt(f)'
  <2>1. PICK label, j : Moves(t, label, j, out[t]) /\ j.req.fetch = job[t].req.fetch
    BY <1>9, FailMoves
  <2>2. UNCHANGED <<answers, fetches, inflight>>
    BY <1>9, FailMoves
  <2> QED
    BY <2>1, <2>2, SameFetch
<1>10. ASSUME NEW t \in Everyone, CheckCancelled(t) PROVE FetchAt(f)'
  <2>1. PICK label : Moves(t, label, job[t], out[t])
    BY <1>10, CancelCheckMoves
  <2>2. UNCHANGED <<answers, fetches, inflight>>
    BY <1>10, CancelCheckMoves
  <2> QED
    BY <2>1, <2>2, SameFetch
<1>11. ASSUME NEW t \in Everyone, QueueActive(t) PROVE FetchAt(f)'
  BY <1>0, <1>00, <1>11, QueueActiveMoves, SameFetch
<1>12. ASSUME NEW t \in Everyone, RetrySubmit(t) \/ AddSubmittedProblem(t) PROVE FetchAt(f)'
  <2>1. PICK j : Moves(t, "push", j, out[t]) /\ j.req.fetch = job[t].req.fetch
    BY <1>12, RetrySubmitMoves, AddSubmittedMoves
  <2>2. UNCHANGED <<answers, fetches, inflight>>
    BY <1>12, RetrySubmitMoves, AddSubmittedMoves
  <2> QED
    BY <2>1, <2>2, SameFetch
<1>13. ASSUME NEW t \in Everyone, RetryCancel(t) PROVE FetchAt(f)'
  <2>1. PICK label : Moves(t, label, job[t], out[t])
    BY <1>13, RetryCancelMoves
  <2>2. UNCHANGED <<answers, fetches, inflight>>
    BY <1>13, RetryCancelMoves
  <2> QED
    BY <2>1, <2>2, SameFetch
<1>14. ASSUME NEW t \in Everyone, FetchAnswer(t) PROVE FetchAt(f)'
  <2>1. PICK j : Moves(t, "push", j, out[t]) /\ j.req.fetch = NoFetch
    BY <1>14, FetchAnswerMoves
  <2>2. PICK g \in Fetches : g = job[t].req.fetch
    BY <1>14, FetchAnswerMoves
  <2>3. UNCHANGED <<answers, inflight>> /\ fetches' = fetches \o <<g>>
    BY <1>14, <2>2, FetchAnswerMoves
  <2>4. /\ <<g>> \in Seq(Fetches) /\ Elements(<<g>>) = {g} /\ Once(<<g>>, f)
    BY SingleOnce
  <2>5. /\ Once(fetches, f) /\ CountIn(fetches, f) = Bit(f \in Elements(fetches))
        /\ g = f => f \notin Elements(fetches)
    BY <2>2, FetchAlone
  <2>6. /\ Once(fetches', f)
        /\ f \in Elements(fetches') <=> f = g \/ f \in Elements(fetches)
    <3>1. PICK a \in Seq(Fetches), b \in Seq(Fetches) : a = fetches /\ b = <<g>>
      BY <1>0, <2>4 DEF SharedData
    <3>2. /\ Elements(a \o b) = Elements(a) \cup Elements(b)
          /\ Once(a, f) /\ Once(b, f) /\ ~(f \in Elements(a) /\ f \in Elements(b)) => Once(a \o b, f)
      BY ConcatOnce
    <3> QED
      BY <2>3, <2>4, <2>5, <3>1, <3>2
  <2>7. CountIn(fetches', f) = Bit(f \in Elements(fetches'))
    BY <2>6, CountOnce DEF Base, CarryInv, SharedData
  <2>8. /\ CountIn(fetches, f) + Bit(out[t].fetch = f) + Bit(job[t].req.fetch = f)
             + Bit(answers'[f] = "waiting")
           = CountIn(fetches', f) + Bit(out[t].fetch = f) + Bit(j.req.fetch = f)
             + Bit(answers[f] = "waiting")
    BY <1>00, <2>1, <2>2, <2>3, <2>5, <2>6, <2>7 DEF Bit
  <2> QED
    BY <1>000, <2>1, <2>3, <2>8, MoveKeepsFetch
<1>15. ASSUME NEW t \in Everyone, DeliverAnswer(t) PROVE FetchAt(f)'
  <2>1. PICK j : Moves(t, "complete", j, out[t]) /\ j.req.fetch = NoFetch
    BY <1>15, DeliverMoves
  <2>2. /\ UNCHANGED <<fetches, inflight>>
        /\ answers'[f] = IF f = job[t].req.fetch THEN "done" ELSE answers[f]
    BY <1>15, DeliverMoves
  <2>3. f = job[t].req.fetch => answers[f] = "waiting"
    BY FetchAlone
  <2>4. /\ CountIn(fetches, f) + Bit(out[t].fetch = f) + Bit(job[t].req.fetch = f)
             + Bit(answers'[f] = "waiting")
           = CountIn(fetches', f) + Bit(out[t].fetch = f) + Bit(j.req.fetch = f)
             + Bit(answers[f] = "waiting")
    BY <1>00, <1>000, <2>1, <2>2, <2>3 DEF Bit
  <2> QED
    BY <1>000, <2>1, <2>2, <2>4, MoveKeepsFetch
<1>16. ASSUME NEW t \in Everyone, Push(t) \/ RequestComplete(t) PROVE FetchAt(f)'
  BY <1>0, <1>00, <1>16, EndMoves, SameFetch DEF Quiet
<1>17. ASSUME NEW t \in Everyone, PushCancel(t) PROVE FetchAt(f)'
  BY <1>17, PushCancelMoves, SameFetch DEF Quiet
<1>18. ASSUME NEW t \in Threads, NEW p \in Problems, Submit(t, p) PROVE FetchAt(f)'
  <2>1. PICK j : Moves(t, "push", j, out[t]) /\ Blank(j.req)
    BY <1>18, SubmitMoves
  <2>2. UNCHANGED <<answers, fetches, inflight>> /\ t \in Everyone /\ pc[t] = "idle"
    BY <1>18, SubmitMoves
  <2> QED
    BY <1>0, <2>1, <2>2, SameFetch DEF Blank
<1>19. ASSUME NEW t \in Threads, NEW p \in Problems, Add(t, p) PROVE FetchAt(f)'
  <2>1. PICK j : Moves(t, "push", j, out[t]) /\ Blank(j.req)
    BY <1>19, AddMoves
  <2>2. UNCHANGED <<answers, fetches, inflight>> /\ t \in Everyone /\ pc[t] = "idle"
    BY <1>19, AddMoves
  <2> QED
    BY <1>0, <2>1, <2>2, SameFetch DEF Blank
<1>20. ASSUME NEW t \in Threads, NEW p \in Problems, Retry(t, p) PROVE FetchAt(f)'
  <2>1. PICK j : Moves(t, "readd", j, out[t]) /\ j.req.fetch = NoFetch
    BY <1>20, RetryCallMoves
  <2>2. UNCHANGED <<answers, fetches, inflight>> /\ t \in Everyone /\ pc[t] = "idle"
    BY <1>20, RetryCallMoves
  <2> QED
    BY <1>0, <2>1, <2>2, SameFetch
<1>21. ASSUME NEW t \in Threads, NEW p \in Problems, NEW g \in Fetches, Answer(t, p, g)
       PROVE  FetchAt(f)'
  <2>0. AnswerMade(t, g)
    BY <1>21, AnswerMoves
  <2>1. UNCHANGED <<fetches, inflight>> /\ t \in Everyone /\ pc[t] = "idle" /\ answers[g] = "unused"
    BY <2>0 DEF AnswerMade
  <2>2. CASE UNCHANGED <<pc, job, out>> /\ answers' = [answers EXCEPT ![g] = "done"]
    <3>1. (answers'[f] = "waiting") = (answers[f] = "waiting")
      BY <1>0, <2>1, <2>2 DEF SharedData
    <3> QED
      BY <2>1, <2>2, <3>1 DEF FetchAt, FetchesSent, FetchesHandled, FetchesOpen
  <2>3. ASSUME NEW j, Moves(t, "refetch", j, out[t]), j.req.fetch = g,
               answers' = [answers EXCEPT ![g] = "waiting"]
        PROVE  FetchAt(f)'
    <3>1. answers'[f] = IF f = g THEN "waiting" ELSE answers[f]
      BY <1>0, <2>3 DEF SharedData
    <3>2. job[t].req.fetch = NoFetch
      BY <1>0, <2>1
    <3>3. Bit(job[t].req.fetch = f) = 0 /\ Bit(j.req.fetch = f) = Bit(f = g)
      BY <1>00, <2>3, <3>2 DEF Bit
    <3>4. Bit(answers'[f] = "waiting") = Bit(answers[f] = "waiting") + Bit(f = g)
      BY <2>1, <3>1 DEF Bit
    <3>5. \A b \in BOOLEAN : Bit(b) \in Nat
      BY DEF Bit
    <3>6. PICK x \in Nat, y \in Nat, z \in Nat, n \in Nat :
            /\ x = Bit(out[t].fetch = f) /\ y = Bit(f = g) /\ z = Bit(answers[f] = "waiting")
            /\ n = CountIn(fetches, f)
      BY <1>000, <3>5, ZenonT(60)
    <3>7. /\ CountIn(fetches, f) + Bit(out[t].fetch = f) + Bit(job[t].req.fetch = f)
               + Bit(answers'[f] = "waiting")
             = CountIn(fetches', f) + Bit(out[t].fetch = f) + Bit(j.req.fetch = f)
               + Bit(answers[f] = "waiting")
      BY <2>1, <3>3, <3>4, <3>6
    <3> QED
      BY <1>000, <2>1, <2>3, <3>7, MoveKeepsFetch
  <2> QED
    BY <2>0, <2>2, <2>3 DEF AnswerMade
<1>22. ASSUME NEW t \in Threads, NEW c \in Conns, NEW outcome \in {"ok", "network", "other"},
              Reply(t, c, outcome)
       PROVE  FetchAt(f)'
  <2>a. ReplyTaken(t, c, outcome)
    BY <1>22, ReplyMoves
  <2>0. /\ UNCHANGED <<answers, fetches>>
        /\ t \in Everyone /\ pc[t] = "idle"
        /\ c \in DOMAIN inflight /\ DOMAIN inflight' = DOMAIN inflight \ {c}
        /\ \A d \in DOMAIN inflight' : inflight'[d] = inflight[d]
    BY <2>a DEF ReplyTaken
  <2>1. PICK label, j : Moves(t, label, j, out[t]) /\ j.req = inflight[c]
    BY <2>a DEF ReplyTaken
  <2>2. /\ job'[t] = j /\ out'[t] = out[t]
        /\ \A u \in Everyone \ {t} : job'[u] = job[u] /\ out'[u] = out[u]
    BY <2>0, <2>1, MovedValues DEF Base, WorkInv
  <2>3. job[t].req.fetch = NoFetch
    BY <1>0, <2>0
  <2>4. /\ FetchesHandled(f) \ {t} = FetchesHandled(f)' \ {t}
        /\ FetchesSent(f)' = FetchesSent(f)
        /\ FetchesOpen(f)' \ {c} = FetchesOpen(f) \ {c}
    BY <2>0, <2>2 DEF FetchesSent, FetchesHandled, FetchesOpen
  <2>5. PICK b \in BOOLEAN : b = (inflight[c].fetch = f)
    OBVIOUS
  <2>6. /\ (t \in FetchesHandled(f)') = b /\ (t \in FetchesHandled(f)) = FALSE
        /\ (c \in FetchesOpen(f)) = b /\ (c \in FetchesOpen(f)') = FALSE
    BY <1>00, <2>0, <2>1, <2>2, <2>3, <2>5 DEF FetchesHandled, FetchesOpen
  <2>7. /\ IsFiniteSet(FetchesHandled(f)) /\ IsFiniteSet(FetchesOpen(f))
        /\ Cardinality(FetchesSent(f)) \in Nat
    BY CountedSets DEF FetchesSent, FetchesOpen, FetchesHandled
  <2>8. /\ Cardinality(FetchesHandled(f)) \in Nat /\ Cardinality(FetchesHandled(f)') \in Nat
        /\ Cardinality(FetchesHandled(f)') = Cardinality(FetchesHandled(f)) + Bit(b)
    BY <2>4, <2>6, <2>7, OneChanges DEF Bit
  <2>9. /\ Cardinality(FetchesOpen(f)) \in Nat /\ Cardinality(FetchesOpen(f)') \in Nat
        /\ Cardinality(FetchesOpen(f)') + Bit(b) = Cardinality(FetchesOpen(f))
    BY <2>4, <2>6, <2>7, OneChanges DEF Bit
  <2>10. Bit(b) \in Nat
    BY DEF Bit
  <2> QED
    BY <1>000, <2>0, <2>4, <2>7, <2>8, <2>9, <2>10 DEF FetchAt
<1>23. ASSUME RetryNotification \/ NotificationReturns PROVE FetchAt(f)'
  <2>1. PICK label : Moves(Io, label, job[Io], out[Io])
    BY <1>23, IoMoves
  <2> QED
    BY <1>23, <2>1, IoMoves, SameFetch DEF Quiet
<1>24. ASSUME (\E p \in Problems : Cancel(p) \/ Drop(p)) \/ AsioStep \/ UNCHANGED vars
       PROVE  FetchAt(f)'
  BY <1>24, StillMoves DEF FetchAt, FetchesSent, FetchesHandled, FetchesOpen
<1> QED
  BY <1>1, <1>2, <1>3, <1>4, <1>5, <1>6, <1>7, <1>8, <1>9, <1>10, <1>11, <1>12, <1>13, <1>14,
     <1>15, <1>16, <1>17, <1>18, <1>19, <1>20, <1>21, <1>22, <1>23, <1>24
     DEF Next, Step, UserCall, ServiceReply

\* An accepted answer callback is queued, being sent, open or being handled in
\* exactly one place until it is used, and is then nowhere: whatever threads,
\* replies and retries do, no answer is lost or asked for twice.
THEOREM FetchSafe == Spec => []FetchInOnePlace
<1>1. Init => FetchInOnePlace
  <2> SUFFICES ASSUME Init, NEW f \in Fetches PROVE FetchAt(f)
    BY FetchAtEach
  <2>1. f # NoFetch /\ NoRequest.fetch = NoFetch /\ NoJob.req.fetch = NoFetch
    BY BlankRequests, NamesAssumption DEF Blank, NamesAssumption
  <2>2. FetchesSent(f) = {} /\ FetchesHandled(f) = {} /\ FetchesOpen(f) = {}
    BY <2>1 DEF Init, FetchesSent, FetchesHandled, FetchesOpen
  <2>3. fetches = <<>> /\ answers[f] = "unused"
    BY DEF Init
  <2>4. {i \in DOMAIN fetches : fetches[i] = f} = {}
    BY <2>3
  <2>5. CountIn(fetches, f) = 0 /\ Cardinality({}) = 0
    BY <2>4, FS_EmptySet DEF CountIn
  <2> QED
    BY <2>2, <2>3, <2>5 DEF FetchAt, Bit
<1>2. Base /\ Base' /\ [Next]_vars /\ FetchInOnePlace => FetchInOnePlace'
  <2> SUFFICES ASSUME Base, Base', [Next]_vars, FetchInOnePlace
      PROVE  FetchInOnePlace'
    OBVIOUS
  <2>1. \A f \in Fetches : FetchAt(f)'
    BY NextKeepsFetches, FetchAtEach
  <2> QED
    BY <2>1 DEF FetchInOnePlace, FetchAt, FetchesSent, FetchesHandled, FetchesOpen, Bit
<1> QED
  BY <1>1, <1>2, BaseHolds, PTL DEF Spec

-----------------------------------------------------------------------------
(* What becomes of a problem's record. *)
\* The errors a failed request leaves in a problem.
Failures == {"OTHER", "NETWORK"}
\* What the server says of a problem.
LEMMA ToldFields ==
  ASSUME NEW r \in ProblemType, NEW kind, NEW after, Told(kind, r, after)
  PROVE  /\ after.state \in {"SUBMITTED", "DONE"} /\ after.lastGood = after.state
         /\ after.remote = "PENDING" <=> after.state = "SUBMITTED"
         /\ IF kind = "SUBMIT" THEN after.state = "SUBMITTED" => after.hasId
                               ELSE after.hasId = r.hasId
<1>1. ASSUME NEW s \in ProblemType, NEW status \in {"PENDING", "COMPLETED", "FAILED"}
      PROVE  LET told == WithStatus(s, status) IN
               /\ told.state = IF status = "PENDING" THEN "SUBMITTED" ELSE "DONE"
               /\ told.lastGood = told.state /\ told.remote = status /\ told.hasId = s.hasId
  <2>1. PICK u : u = [s EXCEPT !.remote = status]
    OBVIOUS
  <2>2. u \in ProblemType /\ u.remote = status /\ u.hasId = s.hasId
    BY <2>1 DEF ProblemType, Statuses
  <2>3. CASE status = "PENDING"
    BY <2>1, <2>2, <2>3 DEF WithStatus, ProblemType
  <2>4. CASE status = "COMPLETED"
    BY <2>1, <2>2, <2>4 DEF WithStatus, ProblemType
  <2>5. CASE status = "FAILED"
    BY <2>1, <2>2, <2>5 DEF WithStatus, WithError, ProblemType
  <2> QED
    BY <2>3, <2>4, <2>5
<1>2. CASE kind = "SUBMIT"
  <2>1. PICK status \in {"PENDING", "COMPLETED", "FAILED"}, given \in BOOLEAN :
          (~given => status = "FAILED") /\ after = WithStatus(WithId(r, given), status)
    BY <1>2 DEF Told
  <2>2. PICK s : s = [r EXCEPT !.hasId = given]
    OBVIOUS
  <2>3. s \in ProblemType /\ s = WithId(r, given) /\ s.hasId = given
    BY <2>1, <2>2 DEF WithId, ProblemType
  <2>4. /\ after.state = IF status = "PENDING" THEN "SUBMITTED" ELSE "DONE"
        /\ after.lastGood = after.state /\ after.remote = status /\ after.hasId = given
    BY <1>1, <2>1, <2>3
  <2> QED
    BY <1>2, <2>1, <2>4
<1>3. CASE kind # "SUBMIT"
  <2>1. PICK status \in {"PENDING", "COMPLETED", "FAILED"} : after = WithStatus(r, status)
    BY <1>3 DEF Told
  <2>2. /\ after.state = IF status = "PENDING" THEN "SUBMITTED" ELSE "DONE"
        /\ after.lastGood = after.state /\ after.remote = status /\ after.hasId = r.hasId
    BY <1>1, <2>1
  <2> QED
    BY <1>3, <2>2
<1> QED
  BY <1>2, <1>3

\* The other changes.
LEMMA RecordFields ==
  ASSUME NEW r \in ProblemType
  PROVE  /\ \A error \in Failures, retry \in BOOLEAN : LET s == WithError(r, error, retry) IN
              /\ s.state = IF retry THEN "RETRYING" ELSE "FAILED"
              /\ s.lastGood = r.lastGood /\ s.hasId = r.hasId
         /\ \A b : LET s == [r EXCEPT !.cancelled = b] IN
              s.state = r.state /\ s.lastGood = r.lastGood /\ s.hasId = r.hasId
         /\ LET s == WithRetry(r) IN
              s.state = "RETRYING" /\ s.lastGood = r.lastGood /\ s.hasId = r.hasId
         /\ /\ SubmittingProblem.state = "SUBMITTING" /\ SubmittingProblem.lastGood = "SUBMITTING"
            /\ SubmittingProblem.hasId = FALSE
         /\ /\ AddedProblem.state = "SUBMITTED" /\ AddedProblem.lastGood = "SUBMITTED"
            /\ AddedProblem.hasId = TRUE
<1>3. \A error \in Failures, retry \in BOOLEAN : LET s == WithError(r, error, retry) IN
              /\ s.state = IF retry THEN "RETRYING" ELSE "FAILED"
              /\ s.lastGood = r.lastGood /\ s.hasId = r.hasId
  BY DEF Failures, WithError, ProblemType
<1>4. \A b : LET s == [r EXCEPT !.cancelled = b] IN
              s.state = r.state /\ s.lastGood = r.lastGood /\ s.hasId = r.hasId
  BY DEF ProblemType
<1>5. LET s == WithRetry(r) IN
              s.state = "RETRYING" /\ s.lastGood = r.lastGood /\ s.hasId = r.hasId
  BY DEF WithRetry, ProblemType
<1>6. /\ SubmittingProblem.state = "SUBMITTING" /\ SubmittingProblem.lastGood = "SUBMITTING"
      /\ SubmittingProblem.hasId = FALSE
      /\ AddedProblem.state = "SUBMITTED" /\ AddedProblem.lastGood = "SUBMITTED"
      /\ AddedProblem.hasId = TRUE
  BY DEF SubmittingProblem, AddedProblem, NoProblem
<1> QED
  BY <1>3, <1>4, <1>5, <1>6

\* The changes a step can make to the record of p.
\* The ways a record changes: a call makes it, a callback or a retry moves it on.
Created(p) ==
  /\ prob[p].state = "NEW" /\ prob'[p] \in {SubmittingProblem, AddedProblem}
Advanced(p) ==
  /\ p \in live
  /\ \/ \E t \in Everyone :
          /\ p \in Elements(job[t].req.probs)
          /\ \/ pc[t] = "update" /\ Told(job[t].req.kind, prob[p], prob'[p])
             \/ pc[t] = "fail" /\ \E error \in Failures, retry \in BOOLEAN :
                                     prob'[p] = WithError(prob[p], error, retry)
     \/ Retryable(prob[p]) /\ prob'[p] = WithRetry(prob[p])
RecordStep(p) ==
  /\ \/ prob'[p] = prob[p]
     \/ \E b \in BOOLEAN : prob'[p] = [prob[p] EXCEPT !.cancelled = b]
     \/ Created(p)
     \/ Advanced(p)
  /\ p \in live' => p \in live \/ Created(p)

\* What a step may make of the record of a problem.
LEMMA NextChangesRecord ==
  ASSUME Base, [Next]_vars, NEW p \in Problems
  PROVE  RecordStep(p)
<1>0. prob \in [Problems -> ProblemType] /\ live \in SUBSET Problems
  BY SMTT(60) DEF Base, CarryInv, SharedData
<1>1. ASSUME NEW t \in Everyone, Step(t), ~StatusComplete(t), ~FailProblems(t), ~CheckCancelled(t)
      PROVE  prob' = prob /\ live' = live
  BY <1>1 DEF Step, Enter, TakeProblems, TakeCancels, TakeFetch, Issue, Sent, Unsent, StopRetrying,
       RetryFailedRequest, PushCancel, QueueActive, RetrySubmit, RetryCancel, FetchAnswer,
       DeliverAnswer, Push, AddSubmittedProblem, RequestComplete, userVars
<1>2. ASSUME NEW t \in Everyone, StatusComplete(t) PROVE RecordStep(p)
  <2>1. live' = live /\ pc[t] = "update"
    BY <1>2, StatusMoves
  <2>2. IF p \in Elements(job[t].req.probs) \cap live
        THEN Told(job[t].req.kind, prob[p], prob'[p]) ELSE prob'[p] = prob[p]
    BY <1>2, StatusMoves
  <2> QED
    BY <2>1, <2>2 DEF RecordStep, Advanced
<1>3. ASSUME NEW t \in Everyone, FailProblems(t) PROVE RecordStep(p)
  <2>1. live' = live /\ pc[t] = "fail"
    BY <1>3, FailMoves
  <2>2. \E retry \in BOOLEAN, error \in Failures :
          IF p \in Elements(job[t].req.probs) \cap live
          THEN prob'[p] = WithError(prob[p], error, retry) ELSE prob'[p] = prob[p]
    BY <1>3, FailMoves DEF Failures
  <2> QED
    BY <2>1, <2>2 DEF RecordStep, Advanced
<1>4. ASSUME NEW t \in Everyone, CheckCancelled(t) PROVE RecordStep(p)
  BY <1>4, CancelCheckMoves DEF RecordStep
<1>5. ASSUME NEW t \in Threads, NEW q \in Problems, Submit(t, q) \/ Add(t, q) PROVE RecordStep(p)
  <2>1. /\ prob[q].state = "NEW" /\ live' = live \cup {q}
        /\ \E r \in {SubmittingProblem, AddedProblem} : prob' = [prob EXCEPT ![q] = r]
    <3>1. CASE Submit(t, q)
      BY <3>1, SubmitMoves
    <3>2. CASE Add(t, q)
      BY <3>2, AddMoves
    <3> QED
      BY <1>5, <3>1, <3>2
  <2> QED
    BY <1>0, <2>1 DEF RecordStep, Created
<1>6. ASSUME NEW t \in Threads, NEW q \in Problems, Retry(t, q) PROVE RecordStep(p)
  <2>1. /\ live' = live /\ prob' = [prob EXCEPT ![q] = WithRetry(prob[q])]
        /\ q \in live /\ Retryable(prob[q])
    BY <1>6, RetryCallMoves
  <2> QED
    BY <1>0, <2>1 DEF RecordStep, Advanced
<1>7. ASSUME NEW t \in Threads, NEW q \in Problems, NEW f \in Fetches, Answer(t, q, f)
      PROVE  prob' = prob /\ live' = live
  BY <1>7 DEF Answer
<1>8. ASSUME (\E q \in Problems : Cancel(q) \/ Drop(q)) \/ AsioStep \/ UNCHANGED vars
      PROVE  RecordStep(p)
  BY <1>8, StillMoves DEF RecordStep
<1>9. ASSUME ServiceReply \/ RetryNotification \/ NotificationReturns
      PROVE  prob' = prob /\ live' = live
  BY <1>9 DEF ServiceReply, Reply, RetryNotification, NotificationReturns, userVars
<1>10. prob' = prob /\ live' = live => RecordStep(p)
  BY DEF RecordStep
<1> QED
  BY <1>1, <1>2, <1>3, <1>4, <1>5, <1>6, <1>7, <1>8, <1>9, <1>10 DEF Next, UserCall

\* A known problem was known before, and one that is held exists.
LEMMA KnownStep ==
  ASSUME Base, Base', [Next]_vars, NEW p \in Problems, p \in live => prob[p].state # "NEW"
  PROVE  /\ Known(p)' => Known(p)
         /\ p \in live' => prob'[p].state # "NEW"
<1>1. RecordStep(p) /\ prob[p] \in ProblemType
  BY NextChangesRecord DEF Base, CarryInv, SharedData
<1>0. PICK r \in ProblemType : r = prob[p]
  BY <1>1
<1>00. /\ \A b : [r EXCEPT !.cancelled = b].state = r.state
       /\ \A kind, after : Told(kind, r, after) => after.state # "NEW"
       /\ \A error \in Failures, retry \in BOOLEAN : WithError(r, error, retry).state # "NEW"
       /\ WithRetry(r).state # "NEW"
       /\ SubmittingProblem.state # "NEW" /\ AddedProblem.state # "NEW"
  <2>1. \A b : [r EXCEPT !.cancelled = b].state = r.state
    BY RecordFields
  <2>2. ASSUME NEW kind, NEW after, Told(kind, r, after) PROVE after.state # "NEW"
    BY <2>2, ToldFields
  <2>3. ASSUME NEW error \in Failures, NEW retry \in BOOLEAN
        PROVE  WithError(r, error, retry).state # "NEW"
    BY DEF WithError, Failures, ProblemType
  <2>4. /\ WithRetry(r).state # "NEW"
        /\ SubmittingProblem.state # "NEW" /\ AddedProblem.state # "NEW"
    BY RecordFields
  <2> QED
    BY <2>1, <2>2, <2>3, <2>4
<1>3. Created(p) => prob'[p].state # "NEW" /\ Known(p)
  BY <1>00 DEF Created, Known
<1>2. CASE prob'[p] = prob[p] \/ \E b \in BOOLEAN : prob'[p] = [prob[p] EXCEPT !.cancelled = b]
  <2>1. prob'[p].state = prob[p].state
    BY <1>0, <1>2, <1>00
  <2> QED
    BY <1>1, <1>3, <2>1 DEF RecordStep, Known
<1>4. CASE Advanced(p)
  <2>1. prob'[p].state # "NEW" /\ p \in live
    BY <1>0, <1>00, <1>4 DEF Advanced
  <2> QED
    BY <2>1 DEF Known
<1> QED
  BY <1>1, <1>2, <1>3, <1>4 DEF RecordStep

-----------------------------------------------------------------------------
(* Problems. *)
\* Where a problem is: the sum of its places is one while it is pending.
ProblemsOpen(p) == {c \in DOMAIN inflight : p \in Elements(inflight[c].probs)}
ProblemsSent(p) == {t \in Everyone : p \in Elements(out[t].probs)}
ProblemsHandled(p) == {t \in Everyone : p \in Elements(job[t].req.probs)}
In(s, p) == Bit(p \in Elements(s))
PlaceAt(p) ==
  /\ Carriers(p)
  /\ In(unsubmitted, p) + In(active, p) + Cardinality(ProblemsOpen(p))
       + Cardinality(ProblemsSent(p)) + Cardinality(ProblemsHandled(p)) = Bit(Pending(prob[p]))
\* The inductive invariant of the places.
Placed(p) == (p \in live => prob[p].state # "NEW") /\ (Known(p) => PlaceAt(p))

\* Places counts what PlaceAt adds up.
LEMMA PlaceAtIs ==
  ASSUME Base, NEW p \in Problems, PlaceAt(p)
  PROVE  Places(p) = Bit(Pending(prob[p]))
<1>1. Once(unsubmitted, p) /\ Once(active, p)
  BY DEF PlaceAt, Carriers
<1>2. CountIn(unsubmitted, p) = In(unsubmitted, p) /\ CountIn(active, p) = In(active, p)
  BY <1>1, CountOnce DEF Base, CarryInv, SharedData, In
<1> QED
  BY <1>2 DEF PlaceAt, Places, ProblemsOpen, ProblemsSent, ProblemsHandled

\* All that is counted is a number.
LEMMA PlaceNumbers ==
  ASSUME Base, NEW p
  PROVE  /\ \A s : In(s, p) \in {0, 1} /\ (In(s, p) = 1 <=> p \in Elements(s))
         /\ IsFiniteSet(ProblemsOpen(p)) /\ IsFiniteSet(ProblemsSent(p))
         /\ IsFiniteSet(ProblemsHandled(p))
         /\ Cardinality(ProblemsOpen(p)) \in Nat /\ Cardinality(ProblemsSent(p)) \in Nat
         /\ Cardinality(ProblemsHandled(p)) \in Nat
  BY CountedSets DEF In, Bit, ProblemsOpen, ProblemsSent, ProblemsHandled

\* Two threads are two.
LEMMA PairSize ==
  ASSUME NEW t, NEW u, t # u
  PROVE  Cardinality({t, u}) = 2
<1>1. IsFiniteSet({t}) /\ Cardinality({t}) = 1
  BY FS_Singleton
<1>2. {t} \cup {u} = {t, u} /\ u \notin {t}
  OBVIOUS
<1>3. Cardinality({t} \cup {u}) = Cardinality({t}) + 1
  BY <1>1, <1>2, FS_AddElement
<1> QED
  BY <1>1, <1>2, <1>3

\* A problem that is somewhere is pending and nowhere else.
LEMMA ProblemAlone ==
  ASSUME Base, NEW p \in Problems, PlaceAt(p)
  PROVE  /\ p \in Elements(unsubmitted) =>
              /\ Pending(prob[p]) /\ p \notin Elements(active)
              /\ \A c \in DOMAIN inflight : p \notin Elements(inflight[c].probs)
              /\ \A t \in Everyone :
                   p \notin Elements(out[t].probs) /\ p \notin Elements(job[t].req.probs)
         /\ p \in Elements(active) =>
              /\ Pending(prob[p])
              /\ \A c \in DOMAIN inflight : p \notin Elements(inflight[c].probs)
              /\ \A t \in Everyone :
                   p \notin Elements(out[t].probs) /\ p \notin Elements(job[t].req.probs)
         /\ \A t \in Everyone : p \in Elements(job[t].req.probs) =>
              /\ Pending(prob[p])
              /\ p \notin Elements(unsubmitted) /\ p \notin Elements(active)
              /\ \A c \in DOMAIN inflight : p \notin Elements(inflight[c].probs)
              /\ \A u \in Everyone : p \notin Elements(out[u].probs)
              /\ \A u \in Everyone \ {t} : p \notin Elements(job[u].req.probs)
         /\ ~Pending(prob[p]) =>
              /\ p \notin Elements(unsubmitted) /\ p \notin Elements(active)
              /\ \A c \in DOMAIN inflight : p \notin Elements(inflight[c].probs)
              /\ \A t \in Everyone :
                   p \notin Elements(out[t].probs) /\ p \notin Elements(job[t].req.probs)
<1> DEFINE x == In(unsubmitted, p)
           y == In(active, p)
           o == Cardinality(ProblemsOpen(p))
           s == Cardinality(ProblemsSent(p))
           h == Cardinality(ProblemsHandled(p))
           w == Bit(Pending(prob[p]))
<1>1. /\ x \in {0, 1} /\ y \in {0, 1} /\ o \in Nat /\ s \in Nat /\ h \in Nat
      /\ x = 1 <=> p \in Elements(unsubmitted)
      /\ y = 1 <=> p \in Elements(active)
  BY PlaceNumbers
<1>2. o = 0 <=> \A c \in DOMAIN inflight : p \notin Elements(inflight[c].probs)
  BY PlaceNumbers, CountedSets DEF ProblemsOpen
<1>3. s = 0 <=> \A t \in Everyone : p \notin Elements(out[t].probs)
  BY PlaceNumbers, CountedSets DEF ProblemsSent
<1>4. h = 0 <=> \A t \in Everyone : p \notin Elements(job[t].req.probs)
  BY PlaceNumbers, CountedSets DEF ProblemsHandled
<1>5. w \in {0, 1} /\ (w = 1 <=> Pending(prob[p])) /\ x + y + o + s + h = w
  BY DEF PlaceAt, Bit
<1>6. ASSUME NEW t \in Everyone, NEW u \in Everyone \ {t},
             p \in Elements(job[t].req.probs), p \in Elements(job[u].req.probs)
      PROVE  FALSE
  <2>1. IsFiniteSet(ProblemsHandled(p)) /\ {t, u} \subseteq ProblemsHandled(p)
    BY <1>6, PlaceNumbers DEF ProblemsHandled
  <2>2. Cardinality({t, u}) = 2
    <3>1. t # u
      OBVIOUS
    <3> QED
      BY <3>1, PairSize
  <2>3. 2 <= h
    BY <2>1, <2>2, FS_Subset
  <2> QED
    BY <1>1, <1>5, <2>3
<1> HIDE DEF x, y, o, s, h, w
<1>7. x = 1 => w = 1 /\ y = 0 /\ o = 0 /\ s = 0 /\ h = 0
  BY <1>1, <1>5
<1>8. y = 1 => w = 1 /\ x = 0 /\ o = 0 /\ s = 0 /\ h = 0
  BY <1>1, <1>5
<1>9. h # 0 => w = 1 /\ x = 0 /\ y = 0 /\ o = 0 /\ s = 0
  BY <1>1, <1>5
<1>10. w = 0 => x = 0 /\ y = 0 /\ o = 0 /\ s = 0 /\ h = 0
  BY <1>1, <1>5
<1>11. ASSUME p \in Elements(unsubmitted)
       PROVE  /\ Pending(prob[p]) /\ p \notin Elements(active)
              /\ \A c \in DOMAIN inflight : p \notin Elements(inflight[c].probs)
              /\ \A t \in Everyone :
                   p \notin Elements(out[t].probs) /\ p \notin Elements(job[t].req.probs)
  BY <1>1, <1>2, <1>3, <1>4, <1>5, <1>7, <1>11
<1>12. ASSUME p \in Elements(active)
       PROVE  /\ Pending(prob[p])
              /\ \A c \in DOMAIN inflight : p \notin Elements(inflight[c].probs)
              /\ \A t \in Everyone :
                   p \notin Elements(out[t].probs) /\ p \notin Elements(job[t].req.probs)
  BY <1>1, <1>2, <1>3, <1>4, <1>5, <1>8, <1>12
<1>13. ASSUME NEW t \in Everyone, p \in Elements(job[t].req.probs)
       PROVE  /\ Pending(prob[p])
              /\ p \notin Elements(unsubmitted) /\ p \notin Elements(active)
              /\ \A c \in DOMAIN inflight : p \notin Elements(inflight[c].probs)
              /\ \A u \in Everyone : p \notin Elements(out[u].probs)
              /\ \A u \in Everyone \ {t} : p \notin Elements(job[u].req.probs)
  <2>1. h # 0
    BY <1>4, <1>13
  <2>2. \A u \in Everyone \ {t} : p \notin Elements(job[u].req.probs)
    BY <1>6, <1>13
  <2> QED
    BY <1>1, <1>2, <1>3, <1>5, <1>9, <2>1, <2>2
<1>14. ASSUME ~Pending(prob[p])
       PROVE  /\ p \notin Elements(unsubmitted) /\ p \notin Elements(active)
              /\ \A c \in DOMAIN inflight : p \notin Elements(inflight[c].probs)
              /\ \A t \in Everyone :
                   p \notin Elements(out[t].probs) /\ p \notin Elements(job[t].req.probs)
  BY <1>1, <1>2, <1>3, <1>4, <1>5, <1>10, <1>14
<1> QED
  BY <1>11, <1>12, <1>13, <1>14

\* A step of thread t keeps the balance if it does so for what t and the lists have.
LEMMA MoveKeepsPlace ==
  ASSUME Base, NEW p \in Problems, PlaceAt(p),
         NEW t \in Everyone, NEW label, NEW j, NEW r, Moves(t, label, j, r),
         inflight' = inflight,
         Once(unsubmitted', p), Once(active', p), Once(r.probs, p), Once(j.req.probs, p),
         In(unsubmitted, p) + In(active, p) + In(out[t].probs, p) + In(job[t].req.probs, p)
             + Bit(Pending(prob'[p]))
           = In(unsubmitted', p) + In(active', p) + In(r.probs, p) + In(j.req.probs, p)
             + Bit(Pending(prob[p]))
  PROVE  PlaceAt(p)'
<1>0. /\ pc'[t] = label /\ job'[t] = j /\ out'[t] = r
      /\ \A u \in Everyone \ {t} : pc'[u] = pc[u] /\ job'[u] = job[u] /\ out'[u] = out[u]
  BY MovedValues DEF Base, WorkInv
<1>1. /\ ProblemsSent(p) \ {t} = ProblemsSent(p)' \ {t}
      /\ ProblemsHandled(p) \ {t} = ProblemsHandled(p)' \ {t}
      /\ ProblemsOpen(p)' = ProblemsOpen(p)
  BY <1>0 DEF ProblemsSent, ProblemsHandled, ProblemsOpen, Elements
<1>2. /\ t \in ProblemsSent(p) <=> p \in Elements(out[t].probs)
      /\ t \in ProblemsSent(p)' <=> p \in Elements(r.probs)
      /\ t \in ProblemsHandled(p) <=> p \in Elements(job[t].req.probs)
      /\ t \in ProblemsHandled(p)' <=> p \in Elements(j.req.probs)
  BY <1>0 DEF ProblemsSent, ProblemsHandled, Elements
<1>4. /\ Cardinality(ProblemsSent(p)') \in Nat
      /\ Cardinality(ProblemsSent(p)') + In(out[t].probs, p)
           = Cardinality(ProblemsSent(p)) + In(r.probs, p)
  BY <1>1, <1>2, PlaceNumbers, OneChanges DEF Bit, In
<1>5. /\ Cardinality(ProblemsHandled(p)') \in Nat
      /\ Cardinality(ProblemsHandled(p)') + In(job[t].req.probs, p)
           = Cardinality(ProblemsHandled(p)) + In(j.req.probs, p)
  BY <1>1, <1>2, PlaceNumbers, OneChanges DEF Bit, In
<1>6. /\ Cardinality(ProblemsOpen(p)) \in Nat /\ Cardinality(ProblemsSent(p)) \in Nat
      /\ Cardinality(ProblemsHandled(p)) \in Nat
  BY PlaceNumbers
<1>7. Carriers(p)'
  <2>1. \A u \in Everyone : Once(out'[u].probs, p) /\ Once(job'[u].req.probs, p)
    BY <1>0 DEF PlaceAt, Carriers
  <2> QED
    BY <2>1 DEF PlaceAt, Carriers, Once
<1>8. \A s : In(s, p) \in Nat
  BY PlaceNumbers
<1>9. PICK a1 \in Nat, a2 \in Nat, b1 \in Nat, b2 \in Nat, w1 \in Nat, w2 \in Nat,
           x1 \in Nat, x2 \in Nat, y1 \in Nat, y2 \in Nat :
        /\ a1 = In(out[t].probs, p) /\ a2 = In(r.probs, p)
        /\ b1 = In(job[t].req.probs, p) /\ b2 = In(j.req.probs, p)
        /\ w1 = Bit(Pending(prob[p])) /\ w2 = Bit(Pending(prob'[p]))
        /\ x1 = In(unsubmitted, p) /\ x2 = In(unsubmitted', p)
        /\ y1 = In(active, p) /\ y2 = In(active', p)
  <2>1. Bit(Pending(prob[p])) \in Nat /\ Bit(Pending(prob'[p])) \in Nat
    BY DEF Bit
  <2> QED
    BY <1>8, <2>1
<1>10. PICK o \in Nat, s1 \in Nat, s2 \in Nat, h1 \in Nat, h2 \in Nat :
        /\ o = Cardinality(ProblemsOpen(p))
        /\ s1 = Cardinality(ProblemsSent(p)) /\ s2 = Cardinality(ProblemsSent(p)')
        /\ h1 = Cardinality(ProblemsHandled(p)) /\ h2 = Cardinality(ProblemsHandled(p)')
  BY <1>4, <1>5, <1>6
<1>11. x1 + y1 + o + s1 + h1 = w1
  BY <1>9, <1>10 DEF PlaceAt
<1>12. x2 + y2 + o + s2 + h2 = w2
  BY <1>4, <1>5, <1>9, <1>10, <1>11, SMTT(60)
<1>13. In(unsubmitted, p)' = x2 /\ In(active, p)' = y2 /\ Bit(Pending(prob[p]))' = w2
  BY <1>9 DEF In, Elements
<1> QED
  BY <1>1, <1>7, <1>10, <1>12, <1>13 DEF PlaceAt

\* Lists put together and taken apart.
LEMMA JoinOnce ==
  ASSUME NEW a \in Seq(Problems), NEW b \in Seq(Problems), NEW p
  PROVE  /\ Once(a, p) /\ Once(b, p) /\ ~(p \in Elements(a) /\ p \in Elements(b)) <=> Once(a \o b, p)
         /\ Once(a \o b, p) => In(a \o b, p) = In(a, p) + In(b, p)
<1>1. /\ Elements(a \o b) = Elements(a) \cup Elements(b)
      /\ Once(a, p) /\ Once(b, p) /\ ~(p \in Elements(a) /\ p \in Elements(b)) <=> Once(a \o b, p)
  BY ConcatOnce
<1>2. (p \in Elements(a \o b)) = (p \in Elements(a) \/ p \in Elements(b))
  BY <1>1
<1> QED
  BY <1>1, <1>2 DEF In, Bit

\* So does a step that leaves lists, requests and pending problems alone.
LEMMA SamePlace ==
  ASSUME Base, NEW p \in Problems, PlaceAt(p),
         NEW t \in Everyone, NEW label, NEW j, NEW r, Moves(t, label, j, r),
         UNCHANGED <<unsubmitted, active, inflight>>,
         r.probs = out[t].probs, j.req.probs = job[t].req.probs,
         Pending(prob'[p]) <=> Pending(prob[p])
  PROVE  PlaceAt(p)'
<1>1. /\ Once(unsubmitted, p) /\ Once(active, p)
      /\ Once(out[t].probs, p) /\ Once(job[t].req.probs, p)
  BY DEF PlaceAt, Carriers
<1>2. Bit(Pending(prob'[p])) = Bit(Pending(prob[p]))
  BY DEF Bit
<1>3. Once(unsubmitted', p) /\ Once(active', p) /\ Once(r.probs, p) /\ Once(j.req.probs, p)
  BY <1>1
<1>4. In(unsubmitted, p) + In(active, p) + In(out[t].probs, p) + In(job[t].req.probs, p)
          + Bit(Pending(prob'[p]))
        = In(unsubmitted', p) + In(active', p) + In(r.probs, p) + In(j.req.probs, p)
          + Bit(Pending(prob[p]))
  BY <1>2
<1> QED
  BY <1>3, <1>4, MoveKeepsPlace

\* The problems a join a list at one of its ends.
Joined(a, list, new) == new = a \o list \/ new = list \o a

\* What the callback of thread t holds goes to the list named.
LEMMA ListKeepsPlace ==
  ASSUME Base, NEW p \in Problems, PlaceAt(p),
         NEW t \in Everyone, NEW label, NEW j, Moves(t, label, j, out[t]),
         inflight' = inflight, prob' = prob, j.req.probs = <<>>,
         \/ active' = active /\ Joined(job[t].req.probs, unsubmitted, unsubmitted')
         \/ unsubmitted' = unsubmitted /\ Joined(job[t].req.probs, active, active')
  PROVE  PlaceAt(p)'
<1>1. PICK a \in Seq(Problems), b \in Seq(Problems), c \in Seq(Problems) :
        a = job[t].req.probs /\ b = unsubmitted /\ c = active
  BY DEF Base, CarryInv, SharedData, Load, Carried
<1>2. Once(a, p) /\ Once(b, p) /\ Once(c, p) /\ Once(out[t].probs, p)
  BY <1>1 DEF PlaceAt, Carriers
<1>3. p \in Elements(a) => p \notin Elements(b) /\ p \notin Elements(c)
  BY <1>1, ProblemAlone
<1>4. /\ Once(a \o b, p) /\ In(a \o b, p) = In(a, p) + In(b, p)
      /\ Once(b \o a, p) /\ In(b \o a, p) = In(b, p) + In(a, p)
      /\ Once(a \o c, p) /\ In(a \o c, p) = In(a, p) + In(c, p)
      /\ Once(c \o a, p) /\ In(c \o a, p) = In(c, p) + In(a, p)
  BY <1>2, <1>3, JoinOnce
<1>5. Once(<<>>, p) /\ In(<<>>, p) = 0
  BY EmptyOnce DEF In, Bit
<1>6. \A s : In(s, p) \in Nat
  BY DEF In, Bit
<1>7. Bit(Pending(prob[p])) \in Nat
  BY DEF Bit
<1>8. Once(unsubmitted', p) /\ Once(active', p) /\ Once(j.req.probs, p)
  BY <1>1, <1>2, <1>4, <1>5 DEF Joined
<1>9. In(unsubmitted', p) + In(active', p) = In(unsubmitted, p) + In(active, p) + In(a, p)
  <2>0. PICK x \in Nat, y \in Nat, z \in Nat : x = In(a, p) /\ y = In(b, p) /\ z = In(c, p)
    BY <1>6
  <2>1. CASE active' = active /\ Joined(a, b, unsubmitted')
    <3>1. In(unsubmitted', p) = x + y /\ In(active', p) = z
      <4>1. In(a \o b, p) = x + y /\ In(b \o a, p) = x + y
        <5>1. In(a \o b, p) = x + y /\ In(b \o a, p) = y + x
          BY ONLY <1>4, <2>0
        <5>2. x + y = y + x
          BY ONLY x \in Nat, y \in Nat
        <5> QED
          BY ONLY <5>1, <5>2
      <4>2. In(unsubmitted', p) \in {In(a \o b, p), In(b \o a, p)} /\ In(active', p) = In(c, p)
        BY <1>1, <2>1 DEF Joined
      <4> QED
        BY <2>0, <4>1, <4>2
    <3> QED
      BY <1>1, <2>0, <3>1
  <2>2. CASE unsubmitted' = unsubmitted /\ Joined(a, c, active')
    <3>1. In(unsubmitted', p) = y /\ In(active', p) = z + x
      <4>1. In(a \o c, p) = z + x /\ In(c \o a, p) = z + x
        <5>1. In(a \o c, p) = x + z /\ In(c \o a, p) = z + x
          BY ONLY <1>4, <2>0
        <5>2. x + z = z + x
          BY ONLY x \in Nat, z \in Nat
        <5> QED
          BY ONLY <5>1, <5>2
      <4>2. In(active', p) \in {In(a \o c, p), In(c \o a, p)} /\ In(unsubmitted', p) = In(b, p)
        BY <1>1, <2>2 DEF Joined
      <4> QED
        BY <2>0, <4>1, <4>2
    <3> QED
      BY <1>1, <2>0, <3>1
  <2> QED
    BY <1>1, <2>1, <2>2
<1>11. PICK n1 \in Nat, n2 \in Nat, n3 \in Nat, n4 \in Nat, n5 \in Nat, n6 \in Nat, n7 \in Nat :
         /\ n1 = In(unsubmitted', p) /\ n2 = In(active', p) /\ n3 = In(unsubmitted, p)
         /\ n4 = In(active, p) /\ n5 = In(a, p) /\ n6 = In(out[t].probs, p)
         /\ n7 = Bit(Pending(prob[p]))
  BY <1>6, <1>7
<1>10. In(unsubmitted, p) + In(active, p) + In(out[t].probs, p) + In(job[t].req.probs, p)
          + Bit(Pending(prob'[p]))
        = In(unsubmitted', p) + In(active', p) + In(out[t].probs, p) + In(j.req.probs, p)
          + Bit(Pending(prob[p]))
  <2>1. /\ In(unsubmitted, p) = n3 /\ In(active, p) = n4 /\ In(out[t].probs, p) = n6
        /\ In(job[t].req.probs, p) = n5 /\ Bit(Pending(prob'[p])) = n7
        /\ In(unsubmitted', p) = n1 /\ In(active', p) = n2 /\ In(j.req.probs, p) = 0
        /\ Bit(Pending(prob[p])) = n7
    BY <1>1, <1>5, <1>11
  <2>2. n1 + n2 = n3 + n4 + n5
    BY ONLY <1>9, <1>11
  <2>3. n3 + n4 + n6 + n5 + n7 = n1 + n2 + n6 + 0 + n7
    BY <2>2
  <2> QED
    BY ONLY <2>1, <2>3
<1> QED
  BY <1>2, <1>8, <1>10, MoveKeepsPlace

\* The problems of a callback are told how it went.
LEMMA ToldKeepsPlace ==
  ASSUME Base, NEW p \in Problems, PlaceAt(p),
         NEW t \in Everyone, NEW label, NEW j, Moves(t, label, j, out[t]),
         UNCHANGED <<unsubmitted, active, inflight>>, Once(j.req.probs, p),
         IF p \in Elements(job[t].req.probs)
         THEN Pending(prob'[p]) <=> p \in Elements(j.req.probs)
         ELSE p \notin Elements(j.req.probs) /\ (Pending(prob'[p]) <=> Pending(prob[p]))
  PROVE  PlaceAt(p)'
<1>1. /\ Once(unsubmitted, p) /\ Once(active, p) /\ Once(out[t].probs, p)
  BY DEF PlaceAt, Carriers
<1>2. p \in Elements(job[t].req.probs) => Pending(prob[p])
  BY ProblemAlone
<1>3. In(job[t].req.probs, p) + Bit(Pending(prob'[p])) = In(j.req.probs, p) + Bit(Pending(prob[p]))
  <2>1. CASE p \in Elements(job[t].req.probs)
    <3>1. (p \in Elements(j.req.probs)) = Pending(prob'[p])
      BY <2>1 DEF Pending
    <3> QED
      BY <1>2, <2>1, <3>1 DEF In, Bit
  <2>2. CASE p \notin Elements(job[t].req.probs)
    <3>1. Bit(Pending(prob'[p])) = Bit(Pending(prob[p]))
      BY <2>2 DEF Bit
    <3>2. In(job[t].req.probs, p) = 0 /\ In(j.req.probs, p) = 0
      BY <2>2 DEF In, Bit
    <3> QED
      BY <3>1, <3>2
  <2> QED
    BY <2>1, <2>2
<1>4. \A s : In(s, p) \in Nat
  BY DEF In, Bit
<1>7. Bit(Pending(prob[p])) \in Nat /\ Bit(Pending(prob'[p])) \in Nat
  BY DEF Bit
<1>11. PICK n3 \in Nat, n4 \in Nat, n5 \in Nat, n6 \in Nat, n7 \in Nat, n8 \in Nat, n9 \in Nat :
         /\ n3 = In(unsubmitted, p) /\ n5 = In(job[t].req.probs, p)
         /\ n4 = In(active, p) /\ n6 = In(out[t].probs, p)
         /\ n7 = Bit(Pending(prob[p])) /\ n8 = Bit(Pending(prob'[p])) /\ n9 = In(j.req.probs, p)
  BY <1>4, <1>7
<1>10. In(unsubmitted, p) + In(active, p) + In(out[t].probs, p) + In(job[t].req.probs, p)
          + Bit(Pending(prob'[p]))
        = In(unsubmitted', p) + In(active', p) + In(out[t].probs, p) + In(j.req.probs, p)
          + Bit(Pending(prob[p]))
  BY <1>3, <1>11
<1> QED
  BY <1>1, <1>10, MoveKeepsPlace

\* Every step keeps every problem in one place.
LEMMA NextKeepsPlaces ==
  ASSUME Base, Base', [Next]_vars, NEW p \in Problems, Placed(p)
  PROVE  Placed(p)'
<1>a. (Known(p)' => Known(p)) /\ (p \in live' => prob'[p].state # "NEW")
  BY KnownStep DEF Placed
<1> SUFFICES ASSUME Known(p), PlaceAt(p) PROVE PlaceAt(p)'
  BY <1>a DEF Placed
<1>0. /\ SharedData /\ OpenRequests /\ prob[p] \in ProblemType
      /\ \A t \in Everyone :
           /\ pc[t] # "issue" => out[t].probs = <<>>
           /\ pc[t] \notin ProblemPcs \cup {"stop", "retry"} => job[t].req.probs = <<>>
           /\ job[t].req.probs \in Seq(Problems)
      /\ p \notin live => ~Pending(prob[p])
  BY DEF Base, CarryInv, SharedData, Load, Carried, Known, Pending
<1>00. Once(<<>>, p) /\ In(<<>>, p) = 0 /\ Elements(<<>>) = {} /\ <<>> \in Seq(Problems)
  BY EmptyOnce DEF In, Bit
<1>000. \A q : Blank(q) => q.probs = <<>>
  BY DEF Blank
<1>01. /\ Once(unsubmitted, p) /\ Once(active, p)
       /\ \A t \in Everyone : Once(out[t].probs, p) /\ Once(job[t].req.probs, p)
  BY DEF PlaceAt, Carriers
<1> USE DEF ProblemPcs
<1>1. ASSUME NEW t \in Everyone, Enter(t) \/ Sent(t) \/ Unsent(t) PROVE PlaceAt(p)'
  <2>1. PICK label, r :
          /\ label \in {"take", "complete", "return", "idle"}
          /\ Moves(t, label, job[t], r) /\ Blank(r)
    BY <1>1, LoopMoves
  <2>2. /\ UNCHANGED <<prob, unsubmitted, active, inflight>> /\ r.probs = out[t].probs
    BY <1>0, <1>000, <1>1, <2>1, LoopMoves DEF Quiet
  <2> QED
    BY <2>1, <2>2, SamePlace
<1>2. ASSUME NEW t \in Everyone, TakeProblems(t) PROVE PlaceAt(p)'
  <2>1. PICK r, a, b :
              /\ Moves(t, "issue", job[t], r)
              /\ r.kind = out[t].kind /\ r.probs = Alive(a) /\ r.ids = {} /\ r.fetch = NoFetch
              /\ r.more \in BOOLEAN
              /\ a \in Seq(Problems) /\ b \in Seq(Problems)
              /\ IF out[t].kind = "SUBMIT"
                 THEN unsubmitted = a \o b /\ unsubmitted' = b /\ active' = active
                 ELSE active = a \o b /\ active' = b /\ unsubmitted' = unsubmitted
    BY <1>2, TakeProblemsMoves
  <2>2. /\ UNCHANGED <<prob, inflight>> /\ out[t].probs = <<>>
    BY <1>2, TakeProblemsMoves DEF Blank
  <2>3. Once(a \o b, p)
    BY <1>01, <2>1
  <2>4. Once(a, p) /\ Once(b, p) /\ In(a \o b, p) = In(a, p) + In(b, p)
    BY <2>1, <2>3, JoinOnce
  <2>5. Elements(r.probs) = Elements(a) \cap live /\ Once(r.probs, p)
    BY <2>1, <2>4, KeptOnce DEF Alive
  <2>6. p \notin live => p \notin Elements(a)
    <3>1. Elements(a \o b) = Elements(a) \cup Elements(b)
      BY <2>1, ConcatOnce
    <3>2. ASSUME p \notin live PROVE p \notin Elements(a \o b)
      BY <1>0, <2>1, <3>2, ProblemAlone
    <3> QED
      BY <3>1, <3>2
  <2>7. In(r.probs, p) = In(a, p)
    <3>1. (p \in Elements(r.probs)) = (p \in Elements(a))
      BY <2>5, <2>6
    <3> QED
      BY <3>1 DEF In
  <2>8. Once(unsubmitted', p) /\ Once(active', p)
    BY <1>01, <2>1, <2>4
  <2>9. \A s : In(s, p) \in Nat
    BY DEF In, Bit
  <2>10. Bit(Pending(prob[p])) \in Nat
    BY DEF Bit
  <2>11. PICK x \in Nat, y \in Nat, z \in Nat, w \in Nat, u \in Nat, v \in Nat :
           /\ x = In(a, p) /\ y = In(b, p) /\ z = In(job[t].req.probs, p)
           /\ w = Bit(Pending(prob[p])) /\ u = In(unsubmitted, p) /\ v = In(active, p)
    BY <2>9, <2>10
  <2>12. In(unsubmitted, p) + In(active, p) = In(unsubmitted', p) + In(active', p) + In(r.probs, p)
    <3>1. CASE out[t].kind = "SUBMIT"
      <4>1. u = x + y /\ In(unsubmitted', p) = y /\ In(active', p) = v
        BY <2>1, <2>4, <2>11, <3>1
      <4> QED
        BY <2>7, <2>11, <4>1
    <3>2. CASE out[t].kind # "SUBMIT"
      <4>1. v = x + y /\ In(active', p) = y /\ In(unsubmitted', p) = u
        BY <2>1, <2>4, <2>11, <3>2
      <4> QED
        BY <2>7, <2>11, <4>1
    <3> QED
      BY <3>1, <3>2
  <2>13. In(unsubmitted, p) + In(active, p) + In(out[t].probs, p) + In(job[t].req.probs, p)
             + Bit(Pending(prob'[p]))
           = In(unsubmitted', p) + In(active', p) + In(r.probs, p) + In(job[t].req.probs, p)
             + Bit(Pending(prob[p]))
    <3>1. In(unsubmitted', p) \in Nat /\ In(active', p) \in Nat
      BY <2>9
    <3> QED
      BY <1>00, <2>2, <2>7, <2>11, <2>12, <3>1
  <2> QED
    BY <1>01, <2>1, <2>2, <2>5, <2>8, <2>13, MoveKeepsPlace
<1>3. ASSUME NEW t \in Everyone, TakeCancels(t) PROVE PlaceAt(p)'
  <2>1. PICK r : Moves(t, "issue", job[t], r) /\ r.probs = <<>>
    BY <1>3, TakeCancelsMoves
  <2>2. /\ UNCHANGED <<prob, unsubmitted, active, inflight>> /\ out[t].probs = <<>>
    BY <1>3, TakeCancelsMoves DEF Blank
  <2> QED
    BY <2>1, <2>2, SamePlace
<1>4. ASSUME NEW t \in Everyone, TakeFetch(t) PROVE PlaceAt(p)'
  <2>1. UNCHANGED <<prob, unsubmitted, active, inflight>> /\ out[t].probs = <<>>
    BY <1>4, TakeFetchMoves DEF Blank
  <2>2. PICK r : Moves(t, "issue", job[t], r) /\ r.probs = <<>>
    BY <1>4, <2>1, TakeFetchMoves
  <2> QED
    BY <2>1, <2>2, SamePlace
<1>5. ASSUME NEW t \in Everyone, Issue(t) PROVE PlaceAt(p)'
  <2>1. PICK label : Moves(t, label, job[t], NoRequest)
    BY <1>5, IssueMoves
  <2>2. UNCHANGED <<prob, unsubmitted, active>> /\ NoRequest.probs = <<>>
    BY <1>5, IssueMoves, BlankRequests DEF Blank
  <2>4. ASSUME NEW c, NEW q,
               c \notin DOMAIN inflight, DOMAIN inflight' = DOMAIN inflight \cup {c},
               \A d \in DOMAIN inflight : inflight'[d] = inflight[d],
               inflight'[c] = q, q.probs = out[t].probs
        PROVE  PlaceAt(p)'
    <3>0. /\ job'[t] = job[t] /\ out'[t] = NoRequest
          /\ \A u \in Everyone \ {t} : job'[u] = job[u] /\ out'[u] = out[u]
      BY <2>1, MovedValues DEF Base, WorkInv
    <3>1. /\ ProblemsSent(p) \ {t} = ProblemsSent(p)' \ {t}
          /\ ProblemsHandled(p)' = ProblemsHandled(p)
          /\ ProblemsOpen(p)' \ {c} = ProblemsOpen(p) \ {c}
      BY <2>4, <3>0 DEF ProblemsSent, ProblemsHandled, ProblemsOpen, Elements
    <3>b. (p \in Elements(out[t].probs)) \in BOOLEAN
      OBVIOUS
    <3>a. PICK b \in BOOLEAN : b = (p \in Elements(out[t].probs))
      BY <3>b, Zenon
    <3>2. /\ (t \in ProblemsSent(p)) = b
          /\ (t \in ProblemsSent(p)') = FALSE
          /\ (c \in ProblemsOpen(p)) = FALSE
          /\ (c \in ProblemsOpen(p)') = b
      <4>1. t \in ProblemsSent(p)' <=> p \in Elements(NoRequest.probs)
        BY <3>0 DEF ProblemsSent, Elements
      <4>2. c \in ProblemsOpen(p)' <=> p \in Elements(out[t].probs)
        BY <2>4 DEF ProblemsOpen, Elements
      <4>3. t \in ProblemsSent(p) <=> p \in Elements(out[t].probs)
        BY DEF ProblemsSent
      <4>4. c \notin ProblemsOpen(p)
        BY <2>4 DEF ProblemsOpen
      <4> QED
        BY <1>00, <2>2, <3>a, <4>1, <4>2, <4>3, <4>4
    <3>4. /\ Cardinality(ProblemsSent(p)) \in Nat /\ Cardinality(ProblemsSent(p)') \in Nat
          /\ Cardinality(ProblemsSent(p)') + Bit(b) = Cardinality(ProblemsSent(p))
      BY <3>1, <3>2, PlaceNumbers, OneChanges DEF Bit
    <3>5. /\ Cardinality(ProblemsOpen(p)) \in Nat /\ Cardinality(ProblemsOpen(p)') \in Nat
          /\ Cardinality(ProblemsOpen(p)') = Cardinality(ProblemsOpen(p)) + Bit(b)
      BY <3>1, <3>2, PlaceNumbers, OneChanges DEF Bit
    <3>6. /\ Bit(b) \in Nat /\ In(unsubmitted, p) \in Nat /\ In(active, p) \in Nat
          /\ Cardinality(ProblemsHandled(p)) \in Nat
      BY PlaceNumbers DEF Bit, In
    <3>7. In(unsubmitted, p)' = In(unsubmitted, p) /\ In(active, p)' = In(active, p)
          /\ Bit(Pending(prob[p]))' = Bit(Pending(prob[p]))
      BY <2>2 DEF In, Elements
    <3>8. Carriers(p)'
      <4>1. /\ \A u \in Everyone : Once(job'[u].req.probs, p) /\ Once(out'[u].probs, p)
        BY <1>00, <1>01, <2>2, <3>0
      <4>2. \A d \in DOMAIN inflight' : Once(inflight'[d].probs, p)
        BY <1>01, <2>4 DEF PlaceAt, Carriers
      <4>3. Once(unsubmitted', p) /\ Once(active', p)
        BY <1>01, <2>2
      <4> QED
        BY <4>1, <4>2, <4>3 DEF Carriers, Once
    <3> QED
      BY <3>1, <3>4, <3>5, <3>6, <3>7, <3>8 DEF PlaceAt
  <2>5. CASE inflight' # inflight
    <3>1. PICK c, q :
            /\ c \notin DOMAIN inflight /\ DOMAIN inflight' = DOMAIN inflight \cup {c}
            /\ \A d \in DOMAIN inflight : inflight'[d] = inflight[d]
            /\ inflight'[c] = q /\ q.probs = out[t].probs
      BY <1>5, <2>5, IssueMoves
    <3> QED
      BY <2>4, <3>1
  <2>6. CASE inflight' = inflight
    <3>1. out[t].probs = <<>>
      <4>1. ~ \E c : c \notin DOMAIN inflight /\ DOMAIN inflight' = DOMAIN inflight \cup {c}
        BY <2>6
      <4> QED
        BY <1>5, <4>1, IssueMoves
    <3> QED
      BY <2>1, <2>2, <2>6, <3>1, SamePlace
  <2> QED
    BY <2>5, <2>6
<1>6. ASSUME NEW t \in Everyone, StopRetrying(t) PROVE PlaceAt(p)'
  BY <1>6, StopMoves, SamePlace DEF Quiet
<1>7. ASSUME NEW t \in Everyone, RetryFailedRequest(t) PROVE PlaceAt(p)'
  <2>1. PICK label, j : Moves(t, label, j, out[t]) /\ j.req = job[t].req
    BY <1>7, RetryMoves
  <2> QED
    BY <1>7, <2>1, RetryMoves, SamePlace DEF Quiet
<1>8. ASSUME NEW t \in Everyone, StatusComplete(t) PROVE PlaceAt(p)'
  <2>1. PICK label, j, S :
              /\ Moves(t, label, j, out[t])
              /\ j.req.probs = Kept(job[t].req.probs, S)
              /\ S \subseteq Elements(job[t].req.probs) \cap live
              /\ IF p \in Elements(job[t].req.probs) \cap live
                   THEN /\ Told(job[t].req.kind, prob[p], prob'[p])
                        /\ p \in S <=> prob'[p].remote = "PENDING"
                   ELSE prob'[p] = prob[p]
    BY <1>8, StatusMoves
  <2>2. UNCHANGED <<unsubmitted, active, inflight>>
    BY <1>8, StatusMoves
  <2>3. /\ Elements(j.req.probs) = Elements(job[t].req.probs) \cap S
        /\ Once(j.req.probs, p)
    BY <1>0, <1>01, <2>1, KeptOnce
  <2>4. p \in Elements(job[t].req.probs) => p \in live
    BY <1>0, ProblemAlone
  <2>5. p \in Elements(job[t].req.probs) => (Pending(prob'[p]) <=> p \in Elements(j.req.probs))
    <3>1. ASSUME p \in Elements(job[t].req.probs)
          PROVE  Pending(prob'[p]) <=> p \in Elements(j.req.probs)
      <4>1. Told(job[t].req.kind, prob[p], prob'[p]) /\ (p \in S <=> prob'[p].remote = "PENDING")
        BY <2>1, <2>4, <3>1
      <4>2. /\ prob'[p].state \in {"SUBMITTED", "DONE"}
            /\ prob'[p].remote = "PENDING" <=> prob'[p].state = "SUBMITTED"
        BY <1>0, <4>1, ToldFields
      <4> QED
        BY <2>3, <3>1, <4>1, <4>2 DEF Pending
    <3> QED
      BY <3>1
  <2>6. p \notin Elements(job[t].req.probs) => p \notin Elements(j.req.probs) /\ prob'[p] = prob[p]
    BY <2>1, <2>3
  <2> QED
    BY <2>1, <2>2, <2>3, <2>5, <2>6, ToldKeepsPlace
<1>9. ASSUME NEW t \in Everyone, FailProblems(t) PROVE PlaceAt(p)'
  <2>1. PICK label, j, retry, error :
              /\ Moves(t, label, j, out[t]) /\ retry \in BOOLEAN /\ error \in {"OTHER", "NETWORK"}
              /\ j.req.probs = IF retry THEN job[t].req.probs ELSE <<>>
              /\ IF p \in Elements(job[t].req.probs) \cap live
                   THEN prob'[p] = WithError(prob[p], error, retry)
                   ELSE prob'[p] = prob[p]
    BY <1>9, FailMoves
  <2>2. UNCHANGED <<unsubmitted, active, inflight>>
    BY <1>9, FailMoves
  <2>3. Once(j.req.probs, p)
    BY <1>00, <1>01, <2>1
  <2>4. p \in Elements(job[t].req.probs) => p \in live
    BY <1>0, ProblemAlone
  <2>5. p \in Elements(job[t].req.probs) => (Pending(prob'[p]) <=> p \in Elements(j.req.probs))
    <3>1. ASSUME p \in Elements(job[t].req.probs)
          PROVE  Pending(prob'[p]) <=> p \in Elements(j.req.probs)
      <4>1. prob'[p] = WithError(prob[p], error, retry)
        BY <2>1, <2>4, <3>1
      <4>2. prob'[p].state = IF retry THEN "RETRYING" ELSE "FAILED"
        BY <1>0, <2>1, <4>1 DEF WithError, ProblemType
      <4>3. CASE retry
        BY <2>1, <3>1, <4>2, <4>3 DEF Pending
      <4>4. CASE ~retry
        BY <1>00, <2>1, <3>1, <4>2, <4>4 DEF Pending
      <4> QED
        BY <4>3, <4>4
    <3> QED
      BY <3>1
  <2>6. p \notin Elements(job[t].req.probs) => p \notin Elements(j.req.probs) /\ prob'[p] = prob[p]
    BY <1>00, <2>1
  <2> QED
    BY <2>1, <2>2, <2>3, <2>5, <2>6, ToldKeepsPlace
<1>10. ASSUME NEW t \in Everyone, CheckCancelled(t) PROVE PlaceAt(p)'
  <2>1. PICK label : Moves(t, label, job[t], out[t])
    BY <1>10, CancelCheckMoves
  <2>2. UNCHANGED <<unsubmitted, active, inflight>>
    BY <1>10, CancelCheckMoves
  <2>3. prob'[p] = prob[p] \/ prob'[p] = [prob[p] EXCEPT !.cancelled = FALSE]
    BY <1>10, CancelCheckMoves
  <2>4. prob'[p].state = prob[p].state
    BY <1>0, <2>3 DEF ProblemType
  <2> QED
    BY <2>1, <2>2, <2>4, SamePlace DEF Pending
<1>11. ASSUME NEW t \in Everyone, QueueActive(t) PROVE PlaceAt(p)'
  <2>1. NoJob.req.probs = <<>>
    BY BlankRequests DEF Blank
  <2> QED
    BY <1>11, <2>1, QueueActiveMoves, ListKeepsPlace DEF Joined
<1>12. ASSUME NEW t \in Everyone, RetrySubmit(t) PROVE PlaceAt(p)'
  <2>1. PICK j : Moves(t, "push", j, out[t]) /\ j.req.probs = <<>>
    BY <1>12, RetrySubmitMoves
  <2> QED
    BY <1>12, <2>1, RetrySubmitMoves, ListKeepsPlace DEF Joined
<1>25. ASSUME NEW t \in Everyone, AddSubmittedProblem(t) PROVE PlaceAt(p)'
  <2>1. PICK j : Moves(t, "push", j, out[t]) /\ j.req.probs = <<>>
    BY <1>25, AddSubmittedMoves
  <2>2. /\ UNCHANGED <<prob, inflight>>
        /\ \/ active' = active /\ unsubmitted' = unsubmitted \o job[t].req.probs
           \/ unsubmitted' = unsubmitted /\ active' = active \o job[t].req.probs
    BY <1>25, AddSubmittedMoves
  <2> QED
    BY <2>1, <2>2, ListKeepsPlace DEF Joined
<1>13. ASSUME NEW t \in Everyone, RetryCancel(t) PROVE PlaceAt(p)'
  <2>1. PICK label : Moves(t, label, job[t], out[t])
    BY <1>13, RetryCancelMoves
  <2>2. UNCHANGED <<prob, unsubmitted, active, inflight>>
    BY <1>13, RetryCancelMoves
  <2> QED
    BY <2>1, <2>2, SamePlace
<1>14. ASSUME NEW t \in Everyone, FetchAnswer(t) PROVE PlaceAt(p)'
  <2>1. PICK j : Moves(t, "push", j, out[t]) /\ j.req.probs = job[t].req.probs
    BY <1>14, FetchAnswerMoves
  <2>2. UNCHANGED <<prob, unsubmitted, active, inflight>>
    BY <1>14, FetchAnswerMoves
  <2> QED
    BY <2>1, <2>2, SamePlace
<1>15. ASSUME NEW t \in Everyone, DeliverAnswer(t) PROVE PlaceAt(p)'
  <2>1. PICK j : Moves(t, "complete", j, out[t]) /\ j.req.probs = job[t].req.probs
    BY <1>15, DeliverMoves
  <2>2. UNCHANGED <<prob, unsubmitted, active, inflight>>
    BY <1>15, DeliverMoves
  <2> QED
    BY <2>1, <2>2, SamePlace
<1>16. ASSUME NEW t \in Everyone, Push(t) \/ RequestComplete(t) PROVE PlaceAt(p)'
  <2>1. NoJob.req.probs = <<>>
    BY BlankRequests DEF Blank
  <2> QED
    BY <1>0, <1>16, <2>1, EndMoves, SamePlace DEF Quiet
<1>17. ASSUME NEW t \in Everyone, PushCancel(t) PROVE PlaceAt(p)'
  BY <1>17, PushCancelMoves, SamePlace DEF Quiet
<1>18. ASSUME NEW t \in Threads, NEW q \in Problems, Submit(t, q) \/ Add(t, q)
       PROVE PlaceAt(p)'
  <2>1. PICK j : Moves(t, "push", j, out[t]) /\ j.req.probs = <<>>
    <3>1. CASE Submit(t, q)
      <4>1. PICK j : /\ Moves(t, "push", j, out[t]) /\ Blank(j.req) /\ j.req.kind = "SUBMIT"
                     /\ j.outcome = "call"
        BY <3>1, SubmitMoves
      <4> QED
        BY <1>000, <4>1
    <3>2. CASE Add(t, q)
      <4>1. PICK j : /\ Moves(t, "push", j, out[t]) /\ Blank(j.req) /\ j.req.kind = "STATUS"
                     /\ j.outcome = "call"
        BY <3>2, AddMoves
      <4> QED
        BY <1>000, <4>1
    <3> QED
      BY <1>18, <3>1, <3>2
  <2>2. /\ inflight' = inflight /\ t \in Everyone /\ pc[t] = "idle" /\ prob[q].state = "NEW"
        /\ \E r \in {SubmittingProblem, AddedProblem} : prob' = [prob EXCEPT ![q] = r]
        /\ \/ active' = active /\ unsubmitted' = unsubmitted \o <<q>>
           \/ unsubmitted' = unsubmitted /\ active' = active \o <<q>>
    <3>1. CASE Submit(t, q)
      BY <3>1, SubmitMoves
    <3>2. CASE Add(t, q)
      BY <3>2, AddMoves
    <3> QED
      BY <1>18, <3>1, <3>2
  <2>3. /\ <<q>> \in Seq(Problems) /\ Elements(<<q>>) = {q} /\ Once(<<q>>, p)
    BY SingleOnce
  <2>4. ~Pending(prob[q])
    BY <2>2 DEF Pending
  <2>5. IF p = q THEN Pending(prob'[p]) ELSE prob'[p] = prob[p]
    <3>1. Pending(SubmittingProblem) /\ Pending(AddedProblem)
      BY DEF SubmittingProblem, AddedProblem, NoProblem, Pending
    <3>2. \A r : prob' = [prob EXCEPT ![q] = r] => prob'[p] = IF p = q THEN r ELSE prob[p]
      BY <1>0 DEF SharedData
    <3> QED
      BY <2>2, <3>1, <3>2
  <2>6. p = q => p \notin Elements(unsubmitted) /\ p \notin Elements(active)
    BY <2>4, ProblemAlone
  <2>7. /\ Bit(Pending(prob'[p])) = Bit(Pending(prob[p])) + In(<<q>>, p)
    <3>1. CASE p = q
      BY <2>3, <2>4, <2>5, <3>1 DEF In, Bit
    <3>2. CASE p # q
      <4>1. In(<<q>>, p) = 0 /\ Bit(Pending(prob'[p])) = Bit(Pending(prob[p]))
        BY <2>3, <2>5, <3>2 DEF In, Bit
      <4>2. Bit(Pending(prob[p])) \in Nat
        BY DEF Bit
      <4> QED
        BY <4>1, <4>2
    <3> QED
      BY <3>1, <3>2
  <2>8. PICK a \in Seq(Problems), b \in Seq(Problems), c \in Seq(Problems) :
          a = unsubmitted /\ b = active /\ c = <<q>>
    BY <1>0, <2>3 DEF SharedData
  <2>9. /\ Once(a \o c, p) /\ In(a \o c, p) = In(a, p) + In(c, p)
        /\ Once(b \o c, p) /\ In(b \o c, p) = In(b, p) + In(c, p)
    <3>1. /\ Once(a, p) /\ Once(b, p) /\ Once(c, p)
          /\ p \in Elements(c) => p \notin Elements(a) /\ p \notin Elements(b)
      BY <1>01, <2>3, <2>6, <2>8
    <3> QED
      BY <3>1, JoinOnce
  <2>10. Once(unsubmitted', p) /\ Once(active', p)
    BY <1>01, <2>2, <2>8, <2>9
  <2>11. PICK x \in Nat, y \in Nat, z \in Nat, u \in Nat, w \in Nat :
           /\ x = In(a, p) /\ y = In(b, p) /\ z = In(c, p)
           /\ u = In(out[t].probs, p) /\ w = Bit(Pending(prob[p]))
    <3>1. \A s : In(s, p) \in Nat
      BY DEF In, Bit
    <3>2. Bit(Pending(prob[p])) \in Nat
      BY DEF Bit
    <3> QED
      BY <3>1, <3>2
  <2>12. In(unsubmitted', p) + In(active', p) = x + y + z
    <3>1. CASE active' = b /\ unsubmitted' = a \o c
      <4>1. In(unsubmitted', p) = x + z /\ In(active', p) = y
        BY <2>9, <2>11, <3>1
      <4> QED
        BY <2>11, <4>1
    <3>2. CASE unsubmitted' = a /\ active' = b \o c
      <4>1. In(unsubmitted', p) = x /\ In(active', p) = y + z
        BY <2>9, <2>11, <3>2
      <4> QED
        BY <2>11, <4>1
    <3> QED
      BY <2>2, <2>8, <3>1, <3>2
  <2>13. In(unsubmitted, p) + In(active, p) + In(out[t].probs, p) + In(job[t].req.probs, p)
             + Bit(Pending(prob'[p]))
           = In(unsubmitted', p) + In(active', p) + In(out[t].probs, p) + In(j.req.probs, p)
             + Bit(Pending(prob[p]))
    <3>1. /\ In(job[t].req.probs, p) = 0 /\ In(j.req.probs, p) = 0
          /\ Bit(Pending(prob'[p])) = w + z /\ Bit(Pending(prob[p])) = w
      BY <1>0, <1>00, <2>1, <2>2, <2>7, <2>8, <2>11
    <3>2. In(unsubmitted, p) = x /\ In(active, p) = y
      BY <2>8, <2>11
    <3>3. PICK m \in Nat, n \in Nat : m = In(unsubmitted', p) /\ n = In(active', p)
      BY DEF In, Bit
    <3>4. m + n = x + y + z
      BY <2>12, <3>3
    <3>5. In(unsubmitted, p) + In(active, p) + In(out[t].probs, p) + In(job[t].req.probs, p)
             + Bit(Pending(prob'[p])) = x + y + u + w + z
      <4>1. /\ In(unsubmitted, p) = x /\ In(active, p) = y /\ In(out[t].probs, p) = u
            /\ In(job[t].req.probs, p) = 0 /\ Bit(Pending(prob'[p])) = w + z
        BY <2>11, <3>1, <3>2
      <4>2. x + y + u + 0 + (w + z) = x + y + u + w + z
        OBVIOUS
      <4> QED
        BY ONLY <4>1, <4>2
    <3>6. In(unsubmitted', p) + In(active', p) + In(out[t].probs, p) + In(j.req.probs, p)
             + Bit(Pending(prob[p])) = m + n + u + w
      <4>1. /\ In(unsubmitted', p) = m /\ In(active', p) = n /\ In(out[t].probs, p) = u
            /\ In(j.req.probs, p) = 0 /\ Bit(Pending(prob[p])) = w
        BY <2>11, <3>1, <3>3
      <4>2. m + n + u + 0 + w = m + n + u + w
        OBVIOUS
      <4> QED
        BY ONLY <4>1, <4>2
    <3>7. x + y + u + w + z = m + n + u + w
      <4>1. \A x1, y1, z1, u1, w1, m1, n1 \in Nat :
              m1 + n1 = x1 + y1 + z1 => x1 + y1 + u1 + w1 + z1 = m1 + n1 + u1 + w1
        OBVIOUS
      <4> QED
        BY <3>4, <4>1
    <3> QED
      BY <3>5, <3>6, <3>7
  <2> QED
    BY <1>00, <1>01, <2>1, <2>2, <2>10, <2>13, MoveKeepsPlace
<1>20. ASSUME NEW t \in Threads, NEW q \in Problems, Retry(t, q) PROVE PlaceAt(p)'
  <2>1. PICK j : /\ Moves(t, "readd", j, out[t]) /\ j.outcome = "call"
                 /\ j.req.probs = <<q>> /\ j.req.ids = {} /\ j.req.fetch = NoFetch
                 /\ j.req.more \in BOOLEAN
    BY <1>20, RetryCallMoves
  <2>2. /\ UNCHANGED <<unsubmitted, active, inflight>> /\ t \in Everyone /\ pc[t] = "idle"
        /\ Retryable(prob[q]) /\ prob' = [prob EXCEPT ![q] = WithRetry(prob[q])]
    BY <1>20, RetryCallMoves
  <2>3. /\ <<q>> \in Seq(Problems) /\ Elements(<<q>>) = {q} /\ Once(<<q>>, p)
    BY SingleOnce
  <2>5. IF p = q THEN ~Pending(prob[p]) /\ Pending(prob'[p]) ELSE prob'[p] = prob[p]
    BY <1>0, <2>2 DEF SharedData, Retryable, WithRetry, Pending, ProblemType
  <2>6. /\ Bit(Pending(prob'[p])) = Bit(Pending(prob[p])) + In(<<q>>, p)
    <3>1. CASE p = q
      BY <2>3, <2>5, <3>1 DEF In, Bit
    <3>2. CASE p # q
      <4>1. In(<<q>>, p) = 0 /\ Bit(Pending(prob'[p])) = Bit(Pending(prob[p]))
        BY <2>3, <2>5, <3>2 DEF In, Bit
      <4>2. Bit(Pending(prob[p])) \in Nat
        BY DEF Bit
      <4> QED
        BY <4>1, <4>2
    <3> QED
      BY <3>1, <3>2
  <2>11. PICK x \in Nat, y \in Nat, z \in Nat, u \in Nat, w \in Nat :
           /\ x = In(unsubmitted, p) /\ y = In(active, p) /\ z = In(<<q>>, p)
           /\ u = In(out[t].probs, p) /\ w = Bit(Pending(prob[p]))
    <3>1. \A s : In(s, p) \in Nat
      BY DEF In, Bit
    <3>2. Bit(Pending(prob[p])) \in Nat
      BY DEF Bit
    <3> QED
      BY <3>1, <3>2
  <2>12. In(job[t].req.probs, p) = 0 /\ In(j.req.probs, p) = z
    BY <1>0, <1>00, <2>1, <2>2, <2>11
  <2>13. In(unsubmitted, p) + In(active, p) + In(out[t].probs, p) + In(job[t].req.probs, p)
             + Bit(Pending(prob'[p]))
           = In(unsubmitted', p) + In(active', p) + In(out[t].probs, p) + In(j.req.probs, p)
             + Bit(Pending(prob[p]))
    BY <2>2, <2>6, <2>11, <2>12
  <2> QED
    BY <1>01, <2>1, <2>2, <2>3, <2>13, MoveKeepsPlace
<1>21. ASSUME NEW t \in Threads, NEW q \in Problems, NEW g \in Fetches, Answer(t, q, g)
       PROVE  PlaceAt(p)'
  <2>0. AnswerMade(t, g)
    BY <1>21, AnswerMoves
  <2>1. UNCHANGED <<prob, unsubmitted, active, inflight>> /\ t \in Everyone /\ pc[t] = "idle"
    BY <2>0 DEF AnswerMade
  <2>2. CASE UNCHANGED <<pc, job, out>>
    BY <2>1, <2>2 DEF PlaceAt, ProblemsSent, ProblemsHandled, ProblemsOpen, Carriers, In, Elements, Once
  <2>3. ASSUME NEW j, Moves(t, "refetch", j, out[t]), j.req.probs = <<>>
        PROVE  PlaceAt(p)'
    BY <1>0, <2>1, <2>3, SamePlace
  <2> QED
    BY <2>0, <2>2, <2>3 DEF AnswerMade
<1>22. ASSUME NEW t \in Threads, NEW c \in Conns, NEW outcome \in {"ok", "network", "other"},
              Reply(t, c, outcome)
       PROVE  PlaceAt(p)'
  <2>a. ReplyTaken(t, c, outcome)
    BY <1>22, ReplyMoves
  <2>0. /\ UNCHANGED <<prob, unsubmitted, active>>
        /\ t \in Everyone /\ pc[t] = "idle"
        /\ c \in DOMAIN inflight /\ DOMAIN inflight' = DOMAIN inflight \ {c}
        /\ \A d \in DOMAIN inflight' : inflight'[d] = inflight[d]
    BY <2>a DEF ReplyTaken
  <2>1. PICK label, j : Moves(t, label, j, out[t]) /\ j.req = inflight[c]
    BY <2>a DEF ReplyTaken
  <2>2. /\ job'[t] = j /\ out'[t] = out[t]
        /\ \A u \in Everyone \ {t} : job'[u] = job[u] /\ out'[u] = out[u]
    BY <2>0, <2>1, MovedValues DEF Base, WorkInv
  <2>3. job[t].req.probs = <<>>
    BY <1>0, <2>0
  <2>4. /\ ProblemsHandled(p) \ {t} = ProblemsHandled(p)' \ {t}
        /\ ProblemsSent(p)' = ProblemsSent(p)
        /\ ProblemsOpen(p)' \ {c} = ProblemsOpen(p) \ {c}
    BY <2>0, <2>2 DEF ProblemsSent, ProblemsHandled, ProblemsOpen, Elements
  <2>b. (p \in Elements(inflight[c].probs)) \in BOOLEAN
    OBVIOUS
  <2>5. PICK b \in BOOLEAN : b = (p \in Elements(inflight[c].probs))
    BY <2>b, Zenon
  <2>6. /\ (t \in ProblemsHandled(p)') = b /\ (t \in ProblemsHandled(p)) = FALSE
        /\ (c \in ProblemsOpen(p)) = b /\ (c \in ProblemsOpen(p)') = FALSE
    <3>1. t \in ProblemsHandled(p)' <=> p \in Elements(inflight[c].probs)
      BY <2>0, <2>1, <2>2 DEF ProblemsHandled, Elements
    <3>2. t \notin ProblemsHandled(p)
      BY <1>00, <2>3 DEF ProblemsHandled
    <3>3. c \in ProblemsOpen(p) <=> p \in Elements(inflight[c].probs)
      BY <2>0 DEF ProblemsOpen
    <3>4. c \notin ProblemsOpen(p)'
      BY <2>0 DEF ProblemsOpen
    <3> QED
      BY <2>5, <3>1, <3>2, <3>3, <3>4
  <2>8. /\ Cardinality(ProblemsHandled(p)) \in Nat /\ Cardinality(ProblemsHandled(p)') \in Nat
        /\ Cardinality(ProblemsHandled(p)') = Cardinality(ProblemsHandled(p)) + Bit(b)
    BY <2>4, <2>6, PlaceNumbers, OneChanges DEF Bit
  <2>9. /\ Cardinality(ProblemsOpen(p)) \in Nat /\ Cardinality(ProblemsOpen(p)') \in Nat
        /\ Cardinality(ProblemsOpen(p)') + Bit(b) = Cardinality(ProblemsOpen(p))
    BY <2>4, <2>6, PlaceNumbers, OneChanges DEF Bit
  <2>10. /\ Bit(b) \in Nat /\ In(unsubmitted, p) \in Nat /\ In(active, p) \in Nat
         /\ Cardinality(ProblemsSent(p)) \in Nat
    BY PlaceNumbers DEF Bit, In
  <2>11. In(unsubmitted, p)' = In(unsubmitted, p) /\ In(active, p)' = In(active, p)
         /\ Bit(Pending(prob[p]))' = Bit(Pending(prob[p]))
    BY <2>0 DEF In, Elements
  <2>12. Carriers(p)'
    <3>1. /\ \A u \in Everyone : Once(job'[u].req.probs, p) /\ Once(out'[u].probs, p)
      BY <1>01, <2>0, <2>1, <2>2 DEF PlaceAt, Carriers
    <3>2. \A d \in DOMAIN inflight' : Once(inflight'[d].probs, p)
      BY <2>0 DEF PlaceAt, Carriers
    <3>3. Once(unsubmitted', p) /\ Once(active', p)
      BY <1>01, <2>0
    <3> QED
      BY <3>1, <3>2, <3>3 DEF Carriers, Once
  <2> QED
    BY <2>4, <2>8, <2>9, <2>10, <2>11, <2>12 DEF PlaceAt
<1>23. ASSUME RetryNotification \/ NotificationReturns PROVE PlaceAt(p)'
  <2>1. PICK label : Moves(Io, label, job[Io], out[Io])
    BY <1>23, IoMoves
  <2> QED
    BY <1>23, <2>1, IoMoves, SamePlace DEF Quiet
<1>24. ASSUME (\E q \in Problems : Cancel(q) \/ Drop(q)) \/ AsioStep \/ UNCHANGED vars
       PROVE  PlaceAt(p)'
  <2>1. UNCHANGED <<pc, job, out, inflight, unsubmitted, active>>
    BY <1>24, StillMoves
  <2>3. prob'[p] = prob[p] \/ prob'[p] = [prob[p] EXCEPT !.cancelled = TRUE]
    BY <1>24, StillMoves
  <2>4. Pending(prob'[p]) <=> Pending(prob[p])
    BY <1>0, <2>3 DEF ProblemType, Pending
  <2> QED
    BY <2>1, <2>4 DEF PlaceAt, ProblemsSent, ProblemsHandled, ProblemsOpen, Carriers, In, Bit, Elements, Once
<1> QED
  BY <1>1, <1>2, <1>3, <1>4, <1>5, <1>6, <1>7, <1>8, <1>9, <1>10, <1>11, <1>12, <1>13, <1>14,
     <1>15, <1>16, <1>17, <1>18, <1>20, <1>21, <1>22, <1>23, <1>24, <1>25
     DEF Next, Step, UserCall, ServiceReply

\* All problems are in their places, in every reachable state.
PlacesRight == \A p \in Problems : Placed(p)
\* So every problem is in its place.
LEMMA PlacesRightHolds == Spec => []PlacesRight
<1>1. Init => PlacesRight
  <2> SUFFICES ASSUME Init, NEW p \in Problems PROVE Placed(p)
    BY DEF PlacesRight
  <2>1. NoRequest.probs = <<>> /\ NoJob.req.probs = <<>>
    BY BlankRequests DEF Blank
  <2>2. Elements(<<>>) = {} /\ Once(<<>>, p) /\ In(<<>>, p) = 0
    BY EmptyOnce DEF In, Bit
  <2>3. ProblemsSent(p) = {} /\ ProblemsHandled(p) = {} /\ ProblemsOpen(p) = {}
    BY <2>1, <2>2 DEF Init, ProblemsSent, ProblemsHandled, ProblemsOpen
  <2>4. unsubmitted = <<>> /\ active = <<>> /\ ~Pending(prob[p]) /\ live = {}
    BY DEF Init, NoProblem, Pending
  <2>5. Carriers(p)
    BY <2>1, <2>2, <2>4 DEF Init, Carriers
  <2> QED
    BY <2>2, <2>3, <2>4, <2>5, FS_EmptySet DEF Placed, PlaceAt, Bit
<1>2. Base /\ Base' /\ [Next]_vars /\ PlacesRight => PlacesRight'
  <2> SUFFICES ASSUME Base, Base', [Next]_vars, PlacesRight PROVE PlacesRight'
    OBVIOUS
  <2>1. \A p \in Problems : Placed(p)'
    BY NextKeepsPlaces DEF PlacesRight
  <2> QED
    BY <2>1 DEF PlacesRight
<1> QED
  BY <1>1, <1>2, BaseHolds, PTL DEF Spec

\* A problem somebody holds is on its way in exactly one place as long as it is
\* pending and nowhere once it is over: no interleaving of calls, replies and
\* retries loses a problem, submits it or polls it twice.
THEOREM PlacesSafe == Spec => []ProblemInOnePlace
<1>1. Base /\ PlacesRight => ProblemInOnePlace
  <2> SUFFICES ASSUME Base, PlacesRight, NEW p \in live
      PROVE  Places(p) = IF Pending(prob[p]) THEN 1 ELSE 0
    BY DEF ProblemInOnePlace
  <2>1. p \in Problems
    BY DEF Base, CarryInv, SharedData
  <2>2. PlaceAt(p)
    BY <2>1 DEF PlacesRight, Placed, Known
  <2> QED
    BY <2>1, <2>2, PlaceAtIs DEF Bit
<1> QED
  BY <1>1, BaseHolds, PlacesRightHolds, PTL

-----------------------------------------------------------------------------
(* The record of a problem fits the requests that carry it. *)
\* The kind of request a job's problems are for: those being returned have been accepted.
KindAt(label, j) ==
  IF label \in {"cancelcheck", "pushcancel", "requeue"} THEN "STATUS" ELSE j.req.kind
\* Whoever has the problem asks what its record is ready for.
Wanted(p) ==
  /\ p \in Elements(unsubmitted) => Asked("SUBMIT", prob[p])
  /\ p \in Elements(active) => Asked("STATUS", prob[p])
  /\ \A c \in DOMAIN inflight :
       p \in Elements(inflight[c].probs) => Asked(inflight[c].kind, prob[p])
  /\ \A t \in Everyone :
       /\ p \in Elements(out[t].probs) => Asked(out[t].kind, prob[p])
       /\ p \in Elements(job[t].req.probs) => Asked(KindAt(pc[t], job[t]), prob[p])
\* Nobody cancels the problem on the server.
NoIds(p) ==
  /\ p \notin cancelIds
  /\ \A c \in DOMAIN inflight : p \notin inflight[c].ids
  /\ \A t \in Everyone : p \notin out[t].ids /\ p \notin job[t].req.ids
\* The inductive invariant of the records.
Recorded(p) ==
  /\ RecordFits(prob[p])
  /\ ~prob[p].hasId => NoIds(p)
  /\ p \in live => Wanted(p)

\* The fields the invariant is about are as they were.
SameFields(p) ==
  /\ prob'[p].state = prob[p].state /\ prob'[p].lastGood = prob[p].lastGood
  /\ prob'[p].hasId = prob[p].hasId
\* Somebody other than t has the problem in a request.
Elsewhere(t, p) ==
  \/ \E c \in DOMAIN inflight : p \in Elements(inflight[c].probs)
  \/ \E u \in Everyone \ {t} : p \in Elements(out[u].probs) \/ p \in Elements(job[u].req.probs)

\* A step of thread t that makes and receives no request.
LEMMA MoveKeepsRecord ==
  ASSUME Base, NEW p \in Problems, Recorded(p),
         NEW t \in Everyone, NEW label, NEW j, NEW r, Moves(t, label, j, r),
         inflight' = inflight, RecordFits(prob'[p]),
         ~prob'[p].hasId =>
           ~prob[p].hasId /\ p \notin cancelIds' /\ p \notin r.ids /\ p \notin j.req.ids,
         p \in live' =>
           /\ p \in Elements(unsubmitted') => Asked("SUBMIT", prob'[p])
           /\ p \in Elements(active') => Asked("STATUS", prob'[p])
           /\ p \in Elements(r.probs) => Asked(r.kind, prob'[p])
           /\ p \in Elements(j.req.probs) => Asked(KindAt(label, j), prob'[p])
           /\ Elsewhere(t, p) => p \in live /\ SameFields(p)
  PROVE  Recorded(p)'
<1>0. /\ pc'[t] = label /\ job'[t] = j /\ out'[t] = r
      /\ \A u \in Everyone \ {t} : pc'[u] = pc[u] /\ job'[u] = job[u] /\ out'[u] = out[u]
  BY MovedValues DEF Base, WorkInv
<1>1. ~prob'[p].hasId => NoIds(p)'
  BY <1>0 DEF Recorded, NoIds
<1>2. ASSUME p \in live' PROVE Wanted(p)'
  <2>1. ASSUME NEW c \in DOMAIN inflight, p \in Elements(inflight[c].probs)
        PROVE  Asked(inflight[c].kind, prob'[p])
    <3>1. p \in live /\ SameFields(p)
      BY <1>2, <2>1 DEF Elsewhere
    <3> QED
      BY <2>1, <3>1 DEF Recorded, Wanted, Asked, SameFields
  <2>2. ASSUME NEW u \in Everyone
        PROVE  /\ p \in Elements(out'[u].probs) => Asked(out'[u].kind, prob'[p])
               /\ p \in Elements(job'[u].req.probs) => Asked(KindAt(pc'[u], job'[u]), prob'[p])
    <3>1. CASE u = t
      BY <1>0, <1>2, <3>1
    <3>2. CASE u # t
      <4>1. pc'[u] = pc[u] /\ job'[u] = job[u] /\ out'[u] = out[u]
        BY <1>0, <3>2
      <4>2. ASSUME p \in Elements(out[u].probs) \/ p \in Elements(job[u].req.probs)
            PROVE  p \in live /\ SameFields(p)
        BY <1>2, <3>2, <4>2 DEF Elsewhere
      <4>3. ASSUME p \in Elements(out[u].probs) PROVE Asked(out[u].kind, prob'[p])
        BY <4>2, <4>3 DEF Recorded, Wanted, Asked, SameFields
      <4>4. ASSUME p \in Elements(job[u].req.probs)
            PROVE  Asked(KindAt(pc[u], job[u]), prob'[p])
        BY <4>2, <4>4 DEF Recorded, Wanted, Asked, SameFields
      <4> QED
        BY <4>1, <4>3, <4>4
    <3> QED
      BY <3>1, <3>2
  <2>3. /\ p \in Elements(unsubmitted)' => Asked("SUBMIT", prob[p])'
        /\ p \in Elements(active)' => Asked("STATUS", prob[p])'
    BY <1>2 DEF Elements, Asked
  <2>4. \A c \in DOMAIN inflight' :
          p \in Elements(inflight'[c].probs) => Asked(inflight'[c].kind, prob'[p])
    BY <2>1
  <2> QED
    BY <2>2, <2>3, <2>4 DEF Wanted, Elements, Asked, KindAt
<1> QED
  BY <1>1, <1>2 DEF Recorded, RecordFits

\* Among them one that changes neither lists nor records.
LEMMA SameRecord ==
  ASSUME Base, NEW p \in Problems, Recorded(p),
         NEW t \in Everyone, NEW label, NEW j, NEW r, Moves(t, label, j, r),
         UNCHANGED <<inflight, unsubmitted, active, cancelIds, prob, live>>,
         r.probs \in {out[t].probs, <<>>}, r.kind = out[t].kind \/ r.probs = <<>>,
         r.ids \in {out[t].ids, {}},
         j.req.ids \in {job[t].req.ids, {}},
         \/ j.req.probs = <<>>
         \/ j.req.probs = job[t].req.probs /\ KindAt(label, j) = KindAt(pc[t], job[t])
  PROVE  Recorded(p)'
<1>0. Elements(<<>>) = {}
  BY EmptyOnce
<1>1. RecordFits(prob'[p]) /\ SameFields(p)
  BY DEF Recorded, SameFields
<1>2. ~prob'[p].hasId =>
           ~prob[p].hasId /\ p \notin cancelIds' /\ p \notin r.ids /\ p \notin j.req.ids
  BY DEF Recorded, NoIds
<1>3. ASSUME p \in live'
      PROVE  /\ p \in Elements(unsubmitted') => Asked("SUBMIT", prob'[p])
             /\ p \in Elements(active') => Asked("STATUS", prob'[p])
             /\ p \in Elements(r.probs) => Asked(r.kind, prob'[p])
             /\ p \in Elements(j.req.probs) => Asked(KindAt(label, j), prob'[p])
             /\ p \in live
  BY <1>0, <1>3 DEF Recorded, Wanted
<1> QED
  BY <1>1, <1>2, <1>3, MoveKeepsRecord

\* What a pending problem's record is like.
LEMMA PendingFits ==
  ASSUME NEW r \in ProblemType, RecordFits(r), Pending(r) \/ r.state = "FAILED"
  PROVE  r.lastGood \in {"SUBMITTING", "SUBMITTED"} /\ r.state # "DONE"
  BY DEF RecordFits, Pending

\* A step that changes no list, request or thread.
LEMMA StillRecord ==
  ASSUME NEW p \in Problems, Recorded(p), SameFields(p), p \in live' => p \in live,
         UNCHANGED <<pc, job, out, inflight, unsubmitted, active, cancelIds>>
  PROVE  Recorded(p)'
<1>1. RecordFits(prob[p])'
  BY DEF Recorded, RecordFits, SameFields
<1>2. ~prob'[p].hasId => NoIds(p)'
  BY DEF Recorded, NoIds, SameFields
<1>3. p \in live' => Wanted(p)'
  BY DEF Recorded, Wanted, SameFields, Asked, KindAt, Elements
<1> QED
  BY <1>1, <1>2, <1>3 DEF Recorded

\* A step of thread t that leaves the records as they are.
LEMMA ListKeepsRecord ==
  ASSUME Base, NEW p \in Problems, Recorded(p),
         NEW t \in Everyone, NEW label, NEW j, NEW r, Moves(t, label, j, r),
         UNCHANGED <<inflight, live>>, SameFields(p),
         p \in cancelIds' \cup r.ids \cup j.req.ids => prob[p].hasId,
         p \in live =>
           /\ p \in Elements(unsubmitted') => Asked("SUBMIT", prob[p])
           /\ p \in Elements(active') => Asked("STATUS", prob[p])
           /\ p \in Elements(r.probs) => Asked(r.kind, prob[p])
           /\ p \in Elements(j.req.probs) => Asked(KindAt(label, j), prob[p])
  PROVE  Recorded(p)'
<1>1. RecordFits(prob'[p])
  BY DEF Recorded, RecordFits, SameFields
<1>2. ~prob'[p].hasId =>
           ~prob[p].hasId /\ p \notin cancelIds' /\ p \notin r.ids /\ p \notin j.req.ids
  BY DEF SameFields
<1>3. ASSUME p \in live'
      PROVE  /\ p \in Elements(unsubmitted') => Asked("SUBMIT", prob'[p])
             /\ p \in Elements(active') => Asked("STATUS", prob'[p])
             /\ p \in Elements(r.probs) => Asked(r.kind, prob'[p])
             /\ p \in Elements(j.req.probs) => Asked(KindAt(label, j), prob'[p])
             /\ p \in live
  BY <1>3 DEF SameFields, Asked
<1> QED
  BY <1>1, <1>2, <1>3, MoveKeepsRecord

\* A step that tells the problem something while only thread t has it.
LEMMA ToldKeepsRecord ==
  ASSUME Base, NEW p \in Problems, Recorded(p),
         NEW t \in Everyone, NEW label, NEW j, Moves(t, label, j, out[t]),
         UNCHANGED <<inflight, live, unsubmitted, active, cancelIds>>,
         p \in live, PlaceAt(p), j.req.ids = job[t].req.ids,
         p \in Elements(job[t].req.probs), RecordFits(prob'[p]),
         prob[p].hasId => prob'[p].hasId,
         p \in Elements(j.req.probs) => Asked(KindAt(label, j), prob'[p])
  PROVE  Recorded(p)'
<1>1. /\ p \notin Elements(unsubmitted') /\ p \notin Elements(active')
      /\ p \notin Elements(out[t].probs) /\ ~Elsewhere(t, p)
  BY ProblemAlone DEF Elsewhere
<1>2. ~prob'[p].hasId =>
           ~prob[p].hasId /\ p \notin cancelIds' /\ p \notin out[t].ids /\ p \notin j.req.ids
  BY DEF Recorded, NoIds
<1> QED
  BY <1>1, <1>2, MoveKeepsRecord

\* A problem that begins anew is nowhere yet.
LEMMA NewKeepsRecord ==
  ASSUME Base, NEW p \in Problems, Recorded(p),
         NEW t \in Everyone, NEW label, NEW j, Moves(t, label, j, out[t]),
         UNCHANGED <<inflight, cancelIds>>, PlaceAt(p), ~Pending(prob[p]),
         j.req.ids = {}, RecordFits(prob'[p]), prob[p].hasId => prob'[p].hasId,
         p \in Elements(unsubmitted') => Asked("SUBMIT", prob'[p]),
         p \in Elements(active') => Asked("STATUS", prob'[p]),
         p \in Elements(j.req.probs) => Asked(KindAt(label, j), prob'[p])
  PROVE  Recorded(p)'
<1>1. p \notin Elements(out[t].probs) /\ ~Elsewhere(t, p)
  BY ProblemAlone DEF Elsewhere
<1>2. ~prob'[p].hasId =>
           ~prob[p].hasId /\ p \notin cancelIds' /\ p \notin out[t].ids /\ p \notin j.req.ids
  BY DEF Recorded, NoIds
<1> QED
  BY <1>1, <1>2, MoveKeepsRecord

\* What the changes make of a record that fits.
LEMMA FittingRecords ==
  ASSUME NEW r \in ProblemType, RecordFits(r)
  PROVE  /\ \A kind \in StatusKinds : \A after :
              Told(kind, r, after) /\ Asked(kind, r) =>
                /\ RecordFits(after) /\ (r.hasId => after.hasId)
                /\ after.remote = "PENDING" => Asked("STATUS", after)
         /\ \A error \in Failures, retry \in BOOLEAN, kind \in StatusKinds :
              LET after == WithError(r, error, retry) IN
              Asked(kind, r) =>
                RecordFits(after) /\ after.hasId = r.hasId /\ Asked(kind, after)
         /\ Retryable(r) =>
              LET after == WithRetry(r) IN
              /\ RecordFits(after) /\ after.hasId = r.hasId
              /\ Asked(IF r.lastGood = "SUBMITTING" THEN "SUBMIT" ELSE "STATUS", after)
         /\ RecordFits(SubmittingProblem) /\ Asked("SUBMIT", SubmittingProblem)
         /\ RecordFits(AddedProblem) /\ Asked("STATUS", AddedProblem)
         /\ r.state = "NEW" => ~r.hasId
<1>1. ASSUME NEW kind \in StatusKinds, NEW after, Told(kind, r, after), Asked(kind, r)
      PROVE  /\ RecordFits(after) /\ (r.hasId => after.hasId)
             /\ after.remote = "PENDING" => Asked("STATUS", after)
  <2>1. /\ after.state \in {"SUBMITTED", "DONE"} /\ after.lastGood = after.state
        /\ after.remote = "PENDING" <=> after.state = "SUBMITTED"
        /\ IF kind = "SUBMIT" THEN after.state = "SUBMITTED" => after.hasId
                              ELSE after.hasId = r.hasId
    BY <1>1, ToldFields
  <2>2. CASE kind = "SUBMIT"
    BY <1>1, <2>1, <2>2 DEF Asked, RecordFits
  <2>3. CASE kind = "STATUS"
    BY <1>1, <2>1, <2>3 DEF Asked, RecordFits
  <2> QED
    BY <2>2, <2>3 DEF StatusKinds
<1>2. ASSUME NEW error \in Failures, NEW retry \in BOOLEAN, NEW kind \in StatusKinds, Asked(kind, r)
      PROVE  LET after == WithError(r, error, retry) IN
             RecordFits(after) /\ after.hasId = r.hasId /\ Asked(kind, after)
  <2>0. PICK after : after = WithError(r, error, retry)
    OBVIOUS
  <2>1. /\ after.state = IF retry THEN "RETRYING" ELSE "FAILED"
        /\ after.lastGood = r.lastGood /\ after.hasId = r.hasId
    BY <2>0 DEF WithError, Failures, ProblemType
  <2>2. r.lastGood \in {"SUBMITTING", "SUBMITTED"}
    BY <1>2 DEF Asked, StatusKinds
  <2>3. RecordFits(after)
    BY <2>1, <2>2 DEF RecordFits
  <2> QED
    BY <1>2, <2>0, <2>1, <2>3 DEF Asked
<1>3. ASSUME Retryable(r)
      PROVE  LET after == WithRetry(r) IN
             /\ RecordFits(after) /\ after.hasId = r.hasId
             /\ Asked(IF r.lastGood = "SUBMITTING" THEN "SUBMIT" ELSE "STATUS", after)
  <2>0. PICK after : after = WithRetry(r)
    OBVIOUS
  <2>1. after.state = "RETRYING" /\ after.lastGood = r.lastGood /\ after.hasId = r.hasId
    BY <2>0, RecordFields
  <2>2. r.lastGood \in {"SUBMITTING", "SUBMITTED"}
    BY <1>3 DEF RecordFits, Retryable
  <2>3. RecordFits(after)
    BY <2>1, <2>2 DEF RecordFits
  <2>4. Asked(IF r.lastGood = "SUBMITTING" THEN "SUBMIT" ELSE "STATUS", after)
    BY <2>1, <2>2 DEF Asked
  <2> QED
    BY <2>0, <2>1, <2>3, <2>4
<1>4. /\ RecordFits(SubmittingProblem) /\ Asked("SUBMIT", SubmittingProblem)
      /\ RecordFits(AddedProblem) /\ Asked("STATUS", AddedProblem)
  BY RecordFields DEF RecordFits, Asked
<1>5. r.state = "NEW" => ~r.hasId
  BY DEF RecordFits
<1> QED
  BY <1>1, <1>2, <1>3, <1>4, <1>5

\* Every step keeps the record of a problem fit for the requests that carry it.
LEMMA NextKeepsRecord ==
  ASSUME Base, Base', [Next]_vars, NEW p \in Problems, Placed(p), Recorded(p)
  PROVE  Recorded(p)'
<1>0. /\ SharedData /\ OpenRequests /\ prob[p] \in ProblemType /\ RecordFits(prob[p])
      /\ \A t \in Everyone :
           /\ pc[t] # "issue" => out[t].probs = <<>> /\ out[t].ids = {}
           /\ pc[t] \notin ProblemPcs \cup {"stop", "retry"} => job[t].req.probs = <<>>
           /\ pc[t] \in ProblemPcs => job[t].req.kind \in StatusKinds
           /\ job[t].req.probs \in Seq(Problems)
      /\ p \in live => PlaceAt(p)
      /\ prob[p].state = "NEW" => PlaceAt(p)
  BY DEF Base, CarryInv, SharedData, Load, Carried, Known, Placed, Recorded
<1>00. Elements(<<>>) = {}
  BY EmptyOnce
<1>000. \A q : Blank(q) => q.probs = <<>> /\ q.ids = {}
  BY DEF Blank
<1>01. /\ \A t \in Everyone : p \in cancelIds \cup out[t].ids \cup job[t].req.ids => prob[p].hasId
       /\ p \in live => Wanted(p)
  BY DEF Recorded, NoIds
<1>02. prob' = prob => SameFields(p)
  BY DEF SameFields
<1>03. \A a \in Seq(Problems), b \in Seq(Problems) : Elements(a \o b) = Elements(a) \cup Elements(b)
  BY ConcatOnce
<1>04. PICK r0 \in ProblemType : r0 = prob[p]
  BY <1>0
<1> USE DEF ProblemPcs
<1>1. ASSUME NEW t \in Everyone, Enter(t) \/ Sent(t) \/ Unsent(t) PROVE Recorded(p)'
  <2>1. PICK label, r :
          /\ label \in {"take", "complete", "return", "idle"}
          /\ Moves(t, label, job[t], r) /\ Blank(r)
    BY <1>1, LoopMoves
  <2>2. Quiet /\ job[t].req.probs = <<>>
    BY <1>0, <1>1, LoopMoves
  <2> QED
    BY <1>000, <2>1, <2>2, SameRecord DEF Quiet
<1>2. ASSUME NEW t \in Everyone, TakeProblems(t) PROVE Recorded(p)'
  <2>1. PICK r, a, b :
              /\ Moves(t, "issue", job[t], r)
              /\ r.kind = out[t].kind /\ r.probs = Alive(a) /\ r.ids = {} /\ r.fetch = NoFetch
              /\ r.more \in BOOLEAN
              /\ a \in Seq(Problems) /\ b \in Seq(Problems)
              /\ IF out[t].kind = "SUBMIT"
                 THEN unsubmitted = a \o b /\ unsubmitted' = b /\ active' = active
                 ELSE active = a \o b /\ active' = b /\ unsubmitted' = unsubmitted
    BY <1>2, TakeProblemsMoves
  <2>2. /\ UNCHANGED <<prob, live, cancelIds, inflight>> /\ out[t].kind \in StatusKinds
        /\ job[t].req.probs = <<>>
    BY <1>0, <1>2, TakeProblemsMoves
  <2>3. Elements(a \o b) = Elements(a) \cup Elements(b) /\ Elements(r.probs) = Elements(a) \cap live
    BY <1>03, <2>1, KeptOnce DEF Alive
  <2>4. ASSUME p \in live
        PROVE  /\ p \in Elements(unsubmitted') => Asked("SUBMIT", prob[p])
               /\ p \in Elements(active') => Asked("STATUS", prob[p])
               /\ p \in Elements(r.probs) => Asked(r.kind, prob[p])
    <3>1. /\ p \in Elements(unsubmitted) => Asked("SUBMIT", prob[p])
          /\ p \in Elements(active) => Asked("STATUS", prob[p])
      BY <1>01, <2>4 DEF Wanted
    <3>2. CASE out[t].kind = "SUBMIT"
      BY <2>1, <2>3, <3>1, <3>2
    <3>3. CASE out[t].kind # "SUBMIT"
      BY <2>1, <2>2, <2>3, <3>1, <3>3 DEF StatusKinds
    <3> QED
      BY <3>2, <3>3
  <2> QED
    BY <1>00, <1>01, <1>02, <2>1, <2>2, <2>4, ListKeepsRecord
<1>3. ASSUME NEW t \in Everyone, TakeCancels(t) PROVE Recorded(p)'
  <2>1. PICK r : Moves(t, "issue", job[t], r) /\ r.probs = <<>> /\ r.ids = cancelIds
    BY <1>3, TakeCancelsMoves
  <2>2. /\ UNCHANGED <<prob, live, unsubmitted, active, inflight>> /\ cancelIds' = {}
        /\ job[t].req.probs = <<>>
    BY <1>0, <1>3, TakeCancelsMoves
  <2> QED
    BY <1>00, <1>01, <1>02, <2>1, <2>2, ListKeepsRecord DEF Wanted
<1>4. ASSUME NEW t \in Everyone, TakeFetch(t) PROVE Recorded(p)'
  <2>1. /\ UNCHANGED <<prob, live, unsubmitted, active, cancelIds, inflight>>
        /\ out[t].probs = <<>> /\ out[t].ids = {} /\ job[t].req.probs = <<>>
    BY <1>0, <1>000, <1>4, TakeFetchMoves
  <2>2. PICK r : Moves(t, "issue", job[t], r) /\ r.probs = <<>> /\ r.ids = {}
    BY <1>4, <2>1, TakeFetchMoves
  <2> QED
    BY <2>1, <2>2, SameRecord
<1>6. ASSUME NEW t \in Everyone, StopRetrying(t) PROVE Recorded(p)'
  <2>1. PICK label : /\ Moves(t, label, job[t], out[t]) /\ label \in {"update", "deliver", "complete"}
    BY <1>6, StopMoves
  <2>2. Quiet /\ pc[t] = "stop"
    BY <1>6, StopMoves
  <2> QED
    BY <2>1, <2>2, SameRecord DEF Quiet, KindAt
<1>7. ASSUME NEW t \in Everyone, RetryFailedRequest(t) PROVE Recorded(p)'
  <2>1. PICK label, j : \E retry \in BOOLEAN :
              /\ Moves(t, label, j, out[t]) /\ j.req = job[t].req
              /\ j.outcome = IF retry THEN "retry" ELSE "giveup"
              /\ label = CASE job[t].req.kind \in StatusKinds -> "fail"
                  [] job[t].req.kind = "CANCEL" -> IF retry THEN "recancel" ELSE "complete"
                  [] OTHER -> IF retry THEN "refetch" ELSE "deliver"
    BY <1>7, RetryMoves
  <2>2. Quiet /\ pc[t] = "retry"
    BY <1>7, RetryMoves
  <2>3. label \in {"fail", "recancel", "complete", "refetch", "deliver"}
    BY <2>1
  <2> QED
    BY <2>1, <2>2, <2>3, SameRecord DEF Quiet, KindAt
<1>8. ASSUME NEW t \in Everyone, StatusComplete(t) PROVE Recorded(p)'
  <2>1. PICK label, j, S :
              /\ Moves(t, label, j, out[t])
              /\ label = IF j.req.probs = <<>> THEN "complete" ELSE "cancelcheck"
              /\ j.req.ids = job[t].req.ids
              /\ j.req.probs = Kept(job[t].req.probs, S)
              /\ S \subseteq Elements(job[t].req.probs) \cap live
              /\ IF p \in Elements(job[t].req.probs) \cap live
                   THEN /\ Told(job[t].req.kind, prob[p], prob'[p])
                        /\ p \in S <=> prob'[p].remote = "PENDING"
                   ELSE prob'[p] = prob[p]
    BY <1>8, StatusMoves
  <2>2. UNCHANGED <<live, unsubmitted, active, cancelIds, inflight>> /\ pc[t] = "update"
    BY <1>8, StatusMoves
  <2>3. Elements(j.req.probs) = Elements(job[t].req.probs) \cap S
    BY <1>0, <2>1, KeptOnce
  <2>4. CASE p \in Elements(job[t].req.probs) \cap live
    <3>1. Asked(job[t].req.kind, prob[p])
      BY <1>01, <2>2, <2>4 DEF Wanted, KindAt
    <3>2. /\ RecordFits(prob'[p]) /\ (prob[p].hasId => prob'[p].hasId)
          /\ prob'[p].remote = "PENDING" => Asked("STATUS", prob'[p])
      BY <1>0, <2>1, <2>2, <2>4, <3>1, FittingRecords
    <3>3. p \in Elements(j.req.probs) => Asked(KindAt(label, j), prob'[p])
      <4>1. ASSUME p \in Elements(j.req.probs) PROVE Asked(KindAt(label, j), prob'[p])
        <5>1. label = "cancelcheck"
          BY <1>00, <2>1, <4>1
        <5> QED
          BY <2>1, <2>3, <2>4, <3>2, <4>1, <5>1 DEF KindAt
      <4> QED
        BY <4>1
    <3> QED
      BY <1>0, <2>1, <2>2, <2>4, <3>2, <3>3, ToldKeepsRecord
  <2>5. CASE p \notin Elements(job[t].req.probs) \cap live
    <3>1. p \notin Elements(j.req.probs) /\ SameFields(p)
      BY <2>1, <2>3, <2>5 DEF SameFields
    <3> QED
      BY <1>01, <2>1, <2>2, <3>1, ListKeepsRecord DEF Wanted
  <2> QED
    BY <2>4, <2>5
<1>9. ASSUME NEW t \in Everyone, FailProblems(t) PROVE Recorded(p)'
  <2>1. PICK label, j, retry, error :
              /\ Moves(t, label, j, out[t]) /\ retry \in BOOLEAN /\ error \in {"OTHER", "NETWORK"}
              /\ label = CASE retry -> IF job[t].req.kind = "SUBMIT" THEN "resubmit" ELSE "cancelcheck"
                           [] job[t].outcome = "giveup" -> "complete"
                           [] OTHER -> "stop"
              /\ j.req.kind = job[t].req.kind /\ j.req.ids = job[t].req.ids
              /\ j.req.probs = IF retry THEN job[t].req.probs ELSE <<>>
              /\ retry <=> job[t].outcome = "retry"
              /\ IF p \in Elements(job[t].req.probs) \cap live
                   THEN prob'[p] = WithError(prob[p], error, retry)
                   ELSE prob'[p] = prob[p]
    BY <1>9, FailMoves
  <2>2. /\ UNCHANGED <<live, unsubmitted, active, cancelIds, inflight>> /\ pc[t] = "fail"
        /\ job[t].req.kind \in StatusKinds
    BY <1>0, <1>9, FailMoves
  <2>3. retry => KindAt(label, j) = job[t].req.kind
    <3>1. ASSUME retry PROVE KindAt(label, j) = job[t].req.kind
      <4>1. label = IF job[t].req.kind = "SUBMIT" THEN "resubmit" ELSE "cancelcheck"
        BY <2>1, <3>1
      <4> QED
        BY <2>1, <2>2, <4>1 DEF KindAt, StatusKinds
    <3> QED
      BY <3>1
  <2>4. CASE p \in Elements(job[t].req.probs) \cap live
    <3>1. Asked(job[t].req.kind, prob[p])
      BY <1>01, <2>2, <2>4 DEF Wanted, KindAt
    <3>2. /\ RecordFits(prob'[p]) /\ (prob[p].hasId => prob'[p].hasId)
          /\ Asked(job[t].req.kind, prob'[p])
      <4>1. error \in Failures
        BY <2>1 DEF Failures
      <4> QED
        BY <1>0, <2>1, <2>2, <2>4, <3>1, <4>1, FittingRecords
    <3>3. p \in Elements(j.req.probs) => Asked(KindAt(label, j), prob'[p])
      BY <1>00, <2>1, <2>3, <3>2
    <3> QED
      BY <1>0, <2>1, <2>2, <2>4, <3>2, <3>3, ToldKeepsRecord
  <2>5. CASE p \notin Elements(job[t].req.probs) \cap live
    <3>1. (p \in live => p \notin Elements(j.req.probs)) /\ SameFields(p)
      BY <1>00, <2>1, <2>5 DEF SameFields
    <3> QED
      BY <1>01, <2>1, <2>2, <3>1, ListKeepsRecord DEF Wanted
  <2> QED
    BY <2>4, <2>5
<1>10. ASSUME NEW t \in Everyone, CheckCancelled(t) PROVE Recorded(p)'
  <2>1. PICK label \in {"requeue", "pushcancel"} : Moves(t, label, job[t], out[t])
    BY <1>10, CancelCheckMoves
  <2>2. UNCHANGED <<live, unsubmitted, active, inflight>> /\ pc[t] = "cancelcheck"
    BY <1>10, CancelCheckMoves
  <2>3. prob'[p] = prob[p] \/ prob'[p] = [prob[p] EXCEPT !.cancelled = FALSE]
    BY <1>10, CancelCheckMoves
  <2>4. SameFields(p)
    BY <1>0, <2>3 DEF SameFields, ProblemType
  <2>5. PICK cancels : /\ cancels \subseteq Elements(job[t].req.probs) \cap live
                       /\ cancelIds' = cancelIds \cup cancels
    BY <1>10, CancelCheckMoves
  <2>6. p \in cancels => prob[p].hasId
    <3>1. p \in cancels => Asked("STATUS", prob[p])
      BY <1>01, <2>2, <2>5 DEF Wanted, KindAt
    <3> QED
      BY <1>0, <3>1 DEF Asked, RecordFits
  <2>7. KindAt(label, job[t]) = KindAt(pc[t], job[t])
    BY <2>1, <2>2 DEF KindAt
  <2> QED
    BY <1>01, <2>1, <2>2, <2>4, <2>5, <2>6, <2>7, ListKeepsRecord DEF Wanted
<1>11. ASSUME NEW t \in Everyone, QueueActive(t) PROVE Recorded(p)'
  <2>0. NoJob.req.probs = <<>> /\ NoJob.req.ids = {}
    BY BlankRequests DEF Blank
  <2>1. /\ UNCHANGED <<prob, live, unsubmitted, cancelIds, inflight>>
        /\ pc[t] = "requeue" /\ Moves(t, "complete", NoJob, out[t])
        /\ active' \in {job[t].req.probs \o active, active \o job[t].req.probs}
    BY <1>11, QueueActiveMoves
  <2>2. Elements(active') = Elements(active) \cup Elements(job[t].req.probs)
    <3>1. PICK a \in Seq(Problems), b \in Seq(Problems) : a = job[t].req.probs /\ b = active
      BY <1>0 DEF SharedData
    <3>2. /\ Elements(a \o b) = Elements(a) \cup Elements(b)
          /\ Elements(b \o a) = Elements(b) \cup Elements(a)
      BY <1>03
    <3>3. active' = a \o b \/ active' = b \o a
      BY <2>1, <3>1
    <3> QED
      BY <3>1, <3>2, <3>3
  <2>3. p \in live /\ p \in Elements(job[t].req.probs) => Asked("STATUS", prob[p])
    BY <1>01, <2>1 DEF Wanted, KindAt
  <2> QED
    BY <1>00, <1>01, <1>02, <2>0, <2>1, <2>2, <2>3, ListKeepsRecord DEF Wanted
<1>12. ASSUME NEW t \in Everyone, RetrySubmit(t) PROVE Recorded(p)'
  <2>0. PICK j : Moves(t, "push", j, out[t]) /\ j.req.probs = <<>> /\ j.req.ids = job[t].req.ids
    BY <1>12, RetrySubmitMoves
  <2>1. /\ UNCHANGED <<prob, live, active, cancelIds, inflight>>
        /\ pc[t] = "resubmit" /\ unsubmitted' = job[t].req.probs \o unsubmitted
        /\ job[t].req.kind = "SUBMIT"
    BY <1>12, RetrySubmitMoves
  <2>2. Elements(unsubmitted') = Elements(unsubmitted) \cup Elements(job[t].req.probs)
    <3>1. PICK a \in Seq(Problems), b \in Seq(Problems) : a = job[t].req.probs /\ b = unsubmitted
      BY <1>0 DEF SharedData
    <3> QED
      BY <1>03, <2>1, <3>1
  <2>3. p \in live /\ p \in Elements(job[t].req.probs) => Asked("SUBMIT", prob[p])
    BY <1>01, <2>1 DEF Wanted, KindAt
  <2> QED
    BY <1>00, <1>01, <1>02, <2>0, <2>1, <2>2, <2>3, ListKeepsRecord DEF Wanted
<1>25. ASSUME NEW t \in Everyone, AddSubmittedProblem(t) PROVE Recorded(p)'
  <2>0. PICK j : Moves(t, "push", j, out[t]) /\ j.req.probs = <<>> /\ j.req.ids = job[t].req.ids
    BY <1>25, AddSubmittedMoves
  <2>1. /\ UNCHANGED <<prob, live, cancelIds, inflight>>
        /\ pc[t] = "readd" /\ job[t].req.kind \in StatusKinds
        /\ IF job[t].req.kind = "SUBMIT"
           THEN unsubmitted' = unsubmitted \o job[t].req.probs /\ active' = active
           ELSE active' = active \o job[t].req.probs /\ unsubmitted' = unsubmitted
    BY <1>0, <1>25, AddSubmittedMoves
  <2>2. p \in live /\ p \in Elements(job[t].req.probs) => Asked(job[t].req.kind, prob[p])
    BY <1>01, <2>1 DEF Wanted, KindAt
  <2>3. PICK a \in Seq(Problems), b \in Seq(Problems), c \in Seq(Problems) :
          a = job[t].req.probs /\ b = unsubmitted /\ c = active
    BY <1>0 DEF SharedData
  <2>4. /\ Elements(b \o a) = Elements(b) \cup Elements(a)
        /\ Elements(c \o a) = Elements(c) \cup Elements(a)
    BY <1>03
  <2>5. ASSUME p \in live
        PROVE  /\ p \in Elements(unsubmitted') => Asked("SUBMIT", prob[p])
               /\ p \in Elements(active') => Asked("STATUS", prob[p])
    <3>1. /\ p \in Elements(unsubmitted) => Asked("SUBMIT", prob[p])
          /\ p \in Elements(active) => Asked("STATUS", prob[p])
      BY <1>01, <2>5 DEF Wanted
    <3>2. CASE job[t].req.kind = "SUBMIT"
      BY <2>1, <2>2, <2>3, <2>4, <2>5, <3>1, <3>2
    <3>3. CASE job[t].req.kind # "SUBMIT"
      BY <2>1, <2>2, <2>3, <2>4, <2>5, <3>1, <3>3 DEF StatusKinds
    <3> QED
      BY <3>2, <3>3
  <2> QED
    BY <1>00, <1>01, <1>02, <2>0, <2>1, <2>5, ListKeepsRecord DEF Wanted
<1>13. ASSUME NEW t \in Everyone, RetryCancel(t) PROVE Recorded(p)'
  <2>1. PICK label : Moves(t, label, job[t], out[t])
    BY <1>13, RetryCancelMoves
  <2>2. /\ UNCHANGED <<prob, live, unsubmitted, active, inflight>>
        /\ job[t].req.probs = <<>> /\ cancelIds' = cancelIds \cup job[t].req.ids
    BY <1>0, <1>13, RetryCancelMoves
  <2> QED
    BY <1>00, <1>01, <1>02, <2>1, <2>2, ListKeepsRecord DEF Wanted
<1>14. ASSUME NEW t \in Everyone, FetchAnswer(t) PROVE Recorded(p)'
  <2>1. PICK j : /\ Moves(t, "push", j, out[t]) /\ j.req.probs = job[t].req.probs
                 /\ j.req.ids = job[t].req.ids
    BY <1>14, FetchAnswerMoves
  <2>2. /\ UNCHANGED <<prob, live, unsubmitted, active, cancelIds, inflight>>
        /\ job[t].req.probs = <<>>
    BY <1>0, <1>14, FetchAnswerMoves
  <2> QED
    BY <2>1, <2>2, SameRecord
<1>15. ASSUME NEW t \in Everyone, DeliverAnswer(t) PROVE Recorded(p)'
  <2>1. PICK j : /\ Moves(t, "complete", j, out[t]) /\ j.req.probs = job[t].req.probs
                 /\ j.req.ids = job[t].req.ids
    BY <1>15, DeliverMoves
  <2>2. /\ UNCHANGED <<prob, live, unsubmitted, active, cancelIds, inflight>>
        /\ job[t].req.probs = <<>>
    BY <1>0, <1>15, DeliverMoves
  <2> QED
    BY <2>1, <2>2, SameRecord
<1>16. ASSUME NEW t \in Everyone, Push(t) \/ RequestComplete(t) PROVE Recorded(p)'
  <2>1. NoJob.req.probs = <<>> /\ NoJob.req.ids = {}
    BY BlankRequests DEF Blank
  <2> QED
    BY <1>16, <2>1, EndMoves, SameRecord DEF Quiet
<1>17. ASSUME NEW t \in Everyone, PushCancel(t) PROVE Recorded(p)'
  BY <1>17, PushCancelMoves, SameRecord DEF Quiet, KindAt
<1>20. ASSUME NEW t \in Threads, NEW q \in Problems, Retry(t, q) PROVE Recorded(p)'
  <2>1. PICK j : /\ Moves(t, "readd", j, out[t]) /\ j.outcome = "call"
                 /\ j.req.probs = <<q>> /\ j.req.ids = {} /\ j.req.fetch = NoFetch
                 /\ j.req.more \in BOOLEAN
                 /\ j.req.kind = IF prob[q].lastGood = "SUBMITTING" THEN "SUBMIT" ELSE "STATUS"
    BY <1>20, RetryCallMoves
  <2>2. /\ UNCHANGED <<live, unsubmitted, active, cancelIds, inflight>>
        /\ t \in Everyone /\ pc[t] = "idle" /\ q \in live
        /\ Retryable(prob[q]) /\ prob' = [prob EXCEPT ![q] = WithRetry(prob[q])]
    BY <1>20, RetryCallMoves
  <2>3. Elements(<<q>>) = {q}
    BY SingleOnce
  <2>4. CASE p = q
    <3>1. prob'[p] = WithRetry(prob[p]) /\ Retryable(prob[p]) /\ ~Pending(prob[p])
      BY <1>0, <2>2, <2>4 DEF SharedData, Retryable, Pending
    <3>2. /\ RecordFits(prob'[p]) /\ prob'[p].hasId = prob[p].hasId
          /\ Asked(j.req.kind, prob'[p])
      BY <1>0, <2>1, <2>4, <3>1, FittingRecords
    <3>3. KindAt("readd", j) = j.req.kind
      BY DEF KindAt
    <3>4. PlaceAt(p) /\ p \notin Elements(unsubmitted') /\ p \notin Elements(active')
      BY <1>0, <2>2, <2>4, <3>1, ProblemAlone
    <3> QED
      BY <2>1, <2>2, <3>1, <3>2, <3>3, <3>4, NewKeepsRecord
  <2>5. CASE p # q
    <3>1. SameFields(p)
      BY <1>0, <2>2, <2>5 DEF SharedData, SameFields
    <3> QED
      BY <1>01, <2>1, <2>2, <2>3, <2>5, <3>1, ListKeepsRecord DEF Wanted
  <2> QED
    BY <2>4, <2>5
<1>21. ASSUME NEW t \in Threads, NEW q \in Problems, NEW g \in Fetches, Answer(t, q, g)
       PROVE Recorded(p)'
  <2>0. AnswerMade(t, g)
    BY <1>21, AnswerMoves
  <2>1. /\ UNCHANGED <<prob, live, unsubmitted, active, cancelIds, inflight>>
        /\ t \in Everyone
    BY <2>0 DEF AnswerMade
  <2>2. CASE UNCHANGED <<pc, job, out>>
    BY <1>02, <2>1, <2>2, StillRecord
  <2>3. CASE \E j : Moves(t, "refetch", j, out[t]) /\ j.req.probs = <<>> /\ j.req.ids = {}
    BY <2>1, <2>3, SameRecord
  <2> QED
    BY <2>0, <2>2, <2>3 DEF AnswerMade
<1>23. ASSUME RetryNotification \/ NotificationReturns PROVE Recorded(p)'
  <2>1. PICK label \in {"enter", "idle"} : Moves(Io, label, job[Io], out[Io])
    BY <1>23, IoMoves
  <2>2. Quiet /\ Io \in Everyone /\ job[Io].req.probs = <<>>
    BY <1>0, <1>23, IoMoves
  <2> QED
    BY <2>1, <2>2, SameRecord DEF Quiet
<1>24. ASSUME (\E q \in Problems : Cancel(q) \/ Drop(q)) \/ AsioStep \/ UNCHANGED vars
       PROVE  Recorded(p)'
  <2>1. /\ UNCHANGED <<pc, job, out, inflight, unsubmitted, active, cancelIds>>
        /\ live' \subseteq live
    BY <1>24, StillMoves
  <2>3. prob'[p] = prob[p] \/ prob'[p] = [prob[p] EXCEPT !.cancelled = TRUE]
    BY <1>24, StillMoves
  <2>4. SameFields(p)
    BY <1>0, <2>3 DEF SameFields, ProblemType
  <2> QED
    BY <2>1, <2>4, StillRecord
<1>5. ASSUME NEW t \in Everyone, Issue(t) PROVE Recorded(p)'
  <2>1. PICK label : Moves(t, label, job[t], NoRequest) /\ label \in {"sent", "unsent"}
    BY <1>5, IssueMoves
  <2>2. /\ UNCHANGED <<prob, live, unsubmitted, active, cancelIds>>
        /\ NoRequest.probs = <<>> /\ NoRequest.ids = {}
        /\ pc[t] = "issue" /\ job[t].req.probs = <<>>
    BY <1>0, <1>5, IssueMoves, BlankRequests DEF Blank
  <2>3. /\ \A d \in DOMAIN inflight' :
             \/ d \in DOMAIN inflight /\ inflight'[d] = inflight[d]
             \/ inflight'[d].kind = out[t].kind /\ inflight'[d].probs = out[t].probs
                  /\ inflight'[d].ids = out[t].ids
    <3>1. CASE inflight' = inflight
      BY <3>1
    <3>2. CASE inflight' # inflight
      <4>1. PICK c, q :
              /\ c \notin DOMAIN inflight /\ DOMAIN inflight' = DOMAIN inflight \cup {c}
              /\ \A d \in DOMAIN inflight : inflight'[d] = inflight[d]
              /\ inflight'[c] = q /\ q.kind = out[t].kind /\ q.probs = out[t].probs
              /\ q.ids = out[t].ids
        BY <1>5, <3>2, IssueMoves
      <4> QED
        BY <4>1
    <3> QED
      BY <3>1, <3>2
  <2>4. /\ job'[t] = job[t] /\ out'[t] = NoRequest /\ pc'[t] = label
        /\ \A u \in Everyone \ {t} : pc'[u] = pc[u] /\ job'[u] = job[u] /\ out'[u] = out[u]
    BY <2>1, MovedValues DEF Base, WorkInv
  <2>5. ~prob'[p].hasId => NoIds(p)'
    <3>1. ASSUME ~prob[p].hasId PROVE NoIds(p)'
      <4>1. \A d \in DOMAIN inflight' : p \notin inflight'[d].ids
        BY <2>3, <3>1 DEF Recorded, NoIds
      <4>2. \A u \in Everyone : p \notin out'[u].ids /\ p \notin job'[u].req.ids
        BY <2>2, <2>4, <3>1 DEF Recorded, NoIds
      <4>3. p \notin cancelIds'
        BY <2>2, <3>1 DEF Recorded, NoIds
      <4> QED
        BY <4>1, <4>2, <4>3 DEF NoIds
    <3> QED
      BY <2>2, <3>1
  <2>6. ASSUME p \in live PROVE Wanted(p)'
    <3>0. Wanted(p)
      BY <1>01, <2>6
    <3>1. \A d \in DOMAIN inflight' :
            p \in Elements(inflight'[d].probs) => Asked(inflight'[d].kind, prob'[p])
      <4> SUFFICES ASSUME NEW d \in DOMAIN inflight', p \in Elements(inflight'[d].probs)
                   PROVE  Asked(inflight'[d].kind, prob[p])
        BY <2>2
      <4>1. CASE d \in DOMAIN inflight /\ inflight'[d] = inflight[d]
        BY <3>0, <4>1 DEF Wanted
      <4>2. CASE inflight'[d].kind = out[t].kind /\ inflight'[d].probs = out[t].probs
        BY <3>0, <4>2 DEF Wanted
      <4> QED
        BY <2>3, <4>1, <4>2
    <3>2. \A u \in Everyone :
            /\ p \in Elements(out'[u].probs) => Asked(out'[u].kind, prob'[p])
            /\ p \in Elements(job'[u].req.probs) => Asked(KindAt(pc'[u], job'[u]), prob'[p])
      BY <1>00, <2>2, <2>4, <3>0 DEF Wanted
    <3>3. /\ p \in Elements(unsubmitted') => Asked("SUBMIT", prob'[p])
          /\ p \in Elements(active') => Asked("STATUS", prob'[p])
      BY <2>2, <3>0 DEF Wanted
    <3> QED
      BY <3>1, <3>2, <3>3 DEF Wanted, Elements, Asked, KindAt
  <2> QED
    BY <1>0, <2>2, <2>5, <2>6 DEF Recorded, RecordFits
<1>22. ASSUME NEW t \in Threads, NEW c \in Conns, NEW outcome \in {"ok", "network", "other"},
              Reply(t, c, outcome)
       PROVE  Recorded(p)'
  <2>0. ReplyTaken(t, c, outcome)
    BY <1>22, ReplyMoves
  <2>1. PICK label, j :
              /\ Moves(t, label, j, out[t]) /\ j.req = inflight[c]
              /\ label = CASE outcome = "network" -> "retry"
                           [] outcome = "other" /\ inflight[c].kind \in StatusKinds -> "fail"
                           [] OTHER -> "stop"
    BY <2>0 DEF ReplyTaken
  <2>2. /\ UNCHANGED <<prob, live, unsubmitted, active, cancelIds>>
        /\ t \in Everyone /\ c \in DOMAIN inflight
        /\ \A d \in DOMAIN inflight' : d \in DOMAIN inflight /\ inflight'[d] = inflight[d]
    BY <2>0 DEF ReplyTaken
  <2>3. KindAt(label, j) = inflight[c].kind
    BY <2>1 DEF KindAt
  <2>4. /\ job'[t] = j /\ out'[t] = out[t] /\ pc'[t] = label
        /\ \A u \in Everyone \ {t} : pc'[u] = pc[u] /\ job'[u] = job[u] /\ out'[u] = out[u]
    BY <2>1, <2>2, MovedValues DEF Base, WorkInv
  <2>5. ~prob'[p].hasId => NoIds(p)'
    <3>1. ASSUME ~prob[p].hasId PROVE NoIds(p)'
      <4>1. \A d \in DOMAIN inflight' : p \notin inflight'[d].ids
        BY <2>2, <3>1 DEF Recorded, NoIds
      <4>2. \A u \in Everyone : p \notin out'[u].ids /\ p \notin job'[u].req.ids
        BY <2>1, <2>2, <2>4, <3>1 DEF Recorded, NoIds
      <4>3. p \notin cancelIds'
        BY <2>2, <3>1 DEF Recorded, NoIds
      <4> QED
        BY <4>1, <4>2, <4>3 DEF NoIds
    <3> QED
      BY <2>2, <3>1
  <2>6. ASSUME p \in live PROVE Wanted(p)'
    <3>0. Wanted(p)
      BY <1>01, <2>6
    <3>1. \A d \in DOMAIN inflight' :
            p \in Elements(inflight'[d].probs) => Asked(inflight'[d].kind, prob'[p])
      BY <2>2, <3>0 DEF Wanted
    <3>2. \A u \in Everyone :
            /\ p \in Elements(out'[u].probs) => Asked(out'[u].kind, prob'[p])
            /\ p \in Elements(job'[u].req.probs) => Asked(KindAt(pc'[u], job'[u]), prob'[p])
      <4> SUFFICES ASSUME NEW u \in Everyone
                   PROVE  /\ p \in Elements(out'[u].probs) => Asked(out'[u].kind, prob[p])
                          /\ p \in Elements(job'[u].req.probs) =>
                               Asked(KindAt(pc'[u], job'[u]), prob[p])
        BY <2>2
      <4>1. CASE u = t
        BY <2>1, <2>2, <2>3, <2>4, <3>0, <4>1 DEF Wanted
      <4>2. CASE u # t
        BY <2>4, <3>0, <4>2 DEF Wanted
      <4> QED
        BY <4>1, <4>2
    <3>3. /\ p \in Elements(unsubmitted') => Asked("SUBMIT", prob'[p])
          /\ p \in Elements(active') => Asked("STATUS", prob'[p])
      BY <2>2, <3>0 DEF Wanted
    <3> QED
      BY <3>1, <3>2, <3>3 DEF Wanted, Elements, Asked, KindAt
  <2> QED
    BY <1>0, <2>2, <2>5, <2>6 DEF Recorded, RecordFits
<1>18. ASSUME NEW t \in Threads, NEW q \in Problems, Submit(t, q) \/ Add(t, q)
       PROVE Recorded(p)'
  <2>1. PICK j : Moves(t, "push", j, out[t]) /\ j.req.probs = <<>> /\ j.req.ids = {}
    <3>1. CASE Submit(t, q)
      <4>1. PICK j : Moves(t, "push", j, out[t]) /\ Blank(j.req)
        BY <3>1, SubmitMoves
      <4> QED
        BY <1>000, <4>1
    <3>2. CASE Add(t, q)
      <4>1. PICK j : Moves(t, "push", j, out[t]) /\ Blank(j.req)
        BY <3>2, AddMoves
      <4> QED
        BY <1>000, <4>1
    <3> QED
      BY <1>18, <3>1, <3>2
  <2>2. /\ UNCHANGED <<inflight, cancelIds>> /\ live' = live \cup {q}
        /\ t \in Everyone /\ prob[q].state = "NEW"
        /\ \/ /\ prob' = [prob EXCEPT ![q] = SubmittingProblem]
              /\ active' = active /\ unsubmitted' = unsubmitted \o <<q>>
           \/ /\ prob' = [prob EXCEPT ![q] = AddedProblem]
              /\ unsubmitted' = unsubmitted /\ active' = active \o <<q>>
    <3>1. CASE Submit(t, q)
      BY <3>1, SubmitMoves
    <3>2. CASE Add(t, q)
      BY <3>2, AddMoves
    <3> QED
      BY <1>18, <3>1, <3>2
  <2>3. <<q>> \in Seq(Problems) /\ Elements(<<q>>) = {q}
    BY SingleOnce
  <2>4. /\ Elements(unsubmitted \o <<q>>) = Elements(unsubmitted) \cup {q}
        /\ Elements(active \o <<q>>) = Elements(active) \cup {q}
    BY <1>0, <1>03, <2>3, ZenonT(60) DEF SharedData
  <2>5. CASE p = q
    <3>1. ~Pending(prob[p]) /\ ~prob[p].hasId /\ PlaceAt(p)
      BY <1>0, <1>04, <2>2, <2>5, FittingRecords DEF Pending
    <3>2. p \notin Elements(unsubmitted) /\ p \notin Elements(active)
      BY <3>1, ProblemAlone
    <3>3. /\ RecordFits(prob'[p])
          /\ p \in Elements(unsubmitted') => Asked("SUBMIT", prob'[p])
          /\ p \in Elements(active') => Asked("STATUS", prob'[p])
      <4>1. CASE /\ prob' = [prob EXCEPT ![q] = SubmittingProblem]
                 /\ active' = active /\ unsubmitted' = unsubmitted \o <<q>>
        BY <1>0, <1>04, <2>5, <3>2, <4>1, FittingRecords DEF SharedData
      <4>2. CASE /\ prob' = [prob EXCEPT ![q] = AddedProblem]
                 /\ unsubmitted' = unsubmitted /\ active' = active \o <<q>>
        BY <1>0, <1>04, <2>5, <3>2, <4>2, FittingRecords DEF SharedData
      <4> QED
        BY <2>2, <4>1, <4>2
    <3> QED
      BY <1>00, <2>1, <2>2, <3>1, <3>3, NewKeepsRecord
  <2>6. CASE p # q
    <3>1. SameFields(p) /\ (p \in live' => p \in live)
      BY <1>0, <2>2, <2>6 DEF SharedData, SameFields
    <3>2. ASSUME p \in live
          PROVE  /\ p \in Elements(unsubmitted') => Asked("SUBMIT", prob'[p])
                 /\ p \in Elements(active') => Asked("STATUS", prob'[p])
                 /\ p \in Elements(out[t].probs) => Asked(out[t].kind, prob'[p])
      BY <1>01, <2>2, <2>4, <2>6, <3>1, <3>2 DEF Wanted, SameFields, Asked
    <3>3. RecordFits(prob'[p])
      BY <1>0, <3>1 DEF RecordFits, SameFields
    <3>4. ~prob'[p].hasId =>
           ~prob[p].hasId /\ p \notin cancelIds' /\ p \notin out[t].ids /\ p \notin j.req.ids
      BY <1>01, <2>1, <2>2, <3>1 DEF SameFields
    <3> QED
      BY <1>00, <2>1, <2>2, <3>1, <3>2, <3>3, <3>4, MoveKeepsRecord
  <2> QED
    BY <2>5, <2>6
<1> QED
  BY <1>1, <1>2, <1>3, <1>4, <1>5, <1>6, <1>7, <1>8, <1>9, <1>10, <1>11, <1>12, <1>13, <1>14,
     <1>15, <1>16, <1>17, <1>18, <1>20, <1>21, <1>22, <1>23, <1>24, <1>25
     DEF Next, Step, UserCall, ServiceReply

\* All records fit their requests, in every reachable state.
RecordsRight == \A p \in Problems : Recorded(p)
\* So every record agrees with its place.
LEMMA RecordsRightHolds == Spec => []RecordsRight
<1>1. Init => RecordsRight
  <2> SUFFICES ASSUME Init, NEW p \in Problems PROVE Recorded(p)
    BY DEF RecordsRight
  <2>1. NoRequest.ids = {} /\ NoJob.req.ids = {}
    BY BlankRequests DEF Blank
  <2>2. live = {} /\ cancelIds = {} /\ prob[p] = NoProblem
    BY DEF Init
  <2>3. NoIds(p)
    BY <2>1 DEF Init, NoIds
  <2>4. RecordFits(NoProblem)
    BY DEF RecordFits, NoProblem
  <2> QED
    BY <2>2, <2>3, <2>4 DEF Recorded
<1>2. Base /\ Base' /\ PlacesRight /\ [Next]_vars /\ RecordsRight => RecordsRight'
  <2> SUFFICES ASSUME Base, Base', PlacesRight, [Next]_vars, RecordsRight PROVE RecordsRight'
    OBVIOUS
  <2>1. \A p \in Problems : Recorded(p)'
    BY NextKeepsRecord DEF PlacesRight, RecordsRight
  <2> QED
    BY <2>1 DEF RecordsRight
<1> QED
  BY <1>1, <1>2, BaseHolds, PlacesRightHolds, PTL DEF Spec

\* A problem the server has accepted is never submitted again, however often it
\* failed and was retried since, and only problems that have an id are polled or
\* cancelled on the server.
THEOREM SubmissionSafe == Spec => []SubmittedOnceThenPolled
<1>1. Base /\ RecordsRight => SubmittedOnceThenPolled
  <2> SUFFICES ASSUME Base, RecordsRight, NEW p \in live
      PROVE  /\ (\/ p \in Elements(unsubmitted)
                 \/ \E c \in DOMAIN inflight :
                      inflight[c].kind = "SUBMIT" /\ p \in Elements(inflight[c].probs))
                => prob[p].lastGood = "SUBMITTING" /\ ~prob[p].hasId
             /\ (\/ p \in Elements(active)
                 \/ \E c \in DOMAIN inflight :
                      inflight[c].kind = "STATUS" /\ p \in Elements(inflight[c].probs))
                => prob[p].lastGood = "SUBMITTED" /\ prob[p].hasId
             /\ (p \in cancelIds \/ \E c \in DOMAIN inflight : p \in inflight[c].ids)
                => prob[p].hasId
    BY DEF SubmittedOnceThenPolled
  <2>1. p \in Problems
    BY DEF Base, CarryInv, SharedData
  <2>2. RecordFits(prob[p]) /\ Wanted(p) /\ (~prob[p].hasId => NoIds(p))
    BY <2>1 DEF RecordsRight, Recorded
  <2> QED
    BY <2>2 DEF Wanted, Asked, RecordFits, NoIds
<1> QED
  BY <1>1, BaseHolds, RecordsRightHolds, PTL

\* DONE is final and the last good state never goes back, whatever replies,
\* failures and calls come in which order.
THEOREM ProgressSafe == Spec => ProgressIsKept
<1>1. ASSUME Base, PlacesRight, RecordsRight, [Next]_vars, NEW p \in Problems
      PROVE  /\ Rank(prob[p].lastGood) <= Rank(prob'[p].lastGood)
             /\ prob[p].state = "DONE" => prob'[p].state = "DONE"
  <2>1. RecordStep(p) /\ RecordFits(prob[p]) /\ Placed(p) /\ prob[p] \in ProblemType
    BY <1>1, NextChangesRecord DEF PlacesRight, RecordsRight, Recorded, Base, CarryInv, SharedData
  <2>2. CASE prob'[p].state = prob[p].state /\ prob'[p].lastGood = prob[p].lastGood
    BY <2>1, <2>2 DEF Rank, RecordFits
  <2>3. CASE prob'[p] = prob[p] \/ \E b \in BOOLEAN : prob'[p] = [prob[p] EXCEPT !.cancelled = b]
    BY <2>1, <2>2, <2>3 DEF ProblemType
  <2>4. CASE Created(p)
    <3>1. prob[p].state = "NEW" /\ prob[p].lastGood = "NEW"
      BY <2>1, <2>4 DEF Created, RecordFits
    <3>2. prob'[p].lastGood \in {"SUBMITTING", "SUBMITTED"}
      BY <2>4 DEF Created, SubmittingProblem, AddedProblem, NoProblem
    <3> QED
      BY <3>1, <3>2 DEF Rank
  <2>5. CASE Advanced(p)
    <3>1. PlaceAt(p) /\ Recorded(p) /\ p \in live
      BY <1>1, <2>1, <2>5 DEF Placed, Known, RecordsRight, Advanced
    <3>2. ASSUME NEW t \in Everyone, p \in Elements(job[t].req.probs), pc[t] = "update",
                 Told(job[t].req.kind, prob[p], prob'[p])
          PROVE  /\ prob[p].lastGood \in {"SUBMITTING", "SUBMITTED"} /\ prob[p].state # "DONE"
                 /\ prob'[p].lastGood \in {"SUBMITTED", "DONE"}
      <4>1. Asked(job[t].req.kind, prob[p])
        BY <3>1, <3>2 DEF Recorded, Wanted, KindAt
      <4>2. job[t].req.kind \in StatusKinds
        BY <1>1, <3>2 DEF Base, CarryInv, Load, ProblemPcs
      <4>3. prob'[p].lastGood \in {"SUBMITTED", "DONE"}
        BY <2>1, <3>2, ToldFields
      <4> QED
        BY <2>1, <4>1, <4>2, <4>3 DEF Asked, StatusKinds, RecordFits
    <3>3. ASSUME NEW t \in Everyone, p \in Elements(job[t].req.probs), pc[t] = "fail",
                 NEW error \in Failures, NEW retry \in BOOLEAN,
                 prob'[p] = WithError(prob[p], error, retry)
          PROVE  /\ prob[p].lastGood \in {"SUBMITTING", "SUBMITTED"} /\ prob[p].state # "DONE"
                 /\ prob'[p].lastGood = prob[p].lastGood
      <4>1. Asked(job[t].req.kind, prob[p])
        BY <3>1, <3>3 DEF Recorded, Wanted, KindAt
      <4>2. job[t].req.kind \in StatusKinds
        BY <1>1, <3>3 DEF Base, CarryInv, Load, ProblemPcs
      <4>3. prob'[p].lastGood = prob[p].lastGood
        BY <2>1, <3>3 DEF WithError, Failures, ProblemType
      <4> QED
        BY <2>1, <4>1, <4>2, <4>3 DEF Asked, StatusKinds, RecordFits
    <3>4. ASSUME Retryable(prob[p]), prob'[p] = WithRetry(prob[p])
          PROVE  prob[p].state # "DONE" /\ prob'[p].lastGood = prob[p].lastGood
      BY <2>1, <3>4 DEF Retryable, WithRetry, ProblemType
    <3>5. \/ prob[p].state # "DONE" /\ prob'[p].lastGood = prob[p].lastGood
          \/ /\ prob[p].lastGood \in {"SUBMITTING", "SUBMITTED"} /\ prob[p].state # "DONE"
             /\ prob'[p].lastGood \in {"SUBMITTED", "DONE"}
      BY <2>5, <3>2, <3>3, <3>4 DEF Advanced
    <3> QED
      BY <2>1, <3>5 DEF Rank, RecordFits
  <2> QED
    BY <2>1, <2>3, <2>4, <2>5 DEF RecordStep
<1>2. Base /\ PlacesRight /\ RecordsRight /\ [Next]_vars =>
        [\A p \in Problems :
           /\ Rank(prob[p].lastGood) <= Rank(prob'[p].lastGood)
           /\ prob[p].state = "DONE" => prob'[p].state = "DONE"]_vars
  BY <1>1
<1> QED
  BY <1>2, BaseHolds, PlacesRightHolds, RecordsRightHolds, PTL DEF Spec, ProgressIsKept
-----------------------------------------------------------------------------
(* Pending problems are not left behind. *)

\* A problem in a list or a request has somebody who will come back for it.
LEMMA CarriedIsScheduled ==
  ASSUME Base, QueueHasWaker, NEW p \in Problems, PlaceAt(p), Pending(prob[p])
  PROVE  SomebodyWillCome
<1>1. \/ p \in Elements(unsubmitted) \/ p \in Elements(active)
      \/ ProblemsOpen(p) # {} \/ ProblemsSent(p) # {} \/ ProblemsHandled(p) # {}
  <2>1. ProblemsOpen(p) = {} => Cardinality(ProblemsOpen(p)) = 0
    BY FS_EmptySet
  <2>2. ProblemsSent(p) = {} => Cardinality(ProblemsSent(p)) = 0
    BY FS_EmptySet
  <2>3. ProblemsHandled(p) = {} => Cardinality(ProblemsHandled(p)) = 0
    BY FS_EmptySet
  <2> QED
    BY <2>1, <2>2, <2>3 DEF PlaceAt, In, Bit
<1>2. ASSUME NEW kind \in Kinds, Requested(kind) PROVE SomebodyWillCome
  <2>1. CASE kind \in Elements(requestQueue)
    BY <2>1, EmptyOnce DEF QueueHasWaker
  <2>2. ASSUME NEW t \in Everyone, pc[t] \in {"push", "pushcancel", "take", "issue"}
        PROVE  SomebodyWillCome
    BY <2>2 DEF SomebodyWillCome, Busy
  <2> QED
    BY <1>2, <2>1, <2>2 DEF Requested, At
<1>3. CASE p \in Elements(unsubmitted)
  BY <1>2, <1>3, EmptyOnce DEF Base, WorkInv, WorkIsRequested, Kinds, StatusKinds
<1>4. CASE p \in Elements(active)
  BY <1>2, <1>4, EmptyOnce DEF Base, WorkInv, WorkIsRequested, Kinds, StatusKinds
<1>5. CASE ProblemsOpen(p) # {}
  BY <1>5 DEF ProblemsOpen, SomebodyWillCome
<1>6. CASE ProblemsSent(p) # {}
  <2>1. PICK t \in Everyone : p \in Elements(out[t].probs)
    BY <1>6 DEF ProblemsSent
  <2>2. pc[t] = "issue"
    BY <2>1, EmptyOnce DEF Base, CarryInv, Load
  <2> QED
    BY <2>2 DEF SomebodyWillCome, Busy
<1>7. CASE ProblemsHandled(p) # {}
  <2>1. PICK t \in Everyone : p \in Elements(job[t].req.probs)
    BY <1>7 DEF ProblemsHandled
  <2>2. pc[t] \in ProblemPcs \cup {"retry", "stop"}
    BY <2>1, EmptyOnce DEF Base, CarryInv, Load
  <2> QED
    BY <2>2 DEF SomebodyWillCome, Busy, ProblemPcs
<1> QED
  BY <1>1, <1>3, <1>4, <1>5, <1>6, <1>7

\* "SAPI_STATE_RETRYING: ... submission/polling is being retried" holds of a
\* client whose senders are prompt: whoever holds a retrying problem, somebody
\* will come back for it.  Without that assumption the code breaks the promise.
THEOREM SchedulingSafe == ASSUME PromptSenders PROVE Spec => []RetryingIsScheduled
<1>1. Base /\ PlacesRight /\ QueueHasWaker => RetryingIsScheduled
  <2> SUFFICES ASSUME Base, PlacesRight, QueueHasWaker, NEW p \in Problems, Retrying(p)
               PROVE  SomebodyWillCome
    BY DEF RetryingIsScheduled
  <2>1. PlaceAt(p) /\ Pending(prob[p])
    BY DEF PlacesRight, Placed, Known, Retrying, Pending
  <2> QED
    BY <2>1, CarriedIsScheduled
<1> QED
  BY <1>1, BaseHolds, PlacesRightHolds, WakerSafe, PTL
=============================================================================
