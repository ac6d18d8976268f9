------------------------- MODULE RetryTimer_proofs --------------------------
(***************************************************************************)
(* Proofs about RetryTimer for every timing the constructor accepts.       *)
(***************************************************************************)
EXTENDS RetryTimer, TLAPS

USE DEF TimingAssumption

\* Every delay lies between the first and the longest one.
LEMMA DelayFacts ==
  /\ InitDelay \in Delays /\ MaxDelay \in Delays
  /\ \A d \in Delays : d \in Nat /\ d > 0 /\ InitDelay <= d /\ d <= MaxDelay
  BY TimingAssumption DEF Delays

\* Rounding down loses no whole multiple: the two bounds on a quotient.
LEMMA QuotientBounds ==
  ASSUME NEW a \in Nat, NEW k \in Nat, NEW m \in Nat \ {0}
  PROVE  /\ a \div m \in Nat
         /\ a <= k * m => a \div m <= k
         /\ a >= k * m => a \div m >= k
  OBVIOUS

\* The next delay of the back-off is a delay, no shorter than the one before,
\* and the longest delay is followed by itself.
LEMMA BackoffType ==
  ASSUME NEW d \in Delays
  PROVE  /\ Backoff(d) \in Delays
         /\ d >= MaxDelay => Backoff(d) = MaxDelay
  <1>. DEFINE a == d * ScaleNum
  <1>1. d \in Nat /\ InitDelay <= d /\ d <= MaxDelay /\ MaxDelay \in Nat /\ InitDelay \in Nat
    BY TimingAssumption DEF Delays
  <1>2. a \in Nat /\ a >= d * ScaleDen
    BY <1>1, TimingAssumption
  <1>3. CASE a > MaxDelay * ScaleDen
    BY <1>1, <1>3 DEF Backoff, Delays
  <1>4. CASE ~(a > MaxDelay * ScaleDen)
    <2>1. a <= MaxDelay * ScaleDen
      BY <1>1, <1>2, <1>4, TimingAssumption
    <2>2. a \div ScaleDen <= MaxDelay /\ a \div ScaleDen \in Nat
      BY <1>1, <1>2, <2>1, QuotientBounds, TimingAssumption
    <2>3. a \div ScaleDen >= d
      BY <1>1, <1>2, QuotientBounds, TimingAssumption
    <2>4. Backoff(d) = a \div ScaleDen
      BY <1>4 DEF Backoff
    <2> QED
      BY <1>1, <2>2, <2>3, <2>4 DEF Delays
  <1> QED
    BY <1>3, <1>4
-----------------------------------------------------------------------------
\* Every variable keeps its type.
THEOREM TypeCorrect == Spec => []TypeOK
  <1>1. Init => TypeOK
    BY DelayFacts DEF Init, TypeOK
  <1>2. TypeOK /\ [Next]_timerVars => TypeOK'
    <2> SUFFICES ASSUME TypeOK, [Next]_timerVars PROVE TypeOK'
      OBVIOUS
    <2> USE DEF TypeOK
    <2>1. CASE Retry
      BY <2>1, BackoffType DEF Retry
    <2>2. CASE Success
      BY <2>2, DelayFacts DEF Success
    <2>3. CASE Expire
      BY <2>3 DEF Expire
    <2>4. CASE TimerExpired
      BY <2>4 DEF TimerExpired
    <2>5. CASE NotifyReturn
      BY <2>5 DEF NotifyReturn
    <2>6. CASE Shutdown
      BY <2>6 DEF Shutdown
    <2>7. CASE UNCHANGED timerVars
      BY <2>7 DEF timerVars
    <2> QED
      BY <2>1, <2>2, <2>3, <2>4, <2>5, <2>6, <2>7 DEF Next
  <1> QED
    BY <1>1, <1>2, PTL DEF Spec

\* A timer that is "waiting" always has a wait that ends in a notification, for
\* every interleaving of the owner, the service's thread and a shutdown.
THEOREM WaitingSafe == Spec => []WaitingHasWait
  <1>1. Init => WaitingHasWait
    BY DEF Init, WaitingHasWait
  <1>2. TypeOK /\ WaitingHasWait /\ [Next]_timerVars => WaitingHasWait'
    <2> SUFFICES ASSUME TypeOK, WaitingHasWait, [Next]_timerVars PROVE WaitingHasWait'
      OBVIOUS
    <2> USE DEF TypeOK, WaitingHasWait
    <2>1. CASE Retry
      <3>1. nextDelay > 0
        BY DelayFacts
      <3> QED
        BY <2>1, <3>1 DEF Retry
    <2>2. CASE Success
      BY <2>2 DEF Success
    <2>3. CASE Expire
      BY <2>3 DEF Expire
    <2>4. CASE TimerExpired
      BY <2>4 DEF TimerExpired
    <2>5. CASE NotifyReturn
      BY <2>5 DEF NotifyReturn
    <2>6. CASE Shutdown
      BY <2>6 DEF Shutdown
    <2>7. CASE UNCHANGED timerVars
      BY <2>7 DEF timerVars
    <2> QED
      BY <2>1, <2>2, <2>3, <2>4, <2>5, <2>6, <2>7 DEF Next
  <1> QED
    BY <1>1, <1>2, TypeCorrect, PTL DEF Spec
-----------------------------------------------------------------------------
(***************************************************************************)
(* The give-up rule.  What the flags say depends on which wait the handler *)
(* belongs to: the pending wait is the one before nextDelay; a handler     *)
(* that is queued while the timer is not "waiting" is either left over     *)
(* from before a success() or belongs to the wait before nextDelay.        *)
(***************************************************************************)
ArmedIsLatest == armed > 0 => nextDelay = Backoff(armed)
QueuedIsRecent ==
  (expired > 0 /\ ~waiting) => nextDelay = InitDelay \/ nextDelay = Backoff(expired)
GivesUpLate ==
  (expired > 0 /\ failOnExpiry) => expired >= MaxDelay \/ Backoff(expired) = MaxDelay

BackoffInv == GiveUpAtMaximum /\ ArmedIsLatest /\ QueuedIsRecent /\ GivesUpLate

\* The strengthening holds from the start and is kept by every step.
LEMMA BackoffInvHolds == Spec => []BackoffInv
  <1>1. Init => BackoffInv
    BY DEF Init, BackoffInv, GiveUpAtMaximum, ArmedIsLatest, QueuedIsRecent, GivesUpLate
  <1>2. TypeOK /\ BackoffInv /\ [Next]_timerVars => BackoffInv'
    <2> SUFFICES ASSUME TypeOK, BackoffInv, [Next]_timerVars PROVE BackoffInv'
      OBVIOUS
    <2> USE DEF BackoffInv, GiveUpAtMaximum, ArmedIsLatest, QueuedIsRecent, GivesUpLate
    <2>1. CASE Retry
      <3>1. nextDelay \in Delays /\ nextDelay <= MaxDelay
        BY TimingAssumption DEF TypeOK, Delays
      <3>2. nextDelay >= MaxDelay => Backoff(nextDelay) = MaxDelay
        BY <3>1, BackoffType
      <3>3. CASE present /\ ~waiting
        <4>1. armed' = nextDelay /\ waiting' /\ nextDelay' = Backoff(nextDelay)
              /\ failOnExpiry' = (failOnExpiry \/ nextDelay >= MaxDelay)
              /\ fail' = fail /\ expired' = expired
          BY <2>1, <3>3 DEF Retry
        <4>2. nextDelay = MaxDelay => nextDelay >= MaxDelay
          BY <3>1, TimingAssumption
        <4>3. GiveUpAtMaximum'
          BY <3>2, <4>1, <4>2
        <4>4. ArmedIsLatest' /\ QueuedIsRecent'
          BY <4>1 DEF Backoff
        <4>5. GivesUpLate'
          <5> SUFFICES ASSUME expired > 0, nextDelay >= MaxDelay
                       PROVE  expired >= MaxDelay \/ Backoff(expired) = MaxDelay
            BY <4>1 DEF Backoff
          <5>1. nextDelay = MaxDelay
            BY <3>1, TimingAssumption DEF TypeOK, Delays
          <5>2. nextDelay = InitDelay \/ nextDelay = Backoff(expired)
            BY <3>3
          <5>3. nextDelay = InitDelay => expired >= MaxDelay
            BY <5>1, TimingAssumption DEF TypeOK, Delays
          <5> QED
            BY <5>1, <5>2, <5>3
        <4> QED
          BY <4>3, <4>4, <4>5
      <3>4. CASE ~(present /\ ~waiting)
        BY <2>1, <3>4 DEF Retry, Backoff
      <3> QED
        BY <3>3, <3>4
    <2>2. CASE Success
      BY <2>2 DEF Success
    <2>3. CASE Expire
      BY <2>3 DEF Expire, Backoff
    <2>4. CASE TimerExpired
      BY <2>4 DEF TimerExpired, Backoff
    <2>5. CASE NotifyReturn
      BY <2>5 DEF NotifyReturn, Backoff
    <2>6. CASE Shutdown
      BY <2>6 DEF Shutdown, Backoff
    <2>7. CASE UNCHANGED timerVars
      BY <2>7 DEF timerVars, Backoff
    <2> QED
      BY <2>1, <2>2, <2>3, <2>4, <2>5, <2>6, <2>7 DEF Next
  <1> QED
    BY <1>1, <1>2, TypeCorrect, PTL DEF Spec

\* The give-up flags are set only at the end of a back-off.
THEOREM GiveUpSafe == Spec => []GiveUpAtMaximum
  <1>1. BackoffInv => GiveUpAtMaximum
    BY DEF BackoffInv
  <1> QED
    BY <1>1, BackoffInvHolds, PTL

\* The timer gives up at most one step of the back-off before its last wait.
THEOREM GiveUpTimely == Spec => FailsLateInBackoff
  <1>1. BackoffInv /\ [Next]_timerVars
          => [(~fail /\ fail') => expired >= MaxDelay \/ Backoff(expired) = MaxDelay]_timerVars
    <2> SUFFICES ASSUME BackoffInv, Next, ~fail, fail'
                 PROVE  expired >= MaxDelay \/ Backoff(expired) = MaxDelay
      OBVIOUS
    <2>1. TimerExpired
      BY DEF Next, Retry, Success, Expire, NotifyReturn, Shutdown
    <2>2. expired > 0 /\ failOnExpiry
      BY <2>1 DEF TimerExpired
    <2> QED
      BY <2>2 DEF BackoffInv, GivesUpLate
  <1> QED
    BY <1>1, BackoffInvHolds, PTL DEF Spec, FailsLateInBackoff
=============================================================================
