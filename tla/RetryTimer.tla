----------------------------- MODULE RetryTimer -----------------------------
(***************************************************************************)
(* One retry timer of remote/src/retry-service.cpp: an asio deadline timer *)
(* whose delay grows by a factor from InitDelay up to MaxDelay, and which  *)
(* gives up (answers FAIL) once a wait of the full MaxDelay has gone by.   *)
(*                                                                         *)
(* Three parties touch it.  The owner calls retry() and success().  The    *)
(* single thread of the timer service runs the expiry handler.  Whoever    *)
(* shuts the service down destroys the asio timer.  retry(), success() and *)
(* the first half of the handler hold mutex_; between the moment asio      *)
(* decides that a wait has expired and the moment the handler has mutex_,  *)
(* and again between the handler's two halves, the owner may run.          *)
(*                                                                         *)
(* asio (external): a wait is pending (armed > 0, the delay it waits for)  *)
(* until it expires or is cancelled.  A wait that has expired has its      *)
(* handler queued with a success code and can no longer be cancelled.      *)
(* There is one thread, so nothing expires while a handler runs.           *)
(***************************************************************************)
EXTENDS Naturals

CONSTANTS
  InitDelay,  \* timing_.initDelayMs
  MaxDelay,   \* timing_.maxDelayMs
  ScaleNum,   \* timing_.delayScale is the fraction ScaleNum / ScaleDen
  ScaleDen

\* The constructor throws invalid_argument unless these hold.
ASSUME TimingAssumption ==
  /\ InitDelay \in Nat \ {0}
  /\ MaxDelay \in Nat /\ MaxDelay >= InitDelay
  /\ ScaleDen \in Nat \ {0}
  /\ ScaleNum \in Nat /\ ScaleNum >= ScaleDen

VARIABLES
  present,       \* timer_ is not null: the service has not shut down
  waiting,       \* waiting_
  fail,          \* fail_
  failOnExpiry,  \* failOnExpiry_
  nextDelay,     \* nextDelayMs_
  armed,         \* asio: the delay of the pending wait, 0 if there is none
  expired,       \* asio: the delay of a wait whose handler is queued, or 0
  notifying      \* the handler has released mutex_ and is in notify()

timerVars ==
  <<present, waiting, fail, failOnExpiry, nextDelay, armed, expired, notifying>>

Delays == InitDelay .. MaxDelay

TypeOK ==
  /\ present \in BOOLEAN
  /\ waiting \in BOOLEAN
  /\ fail \in BOOLEAN
  /\ failOnExpiry \in BOOLEAN
  /\ nextDelay \in Delays
  /\ armed \in Delays \cup {0}
  /\ expired \in Delays \cup {0}
  /\ notifying \in BOOLEAN

Init ==
  /\ present = TRUE
  /\ waiting = FALSE
  /\ fail = FALSE
  /\ failOnExpiry = FALSE
  /\ nextDelay = InitDelay
  /\ armed = 0
  /\ expired = 0
  /\ notifying = FALSE

\* The product is compared with the maximum before it is cut to an int.
Backoff(d) ==
  IF d * ScaleNum > MaxDelay * ScaleDen THEN MaxDelay ELSE (d * ScaleNum) \div ScaleDen

\* What retry() returns in the current state.
RetryAction ==
  CASE ~present -> "SHUTDOWN"
    [] present /\ fail -> "FAIL"
    [] OTHER -> "RETRY"

\* Mutant: the delay is compared with the maximum after it has been advanced.
Retry_ComparesNext ==
  /\ IF present /\ ~waiting
     THEN /\ armed' = nextDelay
          /\ waiting' = TRUE
          /\ nextDelay' = Backoff(nextDelay)
          /\ failOnExpiry' = (failOnExpiry \/ nextDelay' >= MaxDelay)
     ELSE UNCHANGED <<armed, waiting, failOnExpiry, nextDelay>>
  /\ UNCHANGED <<present, fail, expired, notifying>>

\* retry(): starts a wait unless one is believed to be under way.
\* expires_from_now cancels a wait that is still pending.
Retry ==
  /\ IF present /\ ~waiting
     THEN /\ armed' = nextDelay
          /\ waiting' = TRUE
          /\ failOnExpiry' = (failOnExpiry \/ nextDelay >= MaxDelay)
          /\ nextDelay' = Backoff(nextDelay)
     ELSE UNCHANGED <<armed, waiting, failOnExpiry, nextDelay>>
  /\ UNCHANGED <<present, fail, expired, notifying>>

\* success(): back to the first delay; cancels what asio can still cancel.
Success ==
  /\ waiting' = FALSE
  /\ fail' = FALSE
  /\ failOnExpiry' = FALSE
  /\ nextDelay' = InitDelay
  /\ armed' = 0
  /\ UNCHANGED <<present, expired, notifying>>

\* asio: the pending wait expires and its handler is queued.
Expire ==
  /\ armed > 0
  /\ expired = 0
  /\ ~notifying
  /\ expired' = armed
  /\ armed' = 0
  /\ UNCHANGED <<present, waiting, fail, failOnExpiry, nextDelay, notifying>>

\* timerExpired, the part that holds mutex_.
TimerExpired ==
  /\ expired > 0
  /\ expired' = 0
  /\ waiting' = FALSE
  /\ fail' = failOnExpiry
  /\ notifying' = TRUE
  /\ UNCHANGED <<present, failOnExpiry, nextDelay, armed>>

\* timerExpired, the rest: target_->notify() returns.
NotifyReturn ==
  /\ notifying
  /\ notifying' = FALSE
  /\ UNCHANGED <<present, waiting, fail, failOnExpiry, nextDelay, armed, expired>>

\* RetryTimerImpl::shutdown(): destroying the asio timer cancels its wait.
Shutdown ==
  /\ present
  /\ present' = FALSE
  /\ armed' = 0
  /\ UNCHANGED <<waiting, fail, failOnExpiry, nextDelay, expired, notifying>>

Next ==
  \/ Retry
  \/ Success
  \/ Expire
  \/ TimerExpired
  \/ NotifyReturn
  \/ Shutdown

\* asio's clock and the service's thread make progress; the owner need not.
Fairness ==
  /\ WF_timerVars(Expire)
  /\ WF_timerVars(TimerExpired)
  /\ WF_timerVars(NotifyReturn)

Spec == Init /\ [][Next]_timerVars
FairSpec == Spec /\ Fairness

-----------------------------------------------------------------------------
\* A timer that refuses to start a wait because it is "waiting" really has
\* one: either asio still counts it down or its handler is queued.  Without
\* this, retry() would answer RETRY and nobody would ever be notified.
WaitingHasWait == (present /\ waiting) => (armed > 0 \/ expired > 0)

\* A wait is recorded as the last one (its expiry makes retry() answer FAIL)
\* only after the delay has grown to its maximum, and is forgotten by
\* success(): the give-up flags never outlive the back-off they belong to.
GiveUpAtMaximum == (fail \/ failOnExpiry) => nextDelay = MaxDelay

\* retry() starts to answer FAIL only once a wait of at least the last delay
\* before the maximum has gone by: a notification that was already queued when
\* success() ran can make the timer give up early, but by no more than one step
\* of the back-off.
FailsLateInBackoff ==
  [][(~fail /\ fail') => expired >= MaxDelay \/ Backoff(expired) = MaxDelay]_timerVars

\* The schedule the test RetryFails spells out (delays 20, 30 and 40, then
\* FAIL): retry() starts to answer FAIL only when a wait of the full maximum
\* delay has gone by.  The code breaks it: success() cannot recall a handler
\* that is already queued, and that handler ends the next wait early.
FailsAfterFullWait == [][(~fail /\ fail') => expired >= MaxDelay]_timerVars
=============================================================================
