------------------------------ MODULE MCClient ------------------------------
(***************************************************************************)
(* Three parts of the client that share no state, each checked on its own  *)
(* within one run: the waits (Await), the shared services of the C client  *)
(* with their problem managers and timers (GlobalState), and one retry     *)
(* timer with all its delays (RetryTimer).  A behaviour is one of a single *)
(* part.                                                                   *)
(***************************************************************************)
EXTENDS Await, GlobalState, RetryTimer

VARIABLE part

clientVars == <<awaitVars, globalVars, timerVars, part>>

MCMinCount == -1

\* Bound: a wait is for all problems, of which one may meet network
\* errors, and the problems stop moving when every wait has returned.
AwaitBound ==
  /\ \A w \in Waits : asked'[w] \in {{}, Watched}
  /\ \A p, q \in Watched : rec'[p].error = "NETWORK" /\ rec'[q].error = "NETWORK" => p = q
  /\ rec' # rec => \E w \in Waits : ~Returned(w)

ClientInit == AwaitInit /\ GlobalInit /\ Init /\ part \in {"await", "global", "timer"}
ClientNext ==
  /\ \/ part = "await" /\ AwaitNext /\ AwaitBound /\ UNCHANGED <<globalVars, timerVars>>
     \/ part = "global" /\ GlobalNext /\ UNCHANGED <<awaitVars, timerVars>>
     \/ part = "timer" /\ Next /\ UNCHANGED <<awaitVars, globalVars>>
  /\ UNCHANGED part

\* A part that does not run has no step that fairness asks for.
ClientFairness == AwaitFairness /\ GlobalFairness /\ Fairness

ClientSpec == ClientInit /\ [][ClientNext]_clientVars /\ ClientFairness
=============================================================================
