---------------------------- MODULE GlobalState ----------------------------
(***************************************************************************)
(* The life of the C client's shared services (c-client/src/global.cpp)    *)
(* and of the problem managers and retry timers that use them              *)
(* (remote/src/retry-service.cpp, remote/src/problem-manager.cpp).         *)
(*                                                                         *)
(* sapi_globalInit and sapi_globalCleanup count; the first creates the     *)
(* http service, the answer pool and the retry service, the last destroys  *)
(* them in that order while it holds the mutex of the manager of the       *)
(* global state.  A connection owns a problem manager; requests under way  *)
(* own it too, so that the last owner may be an http thread.  Every        *)
(* manager has a retry timer, whose notification the retry service's own   *)
(* thread runs.                                                            *)
(*                                                                         *)
(* Abstractions.  A manager's requests are one owner, "http".  The delays  *)
(* of the timers are not modelled (RetryTimer has them).  The expiry       *)
(* handler is bound to a raw timer: if the timer is gone when it runs the  *)
(* outcome is undefined, and here it then does nothing.  The connections   *)
(* are used as dwave_sapi.h:1308 asks: none is freed while the last        *)
(* sapi_globalCleanup runs.                                                *)
(***************************************************************************)
EXTENDS Integers, FiniteSets

CONSTANTS
  Managers,   \* problem managers that may ever be made
  None,       \* no manager
  MaxCount,   \* bound: calls of sapi_globalInit not yet undone
  MinCount    \* bound: minus the calls of sapi_globalCleanup too many

ASSUME GlobalAssumption ==
  /\ None \notin Managers
  /\ MaxCount \in Nat \ {0}
  /\ MinCount \in Int /\ MinCount <= 0

VARIABLES
  count,      \* count_
  phase,      \* gs_: "none", "up", or how far ~GlobalState has come
  manager,    \* "none", "live", "dying" (in its destructor) or "dead"
  owners,     \* shared pointers to a manager: subsets of Owners
  dyingBy,    \* the thread that destroys a manager
  timer,      \* its retry timer: "none", "alive", "shut" or "gone"
  asioWait,   \* the timer's asio wait: "idle", "armed" or "queued"
  registry,   \* timers_ of the retry service
  unshut,       \* the timers shutdownImpl has yet to visit
  beingNotified   \* the manager whose notification the timer thread runs

globalVars ==
  <<count, phase, manager, owners, dyingBy, timer, asioWait, registry, unshut, beingNotified>>

Stopping == {"http", "pool", "timers", "join"}
Owners == {"user", "http", "stranded"}

GlobalTypeOK ==
  /\ count \in MinCount .. MaxCount
  /\ phase \in {"none", "up"} \cup Stopping
  /\ manager \in [Managers -> {"none", "live", "dying", "dead"}]
  /\ owners \in [Managers -> SUBSET Owners]
  /\ dyingBy \in [Managers -> {"nobody", "user", "http"}]
  /\ timer \in [Managers -> {"none", "alive", "shut", "gone"}]
  /\ asioWait \in [Managers -> {"idle", "armed", "queued"}]
  /\ registry \subseteq Managers
  /\ unshut \subseteq registry
  /\ beingNotified \in Managers \cup {None}

GlobalInit ==
  /\ count = 0
  /\ phase = "none"
  /\ manager = [m \in Managers |-> "none"]
  /\ owners = [m \in Managers |-> {}]
  /\ dyingBy = [m \in Managers |-> "nobody"]
  /\ timer = [m \in Managers |-> "none"]
  /\ asioWait = [m \in Managers |-> "idle"]
  /\ registry = {}
  /\ unshut = {}
  /\ beingNotified = None

managerVars == <<manager, owners, dyingBy, timer, asioWait, registry, beingNotified>>

-----------------------------------------------------------------------------
(* sapi_globalInit and sapi_globalCleanup; both hold mutex_ *)

MutexFree == phase \notin Stopping

\* Mutant: counted before the services are made, which may fail.
Up_CountsFirst(made) ==
  /\ MutexFree /\ count < MaxCount
  /\ count' = count + 1
  /\ phase' = IF count = 0 /\ made THEN "up" ELSE phase
  /\ UNCHANGED <<managerVars, unshut>>

\* init(); made is FALSE if the constructor of GlobalState throws.
Up(made) ==
  /\ MutexFree /\ count < MaxCount
  /\ IF count = 0 /\ ~made THEN UNCHANGED count ELSE count' = count + 1
  /\ phase' = IF count = 0 /\ made THEN "up" ELSE phase
  /\ UNCHANGED <<managerVars, unshut>>

\* cleanup(); a call too many makes the count negative.
Down ==
  /\ MutexFree /\ count > MinCount
  /\ count = 1 => \A m \in Managers : dyingBy[m] # "user"
  /\ count' = count - 1
  /\ phase' = IF count = 1 THEN "http" ELSE phase
  /\ UNCHANGED <<managerVars, unshut>>

\* Mutant: the http service is told to stop but not waited for.
HttpStopped_NoWait ==
  /\ phase = "http"
  /\ phase' = "pool"
  /\ UNCHANGED <<count, managerVars, unshut>>

\* The http service's shutdown returns when its threads have ended.  Requests
\* that are left, because their connection fell off the list of those that are
\* done or their callback came to the pool too late (HttpService), are never
\* answered; they own their manager for good, which owns the service they are in.
HttpStopped ==
  /\ phase = "http"
  /\ \A m \in Managers : dyingBy[m] # "http"
  /\ phase' = "pool"
  /\ owners' = [m \in Managers |->
       IF "http" \in owners[m] THEN (owners[m] \ {"http"}) \cup {"stranded"} ELSE owners[m]]
  /\ UNCHANGED <<count, manager, dyingBy, timer, asioWait, registry, unshut, beingNotified>>

\* The answer pool's shutdown returns; the retry service's begins.
PoolStopped ==
  /\ phase = "pool"
  /\ phase' = "timers"
  /\ unshut' = registry
  /\ UNCHANGED <<count, managerVars>>

\* shutdownImpl's loop: a timer that is being destroyed cannot be locked.
ShutTimer(m) ==
  /\ phase = "timers" /\ m \in unshut
  /\ unshut' = unshut \ {m}
  /\ IF manager[m] = "live"
     THEN /\ timer' = [timer EXCEPT ![m] = "shut"]
          /\ asioWait' = [asioWait EXCEPT ![m] = IF @ = "armed" THEN "idle" ELSE @]
     ELSE UNCHANGED <<timer, asioWait>>
  /\ UNCHANGED <<count, phase, manager, owners, dyingBy, registry, beingNotified>>

JoinTimerThread ==
  /\ phase = "timers" /\ unshut = {}
  /\ phase' = "join"
  /\ UNCHANGED <<count, managerVars, unshut>>

\* The thread runs out of work; the io service and the registry go.
TimerThreadJoined ==
  /\ phase = "join"
  /\ beingNotified = None
  /\ \A m \in Managers : asioWait[m] # "queued" /\ (asioWait[m] = "armed" => timer[m] # "alive")
  /\ phase' = "none"
  /\ registry' = {}
  /\ UNCHANGED <<count, manager, owners, dyingBy, timer, asioWait, unshut, beingNotified>>

-----------------------------------------------------------------------------
(* Connections, their managers and requests *)

\* sapi_remoteConnection: makeProblemManager throws unless the services are up.
Connect(m) ==
  /\ phase = "up" /\ manager[m] = "none"
  /\ manager' = [manager EXCEPT ![m] = "live"]
  /\ owners' = [owners EXCEPT ![m] = {"user"}]
  /\ timer' = [timer EXCEPT ![m] = "alive"]
  /\ registry' = registry \cup {m}
  /\ UNCHANGED <<count, phase, dyingBy, asioWait, unshut, beingNotified>>

\* A call of the user sends a request; its callback owns the manager.
Request(m) ==
  /\ phase = "up" /\ "user" \in owners[m]
  /\ owners' = [owners EXCEPT ![m] = @ \cup {"http"}]
  /\ UNCHANGED <<count, phase, manager, dyingBy, timer, asioWait, registry, unshut, beingNotified>>

\* A thread drops its shared pointer; the last one begins the destruction.
Drop(m, who) ==
  /\ owners' = [owners EXCEPT ![m] = @ \ {who}]
  /\ manager' = [manager EXCEPT ![m] = IF owners[m] = {who} THEN "dying" ELSE @]
  /\ dyingBy' = [dyingBy EXCEPT ![m] = IF owners[m] = {who} THEN who ELSE @]

\* An http thread answers a request of m: the callback may start the retry
\* timer and may send further requests; when it returns it is dropped.
ReplyArrives(m, again, retry) ==
  /\ "http" \in owners[m]
  /\ again => phase = "up"
  /\ asioWait' = [asioWait EXCEPT ![m] = IF retry /\ timer[m] = "alive" /\ @ = "idle" THEN "armed" ELSE @]
  /\ IF again THEN UNCHANGED <<owners, manager, dyingBy>> ELSE Drop(m, "http")
  /\ UNCHANGED <<count, phase, timer, registry, unshut, beingNotified>>

\* sapi_freeConnection, for the last object of the user that owns the manager.
Free(m) ==
  /\ MutexFree /\ "user" \in owners[m]
  /\ Drop(m, "user")
  /\ UNCHANGED <<count, phase, timer, asioWait, registry, unshut, beingNotified>>

\* ~RetryTimerImpl: a timer that has not been shut down leaves the registry,
\* unless the service iterates over it; its asio wait is cancelled.
RemoveTimer(m) ==
  /\ manager[m] = "dying" /\ timer[m] \in {"alive", "shut"}
  /\ registry' = IF timer[m] = "alive" /\ phase \in {"up", "http", "pool"}
                 THEN registry \ {m} ELSE registry
  /\ timer' = [timer EXCEPT ![m] = "gone"]
  /\ asioWait' = [asioWait EXCEPT ![m] = IF @ = "armed" THEN "idle" ELSE @]
  /\ UNCHANGED <<count, phase, manager, owners, dyingBy, unshut, beingNotified>>

Destroyed(m) ==
  /\ manager[m] = "dying" /\ timer[m] = "gone"
  /\ manager' = [manager EXCEPT ![m] = "dead"]
  /\ dyingBy' = [dyingBy EXCEPT ![m] = "nobody"]
  /\ UNCHANGED <<count, phase, owners, timer, asioWait, registry, unshut, beingNotified>>

-----------------------------------------------------------------------------
(* The retry service's thread *)

WaitExpires(m) ==
  /\ asioWait[m] = "armed" /\ timer[m] = "alive"
  /\ asioWait' = [asioWait EXCEPT ![m] = "queued"]
  /\ UNCHANGED <<count, phase, manager, owners, dyingBy, timer, registry, unshut, beingNotified>>

\* Mutant: a handler that finds its timer shut down waits again.
HandleExpiry_Again(m) ==
  /\ asioWait[m] = "queued" /\ beingNotified = None
  /\ asioWait' = [asioWait EXCEPT ![m] = IF timer[m] = "shut" THEN @ ELSE "idle"]
  /\ beingNotified' = IF manager[m] \in {"live", "dying"} /\ timer[m] \in {"alive", "shut"}
                  THEN m ELSE None
  /\ UNCHANGED <<count, phase, manager, owners, dyingBy, timer, registry, unshut>>

\* timerExpired: target_ is locked until the manager's members are destroyed.
HandleExpiry(m) ==
  /\ asioWait[m] = "queued" /\ beingNotified = None
  /\ asioWait' = [asioWait EXCEPT ![m] = "idle"]
  /\ beingNotified' = IF manager[m] \in {"live", "dying"} /\ timer[m] \in {"alive", "shut"}
                  THEN m ELSE None
  /\ UNCHANGED <<count, phase, manager, owners, dyingBy, timer, registry, unshut>>

\* retryNotification sends the next request and returns.
Notified(sends) ==
  /\ beingNotified # None
  /\ beingNotified' = None
  /\ sends => phase = "up" /\ manager[beingNotified] = "live"
  /\ owners' = IF sends THEN [owners EXCEPT ![beingNotified] = @ \cup {"http"}] ELSE owners
  /\ UNCHANGED <<count, phase, manager, dyingBy, timer, asioWait, registry, unshut>>

-----------------------------------------------------------------------------

CleanupStep ==
  \/ HttpStopped \/ PoolStopped \/ JoinTimerThread \/ TimerThreadJoined
  \/ \E m \in Managers : ShutTimer(m)

HttpStep(m) ==
  \/ \E again, retry \in BOOLEAN : ReplyArrives(m, again, retry)
  \/ RemoveTimer(m)
  \/ Destroyed(m)

TimerStep == (\E m \in Managers : HandleExpiry(m)) \/ \E sends \in BOOLEAN : Notified(sends)

GlobalNext ==
  \/ \E made \in BOOLEAN : Up(made)
  \/ Down
  \/ CleanupStep
  \/ \E m \in Managers : Connect(m) \/ Request(m) \/ Free(m) \/ HttpStep(m) \/ WaitExpires(m)
  \/ TimerStep

GlobalSpec == GlobalInit /\ [][GlobalNext]_globalVars

\* The threads run and the network answers or fails; a reply need not lead to
\* another request, but nothing says it does not.
GlobalFairness ==
  /\ WF_globalVars(CleanupStep)
  /\ WF_globalVars(TimerStep)
  /\ \A m \in Managers : WF_globalVars(HttpStep(m))

\* The services exist exactly while more calls of sapi_globalInit than of
\* sapi_globalCleanup have succeeded, whatever the order of the calls (what
\* test-global.cpp:95-118 says of one sequence).
ServicesFollowCount ==
  /\ phase = "up" <=> count > 0
  /\ phase \in Stopping => count = 0

\* No deadline timer outlives the io service it belongs to, and none can keep
\* the thread that cleanup joins waiting: what the order of the three shutdowns
\* in ~GlobalState and the weak pointers of the registry are for.
TimersDieInTime ==
  phase \in {"join", "none"} => \A m \in Managers : timer[m] # "alive"

\* sapi_globalCleanup returns, whatever is under way when it is called.
CleanupEnds == phase \in Stopping ~> phase = "none"
=============================================================================
