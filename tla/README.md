# A TLA+ model of the SAPI clients

The repository holds the client side of D-Wave's SAPI service: a C++ library
that talks to the server (`remote`), a C interface over it (`c-client`), Python
and Matlab clients, local solvers, and several algorithms that prepare problems
(embedding, variable fixing, degree reduction, QSage).  These modules model the
asynchronous core in `remote/src`, where correctness depends on the order in
which threads, callbacks, timers and replies meet, the C client over it, and
the algorithms.  TLC checks each module on small instances; TLAPS proves all
invariants and action properties of the asynchronous part and of the C client's
calls, and those of most of the algorithms (QSage, embedding and unembedding,
the local solvers, parameters, degree reduction), for every value of the
constants.

## 1. Inventory

Paths are below `src/`.  Every component is listed in `PROJECT.json` with its
status, every hazard with its line and the properties that are about it.

| Component | State it keeps | Operations | Talks to |
|---|---|---|---|
| Retry timer service (`remote/src/retry-service.cpp`) | per timer: `waiting_`, `fail_`, `failOnExpiry_`, `nextDelayMs_`, an asio timer; per service: a registry of timers, `running_`, one thread | `retry`, `success`, expiry handler, `createRetryTimer`, `removeTimer`, `shutdown` | calls `notify()` of its owner from its own thread |
| Submitted problem (`problem-manager.cpp`, `SubmittedProblemImpl`) | state, last good state, remote status, error, id, cancel flag, observers | `updateStatus`, `setError`, `setProblemId`, `cancel`, `checkCancelled`, `retry`, `answer`, `addSubmittedProblemObserver` | held weakly by the manager, strongly by users |
| Problem manager (`ProblemManagerImpl`) | lists of unsubmitted problems, active problems, ids to cancel, pending fetches; the queue of request types, free request slots, retry state | `submitProblem`, `addProblem`, `processRequestQueue` and its four senders, nine reply callbacks, `retryNotification` | SAPI service below, answer service above, a retry timer |
| Thread pool (`threadpool.cpp`) | work queue, `running_`, threads | `post`, the worker loop, `shutdown` | runs callbacks |
| Http service (`http-service.cpp`) | per connection: state, result, `next_`; `doneHead_`, `activeConnections_`, curl's multi handle, `running_`; `sockets_`, a timer | `asyncGet/Post/Delete`, `socketAction`, `timerExpired`, libcurl's callbacks, `invokeCompletedCallbacks`, `shutdown`, destruction | libcurl, asio, a thread pool for the callbacks |
| SAPI service (`sapi-service.cpp`) | none of its own | build requests, check replies, split them over problems | http service, problem manager |
| Answer service, await (`answer-service.cpp`, `await.cpp`) | counters and notifiers of one wait | post answers and notifications; `awaitSubmission`, `awaitCompletion` | thread pool; observers of problems |
| QP coding (`base64.cpp`, `encode-qp.cpp`, `decode-qp.cpp`) | none | encode problems, decode answers | |
| C client, global state (`c-client/src/global.cpp`) | reference count, the services | `sapi_globalInit`, `sapi_globalCleanup` | creates and shuts down the services above |
| C client, calls (`remote.cpp`, `local.cpp`, `sapi-impl.cpp`, `internal.cpp`, `dwave_sapi.cpp`) | submitted problems by handle; solver properties | submit, solve, status, done, result, retry, cancel, await; parameters; Chimera graphs | problem manager, local solvers |
| C client, problems (`embed-problem.cpp`, `unembed-answer.cpp`, `conversions.cpp`, `fix-variables.cpp`) | local data | embed a problem and read its answer back; degree reduction | |
| Fix variables, find embedding, QSage, local solvers | local data of one call | the algorithms | callbacks of the caller: clock, cancel, objective |
| JSON, enum names, bindings, Python and Matlab clients, test server, packaging | | text, glue, build | not modelled |

Interactions: a user's thread calls the problem manager, which calls the SAPI
service, which hands a connection to the http service.  curl reports the
connection on the asio thread, which posts the callback to the http service's
pool.  On a pool thread the callback goes up again through the SAPI service to
the manager, which moves the problems on and tells observers through the
answer service's pool; a wait is one such observer per problem.  On a network
failure the manager starts a wait of its retry timer, whose thread calls back
when it ends.  `sapi_globalCleanup` stops http service, answer pool and retry
service, in this order, under connections and requests that may outlive them.

What is hard:

* `ProblemManagerImpl` has five mutexes and never holds more than two; every
  operation is a series of critical sections between which any other may run.
* A request is made without a mutex, so its reply, its whole retry wait and the
  notification may be over before the sender has its mutex back.
* Timer waits cannot be recalled once asio has queued their handlers; nor can
  handlers of sockets, whose numbers the kernel uses again.
* Shutdown finds connections in any state, on a list linked through the
  connections themselves, and managers with any owner.
* Four things rest on one notification each: the pool's workers, the retry
  wait, the waiting user, and libcurl waiting for a socket.
* A problem's record is read by the client through two translations, at two
  times, while replies and retries change it.
* The algorithms work in place on structures whose consistency is implicit:
  chains that lose qubits one at a time, residual networks, tabu lists, packed
  bits.

What makes each component correct:

* timer: a timer that refuses to start a wait has one; it gives up at the end
  of the back-off only;
* problem manager: slots are neither lost nor created; a problem is in exactly
  one place; a problem the server has accepted is never submitted again; queued
  work always has somebody who comes back to it; what is RETRYING is retried;
  cancels have ids and arrive;
* pool: no lost wakeup, nobody runs after the join;
* http service: nobody falls off the list, each callback is called at most
  once, none is forgotten, shutdown returns and leaves no thread; what libcurl
  waits for is watched;
* waits: true is never said too early, and never withheld;
* global state: the services live as long as they are counted, no timer
  outlives its service, cleanup ends;
* client: what status says is what result gives; what is sent is what was asked;
* algorithms: the result is that of a definition that does not mention how it
  was found.

## 2. Modules

| Module | Models | Composed of |
|---|---|---|
| `RetryTimer` | one `RetryTimerImpl` with asio's timer and the service's thread | |
| `SubmittedProblem` | the record of a `SubmittedProblemImpl`, as pure operators | |
| `ProblemManager` | `ProblemManagerImpl` and all threads that run its code | `SubmittedProblem` (EXTENDS), `RetryTimer` (INSTANCE `Timer`, implemented) |
| `Await` | observers, the answer service, `awaitSubmission`, `awaitCompletion` | `SubmittedProblem` |
| `ThreadPool` | `ThreadPoolImpl` | |
| `HttpService` | `HttpServiceImpl`, `CurlMultiService`, `Connection` | `ThreadPool` (INSTANCE `Pool`) |
| `CurlSockets` | sockets, watches and the timer between libcurl and asio | |
| `SapiService` | how replies are checked and who is told | |
| `QpCoding` | encoding, base64, the solver's side, decoding | |
| `GlobalState` | `sapi_globalInit/Cleanup`, the registry of retry timers, the life of managers | |
| `ClientCalls` | the C client's calls on submitted problems | `SubmittedProblem` (implemented) |
| `SolverParameters` | solver properties, parameters, timing | |
| `Chimera` | Chimera and hardware adjacency, the tables of the C4 solvers | |
| `Polynomial` | `sapi_makeQuadratic`, `sapi_reduceDegree` | |
| `Embedding` | `sapi_embedProblem`, `sapi_unembedAnswer` | |
| `FixVariables` | `fixQuboVariables` | |
| `FindEmbedding` | `findEmbedding` | |
| `SparseMatrix`, `CompressedMatrix` | what the matrix of the last two promises, and the matrix | the second implements the first |
| `QSage` | the search of `sapi_solveQSage` | |
| `LocalSolvers` | `orangOptimize`, `orangSample`, `isingHeuristic` | |
| `RetryTimer_proofs`, `ThreadPool_proofs` | theorems about the module they are named after | |
| `ProblemManager_proofs` | theorems about `ProblemManager`: slots, requests, queue and timer; where problems and answer callbacks are kept, and their records | |
| `HttpService_proofs` | theorems about `HttpService` and `CurlSockets` | |
| `Client_proofs` | theorems about `Await`, `GlobalState`, `SapiService`, `ClientCalls` and `Chimera` | `Induction_proofs` (EXTENDS) |
| `Algorithms_proofs` | theorems about `QSage`, `Embedding`, `LocalSolvers`, `SolverParameters`, `Polynomial`, `FixVariables`, `CompressedMatrix` | `Induction_proofs` (EXTENDS) |
| `FindEmbedding_proofs` | theorems about `FindEmbedding` | `Induction_proofs` (EXTENDS) |
| `Induction_proofs` | induction over numbers and finite sets in set form, repeated steps, finite sums | |
| `MC*` | instances for TLC: symmetry, inputs, the ways the manager is used | |

In the concurrent modules **one step is one critical section** together with the
thread-local code around it.  Where a mutex is held over something another
thread can see (curl's callbacks inside `socketAction`, the loop in
`shutdown`), the section is split and the model holds the mutex in between.
In the sequential ones a step is one turn of a loop whose order matters, or a
whole pure computation.  Variables carry the name of the member or local they
stand for, or name it in a comment.  Operators with an underscore after the name
of another (`Unsent_LosesSlot`) are deliberately broken versions of that
one; no specification uses them.  Each shows that one property can fail,
and `PROJECT.json` says which.

### RetryTimer
`Retry` and `Success` are the owner's calls, `Expire` is asio deciding that a
wait is over, `TimerExpired` the part of the handler that has the mutex,
`NotifyReturn` its end, `Shutdown` the destruction of the asio timer.  The delay
scale is a fraction and the product is cut to an integer, as in the code.
`armed` and `expired` hold the *delay* of the wait they stand for: the properties
about giving up need to know how long it was.  The code's `fail_`, once set, is
returned by `retry()` also when that call starts another wait, and the model does
the same.

### SubmittedProblem and ProblemManager
A thread's place is `pc[t]`; its reply or call is `job[t]`, the request it is
about to send `out[t]`.  `owed` are the threads in a callback that has not called
`requestComplete`.  The critical sections map to labels:

| Code | Actions |
|---|---|
| `submitProblem`, `addProblem`, `retry`, `answer` | `Submit`, `Add`, `Retry` + `AddSubmittedProblem`, `Answer` + `FetchAnswer`; then `Push` |
| `processRequestQueue` | `Enter`, `Loop`, `Sent`, `Unsent` |
| `sendSubmitRequest` and the three others | `TakeProblems`, `TakeCancels`, `TakeFetch`; then `Issue` |
| reply callbacks | `Reply`, `StopRetrying`, `StatusComplete`, `DeliverAnswer`, `CheckCancelled`, `PushCancel`, `QueueActive`, `RequestComplete` |
| failure callbacks | `RetryFailedRequest`, `FailProblems`, `RetrySubmit`, `RetryCancel`, `FetchAnswer` |
| `retryNotification` | `RetryNotification` ... `NotificationReturns` |

The server's replies are any status for any problem, a rejection without an id
for a submission, a network failure or another failure, at any time after the
request was made.  Users are described by `Usages`: sets of calls they make, so
that each run looks at one mixture.  Observers are in `Await`, which makes the
same moves of the same record.

`PromptSenders` is an assumption on scheduling, a constant of the module: no
retry notification arrives between a thread's making a request and its having
`requestMutex_` back.  The shortest retry wait is long against that stretch of
code, but nothing enforces it.  `FALSE` is what the code allows; the run
`pm_stall` shows what then goes wrong, and the liveness properties and
`QueueHasWaker` are checked with `TRUE`.  Of the theorems only `WakerSafe` and
`SchedulingSafe` use it, and say so.

### Await
A wait adds its observer to one problem after the other (`AddObserver`, with the
notice a problem that is already there gives at once) and then blocks on its
counter.  `Post` are the notices of a problem's moves; `Notify` is a pool thread
in an observer up to `done_`, `Count` the notifier's counter under its mutex.
Reading the record and posting after it are one step: a notice may stay in the
pool for any time anyway.  `reached` is a history of what has happened to each
problem, because a retry may undo it before the wait returns.

### ThreadPool
`Take`, `Finish` and `WakeUp` (spurious wakeups included) are a worker's loop,
`Post` notifies one waiting worker, `StopWorkers` and `JoinWorkers` are the two
halves of `shutdown`.  A notified worker has to get the mutex like any other, and
may find that another has taken the work.

### HttpService
`Request` adds a connection.  On the asio thread `SocketAction` ... `ActionDone`
is the critical section in which curl works; inside it `HandleDone` puts handles
that curl reports on the done list.  `TakeDone` is the critical section of
`invokeCompletedCallbacks`; `FinishOne` is `Connection::finish` for one member of
the list (the code recurses on `next_` first, hence from last to first), whose
`Answer` posts the callback or, when the pool has stopped, calls it on the
spot.  The closer runs `BeginShutdown`, `FailOne`, `FailedAll`, `TakeDone`, ...,
`Cleanup`, `IoJoined`, `PoolJoined`, once for `shutdown()`, once for the
destructor of the service and once (without the pool) for the destructor of its
member; `Destroy` is the destruction of `activeConnections_`, where the
destructor of a connection finishes it and the list behind it.  `next`
is kept per connection, as in the code, and `List(c)` reads the list off it; this
is what the properties about lost connections are about.

### CurlSockets
`UserCall` and `RunHandler` begin a call of libcurl, `EndCall` ends it; in
between libcurl makes callbacks: `SocketCallback`, `SetSocketActionTimer`,
`OpenSocket`, `CloseSocket`.  `CloseUnseen` is the https library closing a socket
behind the code's back, after which the kernel may give the number out again.
`SetAction`, `EventComplete` and `AsyncSocketIo` are the functions of these
names.  `held`, `wish` and `timerWish` are what libcurl has asked for; the
property compares them with what is watched.

### GlobalState
`Up` and `Down` are `sapi_globalInit` and `sapi_globalCleanup`; the destruction
of the services is `HttpStopped`, `PoolStopped`, `ShutTimer` for each timer of
the registry that can still be locked, `JoinTimerThread`.  A manager is owned by
its connection, by its requests and, while it is being notified, by nobody: the
thread that drops the last owner destroys it, in two steps (`RemoveTimer`,
`Destroyed`) that others may see between.  A request that the http service's
shutdown leaves unanswered (`http_lost`, or a callback that came too late to the
pool) is "stranded": it owns its manager, which owns that service, for good,
and runs no code any more.  Connections are used as
`dwave_sapi.h:1308` asks: none is freed while the last cleanup runs.

### ClientCalls, SolverParameters, Chimera
The record in `ClientCalls` is the one of `SubmittedProblem` without the
abstractions that module makes (each remote status, the exception kept), and
`RecordIsAbstracted` says that every step of it is an operation of
`SubmittedProblem`: what `ProblemManager` and `Await` assume of the record is
so.  `SolverParameters` follows a parameter from its default over what the
server's description lists to the request, and the timing back.  `Chimera`
computes the pairs loop by loop and compares them with the grid.

### SapiService and QpCoding
A call in `SapiService` is answered by one of the ways in which a reply can be
wrong, in the order in which the code meets them; `told` counts what the caller
hears.  `QpCoding` sends a problem to an external solver that knows the order of
the qubits only, and its answer back through base64, whose decoder is a machine
over characters; a damaged answer must be refused.

### The algorithms
`Embedding`: validation, zeros for chains the problem does not use, `PruneLeaf`,
the smearing loop, the spread of values (integers: `Scale` times the code's), and
the four ways to read a sample back. `FixVariables`: posiform and implication
network, Boost's maximum flow as augmentation along any shortest path, then method
2 or the strong components of method 1 one at a time.  `FindEmbedding`: both
phases with restarts, shuffles and time-outs; where the code draws a random
number, the model takes any. Shortest paths are Dijkstra's with the code's order
of the heap, by distance and then by vertex: which of two equally short paths is
taken is the same for all neighbours of a variable, and that matters (section 4).
`QSage`: the tabu phases, the restarts and the limits; samples of the solver are
any, and an exception ends the call.  `LocalSolvers`: the exact solvers by the
definition of an optimum (orang is external), the heuristic step by step.
`Polynomial`: the choice of pairs, the ancillas, the penalty with the weight given
or the default one.  `CompressedMatrix`: bisection, insertion or overwriting, and
the iterator, which implement `SparseMatrix`.

## 3. What TLC checks

| Run | Instance | Shows |
|---|---|---|
| `pm_one_slot` | 2 problems, 2 threads and the timer's, 1 slot, one problem per submission | `ProblemInOnePlace`, `SubmittedOnceThenPolled` |
| `pm_two_slots` | the same with 2 slots: two submissions at once, or a problem that is polled and 2 answer callbacks | `SlotsAccounted`, `WorkIsRequested`, `QueueServed`, `QueueHasWaker`, `FetchInOnePlace` |
| `pm_live` | 1 problem that may be cancelled, 1 slot, 2 delays | `TimerSpec` (the manager implements the timer's specification), `RetryingIsRetried`, `CancelIsSent` |
| `pm_stall` | 1 problem, `PromptSenders = FALSE` | **violates** `RetryingIsScheduled` |
| `http` | 3 connections, 2 workers, shutdown and destruction | `NothingLost`, `CalledAtMostOnce`, `AnsweredWhenGone`, `CallbacksHaveWorkers` |
| `http_live` | 2 connections, 2 workers | `RequestsAreAnswered`, `ShutdownReturns` |
| `http_lost` | 2 connections | **violates** `ShutdownFinishesAll` |
| `client` | one of: a wait for 2 problems; 2 managers with up to 2 initialisations and 3 cleanups; a timer with delays 10, 15, 22, 33, 49, 73, 100 | `TrueMeansEnough`, `EnoughEndsWait`; `ServicesFollowCount`, `TimersDieInTime`, `CleanupEnds`; `FailsLateInBackoff` |
| `timer_early` | delays 20, 30, 40, as in the test RetryFails | **violates** `FailsAfterFullWait` |
| `algorithms` | one of thirteen parts: embedding, variable fixing, degree reduction, QSage, find embedding, local solvers, QP coding, matrix, SAPI replies, sockets, calls, parameters, Chimera | one property or two of each (below) |
| `find_quiet` | the find-embedding part | **violates** `FailureGivesNone` |
| `heuristic_stuck` | the local-solver part, on four coupled spins | **violates** `IterationsHelp` |

What the properties of `algorithms` say:

| Property | In words |
|---|---|
| `EmbeddingKeepsProblem` | after cleaning and smearing the chains are connected and disjoint and every coupling has a coupler; a sample in which no chain is broken has the energy of the original problem |
| `UnembeddingRepairs` | each way of treating broken chains keeps whole ones; minimising the energy is no worse than leaving the broken ones to chance |
| `FixedIsSafe` | no variable is fixed both ways, every minimum ("standard") or some ("optimized") has the fixed values, and the reduced function with its offset has the values of the given one |
| `QuadraticKeepsValues` | the quadratic function has the original value wherever each ancilla is the product it stands for, and elsewhere exceeds it by the penalty weight, the default or a given one, less what the replaced terms may gain |
| `TabuLeavesAMove`, `BestIsKept` | the tabu list never holds all variables; the best state is as good as every neighbour and sample the search has compared, through interrupted phases and restarts |
| `FoundEmbeddingValid` | what is returned as an embedding has connected, disjoint chains that meet where the graph has edges |
| `RootsFound` | however far chains have been cut back, the root of a neighbour and the start of the path from it are in its chain when the minimization looks them up there |
| `AnswersTellTheirEnergy` | reported energies are those of the reported solutions in the problem given, no more reads are counted than were asked for, an exact solution is a minimum |
| `AnswerFitsProblem` | the energy the solver worked out from bare rows of numbers is that of the decoded solution in the caller's problem, qubits not used are marked, and a text whose end is lost is refused |
| `IsSparseMatrix` | the matrix refines a map with iterators in order; an entry that is there is overwritten |
| `AnsweredOnce` | the caller hears of each request once, of a result, of an error, or of an error after a result its callback threw on; a result is whole |
| `WantedIsWatched` | between two calls of libcurl, what it wants watched is watched or its handler is queued |
| `StatusForetellsResult`, `AwaitMeansDone`, `RecordIsAbstracted` | status and result agree; a wait that says enough is right, local problems counted; the record is a sound abstraction |
| `RequestIsAsAsked` | names sent are among those listed, chains sent are the classes the user set |
| `ChimeraIsGrid` | the pairs are those of a grid of complete bipartite cells |

The parts of `algorithms`, and those of `client`, share no state: a behaviour is
one of a single part, and the variables of the others keep an idle value.
Running them together costs no more states than running them apart.

### Bounds, and why they are enough
* Timer: the delay takes at least one step that rounds, several that grow
  and one that is cut to the maximum.  Nothing else about it is unbounded.
* Manager: one submission per request and one or two slots make lists longer
  than a request, so that "the list was left non-empty" happens, and requests
  wait for slots.  Two threads plus the timer's let any two critical sections
  interleave around a notification.  A third thread adds nothing to the pairwise
  races the properties are about, and the slot, queue and timer properties are
  proved for any number.  Status requests may hold two ids, so that one reply
  can end one problem and keep another.  Cancels, which may be repeated at any
  time and multiply the states, are looked at with one slot.  `Conns` is one more
  than the slots: a request too many would be seen, not blocked.
* Http: with three connections two passes of `shutdown` can leave one for the
  destructors; with two they cannot.  Two workers make the lost-wakeup races
  possible.  For liveness two connections are enough: they already compete for the
  asio thread.
* Waits: one wait for two problems of which one may fail and be retried, with
  `min_done` 1 and 3 (more than there are); a second wait shares nothing with it
  but the problems, and the safety property is proved for any number of waits and
  problems.
* Global state: two managers, so that one can be destroyed while the registry
  holds another; the count goes from -1 to 2: after one cleanup too many
  the next initialisation creates nothing, as `test-global.cpp` expects.  Its
  invariants are proved without bound.
* Sockets: one number, which is opened, closed and used again, up to two watches
  of each direction and two queued handlers: the stale handler and the double
  watch occur.  The property is proved for any set of numbers.
* Calls: two handles, so that a wait mixes local and remote problems; when both
  are in use they only wait.  Parameters: each way they differ from the default,
  chains over three qubits with numbers -1, 0 and 1, set with no other parameter.
* Algorithms: inputs in `MCAlgorithms`, chosen so that each branch is taken:
  fields of both signs and zero, terms that cancel, cycles in the target graph, a
  problem that needs a chain of two, one with two components, an isolated
  variable; up to one chain more than the problem has variables; all sign patterns
  on three variables for fixing; polynomials of degree 4 for reduction, with the
  default weight, a weight of 7 and none; matrices of 3 by 3, in which one entry
  may differ from 1 as long as there are at most four; a deceptive minimum and two
  equal ones for QSage; qubits out of order and answers of more than one byte for
  coding; all grids up to 3 by 3 by 3.  The algorithms treat larger inputs by
  repeating these steps; for all but the coding of answers, section 4 has the
  proof that this goes well.
* Deadlock is not checked, because users may stop calling, a service that is
  gone has no further step, and an algorithm ends.  `EnoughEndsWait`,
  `CleanupEnds`, `QueueHasWaker`, `RequestsAreAnswered` and `ShutdownReturns`
  say what must not stop.

### Fairness
Weak fairness of a thread's own steps: threads are scheduled and a mutex is
obtained in the end.  Weak fairness of a reply to each open request: the http
service has a limit for connecting and for slow transfers, and `http_live` checks
that it answers.  Weak fairness of `Expire`: asio's clock advances.  Strong
fairness of `RetryNotification`, because `PromptSenders` disables it for moments.
In `HttpService` strong fairness where a step needs the mutex (`TakeDone`), or
needs the asio thread to be in its critical section or idle (`HandleDone`,
`IoExit`), because other threads make it impossible again and again.  In `Await`
weak fairness of each wait's steps and of the running of each problem's notices
to it: the pool serves what is posted; problems need not move and time need not
run out.  In `GlobalState` weak fairness of the cleanup, of the timer thread and
of the http threads for each manager.  Users, failures, timeouts and
`BeginShutdown` are never assumed to happen.

## 4. What is proved

`tlapm` checks all proofs for every value of the constants that satisfies the
modules' assumptions.  These are the checks that the constructors make (limits
and delays positive, a scale of at least 1: `LimitsAssumption`,
`DelaysAssumption`, `TimingAssumption`); that the sets whose members are counted
(connections, workers, threads, problems of a wait, handles, items of a call)
are finite; for QSage that there are two variables or more, where the code
searches by brute force up to ten (`QSageAssumption`); and for the other
algorithms that their inputs are what the code's types and its own checks make
them: finite maps with integer values, pairs of two different qubits, an
objective of the power set of its variables, graphs that are finite sets of
edges, natural numbers of rows, columns and qubits to a side
(`EmbeddingAssumption`, `LocalAssumption`, `ParamAssumption`, `PolyAssumption`,
`FixAssumption`, `MatrixAssumption`, `FindAssumption`, `SizesAssumption`).  Two of
them are conventions of the model: `Scale`, the unit in which shares of a field are
integers, is a multiple of the numbers it is divided by, and the table for
degree reduction is 0 for the empty set, because a quadratic form without a
constant can say nothing else (the code drops the constant term).

Every invariant and action property of the passing runs about the asynchronous
core and the C client's calls has a theorem, and so do twelve of the thirteen about the
algorithms.  Two theorems have `PromptSenders`
as a hypothesis, because the code breaks what they state without it.

* **RetryTimer_proofs.** `TypeCorrect`: `Delays` is closed under `Backoff`.
  `WaitingSafe` and `GiveUpSafe` are inductive on top of it.  `GiveUpTimely` is
  not: that an expiry makes the timer give up says something about the wait
  that ended, which may be an older one.  `BackoffInv` adds what each wait's
  delay has to do with `nextDelay`: the armed wait is the latest one, a queued
  one is the latest or comes right before `success()`.
* **ProblemManager_proofs.** `ControlInv` relates `pc` to `owed`; with it
  `SlotInv` (each slot is free, with a sender, an open request, or a callback)
  is inductive: `SlotsSafe`.  `RequestsBounded` follows: never more than
  `MaxActiveRequests` requests are open.  `QueueServedSafe` needs both.
  `ImplementsTimer` is a refinement: each step of the manager is a step of
  `RetryTimer` or leaves its variables alone, and one step of the manager is
  never two of the timer.  `FreshTimerSafe`: when the manager is not retrying,
  its timer is in its first state.
  `WorkSafe`: a list with something on it is asked for.  `WorkIsRequested` follows
  a request type from the queue into a thread and back, so `HandInv` says what
  kind of request a thread at each place has in hand; with it every step either
  keeps what the thread asked for or leaves the thread without any asking
  (`MoveKeepsWork`, `QuietKeepsWork`).  The case that matters is between the two
  mutexes: what was left on a list is remembered in `more` until it is pushed.
  `WakerSafe`: in a retry wait somebody comes back.  `QueueHasWaker` alone is not
  inductive, because "somebody" may be a notification, a wait of the timer, a
  sender that has not looked yet or an open request; `WakerInv` says that while
  the manager may be waiting (`MayWait`) the timer has a wait that ends
  (`WaitEnds`).  It takes `WaitingHasWait` over from the timer through the
  refinement: what `retry()` answers may rest on an older wait.
  The second part of the module is about where problems and answer callbacks
  are.  The invariants are about lists, requests and threads
  together, so each action is reduced to its moves first: the `...Moves` lemmas
  say what leaves which list, what the thread's job and request become and what
  the records get.  `CarryInv` says what a thread at each place may hold;
  `Base` puts it together with the invariants of the slots and of the work.
  `FetchSafe` counts: an answer callback is in the queue, on its way out, open
  or in hand in one place (`FetchAt`), by the number of entries in the queue and
  the cardinalities of three sets of threads and requests.  `PlacesSafe` does
  the same for problems (`PlaceAt`), where the sum is 1 while a problem is
  pending and 0 otherwise; `Placed` adds that a problem nobody holds may be
  lost, which the manager allows.  The hard steps are those that take some
  problems of a list by their properties: `KeptOnce` and `RankBijection` say
  what `SelectSeq` keeps, by ranks instead of by recursion.
  `SubmissionSafe` and `ProgressSafe` rest on `Recorded`: what the fields of a
  record say of each other (`RecordFits`), and that what is on a list or in a
  request fits the record (`Asked`): what is submitted has no id, what is polled
  has one.  `ProgressIsKept` (the last good state of a problem never goes back and
  DONE is final) is only proved: no run needs it, since the theorem says it for every
  value of the constants.  `SchedulingSafe` combines `PlacesSafe` and `WakerSafe`: a problem
  that is RETRYING is somewhere, and whatever has it comes back.  It states what
  the run `pm_stall` refutes without `PromptSenders`, so that this is the one
  reason for the stall.
* **ThreadPool_proofs.** `SleepersSafe`: while a worker sleeps there is a free
  one for each piece of queued work.  The obvious weaker statement (work queued
  implies somebody awake) is not inductive: a worker may be woken for each of two
  pieces and go back to sleep after another has taken one.  Counting the free
  workers makes it so.  `JoinedSafe`: none runs after the join.
* **HttpService_proofs**, about `HttpService`.  `TypeCorrect`, strengthened by
  what the state of a connection that was never requested is.  `CallbacksServed`
  is obtained by refinement: the service's steps are steps of its pool
  (`UsesPool`), so that the pool's theorem applies.  `QuietSafe` (no callback
  thread after shutdown) takes `JoinedSafe` over in the same way; `JoinInv` adds
  at which steps of the closer the pool has been joined.  `CalledOnce` rests on
  `OnceInv`: a callback that has been called or posted belongs to a connection
  that is FINISHED, a posted one has not been called, and no connection is posted
  twice.  Only the transition from PENDING to FINISHED answers, and nothing leaves
  FINISHED. `NothingLostSafe` and `AnsweredSafe` need the shape of the list that
  runs through the connections.  `LinkInv` gives each connection on it a chain, a
  sequence that follows `next`, visits nobody twice and ends: linking a connection
  puts it before the chain of the head, and no ring comes of it because only a
  connection in progress is linked.  The chain as a whole is in the invariant, so
  that no induction along it is needed.  `RunningInv` then says that every pending
  connection is in the list that starts at the head or in the one the asio thread
  has taken: `NothingLostSafe`.  Once shutdown has begun this is false
  (`http_lost`), and for `AnsweredSafe` what counts is `activeConnections_`:
  `OpenIsActive` keeps every connection that is not FINISHED in it or with a
  thread that is finishing it, `CloserInv` follows the closer through its
  shutdowns to the step that finishes what is left, and `FinishedIsAnswered` says
  that a FINISHED connection has its callback called or posted.
  About `CurlSockets`: `WatchedSafe`.  The property speaks of the time between
  two calls of libcurl; the invariant holds always and adds the watch whose
  handler has begun the call under way, and that a number libcurl holds stands
  for the socket with the action it last asked for (`HeldInv`).  The latter is
  why looking a socket up by its number, after a call that may have replaced it,
  still does no harm: the worst is one watch too many.
* **Client_proofs**, about `Await`: `TrueSafe`.  The counter alone proves nothing:
  it must be tied to different problems, and each to what happened to it, though
  a retry may have undone it since.  `AwaitInv` has a part for each station of a
  notice: the history knows what the record says (`HistoryTrue`), observers
  belong to waits that asked (`ObserversAsked`), what is posted has happened
  (`NoticesTrue`), so has what has set `done_` (`FiredTrue`), and the counter is
  lowered once for each problem whose notifier is through (`CountsTrue`).
  About `GlobalState`: `CountSafe`, `TimersSafe`.  That no timer is alive when the
  timer thread has been joined is an argument phase by phase: while the http
  service stops, only its threads can destroy managers (`QuietPhases`); after it
  nobody does, because what is left of its requests is stranded, so the registry
  that `shutdownImpl` walks without its mutex cannot lose an entry, and every
  timer that is alive is in it (`AliveKnown`).  The proof uses the rule of
  `dwave_sapi.h:1308`; without it a connection freed during the walk breaks
  `QuietPhases`.
  About `SapiService`: `AnswersSafe`.  A body may have any
  faulty items; what is told comes from the first one, so the proof needs that a
  non-empty set of indices has a least one (a well-founded minimum) and that
  the items before it are whole.
  About `ClientCalls`: `ForetellsSafe` rests on `GoodSub`, which relates the four
  fields that `setError` and `updateStatus` write, one after the other, to each
  other, and on `ToldGood`: what was told of an end stays the status until the
  user retries.  `AwaitCountSafe` counts: the problems of a wait stay the user's
  and what counts goes on counting (`WaitInv`).  `AbstractedSafe` is the
  refinement: `StepIs` finds for each way a record changes the operation of
  `SubmittedProblem`, `AbstractIs` computes the abstract record case by case.
  It made the model better: the cases of the abstraction function overlapped for
  a record that was never created, so that its value was not determined.
  About `Chimera`: `GridIsMade`.  `Lists` says that a sequence has each member of a
  set once.  A loop whose k-th round lists what has the key k lists everything
  (`LoopLists`, from what `FlattenSeq` makes: `Flattened`).  A qubit's number and
  its row, column, side and place determine each other (`QubitAt`, `QubitIs`), and
  the keys of the loops are the coordinates of an edge's lesser end, so that the
  innermost round lists one edge in both directions (`UprightAre`, `FlatAre`,
  `InsideAre`).  The C4 tables are compared with a formula entry by entry
  (`C4Rows`, `C4Order`), and the formula with the grid (`PartnersAre`).
* **Induction_proofs.** The algorithms add, fold and walk over data of any
  size, and the library's rules of induction take an operator, which no prover
  here can instantiate.  These modules therefore state induction about sets:
  `InductiveSet` and `InductiveFamily` say that a set of numbers, or of subsets
  of a finite set, that is closed under the step is everything; both come
  from the library's theorem that the natural numbers are well ordered and a set
  of counterexamples has a least one.  The definition of a sum by
  `MapThenFoldSet` is a recursive choice, so that it has a value at all, and one
  that does not depend on the order, is what `SumExists`, `SumUnique` and
  `SumOrder` prove first; then splitting, exchanging, grouping and bounding sums.
  `Rounds` and `Repeats` are loops: what each round keeps, all of them keep;
  `Looping` is a loop whose measure falls, which is how a recursive function on
  ranges has a value (`LoopExists`) and an invariant (`LoopInduction`).
* **Algorithms_proofs**, about `QSage`: `MoveSafe`.  `ListInv`: the tabu list has
  no repetitions and is no longer than the tenure, which leaves a variable out.
  Adding a variable that is not on the list and trimming from the old end keep
  both.  `BestSafe`: `LeastInv` says where the least energy is known: in the
  result between phases, in `runBest` inside one, and then it is the energy of
  the result or of the state that the phase will hand back.
  About `Embedding`: `EmbeddingLaid` carries `Laid` through cleaning and
  smearing.  A chain is connected exactly when every division of it in two has a
  coupler across (`ConnectedIs`, from the search of `areConnected`), and a
  leaf helps no division but its own; a qubit is only added next to its
  chain and from `available`, where nobody's is.  `KeepsProblem` is then about
  sums alone: each term of the embedded energy is grouped by the chains it
  lies in, and what a field or a coupling is spread over adds up to it because
  `Scale` is a multiple of the number of shares.  `Repairs`: while the broken
  chains are set one by one, the local fields stay those of what is set
  already, and each setting takes the sign that does not raise the energy.
  About `LocalSolvers`: `EnergiesTold`.  `LocalInv` ties every solution that is
  passed around (current, best of the iteration, best of all, copies) to its
  energy; a step of the local search replaces both together.  The offset of the
  conversion to Ising form is proved for each term and summed.
  About `SolverParameters`: `AsAsked`.  `ChainsUpTo` says what the first qubits
  have been collected into: the classes of those with equal numbers, no two
  chains of one number and no qubit twice.
  About `Polynomial`: `QuadraticKept`.  `PolyInv`: each new term, with every
  ancilla replaced by its pair in turn, is the old term, and ancillas are
  numbered above everything used before them.  A consistent setting hence gives
  each term its old value, by inclusion and exclusion the one of the table, and
  each penalty is 0; an inconsistent one pays at least one weight, whichever
  weight that is.
  About `FixVariables`: `FixingSafe`.  An assignment is a set of literals, one of
  each pair, and its energy is half the capacity that leaves the set, up to a
  constant.  `FlowInv`: a push along a path from source to sink takes the same
  amount from the cut of every such set, so minima stay minima and the residual
  network speaks about them.  When the sink is not reached, what the source
  reaches is consistent, nothing leads out of it, and setting it raises no
  assignment's energy; at a minimum it is set already, since each residual edge
  that left the set would make the cut larger (method 2).  For method 1,
  `FixInv` says that the components taken so far, closed under implication and
  free of complements, have the same property (`Persistent`), and a component
  that is ready extends them: its edges lead to itself or to what is fixed, and
  the complements have the edges reversed.  The reduced function is the sum of
  the given one sorted by which of the two variables of a term are free.
  About `CompressedMatrix`: `MatrixIsSparse`, a refinement.  `MatrixInv`: the rows'
  begins ascend, the columns of a row do, and an iterator stands at an entry of
  its row or at the end (`AtEntry`).  Each index then has one row and each position one
  index, in order.  A lookup keeps what it is looking for between its
  two bounds and ends at it or at a neighbour of its place (`ProbeIs`), so
  that an insertion leaves the columns in order (`GrownShape`) and adds one
  position to the map (`GrownEntries`); the bisection of the rows ends past
  all empty ones (`LastRowIs`), so that `operator++` goes to the next entry.
* **FindEmbedding_proofs.** `FoundIsValid`, `RootsAreFound`.  verifyEmbedding looks
  at one edge of each variable and at nothing inside the chains, so that the
  search itself must keep an embedding whole.  `FindInv` says that at every step
  chains are connected, and chains of neighbours that both have one share a
  vertex or have a coupler between them (`Fits`); once none overlap that is a
  coupler.  The step that must keep this is a placement.  Its paths come from
  trees that Dijkstra's algorithm grows one vertex at a time: `Rooted`, `InOrder`
  and `Complete` are the invariants of the growth, `AllLead` says what a path of
  such a tree is.  Each path is cut at the first vertex it shares with another.
  For the rest of the paths to be one connected new chain, two paths that meet
  must agree from there to the root (`TailsAgree`).  That is not so for shortest
  paths as such.  It holds because both trees settle vertices in the same order:
  if they entered a vertex by different doors, each door would be as near as
  the other and have the smaller number (`SameDoor`).  A first model that took any
  shortest paths had embeddings the code cannot produce.
  Hence the neighbours' own parts are disjoint (`OwnPartIs`), the rests are a tree
  (`UTreeIs`), and wherever between the two a neighbour stops taking its part, the
  new chain goes on (`NewChainIs`): the minimization hands over less than the
  search.  It also cuts neighbours back to what their kept paths need, which
  would tear a chain if the paths were just sets of vertices.  `Threads` says of
  each path between two placed variables that it lies in their chains, that its
  part in each of the two is connected and has the root of that one, and that
  the two parts meet.  What a neighbour keeps is then a union of connected sets
  around one root (`OwnChainIs`), which is why the root is found there, and
  every path that is kept still joins it to its neighbour (`PassTrim`,
  `PutInThreads`).

Only model-checked:

* all liveness and what needs ENABLED, which are out of the provers' reach:
  `RetryingIsRetried`, `CancelIsSent`, `RequestsAreAnswered`, `ShutdownReturns`,
  `EnoughEndsWait`, `CleanupEnds`;
* `AnswerFitsProblem`: the sums of the energies are within reach, but what base64
  makes of any text whose end is lost would take an invariant of the fold over
  its characters together with the arithmetic of bytes and digits.

## 5. Disagreements found

1. `timer_early`: an expiry handler that is queued when `success()` runs still
   runs, and ends a later wait.  FAIL may come before a wait of the maximum
   delay, against the schedule in the test RetryFails.  `FailsLateInBackoff` is
   what remains true, and is proved.
2. `pm_stall`: see `PromptSenders` above.  The problem stays RETRYING until
   another request fails or succeeds, and with one problem there is none.
3. `http_lost`: `failConnection` makes a connection that is PENDING already the
   head of the list without linking it, and the connections before it fall
   off.  The comment in `shutdown` says that all active connections are failed
   and their callbacks invoked.  They are called later: `AnsweredWhenGone` holds.
4. `find_quiet`: a search for an embedding that fails returns the chains of its
   unfinished attempt, because the statement that clears them stands inside the
   block for verbose output.  The documentation promises none.
5. `heuristic_stuck`: perturbed copies are compared with a best energy that
   starts at infinity, with a tolerance relative to it, so that none is ever
   accepted: after the first local search the iterations cannot improve anything.
   The documentation says that they let the search escape from local minima.
6. `http-service.cpp:717` (no run of its own): the comment says that nothing is
   happening when the multi handle is freed, but the asio thread may be inside
   `curl_multi_socket_action`: `running_` is read before curl is entered, and the
   mutex that protects it is not taken.  In the model `Cleanup` is enabled while
   the asio thread is "in".

Met while modelling, with no promise to hold them against, or outside what the
modules keep:

* problem manager: a submission that fails on the network after the server
  accepted it is sent again; ids to cancel are lost if building the request
  throws; a cancel that fails otherwise than on the network is dropped; after
  shutdown `submitProblems` throws and the slot is not given back.
* sockets: an action that goes IN, OUT, IN while the first watch is open leaves
  two watches of one direction, both re-armed for ever; a handler of a socket
  that was closed can re-arm a new one with the same number; a watch that ends
  with an error other than the close is not re-armed.
* SAPI service: `submitProblems` and `fetchSolvers` let the exception of a
  service that has been shut down through; the callback of a cancel does not look
  at the http status.
* C client: `sapi_asyncStatus` gives SOLVE_FAILED for errors for which
  `sapi_asyncResult` has a code of its own; running out of memory right after a
  completion makes a problem FAILED whose observers have been told that it is
  done; `sapi_getHardwareAdjacency` needs solver properties the heuristic
  solver does not have; `sapi_findEmbedding` returns an error where its
  documentation says that the length is 0.
* embedding: the scale of fields divides by `h[0]` where `h` of the variable is
  meant, and the target size tests the index, not the value
  (`embed-problem.cpp:243-245`, `268`); `unembedDiscard` leaves the entries of
  empty chains unwritten; `sapi_unembedAnswer` makes its Ising problem from the
  unresized problem (`unembed-answer.cpp:232`).
* fix variables: coefficients are scaled to 64 bits and truncated, which may
  break a tie between two minima.
* degree reduction: the automatic penalty weight is "usually sufficiently large"
  by its documentation (`dwave_sapi.h:1715`).  It looks at the largest pair only:
  with coefficient -1 for {0, 1, k}, k = 2 .. 6, the five terms together gain more
  than five times one of them pays, and the minimum moves to a setting where the
  ancilla is not the product.  `QuadraticKeepsValues` therefore compares the
  weight with what all replaced terms may gain; an ancilla may take the index of a
  variable that no term uses.
* QSage: the random state of a restart is never compared with the best one;
  evaluations of the best state of a phase are not counted.
* local solvers: `beta = 0` is accepted and divides; the check of a pair looks at
  its first member twice; `orangOptimize` gives active variables no term uses
  the first value of the domain.
* QP coding: a problem that lists the couplers of a solver with duplicates
  writes outside an array; the model assumes that there are none.

## 6. Not modelled, and why

* Allocation failures, but for the one in `ClientCalls`, and exceptions that
  only they can cause.
* In the http service: options, headers, bodies and time limits of transfers.
* What users do inside callbacks.  A user who drops the last reference to a
  service in one of its callbacks makes a pool join itself.
* Text: JSON, URLs, escaping (`percentEscape` appends a buffer it has not
  written, `sapi-service.cpp:522`), tokens, enum names, base64's alphabet.
* The bindings, the Python and Matlab clients (thin layers, or second versions of
  functions modelled from C++), tests, packaging and the test server.
* orang, Boost's maximum flow, libcurl, asio and the server, which are external:
  they do what the code relies on and anything else it allows.
* Floating point: energies and fields are integers, which is where rounding would
  show; comparisons with a tolerance are modelled where the tolerance is infinite.
* Of QSage the model fitted to samples, the brute-force search for few variables
  and the embedding it makes for itself; of sapi_fixVariables the conversion of
  its arguments.

## 7. Plan

1. Shutdown of the services below a manager that goes on: requests that throw,
   timers that answer SHUTDOWN, slots that are not given back
   (`problem-manager.cpp:995`).
2. `ProblemLifecycle`, an abstract specification of what a user may see of one
   problem, with `ProblemManager` shown to implement it.
3. QSage's own embedding and its brute-force search; two sockets at once.
