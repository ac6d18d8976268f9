---------------------------- MODULE CurlSockets -----------------------------
(***************************************************************************)
(* How CurlMultiService (remote/src/http-service.cpp) lets libcurl wait    *)
(* for sockets and time.  libcurl asks for sockets, for directions of a    *)
(* socket to be watched and for a timer through callbacks; boost.asio      *)
(* watches, and its only thread hands what happened back to libcurl with   *)
(* curl_multi_socket_action.  libcurl runs under mutex_, so at most one    *)
(* call of it is under way, but asio's watches end at any time, and a      *)
(* handler that asio has queued cannot be called back.                     *)
(*                                                                         *)
(* libcurl, asio and the kernel are external: libcurl makes any callbacks  *)
(* in any order on the sockets it holds; a watched direction of an open    *)
(* socket becomes ready at any time; a socket closed through asio ends its *)
(* watches with an error.                                                  *)
(***************************************************************************)
EXTENDS Integers, Sequences, SequencesExt

CONSTANTS
  Fds,          \* numbers the kernel gives to sockets
  MaxWaits,     \* bound: watches of one direction of one socket
  MaxQueue,     \* bound: handlers in asio's queue
  MaxCallbacks  \* bound: callbacks libcurl makes in one call

VARIABLES
  sockets,   \* sockets_ by number, with action_ and asio's watches of each
  handlers,  \* handlers asio has queued
  timer,     \* timer_ is set
  failed,    \* sockets whose connection asyncSocketIo has failed
  held,      \* sockets libcurl has opened and not closed
  wish,      \* directions libcurl last asked for
  timerWish, \* libcurl last asked for a timer that has not run out
  acting     \* the call of libcurl under way

socketVars == <<sockets, handlers, timer, failed, held, wish, timerWish, acting>>

Dirs == {"in", "out"}
NoSocket == [known |-> FALSE, open |-> FALSE, action |-> {}, waits |-> [d \in Dirs |-> 0]]
NewSocket == [NoSocket EXCEPT !.known = TRUE, !.open = TRUE]

\* Numbers the kernel may give to a new socket.
FreeFds == {fd \in Fds : ~sockets[fd].open}

\* A handler: socketAction for a socket, or timerExpired.  One of an earlier
\* setting of the timer is not current any more.
SocketHandler(fd, d) == [of |-> "socket", fd |-> fd, dir |-> d]
TimerHandler == [of |-> "timer", current |-> TRUE]
OldTimerHandlers ==
  [i \in DOMAIN handlers |->
     IF handlers[i].of = "timer" THEN [handlers[i] EXCEPT !.current = FALSE] ELSE handlers[i]]

\* A call of libcurl: for a handler, or by a user ("user").
NoCall == [by |-> [of |-> "none"], callbacks |-> 0, opening |-> FALSE]

SocketType ==
  [known : BOOLEAN, open : BOOLEAN, action : SUBSET Dirs, waits : [Dirs -> Nat]]
Handlers ==
  [of : {"socket"}, fd : Fds, dir : Dirs] \cup [of : {"timer"}, current : BOOLEAN]
Callers == Handlers \cup [of : {"none", "user"}]
Calls == [by : Callers, callbacks : Nat, opening : BOOLEAN]

SocketsTypeOK ==
  /\ sockets \in [Fds -> SocketType]
  /\ handlers \in Seq(Handlers)
  /\ timer \in BOOLEAN /\ timerWish \in BOOLEAN
  /\ failed \subseteq Fds /\ held \subseteq Fds
  /\ wish \in [Fds -> SUBSET Dirs]
  /\ acting \in Calls

SocketsInit ==
  /\ sockets = [fd \in Fds |-> NoSocket]
  /\ handlers = <<>>
  /\ timer = FALSE /\ timerWish = FALSE
  /\ failed = {} /\ held = {}
  /\ wish = [fd \in Fds |-> {}]
  /\ acting = NoCall

-----------------------------------------------------------------------------
(* Socket and asyncSocketIo.                                               *)

\* Mutant: the new action is stored before it is compared with the old one.
SetAction_StoresFirst(s, action) == [bits |-> action \ action, socket |-> [s EXCEPT !.action = action]]

\* setAction: the directions that are new.
SetAction(s, action) == [bits |-> action \ s.action, socket |-> [s EXCEPT !.action = action]]

\* eventComplete: of the direction that has ended, what is still wanted.
EventComplete(s, dir) == s.action \cap {dir}

Watching(s, dirs) == [s EXCEPT !.waits = [d \in Dirs |-> IF d \in dirs THEN @[d] + 1 ELSE @[d]]]

\* asyncSocketIo: "in" goes first; an exception fails the connection, and
\* what has not been watched by then is not.
AsyncSocketIo(fd, s, dirs) ==
  /\ \A d \in dirs : s.waits[d] < MaxWaits
  /\ \/ sockets' = [sockets EXCEPT ![fd] = Watching(s, dirs)] /\ UNCHANGED failed
     \/ /\ dirs # {}
        /\ \E begun \in {{}, {"in"} \cap dirs} \ {dirs} :
             sockets' = [sockets EXCEPT ![fd] = Watching(s, begun)]
        /\ failed' = failed \cup {fd}

-----------------------------------------------------------------------------
(* Callbacks of libcurl, made while a call of it is under way.             *)

Callback ==
  /\ acting.by.of # "none" /\ acting.callbacks < MaxCallbacks
  /\ acting' = [acting EXCEPT !.callbacks = @ + 1]

\* socketCallback: REMOVE and NONE are no directions.
SocketCallback(fd, action) ==
  /\ ~acting.opening /\ Callback
  /\ fd \in held
  /\ wish' = [wish EXCEPT ![fd] = action]
  /\ IF sockets[fd].known
     THEN LET set == SetAction(sockets[fd], action) IN AsyncSocketIo(fd, set.socket, set.bits)
     ELSE UNCHANGED <<sockets, failed>>
  /\ UNCHANGED <<handlers, timer, held, timerWish>>

\* setSocketActionTimer: a new time replaces the one that was set, whose
\* handler gets an error; a handler in the queue stays.
SetSocketActionTimer(on) ==
  /\ ~acting.opening /\ Callback
  /\ timer' = on /\ timerWish' = on
  /\ handlers' = OldTimerHandlers
  /\ UNCHANGED <<sockets, failed, held, wish>>

\* One round of openSocket: an entry with the number of the new socket is a
\* stale one, whose end closes the number; the new socket is dropped too.
OpenSocket(fd) ==
  /\ acting.by.of # "none" /\ acting.callbacks < MaxCallbacks
  /\ fd \in FreeFds
  /\ IF sockets[fd].known
     THEN /\ sockets' = [sockets EXCEPT ![fd] = NoSocket]
          /\ acting' = [acting EXCEPT !.opening = TRUE]
          /\ UNCHANGED <<held, wish, failed>>
     ELSE /\ sockets' = [sockets EXCEPT ![fd] = NewSocket]
          /\ acting' = [acting EXCEPT !.callbacks = @ + 1, !.opening = FALSE]
          /\ held' = held \cup {fd}
          /\ wish' = [wish EXCEPT ![fd] = {}]
          /\ failed' = failed \ {fd}
  /\ UNCHANGED <<handlers, timer, timerWish>>

\* closeSocket.  Handlers that only get an error do nothing and are left out.
CloseSocket(fd) ==
  /\ ~acting.opening /\ Callback
  /\ fd \in held
  /\ sockets' = [sockets EXCEPT ![fd] = NoSocket]
  /\ held' = held \ {fd}
  /\ wish' = [wish EXCEPT ![fd] = {}]
  /\ failed' = failed \ {fd}
  /\ UNCHANGED <<handlers, timer, timerWish>>

\* The https library closes a socket without a call of closeSocket.
CloseUnseen(fd) ==
  /\ ~acting.opening /\ Callback
  /\ fd \in held /\ sockets[fd].open
  /\ sockets' = [sockets EXCEPT ![fd].open = FALSE]
  /\ held' = held \ {fd}
  /\ wish' = [wish EXCEPT ![fd] = {}]
  /\ failed' = failed \ {fd}
  /\ UNCHANGED <<handlers, timer, timerWish>>

-----------------------------------------------------------------------------
(* Calls of libcurl.                                                       *)

\* addConnection and removeConnection, on any thread.
UserCall ==
  /\ acting.by.of = "none"
  /\ acting' = [NoCall EXCEPT !.by = [of |-> "user"]]
  /\ UNCHANGED <<sockets, handlers, timer, failed, held, wish, timerWish>>

\* socketAction and timerExpired, on asio's thread.
RunHandler ==
  /\ acting.by.of = "none" /\ handlers # <<>>
  /\ handlers' = Tail(handlers)
  /\ LET h == Head(handlers) IN
     /\ acting' = [NoCall EXCEPT !.by = h]
     /\ timerWish' = IF h.of = "timer" /\ h.current THEN FALSE ELSE timerWish
  /\ UNCHANGED <<sockets, timer, failed, held, wish>>

\* libcurl returns: the socket is looked up again, by its number.
EndCall ==
  /\ acting.by.of # "none" /\ ~acting.opening
  /\ acting' = NoCall
  /\ LET h == acting.by IN
     IF h.of = "socket" /\ sockets[h.fd].known
     THEN AsyncSocketIo(h.fd, sockets[h.fd], EventComplete(sockets[h.fd], h.dir))
     ELSE UNCHANGED <<sockets, failed>>
  /\ UNCHANGED <<handlers, timer, held, wish, timerWish>>

-----------------------------------------------------------------------------
(* asio.                                                                   *)

\* A watched direction is ready; the watch ends.
SocketReady(fd, d) ==
  /\ sockets[fd].open /\ sockets[fd].waits[d] > 0
  /\ Len(handlers) < MaxQueue
  /\ sockets' = [sockets EXCEPT ![fd].waits[d] = @ - 1]
  /\ handlers' = Append(handlers, SocketHandler(fd, d))
  /\ UNCHANGED <<timer, failed, held, wish, timerWish, acting>>

TimeIsUp ==
  /\ timer /\ Len(handlers) < MaxQueue
  /\ timer' = FALSE
  /\ handlers' = Append(handlers, TimerHandler)
  /\ UNCHANGED <<sockets, failed, held, wish, timerWish, acting>>

SocketsNext ==
  \/ \E fd \in Fds :
       \/ OpenSocket(fd) \/ CloseSocket(fd) \/ CloseUnseen(fd)
       \/ \E action \in SUBSET Dirs : SocketCallback(fd, action)
       \/ \E d \in Dirs : SocketReady(fd, d)
  \/ \E on \in BOOLEAN : SetSocketActionTimer(on)
  \/ UserCall \/ RunHandler \/ EndCall \/ TimeIsUp

SocketsSpec == SocketsInit /\ [][SocketsNext]_socketVars

-----------------------------------------------------------------------------
(* Properties.                                                             *)

Queued(h) == h \in ToSet(handlers)

(***************************************************************************)
(* Outside a call of libcurl, a socket it holds is open and known to the   *)
(* service, although stale entries of sockets_ close their number when     *)
(* they go (openSocket's comment about revived entries); each direction    *)
(* libcurl wants of it is watched, or its handler is queued, unless the    *)
(* connection has been failed; and a timer it has asked for is set or has  *)
(* its handler queued: no request waits for an event nobody will report.   *)
(* For that setAction's new bits, the re-arming of a socket looked up by   *)
(* number after the call, and handlers that outlive their socket must fit  *)
(* together.                                                               *)
(***************************************************************************)
WantedIsWatched ==
  acting.by.of = "none" =>
    /\ \A fd \in held : sockets[fd].open
    /\ \A fd \in held \ failed : \A d \in wish[fd] :
         sockets[fd].waits[d] > 0 \/ Queued(SocketHandler(fd, d))
    /\ timerWish => timer \/ Queued(TimerHandler)
=============================================================================
