--------------------------- MODULE ClientLifecycle ---------------------------
(****************************************************************************)
(* The life cycle of webpubsub::client: the state of transition_context,    *)
(* the lock of client_lifetime_service, the four loops with their           *)
(* loop_track channels, and the coroutines that drive them.                 *)
(*                                                                          *)
(* Everything runs on one asio strand, so what a coroutine does between two *)
(* suspensions is one step; a step here ends wherever the coroutine awaits. *)
(* The coroutines are the application's calls of async_start, async_stop    *)
(* and async_cancel (Caller), the recovery operation that                   *)
(* setup_reconnect_callback spawns (Op), and the loops.  pc[t] names what   *)
(* coroutine t awaits.  A refused call (no async_on_event for the state)    *)
(* throws and changes nothing, so it is no action.                          *)
(****************************************************************************)
EXTENDS RetryPolicy, Sequences

CONSTANTS Caller,         \* coroutines of the application
          Op,             \* slots for running recovery operations
          Choices,        \* the client_options the application may choose
          Calls,          \* the calls the application makes
          Faults,         \* what may fail
          MaxSessions     \* bound: how often the client is started

Task == Caller \cup Op

\* auto_reconnect and reconnect_retry_options of client_options
ClientOptions == [autoReconnect : BOOLEAN, reconnectRetry : Options]

ASSUME LifecycleAssumption ==
  /\ Caller \cap Op = {}
  /\ Choices \subseteq ClientOptions
  /\ Calls \subseteq {"start", "stop", "cancel"}
  /\ Faults \subseteq {"connect", "close", "system", "other"}
  /\ MaxSessions \in Nat

VARIABLES options,   \* options_, which never change
          state,     \* transition_context.state_
          lock,      \* lifetime.lock_: its head holds it, the others wait
          loop,      \* per loop service, what became of each coroutine spawned on it
          track,     \* per loop service, its loop_track_ channel
          known,     \* lifetime has a connection id and a reconnection token
          hasSocket, \* lifetime.websocket_ is not null
          pc,        \* what each coroutine awaits
          recover    \* failed_connection_context.should_recover of each operation

vars == <<options, state, lock, loop, track, known, hasSocket, pc, recover>>

State == {"stopped", "connecting", "connected", "recovering",
          "stopping", "disconnected", "reconnecting"}
Loop == {"receive", "sequence", "server", "group"}
LoopStatus == {"running", "cancelling", "ended"}

\* The places where a coroutine cancels a loop: which loop, and what follows.
LoopOf == [stop_receive   |-> "receive",    stop_sequence   |-> "sequence",
           stop_server    |-> "server",     stop_group      |-> "group",
           cancel_receive |-> "receive",    cancel_sequence |-> "sequence",
           cancel_server  |-> "server",     cancel_group    |-> "group",
           op_sequence    |-> "sequence"]
\* Mutant: the stop leaves the data loops alone.
AfterWithoutData ==
  [stop_receive |-> "stop_sequence", stop_sequence |-> "stop_reset",
   stop_server |-> "stop_group", stop_group |-> "stop_reset",
   cancel_sequence |-> "cancel_receive", cancel_receive |-> "cancel_server",
   cancel_server |-> "cancel_group", cancel_group |-> "idle", op_sequence |-> "op_raise"]
After == [stop_receive    |-> "stop_sequence",  stop_sequence  |-> "stop_server",
          stop_server     |-> "stop_group",     stop_group     |-> "stop_reset",
          cancel_sequence |-> "cancel_receive", cancel_receive |-> "cancel_server",
          cancel_server   |-> "cancel_group",   cancel_group   |-> "idle",
          op_sequence     |-> "op_raise"]
Stage == DOMAIN LoopOf

StartPC == {"connect_lock", "connect", "enter"}
StopPC == {"stop_close", "stop_receive", "stop_sequence", "stop_server",
           "stop_group", "stop_reset"}
CancelPC == {"cancel_close", "cancel_sequence", "cancel_receive",
             "cancel_server", "cancel_group"}
CallerPC == {"idle"} \cup StartPC \cup StopPC \cup CancelPC
OpPC == {"idle", "op_sequence", "op_raise", "op_reconnect", "op_delay"} \cup StartPC

------------------------------------------------------------------------------
(* loop_track_: a channel of capacity one, whose coroutines wait in order.   *)

Closed == [open |-> FALSE, token |-> FALSE, waiting |-> <<>>]
Fresh  == [open |-> TRUE,  token |-> FALSE, waiting |-> <<>>]

\* A loop that ends leaves a token or wakes the first waiting coroutine.
Signalled(c) ==
  IF ~c.open THEN c
  ELSE IF c.waiting = <<>> THEN [c EXCEPT !.token = TRUE]
  ELSE [c EXCEPT !.waiting = Tail(@)]

Woken(c) == IF c.open /\ c.waiting # <<>> THEN {Head(c.waiting)} ELSE {}

\* The receive that follows a cancellation, and whether it suspends.
Awaited(c, t) ==
  IF ~c.open THEN c
  ELSE IF c.token THEN [c EXCEPT !.token = FALSE]
  ELSE [c EXCEPT !.waiting = Append(@, t)]
Suspends(c) == c.open /\ ~c.token

\* Mutant: the cancellation is awaited but never emitted.
NotEmitted(s) == s

\* Only the newest coroutine of a loop service is bound to its signal.
Emitted(s) ==
  IF s # <<>> /\ s[Len(s)] = "running" THEN [s EXCEPT ![Len(s)] = "cancelling"] ELSE s

\* Resetting or closing a channel makes the coroutines in it throw.
Waiting(L) == {t \in Task : \E l \in L : \E i \in DOMAIN track[l].waiting : track[l].waiting[i] = t}
Interrupted(L) == [t \in Task |-> IF t \in Waiting(L) THEN "idle" ELSE pc[t]]

\* client_loop_service::spawn_loop_coro, for each loop of L
Spawned(L) ==
  /\ loop' = [l \in Loop |-> IF l \in L THEN Append(loop[l], "running") ELSE loop[l]]
  /\ track' = [l \in Loop |-> IF l \in L THEN Fresh ELSE track[l]]

\* Mutant: client_loop_service::reset without its cancel().
ResetWithoutCancel ==
  /\ track' = [track EXCEPT !["receive"].open = FALSE, !["sequence"].open = FALSE]
  /\ known' = FALSE
  /\ UNCHANGED loop

\* client_lifetime_service::reset_connection
ResetConnection ==
  /\ track' = [track EXCEPT !["receive"] = Closed, !["sequence"] = Closed]
  /\ known' = FALSE
  /\ UNCHANGED loop

Holds(t) == lock # <<>> /\ Head(lock) = t

------------------------------------------------------------------------------
Init ==
  /\ options \in Choices
  /\ state = "stopped"
  /\ lock = <<>>
  /\ loop = [l \in Loop |-> <<>>]
  /\ track = [l \in Loop |-> Closed]
  /\ known = FALSE
  /\ hasSocket = FALSE
  /\ pc = [t \in Task |-> "idle"]
  /\ recover = [o \in Op |-> FALSE]

------------------------------------------------------------------------------
(* async_start                                                               *)

\* Mutant: every state but connected accepts to_connecting.
StartBeginAnyState(c) ==
  /\ "start" \in Calls
  /\ Len(loop["server"]) < MaxSessions
  /\ pc[c] = "idle"
  /\ state # "connected"
  /\ state' = "connecting"
  /\ Spawned({"server", "group"})
  /\ lock' = Append(lock, c)
  /\ pc' = [Interrupted({"server", "group"}) EXCEPT ![c] = "connect_lock"]
  /\ UNCHANGED <<known, hasSocket, recover, options>>

\* stopped -> connecting, then the handler of to_connected: it spawns the data
\* loops and asks for the lock.
StartBegin(c) ==
  /\ "start" \in Calls
  /\ Len(loop["server"]) < MaxSessions
  /\ pc[c] = "idle"
  /\ state = "stopped"
  /\ state' = "connecting"
  /\ Spawned({"server", "group"})
  /\ lock' = Append(lock, c)
  /\ pc' = [Interrupted({"server", "group"}) EXCEPT ![c] = "connect_lock"]
  /\ UNCHANGED <<known, hasSocket, recover, options>>

\* async_connect, of a start or of an operation: once it has the lock it resets
\* the connection, and suspends to fetch the uri and to open a new websocket.
ConnectBegin(t) ==
  /\ pc[t] = "connect_lock"
  /\ Holds(t)
  /\ ResetConnection
  /\ pc' = [Interrupted({"receive", "sequence"}) EXCEPT ![t] = "connect"]
  /\ UNCHANGED <<state, lock, hasSocket, recover, options>>

ConnectSucceeds(t) ==
  /\ pc[t] = "connect"
  /\ lock' = Tail(lock)
  /\ hasSocket' = TRUE
  /\ pc' = [pc EXCEPT ![t] = "enter"]
  /\ UNCHANGED <<state, loop, track, known, recover, options>>

\* Mutant: the catch block does not release the lock.
ConnectThrowsLocked(t) ==
  /\ "connect" \in Faults
  /\ pc[t] = "connect"
  /\ hasSocket' \in {hasSocket, TRUE}
  /\ UNCHANGED <<lock, loop, track, known, recover, options>>

\* The failure may come before or after websocket_ is replaced.
ConnectThrows(t) ==
  /\ "connect" \in Faults
  /\ pc[t] = "connect"
  /\ lock' = Tail(lock)
  /\ hasSocket' \in {hasSocket, TRUE}
  /\ UNCHANGED <<loop, track, known, recover, options>>

\* The handler rethrows: async_start throws and the state stays connecting.
StartFails(c) ==
  /\ ConnectThrows(c)
  /\ pc' = [pc EXCEPT ![c] = "idle"]
  /\ UNCHANGED state

\* connecting -> connected and async_on_enter, which spawns the loops.
StartEnter(c) ==
  /\ pc[c] = "enter"
  /\ state' = "connected"
  /\ Spawned({"sequence", "receive"})
  /\ pc' = [Interrupted({"sequence", "receive"}) EXCEPT ![c] = "idle"]
  /\ UNCHANGED <<lock, known, hasSocket, recover, options>>

------------------------------------------------------------------------------
(* async_stop and async_cancel                                               *)

\* connected -> stopping, then the handler of to_stopped, up to async_close.
StopBegin(c) ==
  /\ "stop" \in Calls
  /\ pc[c] = "idle"
  /\ state = "connected"
  /\ state' = "stopping"
  /\ lock' = Append(lock, c)
  /\ pc' = [pc EXCEPT ![c] = "stop_close"]
  /\ UNCHANGED <<loop, track, known, hasSocket, recover, options>>

\* The application cancels only a client that has had a websocket: async_close
\* dereferences websocket_ unasked.
CancelBegin(c) ==
  /\ "cancel" \in Calls
  /\ pc[c] = "idle"
  /\ hasSocket
  /\ lock' = Append(lock, c)
  /\ pc' = [pc EXCEPT ![c] = "cancel_close"]
  /\ UNCHANGED <<state, loop, track, known, hasSocket, recover, options>>

CloseEnds(c) ==
  /\ pc[c] \in {"stop_close", "cancel_close"}
  /\ Holds(c)
  /\ lock' = Tail(lock)
  /\ UNCHANGED <<state, loop, track, known, hasSocket, recover, options>>

\* Mutant: the stop does not cancel the message loop.
CloseSucceedsReading(c) ==
  /\ CloseEnds(c)
  /\ pc' = [pc EXCEPT ![c] = IF @ = "stop_close" THEN "stop_sequence" ELSE "cancel_sequence"]

CloseSucceeds(c) ==
  /\ CloseEnds(c)
  /\ pc' = [pc EXCEPT ![c] = IF @ = "stop_close" THEN "stop_receive" ELSE "cancel_sequence"]

\* The handler lets the exception through: the state stays what it is.
CloseFails(c) ==
  /\ "close" \in Faults
  /\ CloseEnds(c)
  /\ pc' = [pc EXCEPT ![c] = "idle"]

\* async_cancel_loop_coro: emit the signal, then wait for the track.
CancelLoop(t) ==
  /\ pc[t] \in Stage
  /\ t \notin Waiting(Loop)
  /\ LET l == LoopOf[pc[t]]
     IN  /\ loop' = [loop EXCEPT ![l] = Emitted(@)]
         /\ track' = [track EXCEPT ![l] = Awaited(@, t)]
         /\ pc' = [pc EXCEPT ![t] = IF Suspends(track[l]) THEN @ ELSE After[@]]
  /\ UNCHANGED <<state, lock, known, hasSocket, recover, options>>

\* The end of the handler of to_stopped: reset_connection, stopping -> stopped.
StopReset(c) ==
  /\ pc[c] = "stop_reset"
  /\ ResetConnection
  /\ state' = "stopped"
  /\ pc' = [Interrupted({"receive", "sequence"}) EXCEPT ![c] = "idle"]
  /\ UNCHANGED <<lock, hasSocket, recover, options>>

------------------------------------------------------------------------------
(* The loops                                                                 *)

\* Coroutine i of loop l is over: its completion handler signals the track.
LoopOver(l, i) ==
  /\ loop' = [loop EXCEPT ![l][i] = "ended"]
  /\ track' = [track EXCEPT ![l] = Signalled(@)]
  /\ pc' = [t \in Task |-> IF t \in Woken(track[l]) THEN After[pc[t]] ELSE pc[t]]
  /\ UNCHANGED <<state, lock, known, hasSocket, recover, options>>

\* A loop that has been cancelled leaves its suspension and ends.
LoopEnds(l) == \E i \in DOMAIN loop[l] : loop[l][i] = "cancelling" /\ LoopOver(l, i)

\* A read that fails with a system_error ends the message loop, and that is all.
MessageLoopStops ==
  /\ "system" \in Faults
  /\ \E i \in DOMAIN loop["receive"] : loop["receive"][i] = "running" /\ LoopOver("receive", i)

\* A connected response, with or without a reconnection token.
ReceiveConnected ==
  /\ state = "connected"
  /\ \E i \in DOMAIN loop["receive"] : loop["receive"][i] = "running"
  /\ known' \in BOOLEAN
  /\ UNCHANGED <<state, lock, loop, track, hasSocket, pc, recover, options>>

\* Mutant: the operation does not wait for the sequence loop.
MessageLoopFailsAhead(o) ==
  /\ "other" \in Faults
  /\ pc[o] = "idle"
  /\ \E i \in DOMAIN loop["receive"] :
       loop["receive"][i] # "ended" /\ loop' = [loop EXCEPT !["receive"][i] = "ended"]
  /\ track' = [track EXCEPT !["receive"] = Signalled(@)]
  /\ pc' = [t \in Task |-> IF t = o THEN "op_raise"
                           ELSE IF t \in Woken(track["receive"]) THEN After[pc[t]] ELSE pc[t]]
  /\ \E r \in (IF known THEN BOOLEAN ELSE {FALSE}) : recover' = [recover EXCEPT ![o] = r]
  /\ UNCHANGED <<state, lock, known, hasSocket, options>>

\* Mutant: the exception is caught inside the for loop, which goes on reading.
MessageLoopGoesOn(o) ==
  /\ "other" \in Faults
  /\ pc[o] = "idle"
  /\ \E i \in DOMAIN loop["receive"] : loop["receive"][i] # "ended"
  /\ loop' = [loop EXCEPT !["sequence"] = Emitted(@)]
  /\ track' = [track EXCEPT !["sequence"] = Awaited(@, o)]
  /\ pc' = [pc EXCEPT ![o] = IF Suspends(track["sequence"]) THEN "op_sequence" ELSE "op_raise"]
  /\ \E r \in (IF known THEN BOOLEAN ELSE {FALSE}) : recover' = [recover EXCEPT ![o] = r]
  /\ UNCHANGED <<state, lock, known, hasSocket, options>>

\* Any other exception ends the loop and spawns operation o, which runs at once
\* up to its first suspension: it cancels the sequence loop.  close_code is not
\* initialized, so with a url to recover should_recover is either value.
MessageLoopFails(o) ==
  /\ "other" \in Faults
  /\ pc[o] = "idle"
  /\ \E i \in DOMAIN loop["receive"] :
       /\ loop["receive"][i] # "ended"
       /\ loop' = [loop EXCEPT !["receive"][i] = "ended", !["sequence"] = Emitted(@)]
  /\ track' = [track EXCEPT !["receive"] = Signalled(@), !["sequence"] = Awaited(@, o)]
  /\ pc' = [t \in Task |-> IF t = o THEN IF Suspends(track["sequence"]) THEN "op_sequence" ELSE "op_raise"
                           ELSE IF t \in Woken(track["receive"]) THEN After[pc[t]]
                           ELSE pc[t]]
  /\ \E r \in (IF known THEN BOOLEAN ELSE {FALSE}) : recover' = [recover EXCEPT ![o] = r]
  /\ UNCHANGED <<state, lock, known, hasSocket, options>>

------------------------------------------------------------------------------
(* The recovery operation                                                    *)

\* Mutant: to_disconnected is handled in every state.
OpRaiseAnyState(o) ==
  /\ pc[o] = "op_raise"
  /\ IF ~recover[o]
       THEN state' = "disconnected" /\ pc' = [pc EXCEPT ![o] = "op_reconnect"]
       ELSE UNCHANGED state /\ pc' = [pc EXCEPT ![o] = "idle"]
  /\ recover' = [recover EXCEPT ![o] = FALSE]
  /\ UNCHANGED <<lock, loop, track, known, hasSocket, options>>

\* to_recovering, which no state handles, or to_disconnected, which connected
\* handles.  The operation ends with the exception when its event is refused.
OpRaise(o) ==
  /\ pc[o] = "op_raise"
  /\ IF ~recover[o] /\ state = "connected"
       THEN /\ state' = "disconnected"
            /\ pc' = [pc EXCEPT ![o] = "op_reconnect"]
       ELSE /\ pc' = [pc EXCEPT ![o] = "idle"]
            /\ UNCHANGED state
  /\ recover' = [recover EXCEPT ![o] = FALSE]
  /\ UNCHANGED <<lock, loop, track, known, hasSocket, options>>

\* to_reconnecting and, in reconnecting, to_connected_or_stopped up to the lock.
OpReconnect(o) ==
  /\ pc[o] = "op_reconnect"
  /\ IF options.autoReconnect
       THEN /\ state' = "reconnecting"
            /\ lock' = Append(lock, o)
            /\ pc' = [pc EXCEPT ![o] = "connect_lock"]
       ELSE /\ state' = "stopped"
            /\ pc' = [pc EXCEPT ![o] = "idle"]
            /\ UNCHANGED lock
  /\ UNCHANGED <<loop, track, known, hasSocket, recover, options>>

\* The delays that reconnecting's retry_context may hold: update_delay runs once,
\* when reconnecting is entered.
ReconnectDelay ==
  {c.delay : c \in UpdateDelay(options.reconnectRetry, FirstContext(options.reconnectRetry))}

\* Mutant: the exception of a failed attempt leaves the loop of attempts.
ReconnectFailsThrough(o) ==
  /\ ConnectThrows(o)
  /\ pc' = [pc EXCEPT ![o] = "idle"]
  /\ UNCHANGED state

\* A failed attempt is followed by the delay, or ends the client if there is none.
ReconnectFails(o) ==
  /\ ConnectThrows(o)
  /\ \E d \in ReconnectDelay :
       \/ /\ d # NoDelay
          /\ pc' = [pc EXCEPT ![o] = "op_delay"]
          /\ UNCHANGED state
       \/ /\ d = NoDelay
          /\ pc' = [pc EXCEPT ![o] = "idle"]
          /\ state' = "stopped"

OpDelayElapses(o) ==
  /\ pc[o] = "op_delay"
  /\ lock' = Append(lock, o)
  /\ pc' = [pc EXCEPT ![o] = "connect_lock"]
  /\ UNCHANGED <<state, loop, track, known, hasSocket, recover, options>>

\* reconnecting -> connected.  No async_on_enter is written for this event: the
\* generic one runs, and spawns nothing.
OpEnter(o) ==
  /\ pc[o] = "enter"
  /\ state' = "connected"
  /\ pc' = [pc EXCEPT ![o] = "idle"]
  /\ UNCHANGED <<lock, loop, track, known, hasSocket, recover, options>>

------------------------------------------------------------------------------
Call(c) == StartBegin(c) \/ StartFails(c) \/ StartEnter(c) \/ StopBegin(c) \/ StopReset(c)
           \/ CancelBegin(c) \/ CloseSucceeds(c) \/ CloseFails(c)

Recovery(o) == MessageLoopFails(o) \/ OpRaise(o) \/ OpReconnect(o) \/ ReconnectFails(o)
               \/ OpDelayElapses(o) \/ OpEnter(o)

Either(t) == ConnectBegin(t) \/ ConnectSucceeds(t) \/ CancelLoop(t)

Loops == (\E l \in Loop : LoopEnds(l)) \/ MessageLoopStops \/ ReceiveConnected

Next ==
  \/ \E c \in Caller : Call(c)
  \/ \E o \in Op : Recovery(o)
  \/ \E t \in Task : Either(t)
  \/ Loops

Spec == Init /\ [][Next]_vars

\* The io_context runs every handler that is ready, a timer elapses, an open or
\* a close of a websocket comes to an end, a cancelled operation completes.
Fairness ==
  /\ \A t \in Task : WF_vars(ConnectBegin(t)) /\ WF_vars(CancelLoop(t))
  /\ \A c \in Caller :
       /\ WF_vars(ConnectSucceeds(c) \/ StartFails(c))
       /\ WF_vars(CloseSucceeds(c) \/ CloseFails(c))
       /\ WF_vars(StartEnter(c))
       /\ WF_vars(StopReset(c))
  /\ \A o \in Op :
       /\ WF_vars(ConnectSucceeds(o) \/ ReconnectFails(o))
       /\ WF_vars(OpRaise(o) \/ OpReconnect(o) \/ OpDelayElapses(o) \/ OpEnter(o))
  /\ \A l \in Loop : WF_vars(LoopEnds(l))

FairSpec == Spec /\ Fairness

\* An attempt to reconnect that is made again and again succeeds in the end.
ReachableSpec == FairSpec /\ \A o \in Op : SF_vars(ConnectSucceeds(o))

------------------------------------------------------------------------------
(* Properties                                                                *)

\* A track holds a token only while it is open and no coroutine waits for it.
Track == {c \in [open : BOOLEAN, token : BOOLEAN, waiting : Seq(Task)] :
            c.token \/ c.waiting # <<>> => c.open /\ ~(c.token /\ c.waiting # <<>>)}

\* The variables have their types, the tracks among them: closing a track leaves
\* no coroutine behind in it (client_loop_service.hpp:45).
TypeOK ==
  /\ options \in Choices
  /\ state \in State
  /\ lock \in Seq(Task)
  /\ loop \in [Loop -> Seq(LoopStatus)]
  /\ track \in [Loop -> Track]
  /\ known \in BOOLEAN
  /\ hasSocket \in BOOLEAN
  /\ pc \in [Task -> CallerPC \cup OpPC]
  /\ \A c \in Caller : pc[c] \in CallerPC
  /\ \A o \in Op : pc[o] \in OpPC
  /\ recover \in [Op -> BOOLEAN]

\* The coroutine that awaits inside an async_on_event, and the state it left.
Driving(t) == pc[t] \in StartPC \cup StopPC \cup {"op_reconnect", "op_delay"}
LeavesState(t) ==
  IF pc[t] \in StopPC THEN "stopping"
  ELSE IF pc[t] = "op_reconnect" THEN "disconnected"
  ELSE IF t \in Caller THEN "connecting" ELSE "reconnecting"

\* async_raise_event keeps references into state_ while it awaits a handler, and
\* assigns state_ when the handler returns: at most one coroutine is between the
\* two at a time, and nobody changes the state under it.
HandlerOwnsState ==
  /\ \A t, u \in Task : Driving(t) /\ Driving(u) => t = u
  /\ \A t \in Task : Driving(t) => state = LeavesState(t)

Live(l) == {i \in DOMAIN loop[l] : loop[l][i] # "ended"}

\* Whether a client can stop other than by async_stop.
StopsByItself == ~options.autoReconnect \/ NoDelay \in ReconnectDelay

\* A loop service has one coroutine at a time: a second one would take the slot of
\* the signal, and nothing could ever cancel the first (client_loop_service.hpp:32).
OneCoroutinePerLoop ==
  \A l \in Loop : l \in {"receive", "sequence"} \/ ~StopsByItself =>
    \A i, j \in Live(l) : i = j

\* While async_connect replaces websocket_, no loop reads from it or writes to it
\* (client_lifetime_service.hpp:88).
SocketIsQuiet ==
  (\E t \in Task : pc[t] = "connect") => Live("receive") = {} /\ Live("sequence") = {}

\* One recovery operation at a time, and none while the message loop reads.
OneRecovery ==
  \A o \in Op : pc[o] # "idle" =>
    /\ \A p \in Op : pc[p] # "idle" => p = o
    /\ Live("receive") = {}

\* A stopped client runs no loop, but for the data loops of one that stopped by
\* itself (disconnected.hpp:30, reconnecting.hpp:30 leave them running).
StoppedIsQuiet ==
  state = "stopped" =>
    \A l \in Loop : l \in {"receive", "sequence"} \/ ~StopsByItself => Live(l) = {}

\* Once async_close is behind it, a call of async_stop ends in stopped: nothing
\* interrupts it while it waits for a loop.
StopIsNotInterrupted ==
  [][\A c \in Caller : pc[c] \in StopPC \ {"stop_close"} /\ pc'[c] \notin StopPC
       => state' = "stopped"]_vars

\* lock_ excludes: async_close and async_connect never run at the same time, and
\* who is in the lock is there once.
LockExcludes ==
  /\ \A t \in Task : pc[t] = "connect" => Holds(t)
  /\ \A i, j \in DOMAIN lock : lock[i] = lock[j] => i = j

\* The state moves along the diagram of transition_context.hpp: at every await of
\* every handler, whoever else raises an event meanwhile.
Diagram == INSTANCE LifetimeDiagram WITH autoReconnect <- options.autoReconnect
FollowsDiagram == Diagram!Spec

\* The loop that t waits for is over, and somebody else has had its token.
Starved(t) == \E l \in Loop : t \in Waiting({l}) /\ Live(l) = {}

\* A call of async_stop returns, but for one reason: it waits for the token of a
\* loop that is over (client_loop_service.hpp:56), and has to share it with a
\* recovery operation or an async_cancel.
StopReturnsOrStarves ==
  \A c \in Caller : pc[c] \in StopPC ~> pc[c] \notin StopPC \/ Starved(c)

\* A client that reconnects gets connected when the service can be reached.
ReconnectCompletes == state = "reconnecting" ~> state = "connected"
=============================================================================
