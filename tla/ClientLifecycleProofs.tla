------------------------- MODULE ClientLifecycleProofs -------------------------
(****************************************************************************)
(* Proofs about the life cycle, for every set of callers and operations,    *)
(* every choice of options, calls and faults, and any number of sessions.   *)
(*                                                                          *)
(* The inductive invariant adds to TypeOK and HandlerOwnsState where a      *)
(* coroutine stands in a track (WaitInv) and in the lock (LockInv).  What   *)
(* concerns the coroutines of the loops needs a second invariant on top of  *)
(* it, LoopsInv: of each loop at most the last coroutine lives, and then    *)
(* its track suspends whoever awaits it (LastInv); the loops that a stop is *)
(* past, and those of a client that is not connected, are over (QuietInv);  *)
(* and there is one recovery operation, which keeps every stop from passing *)
(* the sequence loop until it has raised its event (OpInv).                 *)
(****************************************************************************)
EXTENDS ClientLifecycle, TLAPS

LockPC == {"connect_lock", "connect", "stop_close", "cancel_close"}

\* Who stands in the queue w of the track of l awaits l, and stands there once.
Awaits(l, w, p) ==
  /\ \A i \in DOMAIN w : p[w[i]] \in Stage /\ LoopOf[p[w[i]]] = l
  /\ \A i, j \in DOMAIN w : w[i] = w[j] => i = j

WaitInv == \A l \in Loop : Awaits(l, track[l].waiting, pc)

\* Who stands in the lock asks for it or has it, and stands there once.
LockInv ==
  /\ \A i \in DOMAIN lock : pc[lock[i]] \in LockPC
  /\ LockExcludes

IInv == TypeOK /\ WaitInv /\ LockInv /\ HandlerOwnsState

------------------------------------------------------------------------------
\* The places where a loop is cancelled, for a call and for an operation.
LEMMA StageFacts ==
  ASSUME NEW p \in Stage
  PROVE  /\ LoopOf[p] \in Loop
         /\ p \notin LockPC \cup StartPC \cup {"idle", "op_raise", "op_reconnect", "op_delay", "stop_reset"}
         /\ p \in CallerPC => After[p] \in CallerPC
         /\ p \in OpPC => After[p] \in OpPC
         /\ After[p] \notin LockPC \cup StartPC \cup {"op_reconnect", "op_delay"}
         /\ After[p] \in StopPC <=> p \in StopPC
  BY DEF Stage, LoopOf, After, Loop, LockPC, StartPC, StopPC, CancelPC, CallerPC, OpPC

LEMMA AppendFacts ==
  ASSUME NEW S, NEW s \in Seq(S), NEW x \in S
  PROVE  /\ Append(s, x) \in Seq(S)
         /\ Len(Append(s, x)) = Len(s) + 1
         /\ DOMAIN Append(s, x) = 1 .. Len(s) + 1
         /\ \A i \in DOMAIN s : Append(s, x)[i] = s[i]
         /\ Append(s, x)[Len(s) + 1] = x
  OBVIOUS

LEMMA TailFacts ==
  ASSUME NEW S, NEW s \in Seq(S), s # <<>>
  PROVE  /\ Head(s) \in S
         /\ Head(s) = s[1]
         /\ 1 \in DOMAIN s
         /\ Tail(s) \in Seq(S)
         /\ \A i \in DOMAIN Tail(s) : i + 1 \in DOMAIN s /\ Tail(s)[i] = s[i + 1]
  OBVIOUS

\* A channel stays one under the two operations on it, and only a coroutine that
\* stands at its head is woken.
LEMMA TrackFacts ==
  ASSUME NEW c \in Track
  PROVE  /\ Closed \in Track /\ Fresh \in Track
         /\ Signalled(c) \in Track
         /\ \A t \in Task : Awaited(c, t) \in Track
         /\ \A t \in Woken(c) : t \in Task /\ 1 \in DOMAIN c.waiting /\ c.waiting[1] = t
<1>1. Closed \in Track /\ Fresh \in Track
  BY DEF Closed, Fresh, Track
<1>2. Signalled(c) \in Track
  <2>1. CASE ~c.open
    BY <2>1 DEF Signalled
  <2>2. CASE c.open /\ c.waiting = <<>>
    BY <2>2 DEF Signalled, Track
  <2>3. CASE c.open /\ c.waiting # <<>>
    <3>1. Tail(c.waiting) \in Seq(Task) /\ c.token = FALSE
      BY <2>3, TailFacts DEF Track
    <3>2. QED  BY <2>3, <3>1 DEF Signalled, Track
  <2>4. QED  BY <2>1, <2>2, <2>3
<1>3. ASSUME NEW t \in Task PROVE Awaited(c, t) \in Track
  <2>1. Append(c.waiting, t) \in Seq(Task)
    BY AppendFacts DEF Track
  <2>2. QED  BY <2>1 DEF Awaited, Track
<1>4. ASSUME NEW t \in Woken(c) PROVE t \in Task /\ 1 \in DOMAIN c.waiting /\ c.waiting[1] = t
  BY TailFacts DEF Woken, Track
<1>5. QED  BY <1>1, <1>2, <1>3, <1>4

LEMMA EmittedFacts ==
  ASSUME NEW s \in Seq(LoopStatus)
  PROVE  /\ Emitted(s) \in Seq(LoopStatus)
         /\ Append(s, "running") \in Seq(LoopStatus)
         /\ \A i \in DOMAIN s : [s EXCEPT ![i] = "ended"] \in Seq(LoopStatus)
  BY AppendFacts DEF Emitted, LoopStatus

\* Interrupting the coroutines of some tracks makes those idle, and nobody else.
LEMMA InterruptFacts ==
  ASSUME TypeOK, WaitInv, NEW L \in SUBSET Loop
  PROVE  /\ Interrupted(L) \in [Task -> CallerPC \cup OpPC]
         /\ \A t \in Task : Interrupted(L)[t] \in {pc[t], "idle"}
         /\ \A t \in Task : pc[t] \notin Stage => Interrupted(L)[t] = pc[t]
         /\ \A l \in Loop \ L : \A i \in DOMAIN track[l].waiting :
              Interrupted(L)[track[l].waiting[i]] = pc[track[l].waiting[i]]
<1>1. \A t \in Task : Interrupted(L)[t] \in {pc[t], "idle"}
  BY DEF Interrupted
<1>2. Interrupted(L) \in [Task -> CallerPC \cup OpPC]
  BY DEF Interrupted, TypeOK, CallerPC, OpPC
<1>3. \A t \in Waiting(L) : pc[t] \in Stage /\ LoopOf[pc[t]] \in L
  BY DEF Waiting, WaitInv, Awaits
<1>4. \A l \in Loop : \A i \in DOMAIN track[l].waiting : track[l].waiting[i] \in Task
  BY DEF TypeOK, Track
<1>5. \A t \in Task : pc[t] \notin Stage => Interrupted(L)[t] = pc[t]
  BY <1>3 DEF Interrupted
<1>6. \A l \in Loop \ L : \A i \in DOMAIN track[l].waiting :
        Interrupted(L)[track[l].waiting[i]] = pc[track[l].waiting[i]]
  BY <1>3, <1>4 DEF Interrupted, WaitInv, Awaits
<1>7. QED  BY <1>1, <1>2, <1>5, <1>6

------------------------------------------------------------------------------
\* What the actions that spawn, reset or signal do to the loops and the tracks.
LEMMA SpawnedTypes ==
  ASSUME TypeOK, NEW L \in SUBSET Loop, Spawned(L)
  PROVE  loop' \in [Loop -> Seq(LoopStatus)] /\ track' \in [Loop -> Track]
  BY EmittedFacts, TrackFacts DEF TypeOK, Spawned

LEMMA ResetTypes ==
  ASSUME TypeOK, ResetConnection
  PROVE  /\ loop' \in [Loop -> Seq(LoopStatus)] /\ track' \in [Loop -> Track]
         /\ known' \in BOOLEAN
  BY TrackFacts DEF TypeOK, ResetConnection, Loop

\* A woken coroutine goes on to the stage after the one it awaited.
LEMMA WokenFacts ==
  ASSUME TypeOK, WaitInv, NEW l \in Loop, NEW t \in Woken(track[l])
  PROVE  t \in Task /\ pc[t] \in Stage /\ LoopOf[pc[t]] = l
  BY TrackFacts DEF TypeOK, WaitInv, Awaits

LEMMA OverTypes ==
  ASSUME TypeOK, WaitInv, NEW l \in Loop, NEW i \in DOMAIN loop[l], LoopOver(l, i)
  PROVE  TypeOK'
<1>1. loop' \in [Loop -> Seq(LoopStatus)] /\ track' \in [Loop -> Track]
  BY EmittedFacts, TrackFacts DEF TypeOK, LoopOver
<1>2. \A t \in Task : pc'[t] = IF t \in Woken(track[l]) THEN After[pc[t]] ELSE pc[t]
  BY DEF LoopOver
<1>3. (\A c \in Caller : pc'[c] \in CallerPC) /\ (\A o \in Op : pc'[o] \in OpPC)
  BY <1>2, WokenFacts, StageFacts DEF TypeOK, Task
<1>4. pc' \in [Task -> CallerPC \cup OpPC]
  BY <1>3 DEF LoopOver, Task
<1>5. QED  BY <1>1, <1>3, <1>4 DEF TypeOK, LoopOver

LEMMA TypeStep ==
  ASSUME IInv, [Next]_vars
  PROVE  TypeOK'
<1> USE DEF IInv
<1> DEFINE PcTyped == /\ pc' \in [Task -> CallerPC \cup OpPC]
                      /\ \A c \in Caller : pc'[c] \in CallerPC
                      /\ \A o \in Op : pc'[o] \in OpPC
<1>0. ASSUME NEW t \in Task, NEW x, x \in CallerPC \/ t \notin Caller, x \in OpPC \/ t \notin Op,
             pc' = [pc EXCEPT ![t] = x]
      PROVE  PcTyped
  BY <1>0 DEF TypeOK, Task
<1>1. ASSUME NEW t \in Task, NEW x, x \in CallerPC \/ t \notin Caller, x \in OpPC \/ t \notin Op,
             NEW L \in SUBSET Loop, pc' = [Interrupted(L) EXCEPT ![t] = x]
      PROVE  PcTyped
  <2>1. \A u \in Task : pc'[u] \in {pc[u], "idle", x} /\ (u # t => pc'[u] # x \/ pc'[u] \in {pc[u], "idle"})
    BY <1>1, InterruptFacts DEF TypeOK
  <2>2. \A u \in Task : u # t => pc'[u] \in {pc[u], "idle"}
    BY <1>1, InterruptFacts DEF TypeOK
  <2>3. pc'[t] = x
    BY <1>1, InterruptFacts
  <2>4. \A c \in Caller : pc'[c] \in CallerPC
    BY <1>1, <2>2, <2>3 DEF TypeOK, Task, CallerPC
  <2>5. \A o \in Op : pc'[o] \in OpPC
    BY <1>1, <2>2, <2>3 DEF TypeOK, Task, OpPC
  <2>6. pc' \in [Task -> CallerPC \cup OpPC]
    BY <1>1, <2>4, <2>5, InterruptFacts DEF Task
  <2>7. QED  BY <2>4, <2>5, <2>6
<1>2. ASSUME NEW c \in Caller PROVE c \in Task /\ c \notin Op
  BY LifecycleAssumption DEF Task
<1>3. ASSUME NEW o \in Op PROVE o \in Task /\ o \notin Caller
  BY LifecycleAssumption DEF Task
<1>4. \A t \in Task : Append(lock, t) \in Seq(Task)
  BY AppendFacts DEF TypeOK
<1>5. ASSUME lock # <<>> PROVE Tail(lock) \in Seq(Task)
  BY <1>5, TailFacts DEF TypeOK
<1> DEFINE Rest == /\ options' \in Choices
                   /\ state' \in State /\ lock' \in Seq(Task)
                   /\ loop' \in [Loop -> Seq(LoopStatus)] /\ track' \in [Loop -> Track]
                   /\ known' \in BOOLEAN /\ hasSocket' \in BOOLEAN
                   /\ recover' \in [Op -> BOOLEAN]
<1>6. ASSUME PcTyped, Rest PROVE TypeOK'
  BY <1>6 DEF TypeOK
<1>7. ASSUME NEW t \in Task, pc[t] = "connect" PROVE lock # <<>>
  BY <1>7 DEF LockInv, LockExcludes, Holds
<1> HIDE DEF PcTyped, Rest
<1>11. ASSUME NEW c \in Caller, StartBegin(c) PROVE TypeOK'
  <2>1. Rest
    BY <1>11, <1>2, <1>4, SpawnedTypes DEF StartBegin, TypeOK, Rest, State, Loop
  <2>2. PcTyped
    BY <1>11, <1>1, <1>2 DEF StartBegin, CallerPC, StartPC, Loop
  <2>3. QED  BY <2>1, <2>2, <1>6
<1>12. ASSUME NEW t \in Task, ConnectBegin(t) PROVE TypeOK'
  <2>1. Rest
    BY <1>12, ResetTypes DEF ConnectBegin, TypeOK, Rest
  <2>2. PcTyped
    BY <1>12, <1>1 DEF ConnectBegin, CallerPC, OpPC, StartPC, Loop
  <2>3. QED  BY <2>1, <2>2, <1>6
<1>13. ASSUME NEW t \in Task, ConnectSucceeds(t) PROVE TypeOK'
  <2>1. Rest
    BY <1>13, <1>5, <1>7 DEF ConnectSucceeds, TypeOK, Rest
  <2>2. PcTyped
    BY <1>13, <1>0 DEF ConnectSucceeds, CallerPC, OpPC, StartPC
  <2>3. QED  BY <2>1, <2>2, <1>6
<1>14. ASSUME NEW c \in Caller, StartFails(c) PROVE TypeOK'
  <2>1. Rest
    BY <1>14, <1>2, <1>5, <1>7 DEF StartFails, ConnectThrows, TypeOK, Rest
  <2>2. PcTyped
    BY <1>14, <1>0, <1>2 DEF StartFails, CallerPC
  <2>3. QED  BY <2>1, <2>2, <1>6
<1>15. ASSUME NEW c \in Caller, StartEnter(c) PROVE TypeOK'
  <2>1. Rest
    BY <1>15, SpawnedTypes DEF StartEnter, TypeOK, Rest, State, Loop
  <2>2. PcTyped
    BY <1>15, <1>1, <1>2 DEF StartEnter, CallerPC, Loop
  <2>3. QED  BY <2>1, <2>2, <1>6
<1>16. ASSUME NEW c \in Caller, StopBegin(c) \/ CancelBegin(c) PROVE TypeOK'
  <2>1. Rest
    <3>1. lock' = Append(lock, c) /\ UNCHANGED <<loop, track, known, hasSocket, recover, options>>
      BY <1>16 DEF StopBegin, CancelBegin
    <3>2. state' \in State
      BY <1>16 DEF StopBegin, CancelBegin, TypeOK, State
    <3>3. lock' \in Seq(Task)
      BY <1>2, <1>4, <3>1
    <3>4. QED  BY <3>1, <3>2, <3>3 DEF TypeOK, Rest
  <2>2. PcTyped
    BY <1>16, <1>0, <1>2 DEF StopBegin, CancelBegin, CallerPC, StopPC, CancelPC
  <2>3. QED  BY <2>1, <2>2, <1>6
<1>17. ASSUME NEW c \in Caller, CloseSucceeds(c) \/ CloseFails(c) PROVE TypeOK'
  <2>1. Rest
    BY <1>17, <1>5 DEF CloseSucceeds, CloseFails, CloseEnds, Holds, TypeOK, Rest
  <2>2. PcTyped
    BY <1>17, <1>0, <1>2 DEF CloseSucceeds, CloseFails, CallerPC, StopPC, CancelPC
  <2>3. QED  BY <2>1, <2>2, <1>6
<1>18. ASSUME NEW t \in Task, CancelLoop(t) PROVE TypeOK'
  <2>1. LoopOf[pc[t]] \in Loop
    BY <1>18, StageFacts DEF CancelLoop
  <2> DEFINE l == LoopOf[pc[t]]
  <2>2. Rest
    <3>1. Emitted(loop[l]) \in Seq(LoopStatus) /\ Awaited(track[l], t) \in Track
      BY <2>1, EmittedFacts, TrackFacts DEF TypeOK
    <3>2. loop' = [loop EXCEPT ![l] = Emitted(loop[l])] /\ track' = [track EXCEPT ![l] = Awaited(track[l], t)]
      BY <1>18 DEF CancelLoop
    <3> HIDE DEF l
    <3>3. loop' \in [Loop -> Seq(LoopStatus)] /\ track' \in [Loop -> Track]
      BY <3>1, <3>2 DEF TypeOK
    <3>4. QED  BY <1>18, <3>3 DEF CancelLoop, TypeOK, Rest
  <2>3. PcTyped
    <3>1. pc' = [pc EXCEPT ![t] = pc[t]] \/ pc' = [pc EXCEPT ![t] = After[pc[t]]]
      BY <1>18 DEF CancelLoop, TypeOK
    <3>2. pc[t] \in CallerPC \/ t \notin Caller
      BY DEF TypeOK
    <3>3. pc[t] \in OpPC \/ t \notin Op
      BY DEF TypeOK
    <3>4. QED  BY <1>18, <3>1, <3>2, <3>3, <1>0, StageFacts DEF CancelLoop
  <2>4. QED  BY <2>2, <2>3, <1>6
<1>19. ASSUME NEW c \in Caller, StopReset(c) PROVE TypeOK'
  <2>1. Rest
    BY <1>19, ResetTypes DEF StopReset, TypeOK, Rest, State
  <2>2. PcTyped
    BY <1>19, <1>1, <1>2 DEF StopReset, CallerPC, Loop
  <2>3. QED  BY <2>1, <2>2, <1>6
<1>20. CASE Loops
  <2>1. ASSUME NEW l \in Loop, LoopEnds(l) PROVE TypeOK'
    BY <2>1, OverTypes DEF LoopEnds
  <2>2. CASE MessageLoopStops
    BY <2>2, OverTypes DEF MessageLoopStops, Loop
  <2>3. CASE ReceiveConnected
    BY <2>3 DEF ReceiveConnected, TypeOK
  <2>4. QED  BY <1>20, <2>1, <2>2, <2>3 DEF Loops
<1>21. ASSUME NEW o \in Op, MessageLoopFails(o) PROVE TypeOK'
  <2>1. Rest
    <3>1. loop' \in [Loop -> Seq(LoopStatus)]
      <4>1. PICK i \in DOMAIN loop["receive"] :
              loop' = [loop EXCEPT !["receive"][i] = "ended", !["sequence"] = Emitted(loop["sequence"])]
        BY <1>21 DEF MessageLoopFails, TypeOK, Loop
      <4>2. [loop["receive"] EXCEPT ![i] = "ended"] \in Seq(LoopStatus)
        BY EmittedFacts DEF TypeOK, Loop
      <4>3. Emitted(loop["sequence"]) \in Seq(LoopStatus)
        BY EmittedFacts DEF TypeOK, Loop
      <4>4. QED  BY <4>1, <4>2, <4>3 DEF TypeOK, Loop
    <3>2. track' \in [Loop -> Track]
      BY <1>21, <1>3, TrackFacts DEF MessageLoopFails, TypeOK, Loop
    <3>3. recover' \in [Op -> BOOLEAN]
      BY <1>21 DEF MessageLoopFails, TypeOK
    <3>4. QED  BY <1>21, <3>1, <3>2, <3>3 DEF MessageLoopFails, TypeOK, Rest
  <2>2. PcTyped
    <3>1. \A t \in Task : \/ t = o /\ pc'[t] \in {"op_sequence", "op_raise"}
                          \/ t \in Woken(track["receive"]) /\ pc'[t] = After[pc[t]]
                          \/ pc'[t] = pc[t]
      BY <1>21 DEF MessageLoopFails
    <3>2. \A t \in Woken(track["receive"]) : pc[t] \in Stage
      BY WokenFacts DEF Loop
    <3>3. \A c \in Caller : pc'[c] \in CallerPC
      BY <3>1, <3>2, <1>2, StageFacts DEF TypeOK
    <3>4. \A p \in Op : pc'[p] \in OpPC
      BY <3>1, <3>2, <1>3, StageFacts DEF TypeOK, OpPC
    <3>5. pc' \in [Task -> CallerPC \cup OpPC]
      BY <1>21, <3>3, <3>4 DEF MessageLoopFails, Task
    <3>6. QED  BY <3>3, <3>4, <3>5 DEF PcTyped
  <2>3. QED  BY <2>1, <2>2, <1>6
<1>22. ASSUME NEW o \in Op, OpRaise(o) \/ OpReconnect(o) PROVE TypeOK'
  <2>1. Rest
    BY <1>22, <1>3, <1>4 DEF OpRaise, OpReconnect, TypeOK, Rest, State
  <2>2. PcTyped
    BY <1>22, <1>0, <1>3 DEF OpRaise, OpReconnect, OpPC, StartPC
  <2>3. QED  BY <2>1, <2>2, <1>6
<1>23. ASSUME NEW o \in Op, ReconnectFails(o) PROVE TypeOK'
  <2>1. Rest
    BY <1>23, <1>3, <1>5, <1>7 DEF ReconnectFails, ConnectThrows, TypeOK, Rest, State
  <2>2. PcTyped
    BY <1>23, <1>0, <1>3 DEF ReconnectFails, OpPC
  <2>3. QED  BY <2>1, <2>2, <1>6
<1>24. ASSUME NEW o \in Op, OpDelayElapses(o) \/ OpEnter(o) PROVE TypeOK'
  <2>1. Rest
    BY <1>24, <1>3, <1>4 DEF OpDelayElapses, OpEnter, TypeOK, Rest, State
  <2>2. PcTyped
    BY <1>24, <1>0, <1>3 DEF OpDelayElapses, OpEnter, OpPC, StartPC
  <2>3. QED  BY <2>1, <2>2, <1>6
<1>25. CASE UNCHANGED vars
  BY <1>25 DEF vars, TypeOK
<1>26. QED
  BY <1>11, <1>12, <1>13, <1>14, <1>15, <1>16, <1>17, <1>18, <1>19, <1>20, <1>21, <1>22, <1>23,
     <1>24, <1>25 DEF Next, Call, Recovery, Either

------------------------------------------------------------------------------
\* A step of the coroutine that drives the state, or of one that begins to.
LEMMA OneDriver ==
  ASSUME NEW t \in Task,
         \A u \in Task : u # t => ~Driving(u)',
         Driving(t)' => state' = LeavesState(t)'
  PROVE  HandlerOwnsState'
  BY DEF HandlerOwnsState

\* A step that leaves the state and its driver alone.
LEMMA SameDriver ==
  ASSUME HandlerOwnsState, state' = state,
         \A u \in Task : Driving(u)' => Driving(u) /\ LeavesState(u)' = LeavesState(u)
  PROVE  HandlerOwnsState'
  BY DEF HandlerOwnsState

\* Nobody drives a state that no handler awaits in.
LEMMA NoDriver ==
  ASSUME HandlerOwnsState, state \in {"stopped", "connected", "recovering"}
  PROVE  \A u \in Task : ~Driving(u)
  BY DEF HandlerOwnsState, LeavesState

\* A loop that ends moves the coroutine it wakes within the same handler.
LEMMA OverSameDriver ==
  ASSUME IInv, NEW l \in Loop, NEW u \in Task, u \in Woken(track[l]), pc'[u] = After[pc[u]]
  PROVE  Driving(u)' => Driving(u) /\ LeavesState(u)' = LeavesState(u)
<1>1. pc[u] \in Stage
  BY WokenFacts DEF IInv
<1>2. QED
  BY <1>1, StageFacts DEF Driving, LeavesState

LEMMA OverOwns ==
  ASSUME IInv, NEW l \in Loop, NEW i, LoopOver(l, i)
  PROVE  HandlerOwnsState'
<1>1. \A u \in Task : pc'[u] = IF u \in Woken(track[l]) THEN After[pc[u]] ELSE pc[u]
  BY DEF LoopOver
<1>2. ASSUME NEW u \in Task PROVE Driving(u)' => Driving(u) /\ LeavesState(u)' = LeavesState(u)
  BY <1>1, OverSameDriver DEF Driving, LeavesState
<1>3. QED  BY <1>2, SameDriver DEF IInv, LoopOver

LEMMA OwnsStep ==
  ASSUME IInv, [Next]_vars
  PROVE  HandlerOwnsState'
<1> USE DEF IInv
<1>1. ASSUME NEW t \in Task, Driving(t), NEW u \in Task, u # t PROVE ~Driving(u)
  BY <1>1 DEF HandlerOwnsState
<1>2. ASSUME NEW t \in Task, Driving(t) PROVE state = LeavesState(t)
  BY <1>2 DEF HandlerOwnsState
<1>3. \A c \in Caller : c \in Task /\ c \notin Op
  BY LifecycleAssumption DEF Task
<1>4. \A o \in Op : o \in Task /\ o \notin Caller
  BY LifecycleAssumption DEF Task
\* Steps that start, move or end a driver: the others are interrupted at most.
<1>5. ASSUME NEW t \in Task, NEW x, NEW L \in SUBSET Loop,
             \A u \in Task : u # t => ~Driving(u),
             pc' = [Interrupted(L) EXCEPT ![t] = x] \/ pc' = [pc EXCEPT ![t] = x],
             Driving(t)' => state' = LeavesState(t)'
      PROVE  HandlerOwnsState'
  <2>1. \A u \in Task : u # t => pc'[u] \in {pc[u], "idle"}
    BY <1>5, InterruptFacts DEF TypeOK
  <2>2. \A u \in Task : u # t => ~Driving(u)'
    BY <1>5, <2>1 DEF Driving, StartPC, StopPC
  <2>3. QED  BY <1>5, <2>2, OneDriver
<1>6. ASSUME NEW t \in Task, NEW x, NEW L \in SUBSET Loop,
             pc' = [Interrupted(L) EXCEPT ![t] = x] \/ pc' = [pc EXCEPT ![t] = x]
      PROVE  pc'[t] = x
  BY <1>6, InterruptFacts DEF TypeOK
<1>11. ASSUME NEW c \in Caller, StartBegin(c) PROVE HandlerOwnsState'
  <2>1. pc'[c] = "connect_lock" /\ state' = "connecting"
    BY <1>11, <1>3, <1>6 DEF StartBegin, Loop
  <2>2. LeavesState(c)' = "connecting"
    BY <2>1, <1>3 DEF LeavesState, StopPC
  <2>3. QED  BY <1>11, <1>3, <1>5, <2>1, <2>2, NoDriver DEF StartBegin, Loop
<1>12. ASSUME NEW t \in Task, ConnectBegin(t) PROVE HandlerOwnsState'
  <2>1. pc'[t] = "connect" /\ state' = state /\ Driving(t)
    BY <1>12, <1>6 DEF ConnectBegin, Loop, Driving, StartPC
  <2>2. LeavesState(t)' = LeavesState(t)
    BY <1>12, <2>1 DEF LeavesState, StopPC, ConnectBegin
  <2>3. QED  BY <1>12, <1>1, <1>2, <1>5, <2>1, <2>2 DEF ConnectBegin, Loop
<1>13. ASSUME NEW t \in Task, ConnectSucceeds(t) PROVE HandlerOwnsState'
  <2>1. \A u \in Task : Driving(u)' => Driving(u) /\ LeavesState(u)' = LeavesState(u)
    BY <1>13 DEF ConnectSucceeds, TypeOK, Driving, LeavesState, StartPC, StopPC
  <2>2. QED  BY <1>13, <2>1, SameDriver DEF ConnectSucceeds
<1>14. ASSUME NEW c \in Caller, StartFails(c) PROVE HandlerOwnsState'
  <2>1. \A u \in Task : Driving(u)' => Driving(u) /\ LeavesState(u)' = LeavesState(u)
    BY <1>14 DEF StartFails, TypeOK, Driving, LeavesState, StartPC, StopPC
  <2>2. QED  BY <1>14, <2>1, SameDriver DEF StartFails
<1>15. ASSUME NEW c \in Caller, StartEnter(c) PROVE HandlerOwnsState'
  <2>1. Driving(c)
    BY <1>15 DEF StartEnter, Driving, StartPC
  <2>2. pc'[c] = "idle"
    BY <1>15, <1>3, <1>6 DEF StartEnter, Loop
  <2>3. ~Driving(c)'
    BY <2>2 DEF Driving, StartPC, StopPC
  <2>4. QED  BY <1>15, <1>1, <1>3, <1>5, <2>1, <2>3 DEF StartEnter, Loop
<1>16. ASSUME NEW c \in Caller, StopBegin(c) PROVE HandlerOwnsState'
  <2>1. pc'[c] = "stop_close" /\ state' = "stopping"
    BY <1>16, <1>3 DEF StopBegin, TypeOK
  <2>2. LeavesState(c)' = "stopping"
    BY <2>1 DEF LeavesState, StopPC
  <2>3. QED  BY <1>16, <1>3, <1>5, <2>1, <2>2, NoDriver DEF StopBegin
<1>17. ASSUME NEW c \in Caller, CancelBegin(c) \/ CloseSucceeds(c) \/ CloseFails(c) PROVE HandlerOwnsState'
  <2>1. \A u \in Task : Driving(u)' => Driving(u) /\ LeavesState(u)' = LeavesState(u)
    BY <1>17 DEF CancelBegin, CloseSucceeds, CloseFails, CloseEnds, TypeOK, Driving, LeavesState, StartPC, StopPC
  <2>2. QED  BY <1>17, <2>1, SameDriver DEF CancelBegin, CloseSucceeds, CloseFails, CloseEnds
<1>18. ASSUME NEW t \in Task, CancelLoop(t) PROVE HandlerOwnsState'
  <2>1. \A u \in Task : pc'[u] = pc[u] \/ (u = t /\ pc'[u] = After[pc[u]])
    BY <1>18 DEF CancelLoop, TypeOK
  <2>2. \A u \in Task : Driving(u)' => Driving(u) /\ LeavesState(u)' = LeavesState(u)
    BY <1>18, <2>1, StageFacts DEF CancelLoop, Driving, LeavesState
  <2>3. QED  BY <1>18, <2>2, SameDriver DEF CancelLoop
<1>19. ASSUME NEW c \in Caller, StopReset(c) PROVE HandlerOwnsState'
  <2>1. Driving(c)
    BY <1>19 DEF StopReset, Driving, StopPC
  <2>2. pc'[c] = "idle"
    BY <1>19, <1>3, <1>6 DEF StopReset, Loop
  <2>3. ~Driving(c)'
    BY <2>2 DEF Driving, StartPC, StopPC
  <2>4. QED  BY <1>19, <1>1, <1>3, <1>5, <2>1, <2>3 DEF StopReset, Loop
<1>20. CASE Loops
  <2>1. ASSUME NEW l \in Loop, LoopEnds(l) PROVE HandlerOwnsState'
    BY <2>1, OverOwns DEF LoopEnds
  <2>2. CASE MessageLoopStops
    BY <2>2, OverOwns DEF MessageLoopStops, Loop
  <2>3. CASE ReceiveConnected
    BY <2>3, SameDriver DEF ReceiveConnected, Driving, LeavesState
  <2>4. QED  BY <1>20, <2>1, <2>2, <2>3 DEF Loops
<1>21. ASSUME NEW o \in Op, MessageLoopFails(o) PROVE HandlerOwnsState'
  <2>1. \A u \in Task : \/ u = o /\ pc'[u] \in {"op_sequence", "op_raise"}
                        \/ u \in Woken(track["receive"]) /\ pc'[u] = After[pc[u]]
                        \/ pc'[u] = pc[u]
    BY <1>21 DEF MessageLoopFails
  <2>2. ASSUME NEW u \in Task PROVE Driving(u)' => Driving(u) /\ LeavesState(u)' = LeavesState(u)
    <3>1. CASE pc'[u] \in {"op_sequence", "op_raise"}
      BY <3>1 DEF Driving, StartPC, StopPC
    <3>2. CASE u \in Woken(track["receive"]) /\ pc'[u] = After[pc[u]]
      BY <3>2, OverSameDriver DEF Loop
    <3>3. CASE pc'[u] = pc[u]
      BY <3>3 DEF Driving, LeavesState
    <3>4. QED  BY <2>1, <3>1, <3>2, <3>3
  <2>3. QED  BY <1>21, <2>2, SameDriver DEF MessageLoopFails
<1>22. ASSUME NEW o \in Op, OpRaise(o) PROVE HandlerOwnsState'
  <2>1. CASE ~recover[o] /\ state = "connected"
    <3>1. pc'[o] = "op_reconnect" /\ state' = "disconnected"
      BY <1>22, <2>1, <1>4 DEF OpRaise, TypeOK
    <3>2. LeavesState(o)' = "disconnected"
      BY <3>1 DEF LeavesState, StopPC
    <3>3. QED  BY <1>22, <2>1, <1>4, <1>5, <3>1, <3>2, NoDriver DEF OpRaise
  <2>2. CASE ~(~recover[o] /\ state = "connected")
    <3>1. \A u \in Task : Driving(u)' => Driving(u) /\ LeavesState(u)' = LeavesState(u)
      BY <1>22, <2>2 DEF OpRaise, TypeOK, Driving, LeavesState, StartPC, StopPC
    <3>2. QED  BY <1>22, <2>2, <3>1, SameDriver DEF OpRaise
  <2>3. QED  BY <2>1, <2>2
<1>23. ASSUME NEW o \in Op, OpReconnect(o) PROVE HandlerOwnsState'
  <2>1. Driving(o)
    BY <1>23 DEF OpReconnect, Driving
  <2>2. Driving(o)' => state' = LeavesState(o)'
    BY <1>23, <1>4 DEF OpReconnect, TypeOK, Driving, LeavesState, StartPC, StopPC
  <2>3. QED  BY <1>23, <1>1, <1>4, <1>5, <2>1, <2>2 DEF OpReconnect
<1>24. ASSUME NEW o \in Op, ReconnectFails(o) PROVE HandlerOwnsState'
  <2>1. Driving(o) /\ state = "reconnecting"
    BY <1>24, <1>2, <1>4 DEF ReconnectFails, ConnectThrows, Driving, LeavesState, StartPC, StopPC
  <2>2. Driving(o)' => state' = LeavesState(o)'
    BY <1>24, <1>4, <2>1 DEF ReconnectFails, TypeOK, Driving, LeavesState, StartPC, StopPC
  <2>3. QED  BY <1>24, <1>1, <1>4, <1>5, <2>1, <2>2 DEF ReconnectFails
<1>25. ASSUME NEW o \in Op, OpDelayElapses(o) PROVE HandlerOwnsState'
  <2>1. \A u \in Task : Driving(u)' => Driving(u) /\ LeavesState(u)' = LeavesState(u)
    BY <1>25, <1>4 DEF OpDelayElapses, TypeOK, Driving, LeavesState, StartPC, StopPC
  <2>2. QED  BY <1>25, <2>1, SameDriver DEF OpDelayElapses
<1>26. ASSUME NEW o \in Op, OpEnter(o) PROVE HandlerOwnsState'
  <2>1. Driving(o)
    BY <1>26 DEF OpEnter, Driving, StartPC
  <2>2. ~Driving(o)'
    BY <1>26, <1>4 DEF OpEnter, TypeOK, Driving, StartPC, StopPC
  <2>3. QED  BY <1>26, <1>1, <1>4, <1>5, <2>1, <2>2 DEF OpEnter
<1>27. CASE UNCHANGED vars
  BY <1>27, SameDriver DEF vars, Driving, LeavesState
<1>28. QED
  BY <1>11, <1>12, <1>13, <1>14, <1>15, <1>16, <1>17, <1>18, <1>19, <1>20, <1>21, <1>22, <1>23,
     <1>24, <1>25, <1>26, <1>27 DEF Next, Call, Recovery, Either

------------------------------------------------------------------------------
\* The lock: a step that leaves it alone, one that joins it, one that leaves it.
LEMMA LockSame ==
  ASSUME TypeOK, LockInv, lock' = lock,
         \A t \in Task : pc[t] \in LockPC => pc'[t] \in LockPC,
         \A t \in Task : pc'[t] = "connect" => pc[t] = "connect" \/ Holds(t)
  PROVE  LockInv'
<1>1. \A i \in DOMAIN lock : lock[i] \in Task
  BY DEF TypeOK
<1>2. QED  BY <1>1 DEF LockInv, LockExcludes, Holds

LEMMA LockJoin ==
  ASSUME TypeOK, LockInv, NEW t \in Task, lock' = Append(lock, t),
         pc[t] \notin LockPC, pc'[t] \in LockPC \ {"connect"},
         \A u \in Task \ {t} : pc[u] \in LockPC => pc'[u] = pc[u],
         \A u \in Task \ {t} : pc'[u] = "connect" => pc[u] = "connect"
  PROVE  LockInv'
<1>1. /\ DOMAIN lock' = 1 .. Len(lock) + 1
      /\ \A i \in DOMAIN lock : lock'[i] = lock[i] /\ lock[i] \in Task /\ lock[i] # t
      /\ lock'[Len(lock) + 1] = t
      /\ DOMAIN lock = 1 .. Len(lock)
      /\ Len(lock) \in Nat
  BY AppendFacts DEF TypeOK, LockInv
<1>2. \A i \in DOMAIN lock' : i \in DOMAIN lock \/ i = Len(lock) + 1
  BY <1>1
<1>3. \A i \in DOMAIN lock' : pc'[lock'[i]] \in LockPC
  BY <1>1, <1>2 DEF LockInv
<1>4. \A i, j \in DOMAIN lock' : lock'[i] = lock'[j] => i = j
  BY <1>1, <1>2 DEF LockInv, LockExcludes
<1>5. ASSUME NEW u \in Task, pc'[u] = "connect" PROVE Holds(u)'
  <2>1. lock # <<>> /\ Head(lock) = u
    BY <1>5 DEF LockInv, LockExcludes, Holds
  <2>2. lock' # <<>> /\ Head(lock') = Head(lock)
    BY <2>1 DEF TypeOK
  <2>3. QED  BY <2>1, <2>2 DEF Holds
<1>6. QED  BY <1>3, <1>4, <1>5 DEF LockInv, LockExcludes

LEMMA LockLeave ==
  ASSUME TypeOK, LockInv, NEW t \in Task, Holds(t), lock' = Tail(lock),
         NEW x, x \notin LockPC, pc' = [pc EXCEPT ![t] = x]
  PROVE  LockInv'
<1>1. /\ lock # <<>> /\ lock[1] = t /\ 1 \in DOMAIN lock
      /\ \A i \in DOMAIN lock : lock[i] \in Task
      /\ \A i \in DOMAIN lock' : i + 1 \in DOMAIN lock /\ lock'[i] = lock[i + 1] /\ i \in Nat /\ i # 0
  BY TailFacts DEF TypeOK, Holds
<1>2. \A i \in DOMAIN lock' : lock'[i] # t
  BY <1>1 DEF LockInv, LockExcludes
<1>3. \A i \in DOMAIN lock' : pc'[lock'[i]] \in LockPC
  BY <1>1, <1>2 DEF LockInv, TypeOK
<1>4. \A i, j \in DOMAIN lock' : lock'[i] = lock'[j] => i = j
  BY <1>1 DEF LockInv, LockExcludes
<1>5. \A u \in Task : pc'[u] # "connect"
  BY DEF LockInv, LockExcludes, Holds, TypeOK, LockPC
<1>6. QED  BY <1>3, <1>4, <1>5 DEF LockInv, LockExcludes

LEMMA LockOver ==
  ASSUME IInv, lock' = lock, NEW l \in Loop,
         \A t \in Task : \/ pc'[t] = pc[t]
                         \/ t \in Woken(track[l]) /\ pc'[t] = After[pc[t]]
                         \/ pc[t] = "idle" /\ pc'[t] \in {"op_sequence", "op_raise"}
  PROVE  LockInv'
<1>1. ASSUME NEW t \in Woken(track[l]) PROVE pc[t] \notin LockPC /\ After[pc[t]] \notin LockPC
  BY WokenFacts, StageFacts DEF IInv
<1>2. QED  BY <1>1, LockSame DEF IInv, LockPC

LEMMA LockStep ==
  ASSUME IInv, [Next]_vars
  PROVE  LockInv'
<1> USE DEF IInv
<1>1. \A c \in Caller : c \in Task
  BY DEF Task
<1>2. \A o \in Op : o \in Task
  BY DEF Task
<1>3. ASSUME NEW L \in SUBSET Loop, NEW u \in Task
      PROVE  /\ Interrupted(L)[u] \in {pc[u], "idle"}
             /\ pc[u] \in LockPC => Interrupted(L)[u] = pc[u]
  BY InterruptFacts, StageFacts
<1>4. ASSUME NEW L \in SUBSET Loop, NEW t \in Task, NEW x, pc' = [Interrupted(L) EXCEPT ![t] = x]
      PROVE  /\ pc'[t] = x
             /\ \A u \in Task \ {t} : pc'[u] \in {pc[u], "idle"}
             /\ \A u \in Task \ {t} : pc[u] \in LockPC => pc'[u] = pc[u]
  BY <1>3, <1>4, InterruptFacts
<1>11. ASSUME NEW c \in Caller, StartBegin(c) PROVE LockInv'
  <2>1. pc' = [Interrupted({"server", "group"}) EXCEPT ![c] = "connect_lock"] /\ lock' = Append(lock, c)
    BY <1>11 DEF StartBegin
  <2>2. pc[c] = "idle"
    BY <1>11 DEF StartBegin
  <2>3. /\ pc'[c] = "connect_lock"
        /\ \A u \in Task \ {c} : pc'[u] \in {pc[u], "idle"}
        /\ \A u \in Task \ {c} : pc[u] \in LockPC => pc'[u] = pc[u]
    BY <1>1, <1>4, <2>1 DEF Loop
  <2>4. QED  BY <1>1, <2>1, <2>2, <2>3, LockJoin DEF LockPC
<1>12. ASSUME NEW t \in Task, ConnectBegin(t) PROVE LockInv'
  <2>1. pc' = [Interrupted({"receive", "sequence"}) EXCEPT ![t] = "connect"] /\ lock' = lock /\ Holds(t)
    BY <1>12 DEF ConnectBegin
  <2>2. /\ pc'[t] = "connect"
        /\ \A u \in Task \ {t} : pc'[u] \in {pc[u], "idle"}
        /\ \A u \in Task \ {t} : pc[u] \in LockPC => pc'[u] = pc[u]
    BY <1>4, <2>1 DEF Loop
  <2>3. QED  BY <2>1, <2>2, LockSame DEF LockPC
<1>13. ASSUME NEW t \in Task, ConnectSucceeds(t) PROVE LockInv'
  BY <1>13, LockLeave DEF ConnectSucceeds, LockInv, LockExcludes, LockPC
<1>14. ASSUME NEW c \in Caller, StartFails(c) PROVE LockInv'
  BY <1>1, <1>14, LockLeave DEF StartFails, ConnectThrows, LockInv, LockExcludes, LockPC
<1>15. ASSUME NEW c \in Caller, StartEnter(c) PROVE LockInv'
  <2>1. pc' = [Interrupted({"sequence", "receive"}) EXCEPT ![c] = "idle"] /\ lock' = lock /\ pc[c] = "enter"
    BY <1>15 DEF StartEnter
  <2>2. /\ pc'[c] = "idle"
        /\ \A u \in Task \ {c} : pc'[u] \in {pc[u], "idle"}
        /\ \A u \in Task \ {c} : pc[u] \in LockPC => pc'[u] = pc[u]
    BY <1>1, <1>4, <2>1 DEF Loop
  <2>3. QED  BY <1>1, <2>1, <2>2, LockSame DEF LockPC
<1>16. ASSUME NEW c \in Caller, StopBegin(c) \/ CancelBegin(c) PROVE LockInv'
  <2>1. PICK x \in {"stop_close", "cancel_close"} : pc' = [pc EXCEPT ![c] = x]
    BY <1>16 DEF StopBegin, CancelBegin
  <2>2. lock' = Append(lock, c) /\ pc[c] = "idle"
    BY <1>16 DEF StopBegin, CancelBegin
  <2>3. QED  BY <1>1, <2>1, <2>2, LockJoin DEF LockPC, TypeOK
<1>17. ASSUME NEW c \in Caller, CloseSucceeds(c) \/ CloseFails(c) PROVE LockInv'
  <2>1. Holds(c) /\ lock' = Tail(lock)
    BY <1>17 DEF CloseSucceeds, CloseFails, CloseEnds
  <2>2. PICK x \in {"stop_receive", "cancel_sequence", "idle"} : pc' = [pc EXCEPT ![c] = x]
    BY <1>17 DEF CloseSucceeds, CloseFails
  <2>3. QED  BY <1>1, <2>1, <2>2, LockLeave DEF LockPC
<1>18. ASSUME NEW t \in Task, CancelLoop(t) PROVE LockInv'
  <2>1. lock' = lock /\ pc[t] \in Stage
    BY <1>18 DEF CancelLoop
  <2>2. \A u \in Task : pc'[u] = pc[u] \/ (u = t /\ pc'[u] = After[pc[u]])
    BY <1>18 DEF CancelLoop, TypeOK
  <2>3. pc[t] \notin LockPC /\ After[pc[t]] \notin LockPC
    BY <2>1, StageFacts
  <2>4. QED  BY <2>1, <2>2, <2>3, LockSame DEF LockPC
<1>19. ASSUME NEW c \in Caller, StopReset(c) PROVE LockInv'
  <2>1. /\ pc' = [Interrupted({"receive", "sequence"}) EXCEPT ![c] = "idle"]
        /\ lock' = lock /\ pc[c] = "stop_reset"
    BY <1>19 DEF StopReset
  <2>2. /\ pc'[c] = "idle"
        /\ \A u \in Task \ {c} : pc'[u] \in {pc[u], "idle"}
        /\ \A u \in Task \ {c} : pc[u] \in LockPC => pc'[u] = pc[u]
    BY <1>1, <1>4, <2>1 DEF Loop
  <2>3. QED  BY <1>1, <2>1, <2>2, LockSame DEF LockPC
<1>20. CASE Loops
  <2>1. ASSUME NEW l \in Loop, NEW i, LoopOver(l, i) PROVE LockInv'
    BY <2>1, LockOver DEF LoopOver
  <2>2. QED  BY <1>20, <2>1, LockSame DEF Loops, LoopEnds, MessageLoopStops, ReceiveConnected, Loop
<1>21. ASSUME NEW o \in Op, MessageLoopFails(o) PROVE LockInv'
  BY <1>2, <1>21, LockOver DEF MessageLoopFails, Loop
<1>22. ASSUME NEW o \in Op, OpRaise(o) \/ OpEnter(o) PROVE LockInv'
  <2>1. PICK x \in {"idle", "op_reconnect"} : pc' = [pc EXCEPT ![o] = x]
    BY <1>22 DEF OpRaise, OpEnter
  <2>2. lock' = lock /\ pc[o] \in {"op_raise", "enter"}
    BY <1>22 DEF OpRaise, OpEnter
  <2>3. QED  BY <1>2, <2>1, <2>2, LockSame DEF LockPC, TypeOK
<1>23. ASSUME NEW o \in Op, OpReconnect(o) \/ OpDelayElapses(o) PROVE LockInv'
  <2>1. pc[o] \in {"op_reconnect", "op_delay"}
    BY <1>23 DEF OpReconnect, OpDelayElapses
  <2>2. CASE lock' = Append(lock, o) /\ pc' = [pc EXCEPT ![o] = "connect_lock"]
    BY <1>2, <2>1, <2>2, LockJoin DEF LockPC, TypeOK
  <2>3. CASE lock' = lock /\ pc' = [pc EXCEPT ![o] = "idle"]
    BY <1>2, <2>1, <2>3, LockSame DEF LockPC, TypeOK
  <2>4. QED  BY <1>23, <2>2, <2>3 DEF OpReconnect, OpDelayElapses
<1>24. ASSUME NEW o \in Op, ReconnectFails(o) PROVE LockInv'
  <2>1. PICK x \in {"op_delay", "idle"} : pc' = [pc EXCEPT ![o] = x]
    BY <1>24 DEF ReconnectFails
  <2>2. Holds(o) /\ lock' = Tail(lock)
    BY <1>2, <1>24 DEF ReconnectFails, ConnectThrows, LockInv, LockExcludes
  <2>3. QED  BY <1>2, <2>1, <2>2, LockLeave DEF LockPC
<1>25. CASE UNCHANGED vars
  BY <1>25, LockSame DEF vars
<1>26. QED
  BY <1>11, <1>12, <1>13, <1>14, <1>15, <1>16, <1>17, <1>18, <1>19, <1>20, <1>21, <1>22, <1>23,
     <1>24, <1>25 DEF Next, Call, Recovery, Either

------------------------------------------------------------------------------
\* The tracks: a queue whose coroutines do not move, one whose head is woken, and
\* one that a coroutine joins.
LEMMA AwaitsSame ==
  ASSUME NEW l, NEW w, NEW p, NEW q, Awaits(l, w, p), \A i \in DOMAIN w : q[w[i]] = p[w[i]]
  PROVE  Awaits(l, w, q)
  BY DEF Awaits

LEMMA AwaitsSignalled ==
  ASSUME NEW l, NEW c \in Track, NEW p, NEW q, Awaits(l, c.waiting, p),
         \A i \in DOMAIN c.waiting : c.waiting[i] \notin Woken(c) => q[c.waiting[i]] = p[c.waiting[i]]
  PROVE  Awaits(l, Signalled(c).waiting, q)
<1> DEFINE w == c.waiting
<1>1. w \in Seq(Task) /\ c.token \in BOOLEAN /\ c.open \in BOOLEAN
  BY DEF Track
<1>2. CASE c.open /\ w # <<>>
  <2>1. Signalled(c).waiting = Tail(w) /\ Woken(c) = {w[1]} /\ 1 \in DOMAIN w
    BY <1>1, <1>2, TailFacts DEF Signalled, Woken, Track
  <2>2. \A i \in DOMAIN Tail(w) : i + 1 \in DOMAIN w /\ Tail(w)[i] = w[i + 1] /\ i + 1 # 1 /\ i \in Nat
    BY <1>1, <1>2, TailFacts
  <2>3. \A i \in DOMAIN Tail(w) : q[Tail(w)[i]] = p[Tail(w)[i]]
    BY <2>1, <2>2 DEF Awaits
  <2>4. QED  BY <2>1, <2>2, <2>3 DEF Awaits
<1>3. CASE ~(c.open /\ w # <<>>)
  <2>1. Signalled(c).waiting = w /\ Woken(c) = {}
    BY <1>3 DEF Signalled, Woken, Track
  <2>2. QED  BY <2>1, AwaitsSame
<1>4. QED  BY <1>2, <1>3

LEMMA AwaitsJoined ==
  ASSUME NEW l, NEW c \in Track, NEW t \in Task, NEW p, NEW q, Awaits(l, c.waiting, p),
         \A i \in DOMAIN c.waiting : c.waiting[i] # t /\ q[c.waiting[i]] = p[c.waiting[i]],
         Suspends(c) => q[t] \in Stage /\ LoopOf[q[t]] = l
  PROVE  Awaits(l, Awaited(c, t).waiting, q)
<1> DEFINE w == c.waiting
<1>1. w \in Seq(Task) /\ c.token \in BOOLEAN /\ c.open \in BOOLEAN
  BY DEF Track
<1>2. CASE Suspends(c)
  <2>1. Awaited(c, t).waiting = Append(w, t)
    BY <1>2 DEF Awaited, Suspends, Track
  <2>2. /\ DOMAIN w = 1 .. Len(w) /\ Len(w) \in Nat
        /\ DOMAIN Append(w, t) = 1 .. Len(w) + 1
        /\ \A i \in DOMAIN w : Append(w, t)[i] = w[i]
        /\ Append(w, t)[Len(w) + 1] = t
    BY <1>1, AppendFacts
  <2>3. \A i \in DOMAIN Append(w, t) : i \in DOMAIN w \/ i = Len(w) + 1
    BY <2>2
  <2> HIDE DEF w
  <2>4. \A i \in DOMAIN w : w[i] # t /\ q[w[i]] \in Stage /\ LoopOf[q[w[i]]] = l
    BY DEF w, Awaits
  <2>5. \A i, j \in DOMAIN w : w[i] = w[j] => i = j
    BY DEF w, Awaits
  <2>6. \A i \in DOMAIN Append(w, t) : q[Append(w, t)[i]] \in Stage /\ LoopOf[q[Append(w, t)[i]]] = l
    BY <1>2, <2>2, <2>3, <2>4
  <2>7. \A i, j \in DOMAIN Append(w, t) : Append(w, t)[i] = Append(w, t)[j] => i = j
    BY <2>2, <2>3, <2>4, <2>5
  <2>8. QED  BY <2>1, <2>6, <2>7 DEF Awaits
<1>3. CASE ~Suspends(c)
  <2>1. Awaited(c, t).waiting = w
    BY <1>1, <1>3 DEF Awaited, Suspends, Track
  <2>2. QED  BY <2>1, AwaitsSame
<1>4. QED  BY <1>2, <1>3

\* Steps that clear the tracks of L and interrupt who stands in them, and steps
\* that leave all the tracks alone.
LEMMA WaitCleared ==
  ASSUME TypeOK, WaitInv, NEW L \in SUBSET Loop, NEW t \in Task, NEW x, pc[t] \notin Stage,
         pc' = [Interrupted(L) EXCEPT ![t] = x],
         \A l \in L : track'[l].waiting = <<>>,
         \A l \in Loop \ L : track'[l] = track[l]
  PROVE  WaitInv'
<1>1. ASSUME NEW l \in L PROVE Awaits(l, track'[l].waiting, pc')
  <2>1. DOMAIN track'[l].waiting = {}
    OBVIOUS
  <2>2. QED  BY <2>1 DEF Awaits
<1>2. ASSUME NEW l \in Loop \ L PROVE Awaits(l, track'[l].waiting, pc')
  <2>1. \A i \in DOMAIN track[l].waiting :
          track[l].waiting[i] \in Task /\ track[l].waiting[i] # t
    BY DEF TypeOK, Track, WaitInv, Awaits
  <2>2. \A i \in DOMAIN track[l].waiting : pc'[track[l].waiting[i]] = pc[track[l].waiting[i]]
    BY <2>1, InterruptFacts
  <2>3. Awaits(l, track[l].waiting, pc)
    BY DEF WaitInv
  <2>4. Awaits(l, track[l].waiting, pc')
    BY <2>2, <2>3 DEF Awaits
  <2>5. track'[l] = track[l]
    OBVIOUS
  <2>6. QED  BY <2>4, <2>5
<1>3. QED  BY <1>1, <1>2 DEF WaitInv

LEMMA WaitSame ==
  ASSUME TypeOK, WaitInv, track' = track, \A t \in Task : pc[t] \in Stage => pc'[t] = pc[t]
  PROVE  WaitInv'
<1>1. ASSUME NEW l \in Loop PROVE Awaits(l, track[l].waiting, pc')
  <2>1. \A i \in DOMAIN track[l].waiting : track[l].waiting[i] \in Task
    BY DEF TypeOK, Track
  <2>2. Awaits(l, track[l].waiting, pc)
    BY DEF WaitInv
  <2>3. QED  BY <2>1, <2>2 DEF Awaits
<1>2. QED  BY <1>1 DEF WaitInv

\* Coroutines in different tracks differ.
LEMMA OneTrack ==
  ASSUME TypeOK, WaitInv, NEW l \in Loop, NEW m \in Loop, l # m,
         NEW i \in DOMAIN track[m].waiting
  PROVE  track[m].waiting[i] \notin Woken(track[l])
  BY WokenFacts DEF WaitInv, Awaits

LEMMA WaitOver ==
  ASSUME IInv, NEW l \in Loop, NEW i, LoopOver(l, i)
  PROVE  WaitInv'
<1> USE DEF IInv
<1>1. \A t \in Task : t \notin Woken(track[l]) => pc'[t] = pc[t]
  BY DEF LoopOver
<1>2. \A m \in Loop : \A k \in DOMAIN track[m].waiting : track[m].waiting[k] \in Task
  BY DEF TypeOK, Track
<1>3. \A m \in Loop : track[m] \in Track /\ Awaits(m, track[m].waiting, pc)
  BY DEF TypeOK, WaitInv
<1>4. track'[l] = Signalled(track[l]) /\ \A m \in Loop \ {l} : track'[m] = track[m]
  BY DEF LoopOver, TypeOK
<1>5. Awaits(l, track'[l].waiting, pc')
  BY <1>1, <1>2, <1>3, <1>4, AwaitsSignalled
<1>6. ASSUME NEW m \in Loop \ {l} PROVE Awaits(m, track'[m].waiting, pc')
  <2>1. \A k \in DOMAIN track[m].waiting : pc'[track[m].waiting[k]] = pc[track[m].waiting[k]]
    BY <1>1, <1>2, OneTrack
  <2>2. QED  BY <1>3, <1>4, <2>1, AwaitsSame
<1>7. QED  BY <1>5, <1>6 DEF WaitInv

LEMMA WaitCancelLoop ==
  ASSUME IInv, NEW t \in Task, CancelLoop(t)
  PROVE  WaitInv'
<1> USE DEF IInv
<1> DEFINE l == LoopOf[pc[t]]
<1>1. l \in Loop /\ pc[t] \in Stage
  BY StageFacts DEF CancelLoop
<1>2. /\ \A m \in Loop : track[m] \in Track /\ Awaits(m, track[m].waiting, pc)
      /\ \A m \in Loop : \A k \in DOMAIN track[m].waiting :
           track[m].waiting[k] \in Task /\ track[m].waiting[k] # t
  BY DEF TypeOK, Track, WaitInv, CancelLoop, Waiting
<1>3. /\ track' = [track EXCEPT ![l] = Awaited(track[l], t)]
      /\ pc' = [pc EXCEPT ![t] = IF Suspends(track[l]) THEN pc[t] ELSE After[pc[t]]]
  BY DEF CancelLoop
<1>4. /\ track'[l] = Awaited(track[l], t)
      /\ \A m \in Loop \ {l} : track'[m] = track[m]
      /\ \A u \in Task \ {t} : pc'[u] = pc[u]
      /\ Suspends(track[l]) => pc'[t] = pc[t]
  BY <1>1, <1>3 DEF TypeOK
<1>5. Awaits(l, track'[l].waiting, pc')
  <2>1. track[l] \in Track /\ Awaits(l, track[l].waiting, pc)
    BY <1>1, <1>2
  <2>2. \A k \in DOMAIN track[l].waiting :
          track[l].waiting[k] # t /\ pc'[track[l].waiting[k]] = pc[track[l].waiting[k]]
    BY <1>1, <1>2, <1>4
  <2>3. Suspends(track[l]) => pc'[t] \in Stage /\ LoopOf[pc'[t]] = l
    BY <1>1, <1>4
  <2> HIDE DEF l
  <2>4. Awaits(l, Awaited(track[l], t).waiting, pc')
    BY <2>1, <2>2, <2>3, AwaitsJoined
  <2>5. QED  BY <1>4, <2>4
<1>6. ASSUME NEW m \in Loop \ {l} PROVE Awaits(m, track'[m].waiting, pc')
  BY <1>2, <1>4, AwaitsSame
<1>7. QED  BY <1>5, <1>6 DEF WaitInv

LEMMA WaitFails ==
  ASSUME IInv, NEW o \in Op, MessageLoopFails(o)
  PROVE  WaitInv'
<1> USE DEF IInv
<1> DEFINE r == track["receive"]
           s == track["sequence"]
<1>1. o \in Task /\ pc[o] = "idle" /\ pc[o] \notin Stage
  BY StageFacts DEF Task, MessageLoopFails
<1>2. /\ \A m \in Loop : track[m] \in Track /\ Awaits(m, track[m].waiting, pc)
      /\ \A m \in Loop : \A k \in DOMAIN track[m].waiting :
           track[m].waiting[k] \in Task /\ track[m].waiting[k] # o
  BY <1>1 DEF TypeOK, Track, WaitInv, Awaits
<1>3. /\ track'["receive"] = Signalled(r)
      /\ track'["sequence"] = Awaited(s, o)
      /\ \A m \in Loop \ {"receive", "sequence"} : track'[m] = track[m]
  BY DEF MessageLoopFails, TypeOK, Loop
<1>4. /\ \A u \in Task : u # o /\ u \notin Woken(r) => pc'[u] = pc[u]
      /\ Suspends(s) => pc'[o] = "op_sequence"
  BY <1>1 DEF MessageLoopFails
<1>5. "receive" \in Loop /\ "sequence" \in Loop
  BY DEF Loop
<1>6. ASSUME NEW m \in Loop \ {"receive"}
      PROVE  \A k \in DOMAIN track[m].waiting : pc'[track[m].waiting[k]] = pc[track[m].waiting[k]]
  BY <1>2, <1>4, <1>5, OneTrack
<1>7. Awaits("receive", track'["receive"].waiting, pc')
  <2>1. \A k \in DOMAIN r.waiting : r.waiting[k] \notin Woken(r) => pc'[r.waiting[k]] = pc[r.waiting[k]]
    BY <1>2, <1>4, <1>5
  <2>2. r \in Track /\ Awaits("receive", r.waiting, pc)
    BY <1>2, <1>5
  <2> HIDE DEF r
  <2>3. QED  BY <1>3, <2>1, <2>2, AwaitsSignalled
<1>8. Awaits("sequence", track'["sequence"].waiting, pc')
  <2>1. \A k \in DOMAIN s.waiting : s.waiting[k] # o /\ pc'[s.waiting[k]] = pc[s.waiting[k]]
    BY <1>2, <1>5, <1>6
  <2>2. s \in Track /\ Awaits("sequence", s.waiting, pc)
    BY <1>2, <1>5
  <2>3. Suspends(s) => pc'[o] \in Stage /\ LoopOf[pc'[o]] = "sequence"
    BY <1>4 DEF Stage, LoopOf
  <2>4. o \in Task /\ track'["sequence"] = Awaited(s, o)
    BY <1>1, <1>3
  <2> HIDE DEF s
  <2>5. Awaits("sequence", Awaited(s, o).waiting, pc')
    BY <2>1, <2>2, <2>3, <2>4, AwaitsJoined
  <2>6. QED  BY <2>4, <2>5
<1>9. ASSUME NEW m \in Loop \ {"receive", "sequence"} PROVE Awaits(m, track'[m].waiting, pc')
  BY <1>2, <1>3, <1>6, AwaitsSame
<1>10. QED  BY <1>7, <1>8, <1>9 DEF WaitInv

LEMMA WaitStep ==
  ASSUME IInv, [Next]_vars
  PROVE  WaitInv'
<1> USE DEF IInv
<1>1. \A p \in Stage : p \notin LockPC \cup StartPC \cup {"idle", "op_raise", "op_reconnect", "op_delay", "stop_reset"}
  BY StageFacts
<1>2. \A c \in Caller : c \in Task
  BY DEF Task
<1>3. \A o \in Op : o \in Task
  BY DEF Task
<1>4. ASSUME NEW t \in Task, NEW x, pc[t] \notin Stage, pc' = [pc EXCEPT ![t] = x], track' = track
      PROVE  WaitInv'
  BY <1>4, WaitSame DEF TypeOK
<1>11. ASSUME NEW c \in Caller, StartBegin(c) PROVE WaitInv'
  <2> DEFINE L == {"server", "group"}
  <2>1. pc[c] \notin Stage /\ pc' = [Interrupted(L) EXCEPT ![c] = "connect_lock"]
    BY <1>1, <1>11 DEF StartBegin
  <2>2. (\A l \in L : track'[l].waiting = <<>>) /\ \A l \in Loop \ L : track'[l] = track[l]
    BY <1>11 DEF StartBegin, Spawned, Fresh, Loop
  <2>3. QED  BY <1>2, <2>1, <2>2, WaitCleared DEF Loop
<1>12. ASSUME NEW t \in Task, ConnectBegin(t) PROVE WaitInv'
  <2> DEFINE L == {"receive", "sequence"}
  <2>1. pc[t] \notin Stage /\ pc' = [Interrupted(L) EXCEPT ![t] = "connect"]
    BY <1>1, <1>12 DEF ConnectBegin, StartPC
  <2>2. (\A l \in L : track'[l].waiting = <<>>) /\ \A l \in Loop \ L : track'[l] = track[l]
    BY <1>12 DEF ConnectBegin, ResetConnection, Closed, Loop, TypeOK
  <2>3. QED  BY <2>1, <2>2, WaitCleared DEF Loop
<1>13. ASSUME NEW t \in Task, ConnectSucceeds(t) PROVE WaitInv'
  BY <1>1, <1>4, <1>13 DEF ConnectSucceeds, StartPC
<1>14. ASSUME NEW c \in Caller, StartFails(c) PROVE WaitInv'
  BY <1>1, <1>2, <1>4, <1>14 DEF StartFails, ConnectThrows, StartPC
<1>15. ASSUME NEW c \in Caller, StartEnter(c) PROVE WaitInv'
  <2> DEFINE L == {"sequence", "receive"}
  <2>1. pc[c] \notin Stage /\ pc' = [Interrupted(L) EXCEPT ![c] = "idle"]
    BY <1>1, <1>15 DEF StartEnter, StartPC
  <2>2. (\A l \in L : track'[l].waiting = <<>>) /\ \A l \in Loop \ L : track'[l] = track[l]
    BY <1>15 DEF StartEnter, Spawned, Fresh, Loop
  <2>3. QED  BY <1>2, <2>1, <2>2, WaitCleared DEF Loop
<1>16. ASSUME NEW c \in Caller, StopBegin(c) \/ CancelBegin(c) PROVE WaitInv'
  BY <1>1, <1>2, <1>4, <1>16 DEF StopBegin, CancelBegin
<1>17. ASSUME NEW c \in Caller, CloseSucceeds(c) \/ CloseFails(c) PROVE WaitInv'
  BY <1>1, <1>2, <1>4, <1>17 DEF CloseSucceeds, CloseFails, CloseEnds, LockPC
<1>18. ASSUME NEW t \in Task, CancelLoop(t) PROVE WaitInv'
  BY <1>18, WaitCancelLoop
<1>19. ASSUME NEW c \in Caller, StopReset(c) PROVE WaitInv'
  <2> DEFINE L == {"receive", "sequence"}
  <2>1. pc[c] \notin Stage /\ pc' = [Interrupted(L) EXCEPT ![c] = "idle"]
    BY <1>1, <1>19 DEF StopReset
  <2>2. (\A l \in L : track'[l].waiting = <<>>) /\ \A l \in Loop \ L : track'[l] = track[l]
    BY <1>19 DEF StopReset, ResetConnection, Closed, Loop, TypeOK
  <2>3. QED  BY <1>2, <2>1, <2>2, WaitCleared DEF Loop
<1>20. CASE Loops
  BY <1>20, WaitOver, WaitSame DEF Loops, LoopEnds, MessageLoopStops, ReceiveConnected, Loop
<1>21. ASSUME NEW o \in Op, MessageLoopFails(o) PROVE WaitInv'
  BY <1>21, WaitFails
<1>22. ASSUME NEW o \in Op, OpRaise(o) \/ OpReconnect(o) PROVE WaitInv'
  BY <1>1, <1>3, <1>4, <1>22 DEF OpRaise, OpReconnect
<1>23. ASSUME NEW o \in Op, ReconnectFails(o) PROVE WaitInv'
  BY <1>1, <1>3, <1>4, <1>23 DEF ReconnectFails, ConnectThrows, StartPC
<1>24. ASSUME NEW o \in Op, OpDelayElapses(o) \/ OpEnter(o) PROVE WaitInv'
  BY <1>1, <1>3, <1>4, <1>24 DEF OpDelayElapses, OpEnter, StartPC
<1>25. CASE UNCHANGED vars
  BY <1>25, WaitSame DEF vars
<1>26. QED
  BY <1>11, <1>12, <1>13, <1>14, <1>15, <1>16, <1>17, <1>18, <1>19, <1>20, <1>21, <1>22, <1>23,
     <1>24, <1>25 DEF Next, Call, Recovery, Either

------------------------------------------------------------------------------
LEMMA Invariance == Spec => []IInv
<1>1. Init => IInv
  <2> SUFFICES ASSUME Init PROVE IInv
    OBVIOUS
  <2>1. TypeOK
    <3>1. Closed \in Track
      BY DEF Closed, Track
    <3>2. track \in [Loop -> Track] /\ loop \in [Loop -> Seq(LoopStatus)]
      BY <3>1 DEF Init
    <3>3. pc \in [Task -> CallerPC \cup OpPC] /\ \A t \in Task : pc[t] \in CallerPC /\ pc[t] \in OpPC
      BY DEF Init, CallerPC, OpPC
    <3>4. lock \in Seq(Task) /\ state \in State
      BY DEF Init, State
    <3>5. options \in Choices /\ known \in BOOLEAN /\ hasSocket \in BOOLEAN /\ recover \in [Op -> BOOLEAN]
      BY DEF Init
    <3>6. QED  BY <3>2, <3>3, <3>4, <3>5 DEF TypeOK, Task
  <2>2. \A l \in Loop : DOMAIN track[l].waiting = {}
    BY DEF Init, Closed
  <2>3. WaitInv
    BY <2>2 DEF WaitInv, Awaits
  <2>4. LockInv /\ HandlerOwnsState
    BY DEF Init, LockInv, LockExcludes, HandlerOwnsState, Driving, StartPC, StopPC
  <2>5. QED  BY <2>1, <2>3, <2>4 DEF IInv
<1>2. IInv /\ [Next]_vars => IInv'
  BY TypeStep, WaitStep, LockStep, OwnsStep DEF IInv
<1>3. QED  BY <1>1, <1>2, PTL DEF Spec

\* The variables have their types; a closed track holds no coroutine.
THEOREM TypeCorrect == Spec => []TypeOK
<1>1. IInv => TypeOK
  BY DEF IInv
<1>2. QED  BY <1>1, Invariance, PTL

\* At most one coroutine is inside an async_on_event, and the state is the one it
\* left: the references of async_raise_event into state_ stay valid.
THEOREM OwnsState == Spec => []HandlerOwnsState
<1>1. IInv => HandlerOwnsState
  BY DEF IInv
<1>2. QED  BY <1>1, Invariance, PTL

\* The lock of the lifetime service excludes.
THEOREM Excludes == Spec => []LockExcludes
<1>1. IInv => LockExcludes
  BY DEF IInv, LockInv
<1>2. QED  BY <1>1, Invariance, PTL

------------------------------------------------------------------------------
\* An interruption of other coroutines than the one that stops is none of it.
LEMMA StopStep ==
  ASSUME IInv, [Next]_vars, NEW c \in Caller, pc[c] \in StopPC \ {"stop_close"}, pc'[c] \notin StopPC
  PROVE  state' = "stopped"
<1> USE DEF IInv
<1>1. c \in Task /\ c \notin Op /\ Driving(c)
  BY LifecycleAssumption DEF Task, Driving
<1>2. state = "stopping" /\ \A u \in Task : Driving(u) => u = c
  BY <1>1 DEF HandlerOwnsState, LeavesState
<1>3. ~UNCHANGED vars
  BY DEF vars
<1>4. \A l \in Loop : c \in Woken(track[l]) => pc[c] \in Stage
  BY WokenFacts
<1>5. pc[c] \in Stage => After[pc[c]] \in StopPC
  BY StageFacts
<1>6. ASSUME NEW d \in Caller, Call(d) PROVE state' = "stopped"
  <2>1. ~StartBegin(d) /\ ~StopBegin(d)
    BY <1>2 DEF StartBegin, StopBegin
  <2>2. ~StartEnter(d)
    BY <1>1, <1>2 DEF StartEnter, Driving, Task, StartPC, StopPC
  <2>3. ~StartFails(d) /\ ~CancelBegin(d) /\ ~CloseSucceeds(d) /\ ~CloseFails(d)
    BY <1>1 DEF StartFails, ConnectThrows, CancelBegin, CloseSucceeds, CloseFails, CloseEnds, TypeOK, StopPC
  <2>4. StopReset(d) => state' = "stopped"
    BY DEF StopReset
  <2>5. QED  BY <1>6, <2>1, <2>2, <2>3, <2>4 DEF Call
<1>7. ASSUME NEW o \in Op, Recovery(o) PROVE FALSE
  <2>1. o # c /\ o \in Task
    BY <1>1 DEF Task
  <2>2. pc'[c] = pc[c] \/ (pc[c] \in Stage /\ pc'[c] = After[pc[c]])
    BY <1>1, <1>4, <1>7, <2>1 DEF Recovery, MessageLoopFails, OpRaise, OpReconnect, ReconnectFails,
       OpDelayElapses, OpEnter, TypeOK, Loop
  <2>3. QED  BY <1>5, <2>2
<1>8. ASSUME NEW t \in Task, Either(t) PROVE FALSE
  <2>1. ~ConnectBegin(t)
    BY <1>2 DEF ConnectBegin, Driving, StartPC, StopPC
  <2>2. CASE ConnectSucceeds(t)
    BY <1>1, <2>2 DEF ConnectSucceeds, TypeOK, StopPC
  <2>3. CASE CancelLoop(t)
    BY <1>1, <1>5, <2>3 DEF CancelLoop, TypeOK
  <2>4. QED  BY <1>8, <2>1, <2>2, <2>3 DEF Either
<1>9. CASE Loops
  <2>1. pc'[c] = pc[c] \/ (pc[c] \in Stage /\ pc'[c] = After[pc[c]])
    BY <1>1, <1>4, <1>9 DEF Loops, LoopEnds, MessageLoopStops, ReceiveConnected, LoopOver, Loop
  <2>2. QED  BY <1>5, <2>1
<1>10. QED  BY <1>3, <1>6, <1>7, <1>8, <1>9 DEF Next

\* A call of async_stop that has closed the websocket ends in stopped.
THEOREM NotInterrupted == Spec => StopIsNotInterrupted
<1>1. IInv /\ [Next]_vars =>
        [\A c \in Caller : pc[c] \in StopPC \ {"stop_close"} /\ pc'[c] \notin StopPC => state' = "stopped"]_vars
  BY StopStep
<1>2. QED  BY <1>1, Invariance, PTL DEF Spec, StopIsNotInterrupted

------------------------------------------------------------------------------
\* A step that changes the state follows an edge of the diagram.
LEMMA DiagramStep ==
  ASSUME IInv, [Next]_vars
  PROVE  Diagram!Next \/ UNCHANGED <<state, options>>
<1> USE DEF IInv
<1>1. \A t \in Task : Driving(t) => state = LeavesState(t)
  BY DEF HandlerOwnsState
<1>2. (\A c \in Caller : c \in Task) /\ \A o \in Op : o \in Task /\ o \notin Caller
  BY LifecycleAssumption DEF Task
<1> DEFINE Moves == <<state, state'>> \in Diagram!Edges /\ (state' = "reconnecting" => options.autoReconnect)
<1> DEFINE Stops == state = "disconnected" /\ state' = "stopped" /\ ~options.autoReconnect
<1>3. ASSUME NEW c \in Caller, Call(c) PROVE options' = options /\ (Moves \/ Stops \/ state' = state)
  <2>1. StartEnter(c) => state = "connecting"
    BY <1>1, <1>2 DEF StartEnter, Driving, LeavesState, StartPC, StopPC
  <2>2. StopReset(c) => state = "stopping"
    BY <1>1, <1>2 DEF StopReset, Driving, LeavesState, StopPC
  <2>3. QED  BY <1>3, <2>1, <2>2 DEF Call, StartBegin, StartFails, StartEnter, StopBegin, StopReset,
             CancelBegin, CloseSucceeds, CloseFails, CloseEnds, ConnectThrows, Diagram!Edges
<1>4. ASSUME NEW o \in Op, Recovery(o) PROVE options' = options /\ (Moves \/ Stops \/ state' = state)
  <2>1. OpReconnect(o) => state = "disconnected"
    BY <1>1, <1>2 DEF OpReconnect, Driving, LeavesState, StopPC
  <2>2. ReconnectFails(o) \/ OpEnter(o) => state = "reconnecting"
    BY <1>1, <1>2 DEF ReconnectFails, ConnectThrows, OpEnter, Driving, LeavesState, StartPC, StopPC
  <2>3. QED  BY <1>4, <2>1, <2>2 DEF Recovery, MessageLoopFails, OpRaise, OpReconnect, ReconnectFails,
             ConnectThrows, OpDelayElapses, OpEnter, Diagram!Edges
<1>5. ASSUME NEW t \in Task, Either(t) PROVE UNCHANGED <<state, options>>
  BY <1>5 DEF Either, ConnectBegin, ConnectSucceeds, CancelLoop
<1>6. CASE Loops
  BY <1>6 DEF Loops, LoopEnds, MessageLoopStops, ReceiveConnected, LoopOver
<1>7. CASE UNCHANGED vars
  BY <1>7 DEF vars
<1>8. QED
  BY <1>3, <1>4, <1>5, <1>6, <1>7 DEF Next, Diagram!Next

\* The life cycle implements the diagram in the comment of
\* transition_context.hpp.
THEOREM ImplementsDiagram == Spec => FollowsDiagram
<1>1. Init => Diagram!Init
  BY LifecycleAssumption DEF Init, Diagram!Init, ClientOptions
<1>2. IInv /\ [Next]_vars => [Diagram!Next]_<<state, options.autoReconnect>>
  BY DiagramStep
<1>3. QED  BY <1>1, <1>2, Invariance, PTL DEF Spec, FollowsDiagram, Diagram!Spec

------------------------------------------------------------------------------
(* The loops.  Which of its coroutines a loop service still runs, and what   *)
(* its track says of that.                                                   *)

Guarded(l) == l \in {"receive", "sequence"} \/ ~StopsByItself

\* Only the last coroutine of a loop may live, and while it does its track is open and
\* has no token: who awaits the track of a loop that lives is suspended.
LastInv ==
  \A l \in Loop : Guarded(l) =>
    /\ \A i \in Live(l) : i = Len(loop[l])
    /\ Live(l) # {} => Suspends(track[l])

\* Where a stop stands once it is past a loop, and the loops that it is past.
Passing == {"stop_sequence", "stop_server", "stop_group", "stop_reset"}
Past == [stop_sequence |-> {"receive"},
         stop_server   |-> {"receive", "sequence"},
         stop_group    |-> {"receive", "sequence", "server"},
         stop_reset    |-> Loop]

Active == {"connected", "stopping"}

\* Loops that are over: those that a stop is past, and those of a client that is neither
\* connected nor stopping.
QuietInv ==
  /\ track["receive"].open = track["sequence"].open
  /\ state \notin Active => Live("receive") = {} /\ Live("sequence") = {}
  /\ state = "stopped" => \A l \in Loop : Guarded(l) => Live(l) = {}
  /\ \A c \in Caller : pc[c] \in Passing =>
       \A l \in Past[pc[c]] : Guarded(l) => Live(l) = {}

\* Operation o stands in a queue before every stop.
Ahead(o, w, p) ==
  \E i \in DOMAIN w : w[i] = o /\ \A j \in DOMAIN w : j < i => p[w[j]] # "stop_sequence"

\* Until its event is raised an operation keeps every stop from getting past the sequence loop:
\* it waits in the track before them, or the loop is over and its token is gone.
OpInv ==
  /\ OneRecovery
  /\ \A o \in Op : pc[o] \in {"op_sequence", "op_raise"} =>
       /\ state \in Active
       /\ \A c \in Caller : pc[c] \notin Passing \ {"stop_sequence"}
  /\ \A o \in Op : pc[o] = "op_sequence" => Ahead(o, track["sequence"].waiting, pc)
  /\ \A o \in Op : pc[o] = "op_raise" => Suspends(track["sequence"]) /\ Live("sequence") = {}

LoopsInv == LastInv /\ QuietInv /\ OpInv

------------------------------------------------------------------------------
LEMMA PassingFacts ==
  /\ Passing \subseteq StopPC
  /\ \A p \in Passing : Past[p] \subseteq Loop /\ "receive" \in Past[p]
  /\ \A p \in Passing \ {"stop_sequence"} : "sequence" \in Past[p]
  /\ \A p \in Stage : After[p] \in Passing =>
       /\ \A l \in Past[After[p]] : l = LoopOf[p] \/ (p \in Passing /\ l \in Past[p])
       /\ After[p] # "stop_sequence" => p \in Passing
       /\ After[p] = "stop_server" => p = "stop_sequence"
       /\ After[p] \in {"stop_group", "stop_reset"} => p \in Passing \ {"stop_sequence"}
  /\ \A p \in Stage : LoopOf[p] = "sequence" => After[p] # "stop_sequence"
  /\ \A p \in Stage : p \in OpPC => p = "op_sequence"
  /\ \A p \in Stage : p # "stop_sequence" /\ LoopOf[p] = "sequence" => After[p] \notin Passing
  BY DEF Passing, Past, Stage, After, LoopOf, Loop, StopPC, OpPC, StartPC

\* What becomes of the living coroutines of a loop that is emitted to, loses or gains one.
LiveIn(s) == {i \in DOMAIN s : s[i] # "ended"}

LEMMA LiveFacts ==
  ASSUME NEW s \in Seq(LoopStatus)
  PROVE  /\ LiveIn(Emitted(s)) = LiveIn(s) /\ Len(Emitted(s)) = Len(s)
         /\ \A i \in DOMAIN s : /\ LiveIn([s EXCEPT ![i] = "ended"]) = LiveIn(s) \ {i}
                                /\ Len([s EXCEPT ![i] = "ended"]) = Len(s)
         /\ LiveIn(s) = {} => LiveIn(Append(s, "running")) = {Len(s) + 1}
         /\ Len(Append(s, "running")) = Len(s) + 1
<1>1. LiveIn(Emitted(s)) = LiveIn(s) /\ Len(Emitted(s)) = Len(s)
  BY DEF LiveIn, Emitted, LoopStatus
<1>2. ASSUME NEW i \in DOMAIN s
      PROVE  LiveIn([s EXCEPT ![i] = "ended"]) = LiveIn(s) \ {i} /\ Len([s EXCEPT ![i] = "ended"]) = Len(s)
  BY DEF LiveIn, LoopStatus
<1>3. LiveIn(s) = {} => LiveIn(Append(s, "running")) = {Len(s) + 1}
  BY AppendFacts DEF LiveIn, LoopStatus
<1>4. Len(Append(s, "running")) = Len(s) + 1
  OBVIOUS
<1>5. QED  BY <1>1, <1>2, <1>3, <1>4

LEMMA SuspendFacts ==
  ASSUME NEW c \in Track, NEW t \in Task
  PROVE  /\ Suspends(Fresh) /\ Fresh.open /\ ~Closed.open
         /\ Awaited(c, t).open = c.open /\ Signalled(c).open = c.open
         /\ Suspends(c) => Suspends(Awaited(c, t)) /\ Awaited(c, t).waiting = Append(c.waiting, t)
         /\ c.open => Suspends(Awaited(c, t))
         /\ c.waiting # <<>> => /\ Suspends(c) /\ Suspends(Signalled(c))
                                /\ Signalled(c).waiting = Tail(c.waiting)
                                /\ Woken(c) = {Head(c.waiting)}
  BY DEF Suspends, Fresh, Closed, Awaited, Signalled, Woken, Track

\* Who drives the state, and in which states.
LEMMA OwnFacts ==
  ASSUME IInv
  PROVE  /\ \A c \in Caller : c \in Task /\ c \notin Op
         /\ \A o \in Op : o \in Task /\ o \notin Caller
         /\ \A t, u \in Task : Driving(t) /\ Driving(u) => t = u
         /\ \A t \in Task : pc[t] \in Passing => Driving(t) /\ state = "stopping"
         /\ \A o \in Op : pc[o] \notin {"idle", "op_sequence", "op_raise"} =>
              Driving(o) /\ state \in {"disconnected", "reconnecting"}
         /\ \A o \in Op : pc[o] \notin Passing
         /\ \A t \in Task : pc[t] \in StartPC =>
              Driving(t) /\ state = IF t \in Caller THEN "connecting" ELSE "reconnecting"
<1>1. (\A c \in Caller : c \in Task /\ c \notin Op) /\ \A o \in Op : o \in Task /\ o \notin Caller
  BY LifecycleAssumption DEF Task
<1>2. \A t, u \in Task : Driving(t) /\ Driving(u) => t = u
  BY DEF IInv, HandlerOwnsState
<1>3. \A t \in Task : Driving(t) => state = LeavesState(t)
  BY DEF IInv, HandlerOwnsState
<1>4. \A t \in Task : pc[t] \in Passing => Driving(t) /\ state = "stopping"
  BY <1>3 DEF Driving, LeavesState, Passing, StopPC
<1>5. \A o \in Op : pc[o] \in OpPC
  BY DEF IInv, TypeOK
<1>6. \A o \in Op : pc[o] \notin {"idle", "op_sequence", "op_raise"} =>
        Driving(o) /\ state \in {"disconnected", "reconnecting"}
  BY <1>1, <1>3, <1>5 DEF Driving, LeavesState, OpPC, StartPC, StopPC
<1>7. \A o \in Op : pc[o] \notin Passing
  BY <1>5 DEF OpPC, StartPC, Passing
<1>8. \A t \in Task : pc[t] \in StartPC =>
        Driving(t) /\ state = IF t \in Caller THEN "connecting" ELSE "reconnecting"
  BY <1>3 DEF Driving, LeavesState, StartPC, StopPC
<1>9. QED  BY <1>1, <1>2, <1>4, <1>6, <1>7, <1>8

\* Who stands in a queue: not twice, and at a stage that awaits this loop.
LEMMA QueueFacts ==
  ASSUME IInv, NEW l \in Loop
  PROVE  /\ track[l] \in Track /\ track[l].waiting \in Seq(Task)
         /\ \A i \in DOMAIN track[l].waiting :
              /\ track[l].waiting[i] \in Task
              /\ pc[track[l].waiting[i]] \in Stage
              /\ LoopOf[pc[track[l].waiting[i]]] = l
         /\ \A i, j \in DOMAIN track[l].waiting : track[l].waiting[i] = track[l].waiting[j] => i = j
  BY DEF IInv, TypeOK, WaitInv, Awaits, Track

\* A step that leaves the loops and the tracks alone.
LEMMA LoopsStand ==
  ASSUME IInv, LoopsInv, TypeOK', UNCHANGED <<options, loop, track>>,
         \A c \in Caller : pc'[c] \in Passing => pc'[c] = pc[c],
         \A o \in Op : pc'[o] # "idle" => pc[o] # "idle",
         \A o \in Op : pc'[o] \in {"op_sequence", "op_raise"} => pc'[o] = pc[o] /\ state' \in Active,
         state' \notin Active => Live("receive") = {} /\ Live("sequence") = {},
         state' = "stopped" => \A l \in Loop : Guarded(l) => Live(l) = {}
  PROVE  LoopsInv'
<1>1. \A l : Live(l)' = Live(l) /\ Guarded(l)' = Guarded(l)
  BY DEF Live, Guarded, StopsByItself, ReconnectDelay
<1>2. LastInv'
  BY <1>1 DEF LoopsInv, LastInv
<1>3. QuietInv'
  BY <1>1 DEF LoopsInv, QuietInv
<1>4. \A o \in Op : Ahead(o, track["sequence"].waiting, pc) => Ahead(o, track["sequence"].waiting, pc')
  <2>1. ASSUME NEW t \in Task, pc'[t] = "stop_sequence" PROVE pc[t] = "stop_sequence"
    <3>1. t \in Caller
      BY <2>1 DEF TypeOK, Task, OpPC, StartPC
    <3>2. QED  BY <2>1, <3>1 DEF Passing
  <2>2. \A i \in DOMAIN track["sequence"].waiting : track["sequence"].waiting[i] \in Task
    BY QueueFacts DEF Loop
  <2>3. QED  BY <2>1, <2>2 DEF Ahead
<1>5. OpInv'
  BY <1>1, <1>4 DEF LoopsInv, OpInv, OneRecovery
<1>6. QED  BY <1>2, <1>3, <1>5 DEF LoopsInv

\* What a spawn does to the loops of L, which were over, and to the others.
LEMMA SpawnedLoops ==
  ASSUME IInv, options' = options, NEW L \in SUBSET Loop, Spawned(L)
  PROVE  /\ \A l \in Loop : Guarded(l)' = Guarded(l)
         /\ \A l \in L : Suspends(track'[l]) /\ track'[l] = Fresh
         /\ \A l \in L : Live(l) = {} => \A i \in Live(l)' : i = Len(loop'[l])
         /\ \A l \in Loop \ L : loop'[l] = loop[l] /\ track'[l] = track[l] /\ Live(l)' = Live(l)
<1>1. \A l \in Loop : Guarded(l)' = Guarded(l)
  BY DEF Guarded, StopsByItself, ReconnectDelay
<1>2. \A l \in L : Suspends(track'[l]) /\ track'[l] = Fresh
  BY DEF Spawned, Suspends, Fresh
<1>3. ASSUME NEW l \in L, Live(l) = {} PROVE \A i \in Live(l)' : i = Len(loop'[l])
  <2>1. loop[l] \in Seq(LoopStatus) /\ loop'[l] = Append(loop[l], "running")
    BY DEF IInv, TypeOK, Spawned
  <2>2. LiveIn(loop[l]) = {}
    BY <1>3 DEF Live, LiveIn
  <2>3. LiveIn(loop'[l]) = {Len(loop[l]) + 1} /\ Len(loop'[l]) = Len(loop[l]) + 1
    BY <2>1, <2>2, LiveFacts
  <2>4. QED  BY <2>3 DEF Live, LiveIn
<1>4. \A l \in Loop \ L : loop'[l] = loop[l] /\ track'[l] = track[l] /\ Live(l)' = Live(l)
  BY DEF Spawned, Live
<1>5. QED  BY <1>1, <1>2, <1>3, <1>4

\* A start begins in stopped, where the data loops it spawns are over.
LEMMA LoopsStartBegin ==
  ASSUME IInv, LoopsInv, NEW c \in Caller, StartBegin(c)
  PROVE  LoopsInv'
<1> DEFINE L == {"server", "group"}
<1>1. /\ L \subseteq Loop /\ Loop = {"receive", "sequence"} \cup L
      /\ state = "stopped" /\ state' = "connecting" /\ options' = options /\ Spawned(L)
  BY DEF StartBegin, Loop
<1>2. /\ \A l \in Loop : Guarded(l)' = Guarded(l)
      /\ \A l \in L : Suspends(track'[l]) /\ track'[l] = Fresh
      /\ \A l \in L : Live(l) = {} => \A i \in Live(l)' : i = Len(loop'[l])
      /\ \A l \in {"receive", "sequence"} : loop'[l] = loop[l] /\ track'[l] = track[l] /\ Live(l)' = Live(l)
  BY <1>1, SpawnedLoops DEF Loop
<1>3. Live("receive") = {} /\ Live("sequence") = {} /\ \A l \in Loop : Guarded(l) => Live(l) = {}
  BY <1>1 DEF LoopsInv, QuietInv, Active
<1>4. \A t \in Task : pc'[t] \in {pc[t], "idle", "connect_lock"} /\ (t # c => pc'[t] \in {pc[t], "idle"})
  BY <1>1, InterruptFacts DEF StartBegin, IInv
<1>5. \A o \in Op : pc[o] = "idle"
  BY <1>1, OwnFacts DEF LoopsInv, OpInv, Active
<1>6. \A o \in Op : pc'[o] = "idle"
  BY <1>4, <1>5, OwnFacts
<1>7. \A t \in Task : pc'[t] \notin Passing
  BY <1>1, <1>4, OwnFacts DEF Passing
<1>8. LastInv'
  BY <1>1, <1>2, <1>3 DEF LoopsInv, LastInv
<1>9. QuietInv'
  BY <1>1, <1>2, <1>3, <1>7, OwnFacts DEF LoopsInv, QuietInv, Loop
<1>10. OpInv'
  BY <1>6 DEF OpInv, OneRecovery
<1>11. QED  BY <1>8, <1>9, <1>10 DEF LoopsInv

\* A start enters connected with the loops over, which it spawns, and with no operation.
LEMMA LoopsStartEnter ==
  ASSUME IInv, LoopsInv, NEW c \in Caller, StartEnter(c)
  PROVE  LoopsInv'
<1> DEFINE L == {"receive", "sequence"}
<1>1. /\ L \subseteq Loop /\ Loop = {"server", "group"} \cup L
      /\ state' = "connected" /\ options' = options /\ Spawned(L)
  BY DEF StartEnter, Loop
<1>2. Driving(c) /\ state = "connecting"
  BY OwnFacts DEF StartEnter, StartPC
<1>3. /\ \A l \in Loop : Guarded(l)' = Guarded(l)
      /\ \A l \in L : Suspends(track'[l]) /\ track'[l] = Fresh
      /\ \A l \in L : Live(l) = {} => \A i \in Live(l)' : i = Len(loop'[l])
      /\ \A l \in {"server", "group"} : loop'[l] = loop[l] /\ track'[l] = track[l] /\ Live(l)' = Live(l)
  BY <1>1, SpawnedLoops DEF Loop
<1>4. \A l \in L : Live(l) = {}
  BY <1>2 DEF LoopsInv, QuietInv, Active
<1>5. \A t \in Task : pc'[t] \in {pc[t], "idle"}
  BY <1>1, InterruptFacts DEF StartEnter, IInv
<1>6. \A o \in Op : pc[o] = "idle"
  BY <1>2, OwnFacts DEF LoopsInv, OpInv, Active
<1>7. \A o \in Op : pc'[o] = "idle"
  BY <1>5, <1>6, OwnFacts
<1>8. \A t \in Task : pc'[t] \notin Passing
  BY <1>2, <1>5, OwnFacts DEF Passing
<1>9. LastInv'
  BY <1>1, <1>3, <1>4 DEF LoopsInv, LastInv
<1>10. QuietInv'
  BY <1>1, <1>3, <1>8, OwnFacts DEF QuietInv, Active, Fresh
<1>11. OpInv'
  BY <1>7 DEF OpInv, OneRecovery
<1>12. QED  BY <1>9, <1>10, <1>11 DEF LoopsInv

\* A reset closes tracks of loops that are over, and interrupts no operation.
LEMMA LoopsReset ==
  ASSUME IInv, LoopsInv, ResetConnection, options' = options, NEW t \in Task, NEW x,
         pc' = [Interrupted({"receive", "sequence"}) EXCEPT ![t] = x],
         Driving(t), x \notin Passing \cup {"op_sequence", "op_raise"},
         Live("receive") = {}, Live("sequence") = {},
         state' = state \/ (state' = "stopped" /\ \A l \in Loop : Guarded(l) => Live(l) = {}),
         \A o \in Op : pc[o] \notin {"op_sequence", "op_raise"}
  PROVE  LoopsInv'
<1>1. /\ \A l \in Loop : Guarded(l)' = Guarded(l) /\ loop'[l] = loop[l] /\ Live(l)' = Live(l)
      /\ \A l \in {"server", "group"} : track'[l] = track[l]
      /\ \A l \in {"receive", "sequence"} : track'[l] = Closed
      /\ Loop = {"receive", "sequence", "server", "group"}
  BY DEF ResetConnection, Guarded, StopsByItself, ReconnectDelay, Live, IInv, TypeOK, Loop
<1>2. \A u \in Task : u # t => pc'[u] \in {pc[u], "idle"}
  BY InterruptFacts DEF IInv, Loop
<1>3. pc'[t] = x
  BY InterruptFacts DEF IInv, Loop
<1>4. \A u \in Task : pc'[u] \in Passing => pc[u] \in Passing /\ pc'[u] = pc[u]
  BY <1>2, <1>3 DEF Passing
<1>5. \A o \in Op : pc'[o] \notin {"op_sequence", "op_raise"} /\ (pc'[o] # "idle" => pc[o] # "idle")
  BY <1>2, <1>3, OwnFacts DEF Driving, StartPC, StopPC
<1>6. LastInv'
  BY <1>1 DEF LoopsInv, LastInv
<1>7. QuietInv'
  BY <1>1, <1>4, OwnFacts, PassingFacts DEF LoopsInv, QuietInv, Closed, Loop
<1>8. OpInv'
  BY <1>1, <1>5 DEF LoopsInv, OpInv, OneRecovery
<1>9. QED  BY <1>6, <1>7, <1>8 DEF LoopsInv

\* A coroutine gets past a loop that is over.
Passes(t, l) ==
  pc[t] \in Stage /\ LoopOf[pc[t]] = l /\ pc'[t] = After[pc[t]] /\ (Guarded(l) => Live(l)' = {})

LEMMA QuietMoved ==
  ASSUME IInv, LoopsInv, UNCHANGED <<options, state>>, NEW l \in Loop,
         \A m \in Loop : Live(m)' \subseteq Live(m),
         \A m \in Loop : track'[m].open = track[m].open,
         \A c \in Caller : pc'[c] = pc[c] \/ Passes(c, l)
  PROVE  QuietInv'
<1>1. \A m \in Loop : Guarded(m)' = Guarded(m)
  BY DEF Guarded, StopsByItself, ReconnectDelay
<1>2. /\ track'["receive"].open = track'["sequence"].open
      /\ state' \notin Active => Live("receive")' = {} /\ Live("sequence")' = {}
      /\ state' = "stopped" => \A m \in Loop : Guarded(m)' => Live(m)' = {}
  BY <1>1 DEF LoopsInv, QuietInv, Loop
<1>3. ASSUME NEW c \in Caller, pc'[c] \in Passing, NEW m \in Past[pc'[c]], Guarded(m)'
      PROVE  Live(m)' = {}
  <2>1. m \in Loop
    BY <1>3, PassingFacts
  <2>2. pc[c] \in Passing /\ m \in Past[pc[c]] => Live(m) = {}
    BY <1>1, <1>3, <2>1 DEF LoopsInv, QuietInv
  <2>3. CASE pc'[c] = pc[c]
    BY <1>3, <2>1, <2>2, <2>3
  <2>4. CASE Passes(c, l)
    <3>1. m = l \/ (pc[c] \in Passing /\ m \in Past[pc[c]])
      BY <1>3, <2>4, PassingFacts DEF Passes
    <3>2. QED  BY <1>1, <1>3, <2>1, <2>2, <2>4, <3>1 DEF Passes
  <2>5. QED  BY <2>3, <2>4
<1>4. QED  BY <1>2, <1>3 DEF QuietInv

LEMMA LoopsCancel ==
  ASSUME IInv, LoopsInv, NEW t \in Task, CancelLoop(t)
  PROVE  LoopsInv'
<1>1. PICK l \in Loop :
      /\ l = LoopOf[pc[t]] /\ pc[t] \in Stage /\ t \notin Waiting(Loop)
      /\ UNCHANGED <<options, state>>
      /\ loop' = [loop EXCEPT ![l] = Emitted(loop[l])]
      /\ track' = [track EXCEPT ![l] = Awaited(track[l], t)]
      /\ pc' = [pc EXCEPT ![t] = IF Suspends(track[l]) THEN pc[t] ELSE After[pc[t]]]
  BY StageFacts DEF CancelLoop
<1>2. \A m \in Loop : \A i \in DOMAIN track[m].waiting : track[m].waiting[i] # t
  BY <1>1 DEF Waiting
\* An operation that is at a stage stands in the track already.
<1>3. t \in Caller
  <2>1. SUFFICES ASSUME t \in Op PROVE FALSE
    BY DEF Task
  <2>2. pc[t] = "op_sequence"
    BY <1>1, <2>1, PassingFacts DEF IInv, TypeOK
  <2>3. QED  BY <1>2, <2>1, <2>2 DEF LoopsInv, OpInv, Ahead, Loop
<1>4. /\ \A m \in Loop : Guarded(m)' = Guarded(m)
      /\ \A m \in Loop : Live(m)' = Live(m) /\ Len(loop'[m]) = Len(loop[m])
  <2>1. ASSUME NEW m \in Loop PROVE LiveIn(loop'[m]) = LiveIn(loop[m]) /\ Len(loop'[m]) = Len(loop[m])
    <3>1. loop[m] \in Seq(LoopStatus)
      BY DEF IInv, TypeOK
    <3>2. loop'[m] = IF m = l THEN Emitted(loop[m]) ELSE loop[m]
      BY <1>1 DEF IInv, TypeOK
    <3>3. QED  BY <3>1, <3>2, LiveFacts
  <2>2. QED  BY <1>1, <2>1 DEF Live, LiveIn, Guarded, StopsByItself, ReconnectDelay
<1>5. /\ \A m \in Loop : track'[m] = IF m = l THEN Awaited(track[m], t) ELSE track[m]
      /\ \A m \in Loop : track[m] \in Track
  BY <1>1 DEF IInv, TypeOK
<1>6. /\ \A m \in Loop : track'[m].open = track[m].open
      /\ \A m \in Loop : Suspends(track[m]) => Suspends(track'[m])
  BY <1>5, SuspendFacts
<1>7. \A u \in Task : u # t => pc'[u] = pc[u]
  BY <1>1 DEF IInv, TypeOK
<1>8. IF Suspends(track[l]) THEN pc'[t] = pc[t] ELSE pc'[t] = After[pc[t]] /\ (Guarded(l) => Live(l)' = {})
  <2>1. pc'[t] = IF Suspends(track[l]) THEN pc[t] ELSE After[pc[t]]
    BY <1>1 DEF IInv, TypeOK
  <2>2. ~Suspends(track[l]) /\ Guarded(l) => Live(l) = {}
    BY <1>1 DEF LoopsInv, LastInv
  <2>3. Live(l)' = Live(l)
    BY <1>1, <1>4
  <2>4. QED  BY <2>1, <2>2, <2>3
<1>9. LastInv'
  BY <1>4, <1>6 DEF LoopsInv, LastInv
<1>10. QuietInv'
  <2>1. \A c \in Caller : pc'[c] = pc[c] \/ Passes(c, l)
    BY <1>1, <1>7, <1>8, OwnFacts DEF Passes
  <2>2. QED  BY <1>1, <1>4, <1>6, <2>1, QuietMoved
<1>11. OpInv'
  <2>1. \A o \in Op : pc'[o] = pc[o]
    BY <1>3, <1>7, OwnFacts
  <2>2. OneRecovery'
    BY <1>4, <2>1 DEF LoopsInv, OpInv, OneRecovery, Loop
  <2>3. ASSUME NEW o \in Op, pc[o] \in {"op_sequence", "op_raise"}
        PROVE  /\ state' \in Active
               /\ \A c \in Caller : pc'[c] \notin Passing \ {"stop_sequence"}
    <3>1. state \in Active /\ \A c \in Caller : pc[c] \notin Passing \ {"stop_sequence"}
      BY <2>3 DEF LoopsInv, OpInv
    <3>2. Suspends(track["sequence"])
      <4>1. CASE pc[o] = "op_sequence"
        <5>1. track["sequence"].waiting # <<>>
          BY <4>1 DEF LoopsInv, OpInv, Ahead
        <5>2. QED  BY <5>1, <1>5, SuspendFacts DEF Loop
      <4>2. CASE pc[o] = "op_raise"
        BY <4>2 DEF LoopsInv, OpInv
      <4>3. QED  BY <2>3, <4>1, <4>2
    <3>3. pc'[t] \notin Passing \ {"stop_sequence"}
      <4>1. CASE Suspends(track[l])
        BY <1>3, <1>8, <3>1, <4>1
      <4>2. CASE ~Suspends(track[l])
        <5>1. l # "sequence" /\ pc'[t] = After[pc[t]]
          BY <1>8, <3>2, <4>2
        <5>2. pc[t] # "stop_sequence"
          BY <1>1, <5>1 DEF LoopOf
        <5>3. pc[t] \notin Passing
          BY <1>3, <3>1, <5>2
        <5>4. QED  BY <1>1, <5>1, <5>3, PassingFacts
      <4>3. QED  BY <4>1, <4>2
    <3>4. QED  BY <1>1, <1>7, <3>1, <3>3, OwnFacts
  <2>4. ASSUME NEW o \in Op, pc[o] = "op_sequence" PROVE Ahead(o, track'["sequence"].waiting, pc')
    <3> DEFINE w == track["sequence"].waiting
    <3>1. PICK i \in DOMAIN w : w[i] = o /\ \A j \in DOMAIN w : j < i => pc[w[j]] # "stop_sequence"
      BY <2>4 DEF LoopsInv, OpInv, Ahead
    <3>2. w \in Seq(Task) /\ \A j \in DOMAIN w : w[j] \in Task /\ w[j] # t
      BY <1>2, QueueFacts DEF Loop
    <3>3. track'["sequence"].waiting = w \/ track'["sequence"].waiting = Append(w, t)
      <4>1. w # <<>>
        BY <3>1
      <4>2. QED  BY <1>5, <4>1, SuspendFacts DEF Loop
    <3>4. \A j \in DOMAIN w : pc'[w[j]] = pc[w[j]]
      BY <1>7, <3>2
    <3> HIDE DEF w
    <3>5. Ahead(o, w, pc')
      BY <3>1, <3>4 DEF Ahead
    <3>6. Ahead(o, Append(w, t), pc')
      <4>1. i \in DOMAIN Append(w, t) /\ Append(w, t)[i] = o
        BY <3>1, <3>2, AppendFacts
      <4>2. \A j \in DOMAIN Append(w, t) : j < i => j \in DOMAIN w /\ Append(w, t)[j] = w[j]
        BY <3>1, <3>2, AppendFacts
      <4>3. QED  BY <3>1, <3>4, <4>1, <4>2 DEF Ahead
    <3>7. QED  BY <3>3, <3>5, <3>6
  <2>5. ASSUME NEW o \in Op, pc[o] = "op_raise" PROVE Suspends(track'["sequence"]) /\ Live("sequence")' = {}
    BY <1>4, <1>6, <2>5 DEF LoopsInv, OpInv, Loop
  <2>6. QED  BY <2>1, <2>2, <2>3, <2>4, <2>5 DEF OpInv
<1>12. QED  BY <1>9, <1>10, <1>11 DEF LoopsInv
\* A loop that ends wakes the head of its track: an operation, or whom it does not overtake.
LEMMA LoopsOver ==
  ASSUME IInv, LoopsInv, NEW l \in Loop, NEW i \in DOMAIN loop[l], loop[l][i] # "ended", LoopOver(l, i)
  PROVE  LoopsInv'
<1>1. /\ UNCHANGED <<options, state>> /\ i \in Live(l)
      /\ loop' = [loop EXCEPT ![l] = [loop[l] EXCEPT ![i] = "ended"]]
      /\ \A m \in Loop : track[m] \in Track /\ track'[m] = IF m = l THEN Signalled(track[m]) ELSE track[m]
  BY DEF LoopOver, Live, IInv, TypeOK
<1>2. /\ \A m \in Loop : Guarded(m)' = Guarded(m)
      /\ \A m \in Loop : Live(m)' = (IF m = l THEN Live(m) \ {i} ELSE Live(m)) /\ Len(loop'[m]) = Len(loop[m])
  <2>1. ASSUME NEW m \in Loop
        PROVE  LiveIn(loop'[m]) = (IF m = l THEN LiveIn(loop[m]) \ {i} ELSE LiveIn(loop[m])) /\ Len(loop'[m]) = Len(loop[m])
    <3>1. loop[m] \in Seq(LoopStatus)
      BY DEF IInv, TypeOK
    <3>2. loop'[m] = IF m = l THEN [loop[m] EXCEPT ![i] = "ended"] ELSE loop[m]
      BY <1>1 DEF IInv, TypeOK
    <3>3. CASE m = l
      <4>1. i \in DOMAIN loop[m] /\ loop'[m] = [loop[m] EXCEPT ![i] = "ended"]
        BY <3>2, <3>3
      <4>2. LiveIn(loop'[m]) = LiveIn(loop[m]) \ {i} /\ Len(loop'[m]) = Len(loop[m])
        BY <3>1, <4>1, LiveFacts
      <4>3. QED  BY <3>3, <4>2
    <3>4. CASE m # l
      BY <3>2, <3>4
    <3>5. QED  BY <3>3, <3>4
  <2>2. QED  BY <1>1, <2>1 DEF Live, LiveIn, Guarded, StopsByItself, ReconnectDelay
<1>3. Guarded(l) => Live(l)' = {}
  <2>1. Guarded(l) => \A j \in Live(l) : j = i
    BY <1>1 DEF LoopsInv, LastInv
  <2>2. QED  BY <1>2, <2>1
<1>4. \A u \in Task : /\ u \in Woken(track[l]) => pc'[u] = After[pc[u]]
                      /\ u \notin Woken(track[l]) => pc'[u] = pc[u]
  BY DEF LoopOver
<1>5. \A u \in Woken(track[l]) : u \in Task /\ pc[u] \in Stage /\ LoopOf[pc[u]] = l
  BY WokenFacts DEF IInv
<1>6. LastInv'
  BY <1>1, <1>2, <1>3 DEF LoopsInv, LastInv
<1>7. QuietInv'
  <2>1. \A m \in Loop : track'[m].open = track[m].open
    <3>1. \A c \in Track : Signalled(c).open = c.open
      BY DEF Signalled, Track
    <3>2. QED  BY <1>1, <3>1
  <2>2. \A c \in Caller : pc'[c] = pc[c] \/ Passes(c, l)
    BY <1>3, <1>4, <1>5, OwnFacts DEF Passes
  <2>3. QED  BY <1>1, <1>2, <2>1, <2>2, QuietMoved
<1>8. OpInv'
  <2> DEFINE w == track["sequence"].waiting
  <2>1. \A o \in Op : pc'[o] = pc[o] \/ (o \in Woken(track[l]) /\ l = "sequence" /\ pc[o] = "op_sequence" /\ pc'[o] = "op_raise")
    BY <1>4, <1>5, OwnFacts, PassingFacts DEF IInv, TypeOK, LoopOf, After
  <2>2. OneRecovery'
    BY <1>2, <2>1 DEF LoopsInv, OpInv, OneRecovery, Loop
  <2>3. ASSUME NEW o \in Op, pc[o] = "op_sequence"
        PROVE  \E k \in DOMAIN w : w[k] = o /\ \A j \in DOMAIN w : j < k => pc[w[j]] # "stop_sequence"
    BY <2>3 DEF LoopsInv, OpInv, Ahead
  <2>4. /\ w \in Seq(Task) /\ \A j \in DOMAIN w : w[j] \in Task /\ pc[w[j]] \in Stage /\ LoopOf[pc[w[j]]] = "sequence"
        /\ \A j, k \in DOMAIN w : w[j] = w[k] => j = k
    BY QueueFacts DEF Loop
  <2>5. "sequence" \in Loop /\ Guarded("sequence") /\ track["sequence"] \in Track
    BY <1>1 DEF Loop, Guarded
  <2>6. l = "sequence" /\ w # <<>> =>
          /\ Woken(track[l]) = {w[1]} /\ track'["sequence"].waiting = Tail(w)
          /\ Suspends(track'["sequence"])
    <3>1. \A t \in Task : w # <<>> => /\ Suspends(Signalled(track["sequence"]))
                                      /\ Signalled(track["sequence"]).waiting = Tail(w)
                                      /\ Woken(track["sequence"]) = {Head(w)}
      BY <2>5, SuspendFacts
    <3>2. w # <<>> => Head(w) = w[1] /\ w[1] \in Task
      BY <2>4, TailFacts
    <3>3. QED  BY <1>1, <2>5, <3>1, <3>2
  <2> HIDE DEF w
  <2>7. ASSUME NEW o \in Op, pc'[o] \in {"op_sequence", "op_raise"}
        PROVE  /\ state' \in Active
               /\ \A c \in Caller : pc'[c] \notin Passing \ {"stop_sequence"}
    <3>1. /\ pc[o] \in {"op_sequence", "op_raise"} /\ state \in Active
          /\ \A c \in Caller : pc[c] \notin Passing \ {"stop_sequence"}
      BY <2>1, <2>7 DEF LoopsInv, OpInv
    <3>2. ASSUME NEW c \in Caller, pc'[c] \in Passing \ {"stop_sequence"} PROVE FALSE
      <4>1. c \in Woken(track[l]) /\ pc[c] \in Stage /\ LoopOf[pc[c]] = l /\ pc'[c] = After[pc[c]]
        BY <1>4, <1>5, <3>1, <3>2, OwnFacts
      <4>2. pc[c] = "stop_sequence"
        BY <3>1, <3>2, <4>1, PassingFacts
      <4>3. l = "sequence"
        BY <4>1, <4>2 DEF LoopOf
      <4>4. pc[o] # "op_raise"
        BY <1>1, <4>3 DEF LoopsInv, OpInv
      <4>5. PICK k \in DOMAIN w : w[k] = o /\ \A j \in DOMAIN w : j < k => pc[w[j]] # "stop_sequence"
        BY <2>3, <3>1, <4>4
      <4>6. w # <<>> /\ 1 \in DOMAIN w /\ k \in Nat /\ k > 0
        BY <2>4, <4>5
      <4>7. w[1] = c
        BY <2>6, <4>1, <4>3, <4>6
      <4>8. QED  BY <4>2, <4>5, <4>6, <4>7, OwnFacts
    <3>3. QED  BY <1>1, <3>1, <3>2
  <2>8. ASSUME NEW o \in Op, pc'[o] = "op_sequence" PROVE Ahead(o, track'["sequence"].waiting, pc')
    <3>1. pc[o] = "op_sequence" /\ o \notin Woken(track[l])
      BY <1>4, <2>1, <2>8, OwnFacts, PassingFacts, <1>5 DEF After
    <3>2. PICK k \in DOMAIN w : w[k] = o /\ \A j \in DOMAIN w : j < k => pc[w[j]] # "stop_sequence"
      BY <2>3, <3>1
    <3>3. \A j \in DOMAIN w : pc[w[j]] # "stop_sequence" => pc'[w[j]] # "stop_sequence"
      BY <1>4, <2>4, PassingFacts
    <3>4. CASE l # "sequence"
      <4>1. track'["sequence"].waiting = w
        BY <1>1, <2>5, <3>4 DEF w
      <4>2. QED  BY <3>2, <3>3, <4>1 DEF Ahead
    <3>5. CASE l = "sequence"
      <4>1. w # <<>> /\ k \in Nat /\ k > 0
        BY <2>4, <3>2
      <4>2. track'["sequence"].waiting = Tail(w) /\ w[1] # o
        BY <2>6, <3>1, <3>5, <4>1
      <4>3. k - 1 \in DOMAIN Tail(w) /\ Tail(w)[k - 1] = o
        BY <2>4, <3>2, <4>1, <4>2
      <4>4. \A j \in DOMAIN Tail(w) : j < k - 1 => pc'[Tail(w)[j]] # "stop_sequence"
        <5>1. \A j \in DOMAIN Tail(w) : j \in Nat /\ j + 1 \in DOMAIN w /\ Tail(w)[j] = w[j + 1]
          BY <2>4, <4>1
        <5>2. QED  BY <3>2, <3>3, <4>1, <5>1
      <4>5. QED  BY <4>2, <4>3, <4>4 DEF Ahead
    <3>6. QED  BY <3>4, <3>5
  <2>9. ASSUME NEW o \in Op, pc'[o] = "op_raise" PROVE Suspends(track'["sequence"]) /\ Live("sequence")' = {}
    <3>1. CASE pc[o] = "op_raise"
      <4>1. Suspends(track["sequence"]) /\ Live("sequence") = {}
        BY <3>1 DEF LoopsInv, OpInv
      <4>2. QED  BY <1>1, <1>2, <2>5, <4>1
    <3>2. CASE pc[o] # "op_raise"
      <4>1. l = "sequence" /\ pc[o] = "op_sequence"
        BY <2>1, <2>9, <3>2
      <4>2. w # <<>>
        BY <2>3, <2>4, <4>1
      <4>3. QED  BY <1>3, <2>5, <2>6, <4>1, <4>2
    <3>3. QED  BY <3>1, <3>2
  <2>10. QED  BY <2>2, <2>7, <2>8, <2>9 DEF OpInv
<1>9. QED  BY <1>6, <1>7, <1>8 DEF LoopsInv
\* A message loop that fails is the last one that lived: no operation runs, no stop is past it.
LEMMA LoopsFails ==
  ASSUME IInv, LoopsInv, NEW o \in Op, MessageLoopFails(o)
  PROVE  LoopsInv'
<1> DEFINE r == track["receive"]
           s == track["sequence"]
           w == s.waiting
<1>1. PICK i \in DOMAIN loop["receive"] :
      /\ loop["receive"][i] # "ended"
      /\ loop' = [loop EXCEPT !["receive"][i] = "ended", !["sequence"] = Emitted(@)]
  BY DEF MessageLoopFails
<1>2. /\ UNCHANGED <<options, state>> /\ i \in Live("receive") /\ pc[o] = "idle"
      /\ r \in Track /\ s \in Track
      /\ track'["receive"] = Signalled(r) /\ track'["sequence"] = Awaited(s, o)
      /\ \A m \in Loop \ {"receive", "sequence"} : track'[m] = track[m]
      /\ Guarded("receive") /\ Guarded("sequence")
      /\ "receive" \in Loop /\ "sequence" \in Loop
  BY <1>1 DEF MessageLoopFails, Live, IInv, TypeOK, Loop, Guarded
<1>3. /\ pc'[o] = IF Suspends(s) THEN "op_sequence" ELSE "op_raise"
      /\ \A u \in Task \ {o} : /\ u \in Woken(r) => pc'[u] = After[pc[u]]
                               /\ u \notin Woken(r) => pc'[u] = pc[u]
  BY OwnFacts DEF MessageLoopFails
<1>4. \A u \in Woken(r) : u \in Task /\ pc[u] \in Stage /\ LoopOf[pc[u]] = "receive"
  BY <1>2, WokenFacts DEF IInv
<1>5. /\ \A m \in Loop : Guarded(m)' = Guarded(m)
      /\ Live("receive")' = Live("receive") \ {i}
      /\ \A m \in Loop \ {"receive"} : Live(m)' = Live(m) /\ Len(loop'[m]) = Len(loop[m])
  <2>1. LiveIn(loop'["receive"]) = LiveIn(loop["receive"]) \ {i}
    <3>1. loop["receive"] \in Seq(LoopStatus) /\ loop'["receive"] = [loop["receive"] EXCEPT ![i] = "ended"]
      BY <1>1 DEF IInv, TypeOK, Loop
    <3>2. QED  BY <3>1, LiveFacts
  <2>2. LiveIn(loop'["sequence"]) = LiveIn(loop["sequence"]) /\ Len(loop'["sequence"]) = Len(loop["sequence"])
    <3>1. loop["sequence"] \in Seq(LoopStatus) /\ loop'["sequence"] = Emitted(loop["sequence"])
      BY <1>1 DEF IInv, TypeOK, Loop
    <3>2. QED  BY <3>1, LiveFacts
  <2>3. \A m \in Loop \ {"receive", "sequence"} : loop'[m] = loop[m]
    BY <1>1 DEF IInv, TypeOK
  <2>4. QED  BY <1>2, <2>1, <2>2, <2>3 DEF Live, LiveIn, Guarded, StopsByItself, ReconnectDelay
<1>6. Live("receive")' = {}
  <2>1. \A j \in Live("receive") : j = i
    BY <1>2 DEF LoopsInv, LastInv
  <2>2. QED  BY <1>5, <2>1
\* What holds while a message loop lives.
<1>7. /\ \A p \in Op : pc[p] = "idle"
      /\ state \in Active
      /\ \A u \in Task : pc[u] \notin Passing
  <2>1. \A p \in Op : pc[p] = "idle"
    BY <1>2 DEF LoopsInv, OpInv, OneRecovery
  <2>2. \A c \in Caller : pc[c] \notin Passing
    BY <1>2, PassingFacts DEF LoopsInv, QuietInv
  <2>3. QED  BY <1>2, <2>1, <2>2, OwnFacts DEF LoopsInv, QuietInv, Task
<1>8. s.open /\ Suspends(track'["sequence"])
  <2>1. Suspends(r)
    BY <1>2 DEF LoopsInv, LastInv
  <2>2. s.open
    BY <2>1 DEF LoopsInv, QuietInv, Suspends
  <2>3. QED  BY <1>2, <2>2, SuspendFacts, OwnFacts
<1>9. LastInv'
  BY <1>2, <1>5, <1>6, <1>8 DEF LoopsInv, LastInv
<1>10. QuietInv'
  <2>1. \A m \in Loop : track'[m].open = track[m].open
    BY <1>2 DEF Signalled, Awaited, Track
  <2>2. \A c \in Caller : pc'[c] = pc[c] \/ Passes(c, "receive")
    BY <1>3, <1>4, <1>6, OwnFacts DEF Passes
  <2>3. \A m \in Loop : Live(m)' \subseteq Live(m)
    BY <1>5
  <2>4. QED  BY <1>2, <2>1, <2>2, <2>3, QuietMoved
<1>11. OpInv'
  <2>1. \A p \in Op \ {o} : pc'[p] = "idle"
    BY <1>3, <1>4, <1>7, OwnFacts, StageFacts
  <2>2. OneRecovery'
    BY <1>6, <2>1 DEF OneRecovery
  <2>3. \A c \in Caller : pc'[c] \notin Passing \ {"stop_sequence"}
    BY <1>3, <1>4, <1>7, OwnFacts, PassingFacts
  <2>4. ASSUME pc'[o] = "op_sequence" PROVE Ahead(o, track'["sequence"].waiting, pc')
    <3>1. /\ w \in Seq(Task) /\ o \in Task
          /\ \A j \in DOMAIN w : w[j] \in Task /\ pc[w[j]] \in Stage
      BY <1>2, QueueFacts, OwnFacts
    <3>2. track'["sequence"].waiting = Append(w, o)
      BY <1>2, <1>3, <2>4, <3>1, SuspendFacts DEF Awaited, Suspends, Track
    <3>3. \A j \in DOMAIN w : pc'[w[j]] # "stop_sequence"
      <4>1. \A j \in DOMAIN w : w[j] \notin Woken(r)
        BY <1>2, OneTrack DEF IInv
      <4>2. \A j \in DOMAIN w : w[j] # o
        BY <1>2, <3>1, StageFacts
      <4>3. QED  BY <1>3, <1>7, <3>1, <4>1, <4>2 DEF Passing
    <3> HIDE DEF w
    <3>4. /\ Len(w) + 1 \in DOMAIN Append(w, o) /\ Append(w, o)[Len(w) + 1] = o
          /\ \A j \in DOMAIN Append(w, o) : j < Len(w) + 1 => j \in DOMAIN w /\ Append(w, o)[j] = w[j]
      BY <3>1, AppendFacts
    <3>5. QED  BY <3>2, <3>3, <3>4 DEF Ahead
  <2>5. ASSUME pc'[o] = "op_raise" PROVE Suspends(track'["sequence"]) /\ Live("sequence")' = {}
    <3>1. ~Suspends(s)
      BY <1>3, <2>5
    <3>2. Live("sequence") = {}
      BY <1>2, <3>1 DEF LoopsInv, LastInv
    <3>3. QED  BY <1>2, <1>5, <1>8, <3>2
  <2>6. QED  BY <1>2, <1>7, <2>1, <2>2, <2>3, <2>4, <2>5 DEF OpInv
<1>12. QED  BY <1>9, <1>10, <1>11 DEF LoopsInv

\* The steps that leave the loops and the tracks alone: those of a handler, and an operation's.
LEMMA LoopsQuiet ==
  ASSUME IInv, LoopsInv, TypeOK', UNCHANGED <<options, loop, track>>, NEW t \in Task, NEW x,
         pc' = [pc EXCEPT ![t] = x], x \notin Passing \cup {"op_sequence", "op_raise"},
         t \in Op => pc[t] # "idle",
         \A o \in Op \ {t} : pc[o] \in {"op_sequence", "op_raise"} => state' \in Active,
         state' \notin Active => Live("receive") = {} /\ Live("sequence") = {},
         state' = "stopped" => \A l \in Loop : Guarded(l) => Live(l) = {}
  PROVE  LoopsInv'
<1>1. \A u \in Task : pc'[u] = IF u = t THEN x ELSE pc[u]
  BY DEF IInv, TypeOK
<1>2. \A o \in Op : pc'[o] # "idle" => pc[o] # "idle"
  BY <1>1, OwnFacts
<1>3. \A c \in Caller : pc'[c] \in Passing => pc'[c] = pc[c]
  BY <1>1, OwnFacts
<1>4. \A o \in Op : pc'[o] \in {"op_sequence", "op_raise"} => pc'[o] = pc[o] /\ state' \in Active
  BY <1>1, OwnFacts
<1>5. QED  BY <1>2, <1>3, <1>4, LoopsStand

LEMMA LoopsStep ==
  ASSUME IInv, LoopsInv, [Next]_vars
  PROVE  LoopsInv'
<1>1. TypeOK'
  BY TypeStep
<1>2. /\ \A c \in Caller : c \in Task /\ c \notin Op
      /\ \A o \in Op : o \in Task /\ o \notin Caller
  BY OwnFacts
<1>3. state \notin Active => Live("receive") = {} /\ Live("sequence") = {}
  BY DEF LoopsInv, QuietInv
<1>4. \A o \in Op : pc[o] \in {"op_sequence", "op_raise"} => state \in Active
  BY DEF LoopsInv, OpInv
<1>5. state = "stopped" => \A l \in Loop : Guarded(l) => Live(l) = {}
  BY DEF LoopsInv, QuietInv
<1>6. ASSUME NEW o \in Op, pc[o] # "idle", NEW p \in Op \ {o} PROVE pc[p] = "idle"
  BY <1>6 DEF LoopsInv, OpInv, OneRecovery
<1>7. ASSUME NEW c \in Caller, Call(c) PROVE LoopsInv'
  <2>1. CASE StartBegin(c)
    BY <2>1, LoopsStartBegin
  <2>2. CASE StartFails(c)
    BY <1>1, <1>2, <1>3, <1>4, <1>5, <2>2, LoopsQuiet DEF StartFails, ConnectThrows, Passing
  <2>3. CASE StartEnter(c)
    BY <2>3, LoopsStartEnter
  <2>4. CASE StopBegin(c)
    BY <1>1, <1>2, <2>4, LoopsQuiet DEF StopBegin, Passing, Active
  <2>5. CASE StopReset(c)
    <3>1. Driving(c) /\ state = "stopping" /\ pc[c] \in Passing \ {"stop_sequence"} /\ Past[pc[c]] = Loop
      BY <1>2, <2>5, OwnFacts DEF StopReset, Passing, Past
    <3>2. \A l \in Loop : Guarded(l) => Live(l) = {}
      BY <3>1 DEF LoopsInv, QuietInv
    <3>3. Live("receive") = {} /\ Live("sequence") = {}
      BY <3>2 DEF Guarded, Loop
    <3>4. \A o \in Op : pc[o] \notin {"op_sequence", "op_raise"}
      BY <3>1 DEF LoopsInv, OpInv
    <3>5. ResetConnection /\ state' = "stopped" /\ options' = options
          /\ pc' = [Interrupted({"receive", "sequence"}) EXCEPT ![c] = "idle"]
      BY <2>5 DEF StopReset
    <3>6. QED  BY <1>2, <3>1, <3>2, <3>3, <3>4, <3>5, LoopsReset DEF Passing
  <2>6. CASE CancelBegin(c)
    BY <1>1, <1>2, <1>3, <1>4, <1>5, <2>6, LoopsQuiet DEF CancelBegin, Passing
  <2>7. CASE CloseSucceeds(c) \/ CloseFails(c)
    <3>1. /\ UNCHANGED <<state, options, loop, track>>
          /\ \E x \in {"stop_receive", "cancel_sequence", "idle"} : pc' = [pc EXCEPT ![c] = x]
      BY <2>7 DEF CloseSucceeds, CloseFails, CloseEnds
    <3>2. QED  BY <1>1, <1>2, <1>3, <1>4, <1>5, <3>1, LoopsQuiet DEF Passing
  <2>8. QED  BY <1>7, <2>1, <2>2, <2>3, <2>4, <2>5, <2>6, <2>7 DEF Call
<1>8. ASSUME NEW o \in Op, Recovery(o) PROVE LoopsInv'
  <2>1. CASE MessageLoopFails(o)
    BY <2>1, LoopsFails
  <2>2. CASE OpRaise(o)
    <3>1. Live("receive") = {} /\ Live("sequence") = {} /\ state \in Active
      BY <2>2 DEF OpRaise, LoopsInv, OpInv, OneRecovery
    <3>2. /\ UNCHANGED <<options, loop, track>> /\ state' \in {state, "disconnected"}
          /\ \E x \in {"op_reconnect", "idle"} : pc' = [pc EXCEPT ![o] = x]
      BY <2>2 DEF OpRaise
    <3>3. pc[o] # "idle" /\ state' # "stopped"
      BY <2>2, <3>1, <3>2 DEF OpRaise, Active
    <3>4. QED  BY <1>1, <1>2, <1>6, <3>1, <3>2, <3>3, LoopsQuiet DEF Passing
  <2>3. CASE OpReconnect(o)
    <3>1. Live("receive") = {} /\ Live("sequence") = {}
      BY <1>2, <1>3, <2>3, OwnFacts DEF OpReconnect, Active
    <3>2. /\ UNCHANGED <<options, loop, track>>
          /\ state' = "stopped" => ~options.autoReconnect
          /\ \E x \in {"connect_lock", "idle"} : pc' = [pc EXCEPT ![o] = x]
      BY <2>3 DEF OpReconnect
    <3>3. pc[o] # "idle"
      BY <2>3 DEF OpReconnect
    <3>4. state' = "stopped" => \A l \in Loop : Guarded(l) => Live(l) = {}
      BY <3>1, <3>2 DEF Guarded, StopsByItself
    <3>5. QED  BY <1>1, <1>2, <1>6, <3>1, <3>2, <3>3, <3>4, LoopsQuiet DEF Passing
  <2>4. CASE ReconnectFails(o)
    <3>1. Live("receive") = {} /\ Live("sequence") = {} /\ state = "reconnecting" /\ pc[o] = "connect"
      BY <1>2, <1>3, <2>4, OwnFacts DEF ReconnectFails, ConnectThrows, Active, StartPC
    <3>2. /\ UNCHANGED <<options, loop, track>>
          /\ state' = "stopped" => NoDelay \in ReconnectDelay
          /\ \E x \in {"op_delay", "idle"} : pc' = [pc EXCEPT ![o] = x]
      BY <2>4, <3>1 DEF ReconnectFails, ConnectThrows
    <3>3. state' = "stopped" => \A l \in Loop : Guarded(l) => Live(l) = {}
      BY <3>1, <3>2 DEF Guarded, StopsByItself
    <3>4. QED  BY <1>1, <1>2, <1>6, <3>1, <3>2, <3>3, LoopsQuiet DEF Passing
  <2>5. CASE OpDelayElapses(o)
    BY <1>1, <1>2, <1>3, <1>4, <1>5, <2>5, LoopsQuiet DEF OpDelayElapses, Passing
  <2>6. CASE OpEnter(o)
    BY <1>1, <1>2, <2>6, LoopsQuiet DEF OpEnter, Passing, Active
  <2>7. QED  BY <1>8, <2>1, <2>2, <2>3, <2>4, <2>5, <2>6 DEF Recovery
<1>9. ASSUME NEW t \in Task, Either(t) PROVE LoopsInv'
  <2>1. CASE ConnectBegin(t)
    <3>1. /\ ResetConnection /\ UNCHANGED <<state, options>> /\ pc[t] = "connect_lock"
          /\ pc' = [Interrupted({"receive", "sequence"}) EXCEPT ![t] = "connect"]
      BY <2>1 DEF ConnectBegin
    <3>2. Driving(t) /\ state \in {"connecting", "reconnecting"}
      BY <3>1, OwnFacts DEF StartPC
    <3>3. Live("receive") = {} /\ Live("sequence") = {}
      BY <1>3, <3>2 DEF Active
    <3>4. \A o \in Op : pc[o] \notin {"op_sequence", "op_raise"}
      BY <1>4, <3>2 DEF Active
    <3>5. QED  BY <3>1, <3>2, <3>3, <3>4, LoopsReset DEF Passing
  <2>2. CASE ConnectSucceeds(t)
    BY <1>1, <1>3, <1>4, <1>5, <2>2, LoopsQuiet DEF ConnectSucceeds, Passing
  <2>3. CASE CancelLoop(t)
    BY <2>3, LoopsCancel
  <2>4. QED  BY <1>9, <2>1, <2>2, <2>3 DEF Either
<1>10. CASE Loops
  <2>1. ASSUME NEW l \in Loop, LoopEnds(l) PROVE LoopsInv'
    BY <2>1, LoopsOver DEF LoopEnds
  <2>2. CASE MessageLoopStops
    BY <2>2, LoopsOver DEF MessageLoopStops, Loop
  <2>3. CASE ReceiveConnected
    BY <1>1, <1>3, <1>4, <1>5, <2>3, LoopsStand DEF ReceiveConnected
  <2>4. QED  BY <1>10, <2>1, <2>2, <2>3 DEF Loops
<1>11. CASE UNCHANGED vars
  BY <1>1, <1>3, <1>4, <1>5, <1>11, LoopsStand DEF vars
<1>12. QED  BY <1>7, <1>8, <1>9, <1>10, <1>11 DEF Next

\* The invariant of the loops, on top of the one of the life cycle.
LEMMA LoopsInvariance == Spec => []LoopsInv
<1>1. Init => LoopsInv
  <2>1. Init => \A l \in Loop : Live(l) = {} /\ track[l] = Closed
    BY DEF Init, Live
  <2>2. Init => \A t \in Task : pc[t] = "idle"
    BY DEF Init
  <2>3. QED
    BY <2>1, <2>2 DEF LoopsInv, LastInv, QuietInv, OpInv, OneRecovery, Passing, Loop, Task
<1>2. IInv /\ LoopsInv /\ [Next]_vars => LoopsInv'
  BY LoopsStep
<1>3. QED  BY <1>1, <1>2, Invariance, PTL DEF Spec

\* Cancelling a loop reaches its only coroutine: a second one never takes the slot of the
\* signal from one that lives (client_loop_service.hpp:32).
THEOREM OneCoroutine == Spec => []OneCoroutinePerLoop
<1>1. IInv /\ LoopsInv => OneCoroutinePerLoop
  BY DEF LoopsInv, LastInv, Guarded, OneCoroutinePerLoop
<1>2. QED  BY <1>1, Invariance, LoopsInvariance, PTL

\* Nothing reads or writes a websocket that async_connect is replacing
\* (client_lifetime_service.hpp:88).
THEOREM QuietSocket == Spec => []SocketIsQuiet
<1>1. IInv /\ LoopsInv => SocketIsQuiet
  <2>1. ASSUME IInv, LoopsInv, NEW t \in Task, pc[t] = "connect"
        PROVE  Live("receive") = {} /\ Live("sequence") = {}
    BY <2>1, OwnFacts DEF LoopsInv, QuietInv, Active, StartPC
  <2>2. QED  BY <2>1 DEF SocketIsQuiet
<1>2. QED  BY <1>1, Invariance, LoopsInvariance, PTL

\* Only one recovery operation runs, and never beside a message loop that reads
\* (client.hpp:204).
THEOREM SingleRecovery == Spec => []OneRecovery
<1>1. LoopsInv => OneRecovery
  BY DEF LoopsInv, OpInv
<1>2. QED  BY <1>1, LoopsInvariance, PTL

\* A stopped client runs no loop, however it got there, but for the data loops of a client
\* that stopped by itself (disconnected.hpp:30, reconnecting.hpp:30).
THEOREM QuietWhenStopped == Spec => []StoppedIsQuiet
<1>1. LoopsInv => StoppedIsQuiet
  BY DEF LoopsInv, QuietInv, Guarded, StoppedIsQuiet
<1>2. QED  BY <1>1, LoopsInvariance, PTL

\* When reset_connection resets the send and the receive service, their loops are over: it takes
\* no track from a loop that lives and no channel of the ack cache from a message loop that could
\* still finish it (client_lifetime_service.hpp:138, stopping.hpp:25).
ResetIsQuiet ==
  [][(\E t \in Task : ConnectBegin(t)) \/ (\E c \in Caller : StopReset(c)) =>
       Live("receive") = {} /\ Live("sequence") = {}]_vars

\* Neither a connect, of a start or of a recovery, nor a stop resets under a loop that lives.
THEOREM ResetMeetsNoLoop == Spec => ResetIsQuiet
<1>1. ASSUME IInv, LoopsInv, NEW t \in Task, ConnectBegin(t)
      PROVE  Live("receive") = {} /\ Live("sequence") = {}
  <2>1. pc[t] \in StartPC
    BY <1>1 DEF ConnectBegin, StartPC
  <2>2. state \notin Active
    BY <1>1, <2>1, OwnFacts DEF Active
  <2>3. QED  BY <1>1, <2>2 DEF LoopsInv, QuietInv
<1>2. ASSUME IInv, LoopsInv, NEW c \in Caller, StopReset(c)
      PROVE  Live("receive") = {} /\ Live("sequence") = {}
  <2>1. pc[c] \in Passing /\ Past[pc[c]] = Loop
    BY <1>2 DEF StopReset, Passing, Past
  <2>2. Guarded("receive") /\ Guarded("sequence") /\ {"receive", "sequence"} \subseteq Loop
    BY DEF Guarded, Loop
  <2>3. QED  BY <1>2, <2>1, <2>2 DEF LoopsInv, QuietInv
<1>3. IInv /\ LoopsInv =>
        ((\E t \in Task : ConnectBegin(t)) \/ (\E c \in Caller : StopReset(c)) =>
           Live("receive") = {} /\ Live("sequence") = {})
  BY <1>1, <1>2
<1>4. QED  BY <1>3, Invariance, LoopsInvariance, PTL DEF ResetIsQuiet
=============================================================================
