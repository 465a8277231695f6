---------------------------- MODULE MessageLoop ----------------------------
(****************************************************************************)
(* Requests and Delivery over the one message loop that they share, which   *)
(* does one thing at a time: while it waits for the lock of the sequence id *)
(* or for room in a data channel it handles no acknowledgement, and while   *)
(* it rejoins a group it reads no data.  Requests knows the loop as loop,   *)
(* Delivery as pc["message"]; sessions is the same in both.                 *)
(****************************************************************************)
EXTENDS Integers, Sequences

CONSTANTS Request, Rejoiner, Group, NoGroup, MaxId,   \* of Requests
          Kind, BufferSize, MaxSent,                  \* of Delivery
          MaxSessions                                 \* of both

ASSUME MessageLoopAssumption ==
  /\ Rejoiner \notin Request
  /\ NoGroup \notin Group
  /\ BufferSize \in Nat \ {0}
  /\ MaxId \in Nat
  /\ MaxSent \in Nat
  /\ MaxSessions \in Nat

VARIABLES autoRejoin, loop, nextId, at, id, joining, result, cache, buffered, unanswered,
          accepted, groups,                           \* of Requests
          kinds, base, acked, pc, lock, seqId, updated, msg, ackId, handling, channel,
          delivered,                                  \* of Delivery
          sessions                                    \* of both

R == INSTANCE Requests
D == INSTANCE Delivery

sending == <<autoRejoin, loop, nextId, at, id, joining, result, cache, buffered, unanswered,
             accepted, groups>>
receiving == <<kinds, base, acked, pc, lock, seqId, updated, msg, ackId, handling, channel,
               delivered>>
vars == <<sending, receiving, sessions>>

DataStand == UNCHANGED <<receiving, sessions>>
RequestsStand == UNCHANGED <<sending, sessions>>

\* The loop awaits the next frame.
Idle == loop = "reading" /\ pc["message"] = "reading"

Init == R!Init /\ D!Init

------------------------------------------------------------------------------
\* What the application, the writes of requests and resets do, the message loop aside.
RequestStep ==
  /\ \/ \E r \in Request : R!Call(r)
     \/ \E s \in R!Sender : R!Deliver(s) \/ R!WriteEnds(s) \/ R!PostEnds(s)
     \/ \E next \in {"none", "connecting"} : R!Reset(next)
     \/ R!OpenDeaf
  /\ DataStand

\* What the sequence loop and the data loops do; the message loop goes on with a message.
DataStep ==
  /\ \/ D!Update \/ D!Queue
     \/ \E k \in Kind : D!Handle(k)
     \/ D!Tick \/ D!Get \/ D!WriteAck \/ D!End("sequence")
     \/ D!EndHandling
  /\ RequestsStand

\* async_handle_payload of an acknowledgement.
HandleAck(i) ==
  /\ Idle
  /\ \E a \in R!Answer : R!HandleAck(i, a)
  /\ DataStand

\* Mutant: data are read while the groups are rejoined.
ReadDataAnyTime ==
  /\ pc["message"] = "reading"
  /\ \/ \E k \in Kind : D!ReadNew(k)
     \/ \E n \in 1 .. D!Sent : D!ReadAgain(n)
  /\ RequestsStand

\* async_handle_payload of a message.
ReadData ==
  /\ Idle
  /\ \/ \E k \in Kind : D!ReadNew(k)
     \/ \E n \in 1 .. D!Sent : D!ReadAgain(n)
  /\ RequestsStand

\* async_handle_payload of the connected response, the first of a session.
Greeted == R!Greeted /\ DataStand

\* The connection is made and the loops are spawned.
Open == R!Open /\ D!Open

\* The loop reads a frame that makes no sense, between two messages.
Fails ==
  /\ pc["message"] = "reading"
  /\ R!MessageLoopFails
  /\ D!End("message")

\* Mutant: a rejoin that is cut short does not return.
StopsForgetting ==
  /\ loop \in {"opened", "reading", "rejoining"}
  /\ loop' = "none"
  /\ UNCHANGED <<autoRejoin, nextId, at, id, joining, result, cache, buffered, unanswered,
                 accepted, groups>>
  /\ D!End("message")

\* The loop is cancelled, wherever it stands, or its read fails with a system_error.
Stops == R!MessageLoopStops /\ D!End("message")

Next ==
  \/ RequestStep \/ DataStep
  \/ \E i \in unanswered : HandleAck(i)
  \/ ReadData \/ Greeted \/ Open \/ Fails \/ Stops

\* The fairness of the two parts.  The stream hands out frames in order: an answer is not
\* passed over for ever by data, although the loop is not always there to read it.
Fairness ==
  /\ \A s \in R!Sender : WF_vars(R!WriteEnds(s) /\ DataStand) /\ WF_vars(R!PostEnds(s) /\ DataStand)
  /\ \A i \in 0 .. MaxId : SF_vars(HandleAck(i))
  /\ WF_vars(Greeted)
  /\ WF_vars(D!Update /\ RequestsStand) /\ WF_vars(D!Queue /\ RequestsStand)
  /\ \A k \in Kind : WF_vars(D!Handle(k) /\ RequestsStand)
  /\ WF_vars(D!Tick /\ RequestsStand) /\ WF_vars(D!Get /\ RequestsStand)
  /\ WF_vars(D!WriteAck /\ RequestsStand)
  /\ WF_vars(~D!Live("sequence") /\ Stops)

Spec == Init /\ [][Next]_vars
FairSpec == Spec /\ Fairness

------------------------------------------------------------------------------
\* The two parts agree on the loop; it holds a message, or waits for the lock or for room, only
\* while it is neither greeted nor rejoining: a rejoin that never ends starves the data, and no
\* message is in hand that it could starve.
LoopsAgree ==
  /\ loop \in {"opened", "reading", "rejoining"} <=> D!Live("message")
  /\ loop \in {"opened", "rejoining"} => pc["message"] = "reading"

\* When the message loop has ended, however and wherever it stood, nothing of it is left where
\* somebody would wake it: no rejoin of its own waits or writes, and it is not in the queue of the
\* lock of the sequence id, which a sequence loop that still runs hands on.
EndIsSeen ==
  ~D!Live("message") =>
    /\ at[Rejoiner] \notin {"writing", "waiting"}
    /\ "message" \notin {lock[i] : i \in DOMAIN lock \ {1}}


\* A request that the service has got returns, although the loop that reads the answer may have
\* to wait for a callback to make room in a data channel, or for the sequence loop to release its
\* lock: unless the loop ends, or waits for an answer itself.
AnswersGetThrough ==
  \A r \in Request :
    (at[r] = "waiting" /\ id[r] \in unanswered) ~> (at[r] # "waiting" \/ loop # "reading")
=============================================================================
