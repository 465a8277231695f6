------------------------- MODULE MessageLoopProofs -------------------------
(* The shared message loop implements each of its parts, so that what is     *)
(* proved of the parts alone is true of them together.                       *)
EXTENDS MessageLoop, TLAPS

RP == INSTANCE RequestsProofs
DP == INSTANCE DeliveryProofs

USE MessageLoopAssumption

\* The parts agree, and what the loops await is known.
IInv == pc \in [D!Loop -> D!PC] /\ LoopsAgree

\* The initial states satisfy the invariant.
LEMMA InitInv == Init => IInv
BY DEF Init, IInv, LoopsAgree, R!Init, D!Init, D!Loop, D!PC, D!Live

\* A step of the data loops keeps the invariant.
LEMMA DataStepInv ==
  ASSUME IInv, DataStep PROVE IInv'
<1> USE DEF IInv, LoopsAgree, D!Loop, D!PC, D!Live
<1>1. UNCHANGED loop
  BY DEF DataStep, RequestsStand, sending
<1>2. CASE D!Update
  BY <1>1, <1>2 DEF D!Update, D!Release
<1>3. CASE D!Queue
  BY <1>1, <1>3 DEF D!Queue
<1>4. CASE \E k \in Kind : D!Handle(k)
  BY <1>1, <1>4 DEF D!Handle
<1>5. CASE D!Tick
  BY <1>1, <1>5 DEF D!Tick, D!Lock
<1>6. CASE D!Get
  BY <1>1, <1>6 DEF D!Get, D!Release
<1>7. CASE D!WriteAck
  BY <1>1, <1>7 DEF D!WriteAck
<1>8. CASE D!End("sequence")
  BY <1>1, <1>8 DEF D!End
<1>9. CASE D!EndHandling
  BY <1>1, <1>9 DEF D!EndHandling
<1> QED
  BY <1>2, <1>3, <1>4, <1>5, <1>6, <1>7, <1>8, <1>9 DEF DataStep

\* Every step keeps the invariant.
LEMMA StepInv == IInv /\ [Next]_vars => IInv'
<1> SUFFICES ASSUME IInv, [Next]_vars PROVE IInv'
  OBVIOUS
<1> USE DEF IInv, LoopsAgree, D!Loop, D!PC, D!Live
<1>1. CASE RequestStep
  <2>1. UNCHANGED pc
    BY <1>1 DEF RequestStep, DataStand, receiving
  <2>2. UNCHANGED loop \/ (loop \in {"none", "connecting"} /\ loop' \in {"none", "connecting"})
    BY <1>1 DEF RequestStep, R!Call, R!Deliver, R!WriteEnds, R!PostEnds, R!Reset, R!OpenDeaf
  <2> QED  BY <2>1, <2>2
<1>2. CASE DataStep
  BY <1>2, DataStepInv
<1>3. ASSUME NEW i \in unanswered, HandleAck(i) PROVE IInv'
  BY <1>3 DEF HandleAck, R!HandleAck, DataStand, receiving
<1>4. CASE ReadData
  BY <1>4 DEF ReadData, Idle, D!ReadNew, D!ReadAgain, D!Lock, RequestsStand, sending
<1>5. CASE Greeted
  BY <1>5 DEF Greeted, R!Greeted, DataStand, receiving
<1>6. CASE Open
  BY <1>6 DEF Open, R!Open, D!Open
<1>7. CASE Fails
  BY <1>7 DEF Fails, R!MessageLoopFails, D!End
<1>8. CASE Stops
  BY <1>8 DEF Stops, R!MessageLoopStops, D!End
<1>9. CASE UNCHANGED vars
  BY <1>9 DEF vars, sending, receiving
<1> QED
  BY <1>1, <1>2, <1>3, <1>4, <1>5, <1>6, <1>7, <1>8, <1>9 DEF Next

\* A rejoin, or the wait for the greeting, holds no message back; the loop runs in both parts
\* or in neither.
THEOREM PartsAgree == Spec => []LoopsAgree
<1>1. IInv => LoopsAgree
  BY DEF IInv
<1> QED  BY InitInv, StepInv, <1>1, PTL DEF Spec

------------------------------------------------------------------------------
\* Every step is one of Requests, or leaves its state alone.
LEMMA StepRequests == [Next]_vars => [R!Next]_R!vars
<1> SUFFICES ASSUME [Next]_vars PROVE R!Next \/ UNCHANGED R!vars
  OBVIOUS
<1>1. CASE RequestStep
  BY <1>1 DEF RequestStep, R!Next
<1>2. CASE DataStep \/ ReadData
  BY <1>2 DEF DataStep, ReadData, RequestsStand, sending, R!vars
<1>3. ASSUME NEW i \in unanswered, HandleAck(i) PROVE R!Next
  BY <1>3 DEF HandleAck, R!Next
<1>4. CASE Greeted \/ Open \/ Fails \/ Stops
  BY <1>4 DEF Greeted, Open, Fails, Stops, R!Next
<1>5. CASE UNCHANGED vars
  BY <1>5 DEF vars, sending, R!vars
<1> QED  BY <1>1, <1>2, <1>3, <1>4, <1>5 DEF Next

\* Every step is one of Delivery, or leaves its state alone.
LEMMA StepDelivery == [Next]_vars => [D!Next]_D!vars
<1> SUFFICES ASSUME [Next]_vars PROVE D!Next \/ UNCHANGED D!vars
  OBVIOUS
<1> USE DEF D!vars, D!service, D!data
<1>1. CASE RequestStep \/ Greeted
  BY <1>1 DEF RequestStep, Greeted, DataStand, receiving
<1>2. CASE DataStep
  BY <1>2 DEF DataStep, D!Next, D!Loop
<1>3. ASSUME NEW i \in unanswered, HandleAck(i) PROVE UNCHANGED D!vars
  BY <1>3 DEF HandleAck, DataStand, receiving
<1>4. CASE ReadData
  BY <1>4 DEF ReadData, D!Next
<1>5. CASE Open \/ Fails \/ Stops
  BY <1>5 DEF Open, Fails, Stops, D!Next, D!Loop
<1>6. CASE UNCHANGED vars
  BY <1>6 DEF vars, receiving
<1> QED  BY <1>1, <1>2, <1>3, <1>4, <1>5, <1>6 DEF Next

LEMMA LoopImplementsRequests == Spec => R!Spec
<1>1. Init => R!Init
  BY DEF Init
<1> QED  BY <1>1, StepRequests, PTL DEF Spec, R!Spec

LEMMA LoopImplementsDelivery == Spec => D!Spec
<1>1. Init => D!Init
  BY DEF Init
<1> QED  BY <1>1, StepDelivery, PTL DEF Spec, D!Spec

------------------------------------------------------------------------------
(* The theorems about the parts are about instances of their own, RP and DP,   *)
(* whose definitions are the same as those of R and D.                         *)

LEMMA SameRequestsInit == R!Init <=> RP!Init
BY DEF R!Init, RP!Init, R!Sender, RP!Sender, R!NoId, RP!NoId

LEMMA SameRequestsNext == [R!Next]_R!vars <=> [RP!Next]_RP!vars
<1>1. R!Next <=> RP!Next
  BY DEF R!Next, RP!Next, R!Call, RP!Call, R!Deliver, RP!Deliver, R!WriteEnds,
         RP!WriteEnds, R!PostEnds, RP!PostEnds, R!HandleAck, RP!HandleAck, R!Answer,
         RP!Answer, R!Greeted, RP!Greeted, R!MessageLoopFails, RP!MessageLoopFails,
         R!MessageLoopStops, RP!MessageLoopStops, R!Reset, RP!Reset, R!Open, RP!Open,
         R!OpenDeaf, RP!OpenDeaf, R!Send, RP!Send, R!Return, RP!Return, R!Sender,
         RP!Sender, R!Empty, RP!Empty, R!WaitingFor, RP!WaitingFor, R!NoId, RP!NoId
<1> QED  BY <1>1 DEF R!vars, RP!vars

LEMMA SameDeliveryInit == D!Init <=> DP!Init
BY DEF D!Init, DP!Init, D!Loop, DP!Loop

LEMMA SameDeliveryNext == [D!Next]_D!vars <=> [DP!Next]_DP!vars
<1>1. D!Next <=> DP!Next
  BY DEF D!Next, DP!Next, D!Open, DP!Open, D!ReadNew, DP!ReadNew, D!ReadAgain,
         DP!ReadAgain, D!Update, DP!Update, D!Queue, DP!Queue, D!Handle, DP!Handle,
         D!Tick, DP!Tick, D!Get, DP!Get, D!WriteAck, DP!WriteAck, D!End, DP!End,
         D!EndHandling, DP!EndHandling, D!Lock, DP!Lock, D!Release, DP!Release,
         D!IsNew, DP!IsNew, D!Live, DP!Live, D!Loop, DP!Loop, D!Sent, DP!Sent,
         D!service, DP!service, D!data, DP!data
<1> QED  BY <1>1 DEF D!vars, DP!vars, D!service, DP!service, D!data, DP!data

\* Sharing the loop, no send waits in a channel that the cache has lost, every channel belongs
\* to a send that will look for it, and a rejoin is the only one who waits while it blocks the
\* loop (async_retry_send, ack_cache).
THEOREM SharedLoopLosesNoWakeup ==
  Spec => []R!NoLostWakeup /\ []R!CacheIsTidy /\ []R!RejoinBlocksLoop
<1>1. RP!Spec => []RP!NoLostWakeup /\ []RP!CacheIsTidy /\ []RP!RejoinBlocksLoop
  BY RP!NoWakeupIsLost, RP!CacheStaysTidy, RP!RejoinBlocks, PTL
<1>2. RP!NoLostWakeup => R!NoLostWakeup
  BY DEF R!NoLostWakeup, RP!NoLostWakeup, R!Sender, RP!Sender
<1>3. RP!CacheIsTidy => R!CacheIsTidy
  BY DEF R!CacheIsTidy, RP!CacheIsTidy, R!Sender, RP!Sender
<1>4. RP!RejoinBlocksLoop => R!RejoinBlocksLoop
  BY DEF R!RejoinBlocksLoop, RP!RejoinBlocksLoop
<1> QED
  BY <1>1, <1>2, <1>3, <1>4, LoopImplementsRequests, SameRequestsInit, SameRequestsNext, PTL
     DEF R!Spec, RP!Spec

\* Sharing the loop, data reach the callbacks in order, none that is acknowledged is lost, the
\* ids that the service sees grow, and while both loops run the lock comes back
\* (async_handle_message_response, sequence_id, the sequence loop).
THEOREM SharedLoopDelivers ==
  Spec => []D!DeliveredInOrder /\ []D!AckedIsSafe /\ []D!LockIsHeldByRunner /\ D!AcksGrow
<1>1. DP!Spec => []DP!DeliveredInOrder /\ []DP!AckedIsSafe /\ []DP!LockIsHeldByRunner
  BY DP!DeliveryInOrder, DP!AcknowledgedIsSafe, DP!LockComesBack, PTL
<1>2. DP!DeliveredInOrder => D!DeliveredInOrder
  BY DEF D!DeliveredInOrder, DP!DeliveredInOrder
<1>3. DP!AckedIsSafe => D!AckedIsSafe
  BY DEF D!AckedIsSafe, DP!AckedIsSafe, D!Elements, DP!Elements
<1>4. DP!LockIsHeldByRunner => D!LockIsHeldByRunner
  BY DEF D!LockIsHeldByRunner, DP!LockIsHeldByRunner, D!Loop, DP!Loop, D!Live, DP!Live
<1>5. Spec => DP!Spec
  BY LoopImplementsDelivery, SameDeliveryInit, SameDeliveryNext, PTL
     DEF D!Spec, DP!Spec
<1>6. DP!Spec => D!AcksGrow
  <2>1. [sessions' = sessions => acked' >= acked]_(DP!vars)
          => [sessions' = sessions => acked' >= acked]_(D!vars)
    BY DEF D!vars, DP!vars, D!service, DP!service, D!data, DP!data
  <2>2. QED  BY <2>1, DP!AcknowledgementsGrow, PTL DEF D!AcksGrow, DP!AcksGrow
<1> QED  BY <1>1, <1>2, <1>3, <1>4, <1>5, <1>6, PTL

\* When the message loop has ended, no rejoin of its own is left in the cache's channels, and it
\* does not wait for the lock of the sequence id: an end of the loop that only one of the parts
\* saw would leave one or the other.
THEOREM EndSeen == Spec => []EndIsSeen
<1>1. Spec => RP!Spec
  BY LoopImplementsRequests, SameRequestsInit, SameRequestsNext, PTL DEF R!Spec, RP!Spec
<1>2. Spec => DP!Spec
  BY LoopImplementsDelivery, SameDeliveryInit, SameDeliveryNext, PTL DEF D!Spec, DP!Spec
<1>3. ASSUME IInv, RP!IInv, DP!IInv PROVE EndIsSeen
  <2>1. SUFFICES ASSUME ~D!Live("message")
                 PROVE  /\ at[Rejoiner] \notin {"writing", "waiting"}
                        /\ "message" \notin {lock[i] : i \in DOMAIN lock \ {1}}
    BY DEF EndIsSeen
  <2>2. at[Rejoiner] \notin {"writing", "waiting"}
    BY <1>3, <2>1 DEF IInv, LoopsAgree, RP!IInv, RP!RejoinerInv
  <2>3. pc["message"] = "ended"
    BY <2>1 DEF D!Live
  <2>4. CASE lock = <<>>
    BY <2>2, <2>4
  <2>5. ASSUME NEW l \in DP!Loop, lock = <<l>>
        PROVE  "message" \notin {lock[i] : i \in DOMAIN lock \ {1}}
    BY <2>5
  <2>6. ASSUME NEW l \in DP!Loop, NEW m \in DP!Loop, lock = <<l, m>>, pc[m] = "locking"
        PROVE  "message" \notin {lock[i] : i \in DOMAIN lock \ {1}}
    BY <2>3, <2>6
  <2>7. lock # <<>> => "message" \notin {lock[i] : i \in DOMAIN lock \ {1}}
    BY <1>3, <2>5, <2>6 DEF DP!IInv, DP!LockInv
  <2>8. QED  BY <2>2, <2>4, <2>7
<1>4. Spec => []IInv
  BY InitInv, StepInv, PTL DEF Spec
<1>5. IInv /\ RP!IInv /\ DP!IInv => EndIsSeen
  BY <1>3
<1>6. RP!Spec => []RP!IInv
  BY RP!Inductive
<1>7. DP!Spec => []DP!IInv
  BY DP!Invariance
<1> QED  BY <1>1, <1>2, <1>4, <1>5, <1>6, <1>7, PTL

\* Sharing the loop, each send has an id of its own, returns once, and returns an id only if the
\* service has got the request with this id (RequestOutcomes).
THEOREM SharedLoopEndsSends == Spec => R!SendsHaveOutcomes
<1>1. Spec => RP!Spec
  BY LoopImplementsRequests, SameRequestsInit, SameRequestsNext, PTL
     DEF R!Spec, RP!Spec
<1>2. RP!Spec => RP!SendsHaveOutcomes
  BY RP!ImplementsOutcomes
<1>3. RP!Outcomes!Init => R!Outcomes!Init
  BY DEF RP!Outcomes!Init, R!Outcomes!Init, RP!Sender, R!Sender, RP!StatusOf, R!StatusOf,
         RP!NoId, R!NoId
<1>4. [RP!Outcomes!Next]_(RP!Outcomes!vars) => [R!Outcomes!Next]_(R!Outcomes!vars)
  BY DEF RP!Outcomes!Next, R!Outcomes!Next, RP!Outcomes!vars, R!Outcomes!vars,
         RP!Outcomes!Call, R!Outcomes!Call, RP!Outcomes!Accept, R!Outcomes!Accept,
         RP!Outcomes!Acknowledge, R!Outcomes!Acknowledge, RP!Outcomes!GiveUp, R!Outcomes!GiveUp,
         RP!Sender, R!Sender, RP!StatusOf, R!StatusOf, RP!NoId, R!NoId
<1> QED
  BY <1>1, <1>2, <1>3, <1>4, PTL
     DEF RP!SendsHaveOutcomes, R!SendsHaveOutcomes, RP!Outcomes!Spec, R!Outcomes!Spec
=============================================================================
