--------------------------- MODULE RequestsProofs ---------------------------
(* No wakeup is lost, a rejoin blocks its loop, and sends have the outcomes  *)
(* that RequestOutcomes promises, for any requests, groups and bounds.       *)
EXTENDS Requests, TLAPS

USE RequestsAssumption

Active == {"writing", "posting", "waiting"}

\* Ids are given out once: those of unfinished sends differ, and whatever the
\* cache or the service knows has been given out.
IdsInv ==
  /\ \A s, t \in Sender : (s # t /\ at[s] \in Active /\ at[t] \in Active) => id[s] # id[t]
  /\ \A s \in Sender : at[s] \in Active => id[s] < nextId
  /\ \A i \in cache : i < nextId

\* The rejoin sends only inside its loop, and with acknowledgement.
RejoinerInv ==
  /\ at[Rejoiner] # "posting"
  /\ (at[Rejoiner] \in {"writing", "waiting"}) => (loop = "rejoining")
  /\ RejoinBlocksLoop

\* No channel holds `cancelled` while there is a connection to be made or read.
TidyInv ==
  /\ (loop # "none") => (buffered = {})
  /\ CacheIsTidy

IInv == TypeOK /\ IdsInv /\ RejoinerInv /\ NoLostWakeup /\ TidyInv

\* The initial states satisfy the invariant.
LEMMA InitInv == Init => IInv
BY DEF Init, IInv, TypeOK, IdsInv, RejoinerInv, NoLostWakeup, RejoinBlocksLoop,
       TidyInv, CacheIsTidy, Sender, Id, NoId, At, LoopState, GroupState, Active

\* What Return leaves has the right types.
LEMMA ReturnTypes ==
  ASSUME TypeOK, NEW S \in SUBSET Sender, NEW r \in [Sender -> Id \cup {NoId}], Return(S, r)
  PROVE  /\ at' \in [Sender -> At]
         /\ result' \in [Sender -> Id \cup {NoId}]
         /\ groups' \in [Group -> GroupState]
<1>1. at' \in [Sender -> At]
  BY DEF Return, TypeOK, At
<1>2. result' \in [Sender -> Id \cup {NoId}]
  BY DEF Return, TypeOK
<1>3. groups' \in [Group -> GroupState]
  BY DEF Return, TypeOK, GroupState
<1> QED  BY <1>1, <1>2, <1>3

\* Every step keeps the types.
LEMMA StepTypes == TypeOK /\ [Next]_vars => TypeOK'
<1> SUFFICES ASSUME TypeOK, [Next]_vars PROVE TypeOK'
  OBVIOUS
<1> USE DEF TypeOK
<1>e. Empty \in [Sender -> Id \cup {NoId}] /\ Rejoiner \in Sender
  BY DEF Empty, Sender
<1>1. ASSUME NEW r \in Request, Call(r) PROVE TypeOK'
  BY <1>1 DEF Call, Send, Sender, Id, NoId, At, GroupState
<1>2. ASSUME NEW s \in Sender, Deliver(s) PROVE TypeOK'
  <2>1. id[s] \in Id
    OBVIOUS
  <2>2. QED  BY <1>2, <2>1 DEF Deliver
<1>3. ASSUME NEW s \in Sender, WriteEnds(s) PROVE TypeOK'
  <2>1. CASE id[s] \in cache \ buffered
    BY <1>3, <2>1 DEF WriteEnds, At
  <2>2. CASE id[s] \notin cache \ buffered
    <3>1. Return({s}, Empty) /\ buffered' = buffered \ {id[s]}
      BY <1>3, <2>2 DEF WriteEnds
    <3>2. QED  BY <1>3, <1>e, <3>1, ReturnTypes DEF WriteEnds
  <2>3. QED  BY <2>1, <2>2
<1>4. ASSUME NEW s \in Sender, PostEnds(s) PROVE TypeOK'
  BY <1>4, <1>e, ReturnTypes DEF PostEnds
<1>5. ASSUME NEW i \in unanswered, NEW a \in Answer, HandleAck(i, a) PROVE TypeOK'
  <2> DEFINE r == [s \in Sender |-> IF a = "error" THEN NoId ELSE i]
  <2>1. r \in [Sender -> Id \cup {NoId}] /\ WaitingFor({i} \cap cache) \in SUBSET Sender
    BY DEF WaitingFor
  <2>2. QED  BY <1>5, <2>1, ReturnTypes DEF HandleAck
<1>6. CASE Greeted
  <2>1. CASE Send(Rejoiner, "writing", NoGroup) /\ loop' = "rejoining"
    BY <1>6, <1>e, <2>1 DEF Greeted, Send, Id, At, LoopState
  <2>2. CASE UNCHANGED <<nextId, at, id, joining, result, cache>> /\ loop' = "reading"
    BY <1>6, <2>2 DEF Greeted, LoopState
  <2>3. QED  BY <1>6, <2>1, <2>2 DEF Greeted
<1>7. CASE MessageLoopFails
  <2>1. WaitingFor(cache) \in SUBSET Sender
    BY DEF WaitingFor
  <2>2. QED  BY <1>7, <1>e, <2>1, ReturnTypes DEF MessageLoopFails, LoopState
<1>8. CASE MessageLoopStops
  <2>1. CASE loop = "rejoining"
    BY <1>8, <1>e, <2>1, ReturnTypes DEF MessageLoopStops, LoopState
  <2>2. CASE loop # "rejoining"
    BY <1>8, <2>2 DEF MessageLoopStops, LoopState
  <2>3. QED  BY <2>1, <2>2
<1>9. ASSUME NEW next \in {"none", "connecting"}, Reset(next) PROVE TypeOK'
  <2>1. WaitingFor(cache) \in SUBSET Sender
    BY DEF WaitingFor
  <2>2. QED  BY <1>9, <1>e, <2>1, ReturnTypes DEF Reset, LoopState
<1>10. CASE Open
  BY <1>10 DEF Open, LoopState
<1>11. CASE OpenDeaf
  BY <1>11 DEF OpenDeaf, LoopState
<1>12. CASE UNCHANGED vars
  BY <1>12 DEF vars
<1> QED
  BY <1>1, <1>2, <1>3, <1>4, <1>5, <1>6, <1>7, <1>8, <1>9, <1>10, <1>11, <1>12 DEF Next

\* Every step keeps the rest of the invariant.
LEMMA StepInv == IInv /\ [Next]_vars => IInv'
<1> SUFFICES ASSUME IInv, [Next]_vars PROVE (IdsInv /\ RejoinerInv /\ NoLostWakeup /\ TidyInv)'
  BY StepTypes DEF IInv
<1> DEFINE Rest == IdsInv /\ RejoinerInv /\ NoLostWakeup
<1> USE DEF IInv, IdsInv, RejoinerInv, NoLostWakeup, RejoinBlocksLoop, Sender, Id, Active
<1>t. TypeOK /\ TypeOK'
  BY StepTypes
<1>1. ASSUME NEW r \in Request, Call(r) PROVE (Rest /\ TidyInv)'
  <2>1. Rest'
    BY <1>1, <1>t DEF Call, Send, TypeOK
  <2>2. PICK a \in {"writing", "posting"} : \E g \in Group \cup {NoGroup} : Send(r, a, g)
    BY <1>1 DEF Call
  <2>3. /\ cache' = IF a = "writing" THEN cache \cup {nextId} ELSE cache
        /\ at'[r] = a /\ id'[r] = nextId
        /\ \A s \in Sender : s # r => at'[s] = at[s] /\ id'[s] = id[s]
    BY <1>t, <2>2 DEF Send, TypeOK
  <2>4. TidyInv'
    BY <1>1, <2>3 DEF Call, TidyInv, CacheIsTidy
  <2>5. QED  BY <2>1, <2>4
<1>2. ASSUME NEW s \in Sender, Deliver(s) PROVE (Rest /\ TidyInv)'
  BY <1>2, <1>t DEF Deliver, TypeOK, TidyInv, CacheIsTidy
<1>3. ASSUME NEW s \in Sender, WriteEnds(s) PROVE (Rest /\ TidyInv)'
  <2>1. Rest'
    BY <1>3, <1>t DEF WriteEnds, Return, TypeOK
  <2>2. TidyInv'
    <3>1. CASE id[s] \in cache \ buffered
      BY <1>3, <1>t, <3>1 DEF WriteEnds, TypeOK, TidyInv, CacheIsTidy
    <3>2. CASE id[s] \notin cache \ buffered
      BY <1>3, <1>t, <3>2 DEF WriteEnds, Return, TypeOK, TidyInv, CacheIsTidy
    <3>3. QED  BY <3>1, <3>2
  <2>3. QED  BY <2>1, <2>2
<1>4. ASSUME NEW s \in Sender, PostEnds(s) PROVE (Rest /\ TidyInv)'
  BY <1>4, <1>t DEF PostEnds, Return, TypeOK, TidyInv, CacheIsTidy
<1>5. ASSUME NEW i \in unanswered, NEW a \in Answer, HandleAck(i, a) PROVE (Rest /\ TidyInv)'
  <2>1. Rest'
    BY <1>5, <1>t DEF HandleAck, Return, WaitingFor, TypeOK
  <2>2. TidyInv'
    BY <1>5, <1>t DEF HandleAck, Return, WaitingFor, TypeOK, TidyInv, CacheIsTidy
  <2>3. QED  BY <2>1, <2>2
<1>6. CASE Greeted
  <2>1. Rest'
    BY <1>6, <1>t DEF Greeted, Send, TypeOK
  <2>2. TidyInv'
    <3>1. CASE Send(Rejoiner, "writing", NoGroup)
      <4>1. /\ cache' = cache \cup {nextId} /\ at'[Rejoiner] = "writing" /\ id'[Rejoiner] = nextId
            /\ \A s \in Sender : s # Rejoiner => at'[s] = at[s] /\ id'[s] = id[s]
        BY <1>t, <3>1 DEF Send, TypeOK
      <4>2. QED  BY <1>6, <4>1 DEF Greeted, TidyInv, CacheIsTidy
    <3>2. CASE UNCHANGED <<nextId, at, id, joining, result, cache>>
      BY <1>6, <3>2 DEF Greeted, TidyInv, CacheIsTidy
    <3>3. QED  BY <1>6, <3>1, <3>2 DEF Greeted
  <2>3. QED  BY <2>1, <2>2
<1>7. CASE MessageLoopFails
  BY <1>7, <1>t DEF MessageLoopFails, Return, WaitingFor, TypeOK, TidyInv, CacheIsTidy
<1>8. CASE MessageLoopStops
  BY <1>8, <1>t DEF MessageLoopStops, Return, TypeOK, TidyInv, CacheIsTidy
<1>9. ASSUME NEW next \in {"none", "connecting"}, Reset(next) PROVE (Rest /\ TidyInv)'
  BY <1>9, <1>t DEF Reset, Return, WaitingFor, TypeOK, TidyInv, CacheIsTidy
<1>10. CASE Open
  BY <1>10, <1>t DEF Open, TypeOK, TidyInv, CacheIsTidy
<1>11. CASE OpenDeaf
  BY <1>11, <1>t DEF OpenDeaf, TypeOK, TidyInv, CacheIsTidy
<1>12. CASE UNCHANGED vars
  BY <1>12 DEF vars, TidyInv, CacheIsTidy
<1> QED
  BY <1>1, <1>2, <1>3, <1>4, <1>5, <1>6, <1>7, <1>8, <1>9, <1>10, <1>11, <1>12 DEF Next

\* The inductive invariant holds in every behaviour.
LEMMA Inductive == Spec => []IInv
<1>1. QED
  BY InitInv, StepInv, PTL DEF Spec

\* The variables have their types.
THEOREM TypeCorrect == Spec => []TypeOK
<1>1. IInv => TypeOK
  BY DEF IInv
<1>2. QED
  BY <1>1, Inductive, PTL

\* Whoever waits for an acknowledgement can still be woken.
THEOREM NoWakeupIsLost == Spec => []NoLostWakeup
<1>1. IInv => NoLostWakeup
  BY DEF IInv
<1>2. QED
  BY <1>1, Inductive, PTL

\* No channel outlives its send into the next connection.
THEOREM CacheStaysTidy == Spec => []CacheIsTidy
<1>1. IInv => CacheIsTidy
  BY DEF IInv, TidyInv
<1>2. QED
  BY <1>1, Inductive, PTL

\* No answer, reset or failure ends a rejoin.
THEOREM RejoinBlocks == Spec => []RejoinBlocksLoop
<1>1. IInv => RejoinBlocksLoop
  BY DEF IInv, RejoinerInv
<1>2. QED
  BY <1>1, Inductive, PTL

------------------------------------------------------------------------------
(* The refinement of RequestOutcomes                                         *)

Pending(s) == at[s] \in Active

\* What a caller sees of a send.
LEMMA StatusFacts ==
  ASSUME TypeOK, NEW s \in Sender
  PROVE  /\ StatusOf(s) = "pending" <=> Pending(s)
         /\ (at[s] = "done" /\ result[s] = NoId) => StatusOf(s) = "unanswered"
         /\ (at[s] = "done" /\ result[s] # NoId) => StatusOf(s) = "acknowledged"
         /\ at[s] = "idle" => StatusOf(s) = "idle"
<1>1. at[s] \in At
  BY DEF TypeOK
<1>2. QED  BY <1>1 DEF StatusOf, Pending, Active, At

Statuses == [s \in Sender |-> StatusOf(s)]

\* The identity of a call is new, and the call was not pending.
LEMMA SendImplementsCall ==
  ASSUME IInv, IInv', NEW s \in Sender, ~Pending(s), NEW a \in {"writing", "posting"},
         NEW g \in Group \cup {NoGroup}, Send(s, a, g), UNCHANGED accepted
  PROVE  Outcomes!Call(s)
<1>1. TypeOK /\ TypeOK'
  BY DEF IInv
<1>2. StatusOf(s) # "pending"
  BY <1>1, StatusFacts
<1>3. id'[s] = nextId /\ id' = [id EXCEPT ![s] = id'[s]]
  BY <1>1 DEF Send, TypeOK
<1>4. nextId \in Nat \ (0 .. nextId - 1) /\ 0 .. nextId' - 1 = (0 .. nextId - 1) \cup {nextId}
  BY <1>1 DEF Send, TypeOK
<1>5. Statuses' = [Statuses EXCEPT ![s] = "pending"]
  <2>1. at' = [at EXCEPT ![s] = a] /\ result' = [result EXCEPT ![s] = NoId]
    BY DEF Send
  <2>2. \A t \in Sender : t # s => at'[t] = at[t] /\ result'[t] = result[t]
    BY <1>1, <2>1 DEF TypeOK
  <2>3. \A t \in Sender : t # s => StatusOf(t)' = StatusOf(t)
    BY <2>2 DEF StatusOf
  <2>4. at'[s] = a
    BY <1>1, <2>1 DEF TypeOK
  <2>5. StatusOf(s)' = "pending"
    BY <2>4 DEF StatusOf
  <2>6. QED  BY <2>3, <2>5 DEF Statuses
<1>6. QED  BY <1>2, <1>3, <1>4, <1>5 DEF Outcomes!Call, Statuses

\* Sends that return empty are given up together.
LEMMA ReturnImplementsGiveUp ==
  ASSUME IInv, IInv', NEW S \in SUBSET Sender, \A s \in S : Pending(s),
         Return(S, Empty), UNCHANGED <<nextId, id, accepted>>
  PROVE  Outcomes!GiveUp(S)
<1>1. TypeOK /\ TypeOK'
  BY DEF IInv
<1>2. \A s \in S : StatusOf(s) = "pending"
  BY <1>1, StatusFacts
<1>3. \A s \in Sender : /\ s \in S => at'[s] = "done" /\ result'[s] = NoId
                        /\ s \notin S => at'[s] = at[s] /\ result'[s] = result[s]
  BY DEF Return, Empty
<1>4. \A s \in Sender : StatusOf(s)' = IF s \in S THEN "unanswered" ELSE StatusOf(s)
  BY <1>3 DEF StatusOf
<1>5. Statuses' = [s \in Sender |-> IF s \in S THEN "unanswered" ELSE Statuses[s]]
  BY <1>4 DEF Statuses
<1>6. QED  BY <1>2, <1>5 DEF Outcomes!GiveUp, Statuses

\* A step that leaves positions, results, ids and the service alone is a stutter.
LEMMA StutterOutcomes ==
  ASSUME UNCHANGED <<at, result, nextId, id, accepted>>
  PROVE  UNCHANGED Outcomes!vars
BY DEF Outcomes!vars, StatusOf

\* An answer acknowledges the one send that waits for it.
LEMMA AckImplementsAcknowledge ==
  ASSUME IInv, IInv', NEW i \in unanswered, NEW a \in Answer, HandleAck(i, a)
  PROVE  [Outcomes!Next]_(Outcomes!vars)
<1> DEFINE W == WaitingFor({i} \cap cache)
<1>1. TypeOK /\ TypeOK' /\ IdsInv
  BY DEF IInv
<1>2. /\ W \in SUBSET Sender
      /\ \A s \in W : Pending(s) /\ id[s] = i
      /\ UNCHANGED <<nextId, id, accepted>>
  BY DEF WaitingFor, Pending, Active, HandleAck
<1>3. CASE a = "error"
  <2>1. Return(W, Empty)
    BY <1>3 DEF HandleAck, Empty
  <2>2. Outcomes!GiveUp(W)
    BY <1>2, <2>1, ReturnImplementsGiveUp
  <2>3. QED  BY <1>2, <2>2 DEF Outcomes!Next
<1>4. CASE a # "error" /\ W # {}
  <2>1. PICK s \in W : TRUE
    BY <1>4
  <2>2. \A t \in W : t = s
    BY <1>1, <1>2, <2>1 DEF IdsInv, Pending
  <2>3. i \in accepted /\ i \in Nat
    BY <1>1 DEF TypeOK, Id
  <2>4. \A t \in Sender : /\ t = s => at'[t] = "done" /\ result'[t] = i
                          /\ t # s => at'[t] = at[t] /\ result'[t] = result[t]
    BY <1>4, <2>1, <2>2 DEF HandleAck, Return
  <2>5. \A t \in Sender : StatusOf(t)' = IF t = s THEN "acknowledged" ELSE StatusOf(t)
    BY <2>3, <2>4 DEF StatusOf, NoId
  <2>6. Statuses' = [Statuses EXCEPT ![s] = "acknowledged"]
    BY <2>5 DEF Statuses
  <2>7. s \in Sender /\ StatusOf(s) = "pending" /\ id[s] \in accepted
    BY <1>1, <1>2, <2>1, <2>3, StatusFacts
  <2>8. Outcomes!Acknowledge(s)
    BY <1>2, <2>6, <2>7 DEF Outcomes!Acknowledge, Statuses
  <2>9. QED  BY <2>7, <2>8 DEF Outcomes!Next
<1>5. CASE W = {}
  <2>1. at' = at /\ result' = result
    BY <1>1, <1>5 DEF HandleAck, Return, TypeOK
  <2>2. QED  BY <1>2, <2>1, StutterOutcomes
<1>6. QED  BY <1>3, <1>4, <1>5

\* Every step implements one of the abstract specification, or a stutter.
LEMMA StepOutcomes ==
  ASSUME IInv, IInv', [Next]_vars
  PROVE  [Outcomes!Next]_(Outcomes!vars)
<1>t. TypeOK /\ TypeOK' /\ RejoinerInv /\ Rejoiner \in Sender
  BY DEF IInv, Sender
<1>w. WaitingFor(cache) \in SUBSET Sender /\ \A s \in WaitingFor(cache) : Pending(s)
  BY DEF WaitingFor, Pending, Active
<1>1. ASSUME NEW r \in Request, Call(r) PROVE Outcomes!Next
  <2>1. r \in Sender /\ ~Pending(r)
    BY <1>1 DEF Call, Pending, Active, Sender
  <2>2. PICK a \in {"writing", "posting"}, g \in Group \cup {NoGroup} : Send(r, a, g)
    BY <1>1 DEF Call
  <2>3. Outcomes!Call(r)
    BY <1>1, <2>1, <2>2, SendImplementsCall DEF Call
  <2>4. QED  BY <2>1, <2>3 DEF Outcomes!Next
<1>2. ASSUME NEW s \in Sender, Deliver(s) PROVE Outcomes!Next
  <2>1. StatusOf(s) = "pending"
    BY <1>2, <1>t, StatusFacts DEF Deliver, Pending, Active
  <2>2. Outcomes!Accept(s)
    BY <1>2, <2>1 DEF Deliver, Outcomes!Accept, StatusOf
  <2>3. QED  BY <2>2 DEF Outcomes!Next
<1>3. ASSUME NEW s \in Sender, WriteEnds(s) PROVE [Outcomes!Next]_(Outcomes!vars)
  <2>1. CASE id[s] \in cache \ buffered
    <3>1. at' = [at EXCEPT ![s] = "waiting"] /\ at[s] = "writing"
          /\ UNCHANGED <<result, nextId, id, accepted>>
      BY <1>3, <2>1 DEF WriteEnds
    <3>2. \A t \in Sender : StatusOf(t)' = StatusOf(t)
      BY <1>t, <3>1 DEF StatusOf, TypeOK
    <3>3. QED  BY <3>1, <3>2 DEF Outcomes!vars
  <2>2. CASE id[s] \notin cache \ buffered
    <3>1. Return({s}, Empty) /\ Pending(s) /\ UNCHANGED <<nextId, id, accepted>>
      BY <1>3, <2>2 DEF WriteEnds, Pending, Active
    <3>2. Outcomes!GiveUp({s})
      BY <3>1, ReturnImplementsGiveUp
    <3>3. QED  BY <3>2 DEF Outcomes!Next
  <2>3. QED  BY <2>1, <2>2
<1>4. ASSUME NEW s \in Sender, PostEnds(s) PROVE Outcomes!Next
  <2>1. Return({s}, Empty) /\ Pending(s) /\ UNCHANGED <<nextId, id, accepted>>
    BY <1>4 DEF PostEnds, Pending, Active
  <2>2. Outcomes!GiveUp({s})
    BY <2>1, ReturnImplementsGiveUp
  <2>3. QED  BY <2>2 DEF Outcomes!Next
<1>5. ASSUME NEW i \in unanswered, NEW a \in Answer, HandleAck(i, a)
      PROVE [Outcomes!Next]_(Outcomes!vars)
  BY <1>5, AckImplementsAcknowledge
<1>6. ASSUME Greeted PROVE [Outcomes!Next]_(Outcomes!vars)
  <2>1. ~Pending(Rejoiner)
    BY <1>6, <1>t DEF Greeted, RejoinerInv, Pending, Active
  <2>2. CASE Send(Rejoiner, "writing", NoGroup)
    <3>1. Outcomes!Call(Rejoiner)
      BY <1>6, <1>t, <2>1, <2>2, SendImplementsCall DEF Greeted
    <3>2. QED  BY <1>t, <3>1 DEF Outcomes!Next
  <2>3. CASE UNCHANGED <<nextId, at, id, joining, result, cache>>
    BY <1>6, <2>3, StutterOutcomes DEF Greeted
  <2>4. QED  BY <1>6, <2>2, <2>3 DEF Greeted
<1>7. ASSUME MessageLoopFails PROVE Outcomes!Next
  <2>1. Outcomes!GiveUp(WaitingFor(cache))
    BY <1>7, <1>w, ReturnImplementsGiveUp DEF MessageLoopFails
  <2>2. QED  BY <1>w, <2>1 DEF Outcomes!Next
<1>8. ASSUME MessageLoopStops PROVE [Outcomes!Next]_(Outcomes!vars)
  <2>1. CASE loop = "rejoining"
    <3>1. Return({Rejoiner}, Empty) /\ Pending(Rejoiner) /\ UNCHANGED <<nextId, id, accepted>>
      BY <1>8, <1>t, <2>1 DEF MessageLoopStops, RejoinerInv, RejoinBlocksLoop, Pending, Active
    <3>2. Outcomes!GiveUp({Rejoiner})
      BY <1>t, <3>1, ReturnImplementsGiveUp
    <3>3. QED  BY <1>t, <3>2 DEF Outcomes!Next
  <2>2. CASE loop # "rejoining"
    BY <1>8, <2>2, StutterOutcomes DEF MessageLoopStops
  <2>3. QED  BY <2>1, <2>2
<1>9. ASSUME NEW next \in {"none", "connecting"}, Reset(next) PROVE Outcomes!Next
  <2>1. Outcomes!GiveUp(WaitingFor(cache))
    BY <1>9, <1>w, ReturnImplementsGiveUp DEF Reset
  <2>2. QED  BY <1>w, <2>1 DEF Outcomes!Next
<1>10. ASSUME Open \/ OpenDeaf \/ UNCHANGED vars PROVE UNCHANGED Outcomes!vars
  BY <1>10, StutterOutcomes DEF Open, OpenDeaf, vars
<1> QED
  BY <1>1, <1>2, <1>3, <1>4, <1>5, <1>6, <1>7, <1>8, <1>9, <1>10 DEF Next

\* Each send has its own id, returns once, and is acknowledged only if the service
\* has got it.
THEOREM ImplementsOutcomes == Spec => SendsHaveOutcomes
<1>1. Init => Outcomes!Init
  BY DEF Init, Outcomes!Init, StatusOf
<1>2. IInv /\ IInv' /\ [Next]_vars => [Outcomes!Next]_(Outcomes!vars)
  BY StepOutcomes
<1>3. QED
  BY <1>1, <1>2, Inductive, PTL DEF Spec, Outcomes!Spec, SendsHaveOutcomes
=============================================================================
