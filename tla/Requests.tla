------------------------------ MODULE Requests ------------------------------
(****************************************************************************)
(* Requests and their acknowledgements: async_retry_send of                 *)
(* client_send_service, the ack_cache, and the handler of acknowledgements  *)
(* in the message loop.  The loop sends requests itself when it rejoins the *)
(* groups after the service has greeted it (Rejoiner).                      *)
(*                                                                          *)
(* A step is what a coroutine does between two suspensions.  A coroutine    *)
(* that its channel wakes returns in the step that wakes it: it is out of   *)
(* every channel by then, and nothing that runs before it does can tell.    *)
(* No std::exception leaves a send, so the retry loop takes one turn.       *)
(****************************************************************************)
EXTENDS Integers

CONSTANTS Request,        \* coroutines of the application that send
          Rejoiner,       \* the rejoin inside the message loop
          Group,
          NoGroup,        \* of a request that joins none
          MaxId,          \* bound: how many ids are used
          MaxSessions     \* bound: how often the message loop is spawned

Sender == Request \cup {Rejoiner}

ASSUME RequestsAssumption ==
  /\ Rejoiner \notin Request
  /\ NoGroup \notin Group
  /\ MaxId \in Nat
  /\ MaxSessions \in Nat

VARIABLES autoRejoin,     \* options_.auto_rejoin_groups
          loop,           \* the connection and its message loop
          sessions,       \* how often the loop has been spawned
          nextId,         \* transition_context.ack_id_
          at,             \* where each send stands
          id,             \* the ack id of each send
          joining,        \* the group that a request is to join
          result,         \* request_result.ack_id of each send that returned
          cache,          \* the ids that have a channel in ack_cache
          buffered,       \* those whose channel holds `cancelled`
          unanswered,     \* ids the service got on this connection and has not answered
          accepted,       \* history: the ids the service ever got
          groups          \* lifetime.groups_

vars == <<autoRejoin, loop, sessions, nextId, at, id, joining, result,
          cache, buffered, unanswered, accepted, groups>>

Id == Nat
NoId == -1
At == {"idle", "writing", "posting", "waiting", "done"}
LoopState == {"none", "connecting", "opened", "reading", "rejoining"}
GroupState == {"absent", "cached", "joined"}
Answer == {"success", "duplicate", "error"}

------------------------------------------------------------------------------
\* The sends of S return, each with its own part of r; a join sets its group
\* joined whatever it returns.
Return(S, r) ==
  /\ at' = [s \in Sender |-> IF s \in S THEN "done" ELSE at[s]]
  /\ result' = [s \in Sender |-> IF s \in S THEN r[s] ELSE result[s]]
  /\ groups' = [g \in Group |->
                  IF \E s \in S : joining[s] = g THEN "joined" ELSE groups[g]]

Empty == [s \in Sender |-> NoId]

\* Sends that wait in their channel, as the channels with an id in I see them.
WaitingFor(I) == {s \in Sender : at[s] = "waiting" /\ id[s] \in I}

\* Mutant: the next id is taken but not counted.
IdentifyAgain(s, a, g) ==
  /\ nextId < MaxId
  /\ id' = [id EXCEPT ![s] = nextId]
  /\ at' = [at EXCEPT ![s] = a]
  /\ joining' = [joining EXCEPT ![s] = g]
  /\ result' = [result EXCEPT ![s] = NoId]
  /\ cache' = IF a = "writing" THEN cache \cup {nextId} ELSE cache
  /\ UNCHANGED nextId

\* async_retry_send up to the write: the id, and its channel if it will wait.
Send(s, a, g) ==
  /\ nextId < MaxId
  /\ nextId' = nextId + 1
  /\ id' = [id EXCEPT ![s] = nextId]
  /\ at' = [at EXCEPT ![s] = a]
  /\ joining' = [joining EXCEPT ![s] = g]
  /\ result' = [result EXCEPT ![s] = NoId]
  /\ cache' = IF a = "writing" THEN cache \cup {nextId} ELSE cache

------------------------------------------------------------------------------
Init ==
  /\ autoRejoin \in BOOLEAN
  /\ loop = "none"
  /\ sessions = 0
  /\ nextId = 0
  /\ at = [s \in Sender |-> "idle"]
  /\ id = [s \in Sender |-> 0]
  /\ joining = [s \in Sender |-> NoGroup]
  /\ result = [s \in Sender |-> NoId]
  /\ cache = {}
  /\ buffered = {}
  /\ unanswered = {}
  /\ accepted = {}
  /\ groups = [g \in Group |-> "absent"]

\* async_send_to_group, async_send_event, async_leave_group (no group) and
\* async_join_group, with fire_and_forget ("posting") or without.
Call(r) ==
  /\ sessions > 0
  /\ at[r] \in {"idle", "done"}
  /\ \E a \in {"writing", "posting"}, g \in Group \cup {NoGroup} :
       /\ Send(r, a, g)
       /\ groups' = [h \in Group |->
                       IF h = g /\ groups[h] = "absent" THEN "cached" ELSE groups[h]]
  /\ UNCHANGED <<autoRejoin, loop, sessions, buffered, unanswered, accepted>>

\* External: a frame that is being written reaches the service.
Deliver(s) ==
  /\ at[s] \in {"writing", "posting"}
  /\ loop # "connecting"
  /\ id[s] \notin accepted
  /\ accepted' = accepted \cup {id[s]}
  /\ unanswered' = unanswered \cup {id[s]}
  /\ UNCHANGED <<autoRejoin, loop, sessions, nextId, at, id, joining, result,
                 cache, buffered, groups>>

\* The write ends, with or without an exception (both go on to async_wait): a
\* channel that is gone throws out_of_range, `cancelled` is received at once.  (A
\* rejoin always finds its channel: RejoinBlocksLoop.)
WriteEnds(s) ==
  /\ at[s] = "writing"
  /\ IF id[s] \in cache \ buffered
     THEN /\ at' = [at EXCEPT ![s] = "waiting"]
          /\ UNCHANGED <<result, buffered, groups>>
     ELSE /\ Return({s}, Empty)
          /\ buffered' = buffered \ {id[s]}
  /\ UNCHANGED <<autoRejoin, loop, sessions, nextId, id, joining, cache,
                 unanswered, accepted>>

\* async_send_without_ack returns when its write ends.
PostEnds(s) ==
  /\ at[s] = "posting"
  /\ Return({s}, Empty)
  /\ UNCHANGED <<autoRejoin, loop, sessions, nextId, id, joining, cache, buffered,
                 unanswered, accepted>>

------------------------------------------------------------------------------
(* The message loop                                                          *)

\* Mutant: an acknowledgement erases the channel without sending to it.
EraseOnly(i, a) ==
  /\ loop = "reading"
  /\ i \in unanswered
  /\ unanswered' = unanswered \ {i}
  /\ cache' = cache \ {i}
  /\ buffered' = buffered \ {i}
  /\ UNCHANGED <<autoRejoin, loop, sessions, nextId, at, id, joining, result, accepted, groups>>

\* Mutant: acknowledgements are read while the groups are rejoined.
HandleAckAnyTime(i, a) ==
  /\ loop \in {"reading", "rejoining"}
  /\ i \in unanswered
  /\ unanswered' = unanswered \ {i}
  /\ cache' = cache \ {i}
  /\ buffered' = buffered \ {i}
  /\ Return(WaitingFor({i} \cap cache),
            [s \in Sender |-> IF a = "error" THEN NoId ELSE i])
  /\ UNCHANGED <<autoRejoin, loop, sessions, nextId, id, joining, accepted>>

\* async_handle_ack_response: ack_cache::finish hands the answer to whoever waits
\* for it and erases the channel; if nobody waits yet, the answer is lost.
HandleAck(i, a) ==
  /\ loop = "reading"
  /\ i \in unanswered
  /\ unanswered' = unanswered \ {i}
  /\ cache' = cache \ {i}
  /\ buffered' = buffered \ {i}
  /\ Return(WaitingFor({i} \cap cache),
            [s \in Sender |-> IF a = "error" THEN NoId ELSE i])
  /\ UNCHANGED <<autoRejoin, loop, sessions, nextId, id, joining, accepted>>

\* async_handle_connected_response of a first connection: rejoin the joined
\* groups, one after the other, inside the message loop.
Greeted ==
  /\ loop = "opened"
  /\ IF autoRejoin /\ \E g \in Group : groups[g] = "joined"
     THEN /\ loop' = "rejoining"
          /\ Send(Rejoiner, "writing", NoGroup)
     ELSE /\ loop' = "reading"
          /\ UNCHANGED <<nextId, at, id, joining, result, cache>>
  /\ UNCHANGED <<autoRejoin, sessions, buffered, unanswered, accepted, groups>>

\* The loop ends with an exception that is no system_error: finish_all wakes
\* those who wait and leaves `cancelled` to those who still write.
MessageLoopFails ==
  /\ loop \in {"opened", "reading"}
  /\ loop' = "none"
  /\ Return(WaitingFor(cache), Empty)
  /\ buffered' = cache \ {id[s] : s \in WaitingFor(cache)}
  /\ UNCHANGED <<autoRejoin, sessions, nextId, id, joining, cache, unanswered, accepted>>

\* The loop is cancelled, or its read fails with a system_error: nothing is
\* finished.  A rejoin is cut short and erases its own channel.  The walk over the groups
\* that it was a part of throws at each later await, before a send takes an id or touches
\* the cache: the rest of it only calls callbacks.
MessageLoopStops ==
  /\ loop \in {"opened", "reading", "rejoining"}
  /\ loop' = "none"
  /\ IF loop = "rejoining"
     THEN /\ Return({Rejoiner}, Empty)
          /\ cache' = cache \ {id[Rejoiner]}
          /\ buffered' = buffered \ {id[Rejoiner]}
     ELSE UNCHANGED <<at, result, groups, cache, buffered>>
  /\ UNCHANGED <<autoRejoin, sessions, nextId, id, joining, unanswered, accepted>>

------------------------------------------------------------------------------
(* The connection                                                            *)

\* Mutant: ack_cache::reset clears the map but does not cancel its channels.
ResetQuietly(next) ==
  /\ loop \in {"none", "connecting"}
  /\ loop' = next
  /\ cache' = {}
  /\ buffered' = {}
  /\ unanswered' = IF next = "connecting" THEN {} ELSE unanswered
  /\ UNCHANGED <<autoRejoin, sessions, nextId, at, id, joining, result, accepted, groups>>

\* Mutant: ack_cache::reset cancels its channels but keeps them.
ResetKeeping(next) ==
  /\ loop \in {"none", "connecting"}
  /\ loop' = next
  /\ Return(WaitingFor(cache), Empty)
  /\ buffered' = {}
  /\ unanswered' = IF next = "connecting" THEN {} ELSE unanswered
  /\ UNCHANGED <<autoRejoin, sessions, nextId, id, joining, cache, accepted>>

\* reset_connection, at the end of a stop (next is "none") or before a connect,
\* whose new websocket has nothing to do with the frames of the last one.  No
\* message loop runs then (ResetMeetsNoLoop of ClientLifecycleProofs).
Reset(next) ==
  /\ loop \in {"none", "connecting"}
  /\ loop' = next
  /\ Return(WaitingFor(cache), Empty)
  /\ cache' = {}
  /\ buffered' = {}
  /\ unanswered' = IF next = "connecting" THEN {} ELSE unanswered
  /\ UNCHANGED <<autoRejoin, sessions, nextId, id, joining, accepted>>

\* The connection is made and the message loop spawned.
Open ==
  /\ loop = "connecting"
  /\ sessions < MaxSessions
  /\ sessions' = sessions + 1
  /\ loop' = "opened"
  /\ UNCHANGED <<autoRejoin, nextId, at, id, joining, result, cache, buffered,
                 unanswered, accepted, groups>>

\* A reconnected client is connected and has no message loop.
OpenDeaf ==
  /\ loop = "connecting"
  /\ sessions > 0
  /\ loop' = "none"
  /\ UNCHANGED <<autoRejoin, sessions, nextId, at, id, joining, result, cache, buffered,
                 unanswered, accepted, groups>>

Next ==
  \/ \E r \in Request : Call(r)
  \/ \E s \in Sender : Deliver(s) \/ WriteEnds(s) \/ PostEnds(s)
  \/ \E i \in unanswered, a \in Answer : HandleAck(i, a)
  \/ Greeted \/ MessageLoopFails \/ MessageLoopStops
  \/ \E next \in {"none", "connecting"} : Reset(next)
  \/ Open \/ OpenDeaf

\* Pending writes end, the service greets a client and answers what it got.
Fairness ==
  /\ \A s \in Sender : WF_vars(WriteEnds(s)) /\ WF_vars(PostEnds(s))
  /\ \A i \in 0 .. MaxId : WF_vars(\E a \in Answer : HandleAck(i, a))
  /\ WF_vars(Greeted)

Spec == Init /\ [][Next]_vars
FairSpec == Spec /\ Fairness

------------------------------------------------------------------------------
\* The variables have their types.
TypeOK ==
  /\ autoRejoin \in BOOLEAN
  /\ loop \in LoopState
  /\ sessions \in Nat
  /\ nextId \in Nat
  /\ at \in [Sender -> At]
  /\ id \in [Sender -> Id]
  /\ joining \in [Sender -> Group \cup {NoGroup}]
  /\ result \in [Sender -> Id \cup {NoId}]
  /\ cache \in SUBSET Id
  /\ buffered \in SUBSET cache
  /\ unanswered \in SUBSET accepted
  /\ accepted \in SUBSET Id
  /\ groups \in [Group -> GroupState]

\* Whoever waits for an acknowledgement waits in a channel that the cache still
\* has, and that is empty: an answer, finish_all and reset all find it.  (The
\* cache is erased, cleared and filled by others while a write is under way.)
NoLostWakeup ==
  \A s \in Sender : at[s] = "waiting" => id[s] \in cache \ buffered

\* finish_all leaves the channels of those it wakes in the cache.  None of them
\* is there any more when a connection is made, or while a message loop reads:
\* every channel belongs to a send that will look for it.
CacheIsTidy ==
  loop # "none" =>
    \A i \in cache : \E s \in Sender : at[s] \in {"writing", "waiting"} /\ id[s] = i

\* The rejoin occupies the message loop, the only one who could read the
\* acknowledgement it waits for: its channel stays in the cache, and empty.
RejoinBlocksLoop ==
  (loop = "rejoining") =>
    at[Rejoiner] \in {"writing", "waiting"} /\ id[Rejoiner] \in cache \ buffered

\* Where a send stands, as its caller sees it.
StatusOf(s) ==
  CASE at[s] = "idle" -> "idle"
    [] at[s] = "done" -> IF result[s] = NoId THEN "unanswered" ELSE "acknowledged"
    [] OTHER -> "pending"

\* Each send has an id of its own, returns once, and returns an id only if the
\* service has got the request with this id, whatever connections come and go.
Outcomes ==
  INSTANCE RequestOutcomes WITH
    Caller <- Sender, given <- 0 .. nextId - 1,
    status <- [s \in Sender |-> StatusOf(s)],
    identity <- id, accepted <- accepted

SendsHaveOutcomes == Outcomes!Spec

\* A send can wait for ever in two ways: the service never got it (its write failed, which
\* async_send_request hides) or no message loop reads.  All others return, also those that
\* were answered while they were being written, and those whose connection has been reset.
Stranded(s) ==
  at[s] = "waiting" /\ (id[s] \notin accepted \/ loop # "reading")

RequestReturnsOrStranded ==
  \A s \in Sender : (at[s] = "writing") ~> (at[s] = "done" \/ Stranded(s))

\* A rejoin whose request the service got, and will answer, comes to its end, in a client
\* that nobody stops (async_handle_connection_connected).
RejoinEnds ==
  (loop = "rejoining" /\ id[Rejoiner] \in unanswered) ~> (loop # "rejoining")
=============================================================================
