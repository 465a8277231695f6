------------------------------ MODULE Delivery ------------------------------
(****************************************************************************)
(* What happens to the data that the service sends: the message loop tells  *)
(* new messages from repeated ones by their sequence id (sequence_id, under *)
(* its exclusion_lock) and queues the new ones; a data loop per kind hands  *)
(* them to the callbacks; the sequence loop acknowledges the latest id.     *)
(*                                                                          *)
(* Messages are numbered over all sessions; the sequence id of message n is *)
(* n - base, where base counts the messages of earlier sessions.  A step is *)
(* what a coroutine does between two suspensions.                           *)
(****************************************************************************)
EXTENDS Naturals, Sequences

CONSTANTS Kind,           \* the kinds of data: server, group
          BufferSize,     \* max_buffer_size, and the one that a data loop has taken
          MaxSent,        \* bound: how many messages the service sends
          MaxSessions     \* bound: how often the loops are spawned

ASSUME DeliveryAssumption ==
  /\ BufferSize \in Nat \ {0}
  /\ MaxSent \in Nat
  /\ MaxSessions \in Nat

VARIABLES kinds,          \* the kind of every message that the service has sent
          base,           \* messages of earlier sessions
          acked,          \* the latest sequence id that the service saw acknowledged
          sessions,       \* how often the loops have been spawned
          pc,             \* what the message loop and the sequence loop await
          lock,           \* sequence_id.lock_: its head holds it, the other waits
          seqId,          \* sequence_id.id_
          updated,        \* sequence_id.updated_
          msg,            \* the message that the message loop works on
          ackId,          \* the id that the sequence loop sends
          handling,       \* the data loops run
          channel,        \* the channel of each kind
          delivered       \* history: what the callbacks of each kind were given

service == <<kinds, base, acked, sessions>>
data == <<handling, channel, delivered>>
vars == <<service, pc, lock, seqId, updated, msg, ackId, data>>

Loop == {"message", "sequence"}
PC == {"ended", "reading", "delaying", "locking", "holding", "released", "queueing", "writing"}

Sent == Len(kinds)
Live(l) == pc[l] # "ended"

------------------------------------------------------------------------------
(* exclusion_lock: a channel of capacity one                                 *)

\* async_lock by loop l, which then holds the lock or waits.
Lock(l) ==
  /\ lock' = Append(lock, l)
  /\ pc' = [pc EXCEPT ![l] = IF lock = <<>> THEN "holding" ELSE "locking"]

\* async_release by loop l, which goes on at p; the one who waits gets the lock.
Release(l, p) ==
  /\ lock' = Tail(lock)
  /\ pc' = [m \in Loop |-> IF m = l THEN p
                           ELSE IF pc[m] = "locking" THEN "holding" ELSE pc[m]]

------------------------------------------------------------------------------
Init ==
  /\ kinds = <<>>
  /\ base = 0
  /\ acked = 0
  /\ sessions = 0
  /\ pc = [l \in Loop |-> "ended"]
  /\ lock = <<>>
  /\ seqId = 0
  /\ updated = FALSE
  /\ msg = 0
  /\ ackId = 0
  /\ handling = FALSE
  /\ channel = [k \in Kind |-> <<>>]
  /\ delivered = [k \in Kind |-> <<>>]

\* A connection is made (async_connect resets the sequence id and its lock) and
\* the loops are spawned; what the data channels hold stays there.
Open ==
  /\ ~Live("message") /\ ~Live("sequence")
  /\ sessions < MaxSessions
  /\ sessions' = sessions + 1
  /\ base' = Sent
  /\ acked' = 0
  /\ pc' = [message |-> "reading", sequence |-> "delaying"]
  /\ lock' = <<>>
  /\ seqId' = 0
  /\ updated' = FALSE
  /\ handling' = TRUE
  /\ UNCHANGED <<kinds, msg, ackId, channel, delivered>>

------------------------------------------------------------------------------
(* The message loop                                                          *)

\* The service sends a new message, or repeats one that it has not seen
\* acknowledged; the message loop reads it and asks for the lock.
ReadNew(k) ==
  /\ pc["message"] = "reading"
  /\ Sent < MaxSent
  /\ kinds' = Append(kinds, k)
  /\ msg' = Sent + 1
  /\ Lock("message")
  /\ UNCHANGED <<base, acked, sessions, seqId, updated, ackId, data>>

ReadAgain(n) ==
  /\ pc["message"] = "reading"
  /\ n > base + acked
  /\ msg' = n
  /\ Lock("message")
  /\ UNCHANGED <<service, seqId, updated, ackId, data>>

IsNew == msg - base > seqId

\* Mutant: a repeated message sets the id back.
UpdateAlways ==
  /\ pc["message"] = "holding"
  /\ updated' = TRUE
  /\ seqId' = msg - base
  /\ Release("message", IF IsNew THEN "released" ELSE "reading")
  /\ UNCHANGED <<service, msg, ackId, data>>

\* Mutant: repeated messages are queued as well.
UpdateWithoutFilter ==
  /\ pc["message"] = "holding"
  /\ updated' = TRUE
  /\ seqId' = IF IsNew THEN msg - base ELSE seqId
  /\ Release("message", "released")
  /\ UNCHANGED <<service, msg, ackId, data>>

\* async_try_update: only a new message goes on to its channel.
Update ==
  /\ pc["message"] = "holding"
  /\ updated' = TRUE
  /\ seqId' = IF IsNew THEN msg - base ELSE seqId
  /\ Release("message", IF IsNew THEN "released" ELSE "reading")
  /\ UNCHANGED <<service, msg, ackId, data>>

\* Mutant: a message that finds its channel full is dropped (try_send).
QueueOrDrop ==
  /\ pc["message"] = "released"
  /\ LET k == kinds[msg] IN
       channel' = IF Len(channel[k]) < BufferSize
                  THEN [channel EXCEPT ![k] = Append(@, msg)] ELSE channel
  /\ pc' = [pc EXCEPT !["message"] = "reading"]
  /\ UNCHANGED <<service, lock, seqId, updated, msg, ackId, handling, delivered>>

\* async_queue_server_data, async_queue_group_data: waits if the channel is full.
Queue ==
  /\ pc["message"] = "released"
  /\ LET k == kinds[msg] IN
       IF Len(channel[k]) < BufferSize
       THEN /\ channel' = [channel EXCEPT ![k] = Append(@, msg)]
            /\ pc' = [pc EXCEPT !["message"] = "reading"]
       ELSE /\ pc' = [pc EXCEPT !["message"] = "queueing"]
            /\ UNCHANGED channel
  /\ UNCHANGED <<service, lock, seqId, updated, msg, ackId, handling, delivered>>

------------------------------------------------------------------------------
(* The data loops and the sequence loop                                      *)

\* A data loop takes the oldest message of its channel and calls the callbacks;
\* the message loop that waits for room puts its message in.
Handle(k) ==
  /\ handling
  /\ channel[k] # <<>>
  /\ delivered' = [delivered EXCEPT ![k] = Append(@, Head(channel[k]))]
  /\ IF pc["message"] = "queueing" /\ kinds[msg] = k
     THEN /\ channel' = [channel EXCEPT ![k] = Append(Tail(@), msg)]
          /\ pc' = [pc EXCEPT !["message"] = "reading"]
     ELSE /\ channel' = [channel EXCEPT ![k] = Tail(@)]
          /\ UNCHANGED pc
  /\ UNCHANGED <<service, lock, seqId, updated, msg, ackId, handling>>

\* The second has passed: async_try_get_sequence_id asks for the lock.
Tick ==
  /\ pc["sequence"] = "delaying"
  /\ Lock("sequence")
  /\ UNCHANGED <<service, seqId, updated, msg, ackId, data>>

\* Mutant: the path without an update forgets the lock.
GetLeaking ==
  /\ pc["sequence"] = "holding"
  /\ IF updated THEN Release("sequence", "writing")
     ELSE pc' = [pc EXCEPT !["sequence"] = "delaying"] /\ UNCHANGED lock
  /\ ackId' = IF updated THEN seqId ELSE 0
  /\ UNCHANGED <<service, seqId, updated, msg, data>>

\* Mutant: the id of the next message is acknowledged.
GetAhead ==
  /\ pc["sequence"] = "holding"
  /\ Release("sequence", IF updated THEN "writing" ELSE "delaying")
  /\ ackId' = IF updated THEN seqId + 1 ELSE 0
  /\ UNCHANGED <<service, seqId, updated, msg, data>>

\* async_try_get_sequence_id with the lock: once updated, always updated.
Get ==
  /\ pc["sequence"] = "holding"
  /\ Release("sequence", IF updated THEN "writing" ELSE "delaying")
  /\ ackId' = IF updated THEN seqId ELSE 0
  /\ UNCHANGED <<service, seqId, updated, msg, data>>

\* The acknowledgement reaches the service, or its write fails and is forgotten.
WriteAck ==
  /\ pc["sequence"] = "writing"
  /\ acked' \in {acked, ackId}
  /\ pc' = [pc EXCEPT !["sequence"] = "delaying"]
  /\ UNCHANGED <<kinds, base, sessions, lock, seqId, updated, msg, ackId, data>>

------------------------------------------------------------------------------
(* Cancellation                                                              *)

\* The message loop fails, or a loop is cancelled.  One that waits for the lock
\* leaves its queue.  One that has just got it throws out of the release, and the
\* lock stays taken until the next connection resets it; the message loop has
\* updated the id by then.  A message that was not queued yet is lost.
End(l) ==
  /\ Live(l)
  /\ pc' = [pc EXCEPT ![l] = "ended"]
  /\ lock' = IF pc[l] = "locking" THEN SubSeq(lock, 1, 1) ELSE lock
  /\ IF l = "message" /\ pc[l] = "holding"
     THEN /\ updated' = TRUE
          /\ seqId' = IF IsNew THEN msg - base ELSE seqId
     ELSE UNCHANGED <<updated, seqId>>
  /\ UNCHANGED <<service, msg, ackId, data>>

\* Mutant: the data loops are cancelled first.
EndHandlingEarly ==
  /\ handling
  /\ handling' = FALSE
  /\ UNCHANGED <<service, pc, lock, seqId, updated, msg, ackId, channel, delivered>>

\* The data loops are cancelled after the others, by a stop or an async_cancel.
EndHandling ==
  /\ handling
  /\ ~Live("message") /\ ~Live("sequence")
  /\ handling' = FALSE
  /\ UNCHANGED <<service, pc, lock, seqId, updated, msg, ackId, channel, delivered>>

Next ==
  \/ Open
  \/ \E k \in Kind : ReadNew(k) \/ Handle(k)
  \/ \E n \in 1 .. Sent : ReadAgain(n)
  \/ Update \/ Queue
  \/ Tick \/ Get \/ WriteAck
  \/ \E l \in Loop : End(l)
  \/ EndHandling

\* Ready coroutines run, a second passes, a write ends; and whoever cancels the
\* sequence loop cancels the message loop next.
Fairness ==
  /\ WF_vars(Update) /\ WF_vars(Queue) /\ \A k \in Kind : WF_vars(Handle(k))
  /\ WF_vars(Tick) /\ WF_vars(Get) /\ WF_vars(WriteAck)
  /\ WF_vars(~Live("sequence") /\ End("message"))

Spec == Init /\ [][Next]_vars
FairSpec == Spec /\ Fairness

------------------------------------------------------------------------------
Elements(s) == {s[i] : i \in DOMAIN s}

\* The variables have their types.
TypeOK ==
  /\ kinds \in Seq(Kind)
  /\ base \in Nat /\ base <= Sent
  /\ acked \in Nat
  /\ sessions \in Nat
  /\ pc \in [Loop -> PC]
  /\ lock \in Seq(Loop)
  /\ seqId \in Nat
  /\ updated \in BOOLEAN
  /\ msg \in 0 .. Sent
  /\ ackId \in Nat
  /\ handling \in BOOLEAN
  /\ channel \in [Kind -> Seq(1 .. Sent)]
  /\ delivered \in [Kind -> Seq(1 .. Sent)]

\* The callbacks of a kind see its messages once and in the order in which the service
\* sent them first, over all sessions: repeated messages are filtered, and what an earlier
\* session left in the channel comes first.
DeliveredInOrder ==
  \A k \in Kind : \A i, j \in DOMAIN delivered[k] :
    i < j => delivered[k][i] < delivered[k][j]

\* A message whose sequence id the client has acknowledged is not lost: it was handed to the
\* callbacks, waits in its channel, or is the one that the message loop works on.  (The
\* acknowledgement may overtake the message between Update and Queue.)  If the message loop is
\* cancelled while it holds this one message, that message is lost, acknowledged or not.
AckedIsSafe ==
  \A n \in base + 1 .. base + acked :
    \/ n = msg
    \/ \E k \in Kind : n \in Elements(delivered[k]) \cup Elements(channel[k])

\* Within a session the service sees acknowledged ids grow, although messages are repeated, writes
\* take their time and the id is sent again every second.
AcksGrow ==
  [][sessions' = sessions => acked' >= acked]_vars

\* While both loops run, whoever holds the lock will release it: a cancellation can leave the lock
\* taken, but then no message loop or sequence loop is left running in vain.
LockIsHeldByRunner ==
  (\A l \in Loop : Live(l)) /\ lock # <<>> => pc[Head(lock)] = "holding"

\* Every message that is read is handed to the callbacks, unless its session is ended.
SentIsDelivered ==
  \A n \in 1 .. MaxSent :
    (base < n /\ n <= Sent) ~> \/ \E k \in Kind : n \in Elements(delivered[k])
                               \/ ~Live("message")
=============================================================================
