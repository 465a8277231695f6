----------------------------- MODULE ExchangeProofs -----------------------------
(****************************************************************************)
(* Proofs about the frames, for any sample of requests and any bounds.      *)
(*                                                                          *)
(* The inductive invariant says of every frame on its way what it was made  *)
(* of (FramesInv), of the numbered messages that they are those which the   *)
(* callbacks have not got, in order (NumberInv), and of the data, on their  *)
(* way and delivered, that they are those of the request (DataInv).         *)
(****************************************************************************)
EXTENDS Exchange, SequenceTheorems, TLAPS

------------------------------------------------------------------------------
(* The operators of Protocol.                                                *)

LEMMA MergeFacts ==
  ASSUME NEW f, NEW g
  PROVE  /\ DOMAIN (f @@ g) = DOMAIN f \cup DOMAIN g
         /\ \A k \in DOMAIN f : (f @@ g)[k] = f[k]
         /\ \A k \in DOMAIN g \ DOMAIN f : (f @@ g)[k] = g[k]
  BY DEF @@

LEMMA OptionalFacts ==
  ASSUME NEW key
  PROVE  /\ DOMAIN Optional(key, {}) = {}
         /\ \A v : DOMAIN Optional(key, {v}) = {key} /\ Optional(key, {v})[key] = v
         /\ \A S : DOMAIN Optional(key, S) \subseteq {key}
  BY DEF Optional

LEMMA ValueOrFacts ==
  ASSUME NEW default
  PROVE  ValueOr({}, default) = default /\ \A v : ValueOr({v}, default) = v
  BY DEF ValueOr

\* What is written of a request: its type and its id, its data if it is sent to the group,
\* and never the type of its data.
LEMMA WriteFacts ==
  ASSUME NEW i, NEW seen \in Sendable, NEW f \in Write([ackId |-> {i}] @@ seen)
  PROVE  /\ {"type", "ackId"} \subseteq DOMAIN f
         /\ f.type = seen.type /\ f.ackId = i
         /\ "dataType" \notin DOMAIN f
         /\ seen.type = "sendToGroup" =>
              "data" \in DOMAIN f /\ f.data \in DataToJson(seen.kind, seen.dataType)
<1> DEFINE r == [ackId |-> {i}] @@ seen
<1>1. /\ r.type = seen.type /\ r.kind = seen.kind /\ r.dataType = seen.dataType
      /\ r.ackId = {i} /\ r.noEcho = seen.noEcho
  BY DEF @@, Sendable
<1>2. f \in Write(r)
  OBVIOUS
<1> HIDE DEF r
<1>3. DOMAIN RequestToJson(r) = {"type", "ackId"} /\ RequestToJson(r).type = seen.type /\ RequestToJson(r).ackId = i
  BY <1>1 DEF RequestToJson, Optional, @@
<1>4. DOMAIN Optional("noEcho", r.noEcho) \subseteq {"noEcho"}
  BY OptionalFacts
<1>5. \A d : DOMAIN [data |-> d] = {"data"} /\ [data |-> d].data = d
  OBVIOUS
<1>6. \A d : LET g == RequestToJson(r) @@ Optional("noEcho", r.noEcho) @@ [data |-> d] IN
        /\ {"type", "ackId", "data"} \subseteq DOMAIN g
        /\ g.type = seen.type /\ g.ackId = i /\ g.data = d
        /\ "dataType" \notin DOMAIN g
  BY <1>3, <1>4 DEF @@
<1>7. \A d : LET g == RequestToJson(r) @@ [data |-> d] IN
        /\ {"type", "ackId", "data"} \subseteq DOMAIN g
        /\ g.type = seen.type /\ g.ackId = i /\ g.data = d
        /\ "dataType" \notin DOMAIN g
  BY <1>3 DEF @@
<1>8. CASE seen.type \in {"joinGroup", "leaveGroup"}
  BY <1>1, <1>2, <1>3, <1>8 DEF Write
<1>9. CASE seen.type = "sendToGroup"
  <2>1. f \in SendToGroup(r)
    BY <1>1, <1>2, <1>9 DEF Write
  <2>2. PICK d \in DataToJson(seen.kind, seen.dataType) :
          f = RequestToJson(r) @@ Optional("noEcho", r.noEcho) @@ [data |-> d]
    BY <1>1, <2>1 DEF SendToGroup
  <2>3. QED  BY <1>6, <2>2
<1>10. CASE seen.type = "event"
  <2>1. f \in SendEvent(r)
    BY <1>1, <1>2, <1>10 DEF Write
  <2>2. PICK d : f = RequestToJson(r) @@ [data |-> d]
    BY <2>1 DEF SendEvent
  <2>3. QED  BY <1>7, <1>10, <2>2
<1>11. QED  BY <1>8, <1>9, <1>10 DEF Sendable

\* Reading back what the service writes.
LEMMA ReadAck ==
  ASSUME NEW id, NEW answer, NEW res \in Read(Ack(id, answer))
  PROVE  /\ res.kind = "ack" /\ res.ackId = id
         /\ res.success = (answer = "success") /\ res.error = {answer} \ {"success"}
<1> DEFINE f == Ack(id, answer)
           e == Optional("error", {answer} \ {"success"})
<1>1. DOMAIN e \subseteq {"error"} /\ Given(e, "error") = {answer} \ {"success"}
  BY DEF Optional, Given
<1>2. /\ DOMAIN f = {"type", "ackId", "success"} \cup DOMAIN e
      /\ f["type"] = "ack" /\ f["ackId"] = id /\ f["success"] = (answer = "success")
      /\ \A k \in DOMAIN e : f[k] = e[k]
  BY <1>1 DEF Ack, @@
<1> HIDE DEF f
<1>3. Given(f, "error") = Given(e, "error")
  BY <1>1, <1>2 DEF Given
<1>4. Read(f) = {ToAck(f)}
  BY <1>2 DEF Read, Decode, Value
<1>5. QED  BY <1>1, <1>2, <1>3, <1>4 DEF ToAck, Value, f

LEMMA ReadConnected ==
  ASSUME NEW res \in Read(Connected)
  PROVE  res.kind = "connected" /\ res.connectionId = {sessions} /\ res.token \subseteq {"token"}
<1> DEFINE f == Connected
<1>1. /\ {"type", "event", "connectionId"} \subseteq DOMAIN f
      /\ f["type"] = "system" /\ f["event"] = "connected" /\ f["connectionId"] = sessions
      /\ "reconnectionToken" \in DOMAIN f => f["reconnectionToken"] = "token"
  BY DEF Connected, Optional, @@
<1> HIDE DEF f
<1>2. Given(f, "event") = {"connected"} /\ Given(f, "connectionId") = {sessions}
      /\ Given(f, "reconnectionToken") \subseteq {"token"}
  BY <1>1 DEF Given
<1>3. Decode(f, "type", {"message", "system"}, "ack") = "system"
  BY <1>1 DEF Decode, Value
<1>4. res \in Read(f)
  BY DEF f
<1>5. PICK event \in {"connected", "disconnected"} \cap Given(f, "event") :
        res = [kind |-> event, connectionId |-> Given(f, "connectionId"),
               token |-> Given(f, "reconnectionToken")]
  BY <1>3, <1>4 DEF Read
<1>6. QED  BY <1>2, <1>5

\* A message that the service passes on: its data carry no type, and are JSON to this client.
IsMessage(f) ==
  /\ {"type", "from", "data", "dataType"} \subseteq DOMAIN f
  /\ f["type"] = "message" /\ f["from"] = "group" /\ f["dataType"] = "json"

\* With the reliable protocol it has a number.
IsNumbered(f) == "sequenceId" \in DOMAIN f

LEMMA ReadMessage ==
  ASSUME NEW f, IsMessage(f), IsNumbered(f) <=> reliable, NEW res \in Read(f)
  PROVE  /\ res.kind = "group" /\ res.dataType = {"json"} /\ res.data = f["data"]
         /\ res.sequenceId = {IF reliable THEN f["sequenceId"] ELSE 0}
<1>1. Decode(f, "type", {"message", "system"}, "ack") = "message" /\ Decode(f, "from", {"group"}, "server") = "group"
  BY DEF IsMessage, Decode, Value
<1>2. res = ToMessage(f, "group")
  BY <1>1 DEF Read
<1>3. ToDataType(f) = {"json"}
  BY DEF ToDataType, Given, Decode, Value, IsMessage
<1>4. Value(f, "data", <<>>) = f["data"] /\ Value(f, "sequenceId", 0) = IF reliable THEN f["sequenceId"] ELSE 0
  BY DEF Value, IsMessage, IsNumbered
<1>5. QED  BY <1>2, <1>3, <1>4 DEF ToMessage

\* What the service sends of its own accord: the disconnected response, and an acknowledgement
\* of nobody's request.
LEMMA ReadOdd ==
  ASSUME NEW f \in Odd \ {Unreadable}, NEW res \in Read(f)
  PROVE  \/ res.kind = "disconnected" /\ f = Disconnected
         \/ res.kind = "ack" /\ res.ackId = MaxUint /\ res.success = FALSE /\ res.error = {}
<1>1. CASE f = [type |-> "pong"]
  <2>1. "type" \in DOMAIN f /\ f["type"] = "pong" /\ DOMAIN f = {"type"}
    BY <1>1
  <2>2. Read(f) = {ToAck(f)}
    BY <2>1 DEF Read, Decode, Value
  <2>3. Given(f, "error") = {} /\ Value(f, "ackId", MaxUint) = MaxUint /\ Value(f, "success", FALSE) = FALSE
    BY <2>1 DEF Given, Value
  <2>4. res = [kind |-> "ack", ackId |-> MaxUint, success |-> FALSE, error |-> {}]
    BY <2>2, <2>3 DEF ToAck
  <2>5. QED  BY <2>4
<1>2. CASE f \in {[type |-> "system", event |-> "moved"], Disconnected}
  <2>1. /\ DOMAIN f = {"type", "event"} /\ f["type"] = "system"
        /\ f = Disconnected \/ f["event"] = "moved"
        /\ f = Disconnected => f["event"] = "disconnected"
    BY <1>2 DEF Disconnected
  <2>2. Decode(f, "type", {"message", "system"}, "ack") = "system"
    BY <2>1 DEF Decode, Value
  <2>3. Given(f, "event") = {f["event"]}
    BY <2>1 DEF Given
  <2>4. PICK event \in {"connected", "disconnected"} \cap Given(f, "event") : res.kind = event
    BY <2>2 DEF Read
  <2>5. QED  BY <2>1, <2>3, <2>4
<1>3. QED  BY <1>1, <1>2 DEF Odd

\* Data are read whole as the kind they were sent as, from a message without their type.
LEMMA ArrivesWhole ==
  ASSUME NEW r \in Sendable, NEW m, m.dataType = {"json"}, m.data \in DataToJson(r.kind, r.dataType)
  PROVE  <<>> \in GetData(r.kind, m) <=> r.kind = "object" /\ ValueOr(r.dataType, "json") = "json"
<1>1. ValueOr(m.dataType, "json") = "json"
  BY ValueOrFacts
<1>2. r.kind \in Kind /\ ValueOr(r.dataType, "json") \in DataType
  <2>1. r.kind \in Kind /\ (r.dataType = {} \/ \E t \in DataType : r.dataType = {t})
    BY DEF Sendable, Options
  <2>2. CASE r.dataType = {}
    <3>1. ValueOr({}, "json") \in DataType
      BY ValueOrFacts DEF DataType
    <3>2. QED  BY <2>1, <2>2, <3>1
  <2>3. ASSUME NEW t \in DataType, r.dataType = {t}
        PROVE  r.kind \in Kind /\ ValueOr(r.dataType, "json") \in DataType
    <3>1. ValueOr({t}, "json") = t
      BY ValueOrFacts
    <3>2. QED  BY <2>1, <2>3, <3>1
  <2>4. QED  BY <2>1, <2>2, <2>3
<1>3. CASE r.kind = "string"
  <2>1. m.data.steps \in {<<>>, <<"dump">>, <<"dump", "encode">>}
    BY <1>2, <1>3 DEF DataToJson, DataType, ShapeOf
  <2>2. GetData(r.kind, m) = {Append(m.data.steps, "dump")}
    BY <1>1, <1>3 DEF GetData
  <2>3. \A s \in {<<>>, <<"dump">>, <<"dump", "encode">>} : Append(s, "dump") # <<>>
    OBVIOUS
  <2>4. QED  BY <1>3, <2>1, <2>2, <2>3
<1>4. CASE r.kind = "object"
  <2>1. /\ ValueOr(r.dataType, "json") = "json" => m.data = [shape |-> "object", steps |-> <<>>]
        /\ ValueOr(r.dataType, "json") # "json" => m.data.shape = "string"
    BY <1>2, <1>4 DEF DataToJson, DataType, ShapeOf
  <2>2. GetData(r.kind, m) = {m.data.steps : s \in {"object"} \cap {m.data.shape}}
    BY <1>1, <1>4 DEF GetData
  <2>3. CASE ValueOr(r.dataType, "json") = "json"
    <3>1. m.data.shape = "object" /\ m.data.steps = <<>>
      BY <2>1, <2>3
    <3>2. <<>> \in GetData(r.kind, m)
      BY <2>2, <3>1
    <3>3. QED  BY <1>4, <2>3, <3>2
  <2>4. CASE ValueOr(r.dataType, "json") # "json"
    <3>1. GetData(r.kind, m) = {}
      BY <2>1, <2>2, <2>4
    <3>2. QED  BY <2>4, <3>1
  <2>5. QED  BY <2>3, <2>4
<1>5. CASE r.kind \in {"garbled", "bytes", "chars", "number"}
  BY <1>1, <1>5 DEF GetData
<1>6. QED  BY <1>2, <1>3, <1>4, <1>5 DEF Kind

------------------------------------------------------------------------------
(* The inductive invariant.                                                  *)

IsSequence(s) == \E S : s \in Seq(S)

Typed ==
  /\ TypeOK
  /\ Len(requests) <= MaxRequests
  /\ IsSequence(uplink) /\ IsSequence(downlink) /\ IsSequence(got)
  /\ echoes \in Seq(Nat)

\* What travels to the service was written of a request, but for the handshake.
Written(f) ==
  \/ f = Handshake
  \/ \E i \in Ids : \E seen \in Seen(Request(i)) : f \in Write([ackId |-> {i}] @@ seen)

\* What travels to the client: what the service sent of its own accord, its answers, its
\* greeting on this connection, and the messages it passes on.
Sent(f) ==
  \/ f \in odd
  \/ \E a \in answers : f = Ack(a.id, a.answer)
  \/ f = Connected
  \/ IsMessage(f) /\ (IsNumbered(f) <=> reliable)

FramesInv ==
  /\ \A k \in DOMAIN uplink : Written(uplink[k])
  /\ \A k \in DOMAIN downlink : Sent(downlink[k])

\* The messages among the frames d are those after number n up to number last, in order.
Numbered(d, n, last) ==
  /\ n \in Nat /\ last \in Nat /\ n <= last
  /\ \A k \in DOMAIN d : IsMessage(d[k]) => d[k]["sequenceId"] \in n + 1 .. last
  /\ \A j, k \in DOMAIN d :
       IsMessage(d[j]) /\ IsMessage(d[k]) /\ j < k => d[j]["sequenceId"] < d[k]["sequenceId"]
  /\ \A m \in n + 1 .. last : \E k \in DOMAIN d : IsMessage(d[k]) /\ d[k]["sequenceId"] = m

NumberInv == IF reliable THEN Numbered(downlink, seqId, Len(echoes)) ELSE seqId = 0

\* What may be in the body of what was written of request i.
Made(i) == UNION {DataToJson(seen.kind, seen.dataType) : seen \in Seen(Request(i))}

\* The messages, those to be read and those that callbacks have got, have the data of the
\* requests that they pass on.
DataInv ==
  /\ Len(got) = seqId
  /\ \A n \in DOMAIN got :
       /\ got[n].sequenceId = {n} /\ got[n].dataType = {"json"}
       /\ got[n].data \in Made(echoes[n])
  /\ reliable => \A k \in DOMAIN downlink :
       IsMessage(downlink[k]) => downlink[k]["data"] \in Made(echoes[downlink[k]["sequenceId"]])

IInv == Typed /\ FramesInv /\ NumberInv /\ DataInv /\ LoopToleratesTheUnknown /\ UrlNamesThisConnection

------------------------------------------------------------------------------
LEMMA SequenceFacts ==
  ASSUME NEW s, IsSequence(s)
  PROVE  /\ Len(s) \in Nat /\ DOMAIN s = 1 .. Len(s)
         /\ s # <<>> => /\ 1 \in DOMAIN s /\ Head(s) = s[1]
                        /\ IsSequence(Tail(s)) /\ DOMAIN Tail(s) = 1 .. Len(s) - 1
                        /\ \A k \in DOMAIN Tail(s) : k + 1 \in DOMAIN s /\ Tail(s)[k] = s[k + 1]
<1>1. PICK S : s \in Seq(S)
  BY DEF IsSequence
<1>2. ASSUME s # <<>>
      PROVE  /\ 1 \in DOMAIN s /\ Head(s) = s[1]
             /\ Tail(s) \in Seq(S) /\ DOMAIN Tail(s) = 1 .. Len(s) - 1
             /\ \A k \in DOMAIN Tail(s) : k + 1 \in DOMAIN s /\ Tail(s)[k] = s[k + 1]
  BY <1>1, <1>2
<1>3. QED  BY <1>1, <1>2 DEF IsSequence

LEMMA JoinFacts ==
  ASSUME NEW s, IsSequence(s), NEW x
  PROVE  /\ IsSequence(Append(s, x)) /\ Len(Append(s, x)) = Len(s) + 1
         /\ DOMAIN Append(s, x) = 1 .. Len(s) + 1
         /\ \A k \in DOMAIN s : Append(s, x)[k] = s[k]
         /\ Append(s, x)[Len(s) + 1] = x
         /\ \A y : s \o <<x, y>> = Append(Append(s, x), y)
<1>1. PICK S : s \in Seq(S)
  BY DEF IsSequence
<1>2. s \in Seq(S \cup {x})
  BY <1>1
<1>3. /\ Append(s, x) \in Seq(S \cup {x}) /\ Len(Append(s, x)) = Len(s) + 1
      /\ DOMAIN Append(s, x) = 1 .. Len(s) + 1
      /\ \A k \in DOMAIN s : Append(s, x)[k] = s[k]
      /\ Append(s, x)[Len(s) + 1] = x
  BY <1>2
<1>4. ASSUME NEW y PROVE s \o <<x, y>> = Append(Append(s, x), y)
  <2>1. s \in Seq(S \cup {x, y})
    BY <1>1
  <2>2. s \o <<x, y>> \in Seq(S \cup {x, y}) /\ Append(Append(s, x), y) \in Seq(S \cup {x, y})
    BY <2>1
  <2>3. Len(s \o <<x, y>>) = Len(s) + 2 /\ Len(Append(Append(s, x), y)) = Len(s) + 2
    BY <2>1
  <2>4. \A k \in 1 .. Len(s) + 2 : (s \o <<x, y>>)[k] = Append(Append(s, x), y)[k]
    BY <2>1
  <2>5. QED  BY <2>2, <2>3, <2>4, SeqEqual
<1>5. QED  BY <1>3, <1>4 DEF IsSequence

\* Sequences of one element or none.
LEMMA ShortFacts ==
  /\ IsSequence(<<>>) /\ DOMAIN <<>> = {} /\ Len(<<>>) = 0
  /\ \A x : IsSequence(<<x>>) /\ DOMAIN <<x>> = {1} /\ <<x>>[1] = x
<1>1. IsSequence(<<>>)
  <2>1. <<>> \in Seq({})
    OBVIOUS
  <2>2. QED  BY <2>1 DEF IsSequence
<1>2. DOMAIN <<>> = {} /\ Len(<<>>) = 0
  OBVIOUS
<1>3. ASSUME NEW x PROVE IsSequence(<<x>>) /\ DOMAIN <<x>> = {1} /\ <<x>>[1] = x
  <2>1. <<x>> \in Seq({x}) /\ DOMAIN <<x>> = {1} /\ <<x>>[1] = x
    OBVIOUS
  <2>2. QED  BY <2>1 DEF IsSequence
<1>4. QED  BY <1>1, <1>2, <1>3

------------------------------------------------------------------------------
(* Requests and what becomes of them.                                        *)

LEMMA SeenFacts ==
  ASSUME NEW r \in Sendable
  PROVE  /\ Seen(r) \subseteq Sendable /\ Seen(r) # {}
         /\ \A seen \in Seen(r) : seen.type = r.type /\ seen.kind = r.kind
         /\ ~r.kept => Seen(r) = {r}
<1>1. CASE r.kept
  <2>1. {} \in Options(DataType) /\ {} \in Options({TRUE})
    BY DEF Options
  <2>2. [type |-> r.type, kind |-> r.kind, dataType |-> {}, noEcho |-> {}, kept |-> TRUE] \in Seen(r)
    BY <1>1, <2>1 DEF Seen
  <2>3. QED  BY <1>1, <2>2 DEF Seen, Sendable
<1>2. CASE ~r.kept
  BY <1>2 DEF Seen
<1>3. QED  BY <1>1, <1>2

\* The request of an id that has been given out stays what it was.
LEMMA RequestsGrow ==
  ASSUME Typed, requests' = requests \/ \E r \in Sample : requests' = Append(requests, r)
  PROVE  /\ Ids \subseteq Ids'
         /\ \A i \in Ids : /\ Request(i)' = Request(i) /\ Request(i) \in Sendable
                           /\ Seen(Request(i))' = Seen(Request(i)) /\ Made(i)' = Made(i)
<1>1. requests \in Seq(Sample) /\ Sample \subseteq Sendable
  BY ExchangeAssumption DEF Typed, TypeOK
<1>2. Ids \subseteq Ids' /\ \A i \in Ids : requests'[i + 1] = requests[i + 1] /\ requests[i + 1] \in Sendable
  BY <1>1 DEF Ids
<1>3. ASSUME NEW i \in Ids PROVE Request(i)' = Request(i) /\ Request(i) \in Sendable
  BY <1>2 DEF Request
<1>4. ASSUME NEW i \in Ids PROVE Seen(Request(i))' = Seen(Request(i)) /\ Made(i)' = Made(i)
  <2>1. Seen(Request(i))' = Seen(Request(i))
    BY <1>3 DEF Seen
  <2>2. QED  BY <2>1 DEF Made
<1>5. QED  BY <1>2, <1>3, <1>4

\* What a step leaves of the frames that travel, when it takes some and adds others.
LEMMA FramesKept ==
  ASSUME IInv, reliable' = reliable, odd \subseteq odd', answers \subseteq answers',
         requests' = requests \/ \E r \in Sample : requests' = Append(requests, r)
  PROVE  /\ \A f : Written(f) => Written(f)'
         /\ \A f : sessions' = sessions /\ Sent(f) => Sent(f)'
<1>1. \A f : Written(f) => Written(f)'
  BY RequestsGrow DEF Written, IInv
<1>2. sessions' = sessions => Connected' = Connected
  BY DEF Connected
<1>3. \A f : sessions' = sessions /\ Sent(f) => Sent(f)'
  BY <1>2 DEF Sent, Ack
<1>4. QED  BY <1>1, <1>3

\* Only messages are messages.
LEMMA NoMessage ==
  /\ \A f \in Odd : ~IsMessage(f)
  /\ \A id, answer : ~IsMessage(Ack(id, answer))
  /\ ~IsMessage(Connected)
<1>1. \A f \in Odd : ~IsMessage(f)
  BY DEF Odd, Disconnected, Unreadable, IsMessage
<1>2. ASSUME NEW id, NEW answer PROVE Ack(id, answer)["type"] = "ack"
  BY DEF Ack, @@
<1>3. Connected["type"] = "system"
  BY DEF Connected, @@
<1>4. QED  BY <1>1, <1>2, <1>3 DEF IsMessage

\* The message that is made of a frame that a request was written as.
LEMMA MessageFacts ==
  ASSUME NEW f, "dataType" \notin DOMAIN f
  PROVE  /\ IsMessage(Message(f)) /\ Message(f)["data"] = f.data
         /\ IsNumbered(Message(f)) <=> reliable
         /\ reliable => Message(f)["sequenceId"] = Len(echoes) + 1
<1>1. Value(f, "dataType", "json") = "json"
  BY DEF Value
<1>2. QED  BY <1>1 DEF Message, IsMessage, IsNumbered, Optional, @@

------------------------------------------------------------------------------
(* The numbers of the messages that travel.                                  *)

LEMMA NumbersJoin ==
  ASSUME NEW d, IsSequence(d), NEW n, NEW last, Numbered(d, n, last), NEW f, ~IsMessage(f)
  PROVE  Numbered(Append(d, f), n, last)
<1> DEFINE e == Append(d, f)
<1>1. /\ DOMAIN d = 1 .. Len(d) /\ Len(d) \in Nat /\ DOMAIN e = 1 .. Len(d) + 1
      /\ \A k \in DOMAIN d : e[k] = d[k]
      /\ e[Len(d) + 1] = f
  BY SequenceFacts, JoinFacts
<1> HIDE DEF e
<1>2. \A k \in DOMAIN e : IsMessage(e[k]) => k \in DOMAIN d
  BY <1>1
<1>3. \A k \in DOMAIN d : k \in DOMAIN e
  BY <1>1
<1>4. Numbered(e, n, last)
  BY <1>1, <1>2, <1>3 DEF Numbered
<1>5. QED  BY <1>4 DEF e

LEMMA NumbersPass ==
  ASSUME NEW d, IsSequence(d), NEW n, NEW last, Numbered(d, n, last),
         NEW f, IsMessage(f), f["sequenceId"] = last + 1
  PROVE  Numbered(Append(d, f), n, last + 1)
<1> DEFINE e == Append(d, f)
<1>1. /\ DOMAIN d = 1 .. Len(d) /\ Len(d) \in Nat /\ DOMAIN e = 1 .. Len(d) + 1
      /\ \A k \in DOMAIN d : e[k] = d[k]
      /\ e[Len(d) + 1] = f
  BY SequenceFacts, JoinFacts
<1> HIDE DEF e
<1>2. n \in Nat /\ last \in Nat /\ n <= last
  BY DEF Numbered
<1>3. \A k \in DOMAIN e : k \in Nat /\ (k \in DOMAIN d \/ k = Len(d) + 1)
  BY <1>1
<1>4. \A k \in DOMAIN d : k \in DOMAIN e /\ k < Len(d) + 1
  BY <1>1
<1>5. \A k \in DOMAIN e : IsMessage(e[k]) => e[k]["sequenceId"] \in n + 1 .. last + 1
  BY <1>1, <1>2, <1>3 DEF Numbered
<1>6. \A j, k \in DOMAIN e :
        IsMessage(e[j]) /\ IsMessage(e[k]) /\ j < k => e[j]["sequenceId"] < e[k]["sequenceId"]
  <2>1. ASSUME NEW j \in DOMAIN e, NEW k \in DOMAIN e, IsMessage(e[j]), IsMessage(e[k]), j < k
        PROVE  e[j]["sequenceId"] < e[k]["sequenceId"]
    <3>1. j \in DOMAIN d
      BY <1>1, <1>3, <2>1
    <3>2. e[j]["sequenceId"] \in n + 1 .. last
      BY <1>1, <2>1, <3>1 DEF Numbered
    <3>3. CASE k \in DOMAIN d
      BY <1>1, <2>1, <3>1, <3>3 DEF Numbered
    <3>4. CASE k = Len(d) + 1
      BY <1>1, <1>2, <3>2, <3>4
    <3>5. QED  BY <1>3, <3>3, <3>4
  <2>2. QED  BY <2>1
<1>7. \A m \in n + 1 .. last + 1 : \E k \in DOMAIN e : IsMessage(e[k]) /\ e[k]["sequenceId"] = m
  <2>1. ASSUME NEW m \in n + 1 .. last + 1
        PROVE  \E k \in DOMAIN e : IsMessage(e[k]) /\ e[k]["sequenceId"] = m
    <3>1. CASE m = last + 1
      BY <1>1, <3>1
    <3>2. CASE m # last + 1
      <4>1. m \in n + 1 .. last
        BY <1>2, <3>2
      <4>2. QED  BY <1>1, <1>4, <4>1 DEF Numbered
    <3>3. QED  BY <3>1, <3>2
  <2>2. QED  BY <2>1
<1>8. Numbered(e, n, last + 1)
  BY <1>2, <1>5, <1>6, <1>7 DEF Numbered
<1>9. QED  BY <1>8 DEF e

LEMMA NumbersSkip ==
  ASSUME NEW d, IsSequence(d), d # <<>>, NEW n, NEW last, Numbered(d, n, last), ~IsMessage(Head(d))
  PROVE  Numbered(Tail(d), n, last)
<1> DEFINE e == Tail(d)
<1>1. /\ DOMAIN d = 1 .. Len(d) /\ Len(d) \in Nat /\ DOMAIN e = 1 .. Len(d) - 1
      /\ \A k \in DOMAIN e : k + 1 \in DOMAIN d /\ e[k] = d[k + 1]
      /\ ~IsMessage(d[1])
  BY SequenceFacts
<1> HIDE DEF e
<1>2. \A k \in DOMAIN d : IsMessage(d[k]) => k - 1 \in DOMAIN e /\ e[k - 1] = d[k]
  BY <1>1
<1>3. \A j, k \in DOMAIN e : j < k => j + 1 < k + 1
  BY <1>1
<1>4. \A k \in DOMAIN e : IsMessage(e[k]) => e[k]["sequenceId"] \in n + 1 .. last
  BY <1>1 DEF Numbered
<1>5. \A j, k \in DOMAIN e :
        IsMessage(e[j]) /\ IsMessage(e[k]) /\ j < k => e[j]["sequenceId"] < e[k]["sequenceId"]
  BY <1>1, <1>3 DEF Numbered
<1>6. \A m \in n + 1 .. last : \E k \in DOMAIN e : IsMessage(e[k]) /\ e[k]["sequenceId"] = m
  <2>1. ASSUME NEW m \in n + 1 .. last PROVE \E k \in DOMAIN e : IsMessage(e[k]) /\ e[k]["sequenceId"] = m
    <3>1. PICK k \in DOMAIN d : IsMessage(d[k]) /\ d[k]["sequenceId"] = m
      BY DEF Numbered
    <3>2. QED  BY <1>2, <3>1
  <2>2. QED  BY <2>1
<1>7. Numbered(e, n, last)
  BY <1>4, <1>5, <1>6 DEF Numbered
<1>8. QED  BY <1>7 DEF e

\* The first message that travels has the next number.
LEMMA NumbersTake ==
  ASSUME NEW d, IsSequence(d), d # <<>>, NEW n, NEW last, Numbered(d, n, last), IsMessage(Head(d))
  PROVE  Head(d)["sequenceId"] = n + 1 /\ Numbered(Tail(d), n + 1, last)
<1> DEFINE e == Tail(d)
<1>1. /\ DOMAIN d = 1 .. Len(d) /\ Len(d) \in Nat /\ DOMAIN e = 1 .. Len(d) - 1
      /\ \A k \in DOMAIN e : k + 1 \in DOMAIN d /\ e[k] = d[k + 1]
      /\ 1 \in DOMAIN d /\ Head(d) = d[1] /\ IsMessage(d[1])
  BY SequenceFacts
<1> HIDE DEF e
<1>2. n \in Nat /\ last \in Nat /\ n <= last
  BY DEF Numbered
<1>3. d[1]["sequenceId"] \in n + 1 .. last
  BY <1>1 DEF Numbered
<1>4. \A k \in DOMAIN d : IsMessage(d[k]) /\ k # 1 => d[1]["sequenceId"] < d[k]["sequenceId"]
  <2>1. \A k \in DOMAIN d : k # 1 => 1 < k
    BY <1>1
  <2>2. QED  BY <1>1, <2>1 DEF Numbered
<1>5. d[1]["sequenceId"] = n + 1
  <2>1. n + 1 \in n + 1 .. last
    BY <1>2, <1>3
  <2>2. PICK k \in DOMAIN d : IsMessage(d[k]) /\ d[k]["sequenceId"] = n + 1
    BY <2>1 DEF Numbered
  <2>3. k # 1 => d[1]["sequenceId"] < n + 1
    BY <1>4, <2>2
  <2>4. QED  BY <1>2, <1>3, <2>2, <2>3
<1>6. \A k \in DOMAIN e : IsMessage(e[k]) => e[k]["sequenceId"] \in (n + 1) + 1 .. last
  <2>1. ASSUME NEW k \in DOMAIN e, IsMessage(e[k]) PROVE e[k]["sequenceId"] \in (n + 1) + 1 .. last
    <3>1. k + 1 \in DOMAIN d /\ k + 1 # 1 /\ IsMessage(d[k + 1]) /\ e[k] = d[k + 1]
      BY <1>1, <2>1
    <3>2. d[k + 1]["sequenceId"] \in n + 1 .. last
      BY <3>1 DEF Numbered
    <3>3. n + 1 < d[k + 1]["sequenceId"]
      BY <1>4, <1>5, <3>1
    <3>4. QED  BY <1>2, <3>1, <3>2, <3>3
  <2>2. QED  BY <2>1
<1>7. \A j, k \in DOMAIN e :
        IsMessage(e[j]) /\ IsMessage(e[k]) /\ j < k => e[j]["sequenceId"] < e[k]["sequenceId"]
  <2>1. \A j, k \in DOMAIN e : j < k => j + 1 < k + 1
    BY <1>1
  <2>2. QED  BY <1>1, <2>1 DEF Numbered
<1>8. \A m \in (n + 1) + 1 .. last : \E k \in DOMAIN e : IsMessage(e[k]) /\ e[k]["sequenceId"] = m
  <2>1. ASSUME NEW m \in (n + 1) + 1 .. last
        PROVE  \E k \in DOMAIN e : IsMessage(e[k]) /\ e[k]["sequenceId"] = m
    <3>1. m \in n + 1 .. last /\ m # n + 1
      BY <1>2
    <3>2. PICK k \in DOMAIN d : IsMessage(d[k]) /\ d[k]["sequenceId"] = m
      BY <3>1 DEF Numbered
    <3>3. k # 1
      BY <1>5, <3>1, <3>2
    <3>4. k - 1 \in DOMAIN e /\ e[k - 1] = d[k]
      BY <1>1, <3>3
    <3>5. QED  BY <3>2, <3>4
  <2>2. QED  BY <2>1
<1>9. Numbered(e, n + 1, last)
  BY <1>2, <1>3, <1>5, <1>6, <1>7, <1>8 DEF Numbered
<1>10. QED  BY <1>1, <1>5, <1>9 DEF e

------------------------------------------------------------------------------
(* The message loop.                                                         *)

LEMMA HeadFacts ==
  ASSUME IInv, Reading
  PROVE  /\ downlink # <<>> /\ Sent(Head(downlink)) /\ odd \subseteq Odd
         /\ downlink[1] = Head(downlink) /\ 1 \in DOMAIN downlink
         /\ IsSequence(Tail(downlink))
         /\ \A k \in DOMAIN Tail(downlink) : k + 1 \in DOMAIN downlink /\ Tail(downlink)[k] = downlink[k + 1]
<1>1. downlink # <<>> /\ IsSequence(downlink)
  BY DEF Reading, IInv, Typed
<1>2. QED  BY <1>1, SequenceFacts DEF IInv, Typed, TypeOK, FramesInv

\* What the response to the next frame is.
LEMMA HandledFacts ==
  ASSUME IInv, Readable, NEW res \in Read(Head(downlink))
  PROVE  LET f == Head(downlink) IN
         \/ /\ ~IsMessage(f) /\ res.kind = "ack"
            /\ \/ \E a \in answers : /\ res.ackId = a.id /\ res.success = (a.answer = "success")
                                      /\ res.error = {a.answer} \ {"success"}
               \/ res.ackId = MaxUint /\ res.success = FALSE /\ res.error = {}
         \/ /\ ~IsMessage(f) /\ res.kind = "connected"
            /\ res.connectionId = {sessions} /\ res.token \subseteq {"token"}
         \/ ~IsMessage(f) /\ res.kind = "disconnected" /\ Disconnected \in odd
         \/ /\ IsMessage(f) /\ res.kind = "group"
            /\ res.dataType = {"json"} /\ res.data = f["data"]
            /\ res.sequenceId = {IF reliable THEN f["sequenceId"] ELSE 0}
<1> DEFINE f == Head(downlink)
<1>1. Sent(f) /\ odd \subseteq Odd /\ f # Unreadable /\ res \in Read(f)
  BY HeadFacts DEF Readable
<1> HIDE DEF f
<1>2. CASE f \in odd
  <2>1. f \in Odd \ {Unreadable} /\ ~IsMessage(f)
    BY <1>1, <1>2, NoMessage
  <2>2. QED  BY <1>1, <1>2, <2>1, ReadOdd DEF f
<1>3. ASSUME NEW a \in answers, f = Ack(a.id, a.answer)
      PROVE  ~IsMessage(f) /\ res.kind = "ack" /\ res.ackId = a.id
             /\ res.success = (a.answer = "success") /\ res.error = {a.answer} \ {"success"}
  BY <1>1, <1>3, NoMessage, ReadAck
<1>4. CASE f = Connected
  <2>1. res \in Read(Connected) /\ ~IsMessage(f)
    BY <1>1, <1>4, NoMessage
  <2>2. QED  BY <2>1, ReadConnected DEF f
<1>5. CASE IsMessage(f) /\ (IsNumbered(f) <=> reliable)
  <2>1. /\ res.kind = "group" /\ res.dataType = {"json"} /\ res.data = f["data"]
        /\ res.sequenceId = {IF reliable THEN f["sequenceId"] ELSE 0}
    BY <1>1, <1>5, ReadMessage
  <2>2. QED  BY <1>5, <2>1 DEF f
<1>6. QED  BY <1>1, <1>2, <1>3, <1>4, <1>5 DEF Sent, f

\* What remains when a frame has been read.
LEMMA TakeStep ==
  ASSUME IInv, Reading, Take
  PROVE  /\ FramesInv' /\ IsSequence(downlink')
         /\ seqId' = seqId /\ got' = got /\ ~IsMessage(Head(downlink)) => NumberInv' /\ DataInv'
<1>1. /\ downlink' = Tail(downlink)
      /\ UNCHANGED <<sessions, uplink, echoes, odd, answers, reliable, requests>>
  BY DEF Take
<1>2. (\A f : Written(f) => Written(f)') /\ (\A f : Sent(f) => Sent(f)')
  BY <1>1, FramesKept
<1>3. FramesInv'
  BY <1>1, <1>2, HeadFacts DEF IInv, FramesInv
<1>4. ASSUME seqId' = seqId, got' = got, ~IsMessage(Head(downlink)) PROVE NumberInv' /\ DataInv'
  <2>1. NumberInv'
    BY <1>1, <1>4, HeadFacts, NumbersSkip DEF IInv, Typed, NumberInv
  <2>2. \A i : Made(i)' = Made(i)
    BY <1>1 DEF Made, Seen, Request
  <2>3. DataInv'
    BY <1>1, <1>4, <2>2, HeadFacts DEF IInv, DataInv
  <2>4. QED  BY <2>1, <2>3
<1>5. QED  BY <1>1, <1>3, <1>4, HeadFacts

\* Reading a frame keeps the types of what it does not touch.
LEMMA TakeTypes ==
  ASSUME IInv, Reading, Take, loop' \in Loop, pending' \subseteq Ids, results' \subseteq Ids,
         connection'.id \subseteq {sessions}, connection'.token \subseteq {"token"},
         seqId' \in Nat, IsSequence(got')
  PROVE  Typed'
<1>1. Ids' = Ids
  BY DEF Take, Ids
<1>2. QED  BY <1>1, TakeStep DEF Take, IInv, Typed, TypeOK

LEMMA HandleStep ==
  ASSUME IInv, Handle
  PROVE  IInv'
<1>1. Readable /\ Reading /\ Take /\ Typed
  BY DEF Handle, Readable, IInv
<1>2. PICK res \in Read(Head(downlink)) :
        HandleAck(res) \/ HandleMessage(res) \/ HandleConnected(res) \/ HandleDisconnected(res)
  BY DEF Handle
<1> DEFINE f == Head(downlink)
<1>3. /\ UNCHANGED <<sessions, uplink, echoes, odd, answers, reliable, requests>> /\ Ids' = Ids
      /\ loop = "reading" /\ loop \in Loop /\ pending \subseteq Ids /\ results \subseteq Ids
      /\ connection.id \subseteq {sessions} /\ connection.token \subseteq {"token"}
      /\ seqId \in Nat /\ IsSequence(got) /\ Sent(f)
  BY <1>1, HeadFacts DEF Take, Ids, Reading, Typed, TypeOK
<1>4. res.kind \in {"ack", "connected", "disconnected"} => ~IsMessage(f)
  BY <1>1, HandledFacts
<1>5. UrlNamesThisConnection' <=> \A u \in url' : u.id = sessions
  BY <1>3 DEF UrlNamesThisConnection
<1>6. LoopToleratesTheUnknown /\ UrlNamesThisConnection
  BY DEF IInv
<1>7. CASE HandleAck(res)
  <2>1. ~IsMessage(f) /\ UNCHANGED <<loop, connection, seqId, got, url>>
    BY <1>4, <1>7 DEF HandleAck
  <2>2. pending' \subseteq Ids /\ results' \subseteq Ids
    BY <1>3, <1>7 DEF HandleAck
  <2>3. Typed'
    BY <1>1, <1>3, <2>1, <2>2, TakeTypes
  <2>4. QED
    BY <1>1, <1>3, <1>5, <1>6, <2>1, <2>3, TakeStep DEF IInv, LoopToleratesTheUnknown, UrlNamesThisConnection
<1>8. CASE HandleConnected(res)
  <2>1. ~IsMessage(f) /\ UNCHANGED <<loop, pending, results, seqId, got, url>>
    BY <1>4, <1>8 DEF HandleConnected
  <2>2. connection'.id \subseteq {sessions} /\ connection'.token \subseteq {"token"}
    <3>1. res.connectionId = {sessions} /\ res.token \subseteq {"token"}
      BY <1>1, <1>8, HandledFacts DEF HandleConnected
    <3>2. QED  BY <1>8, <3>1 DEF HandleConnected
  <2>3. Typed'
    BY <1>1, <1>3, <2>1, <2>2, TakeTypes
  <2>4. QED
    BY <1>1, <1>3, <1>5, <1>6, <2>1, <2>3, TakeStep DEF IInv, LoopToleratesTheUnknown, UrlNamesThisConnection
<1>9. CASE HandleDisconnected(res)
  <2>1. ~IsMessage(f) /\ loop' = "crashed" /\ UNCHANGED <<pending, results, connection, seqId, got, url>>
    BY <1>4, <1>9 DEF HandleDisconnected
  <2>2. Disconnected \in odd
    BY <1>1, <1>9, HandledFacts DEF HandleDisconnected
  <2>3. Typed'
    BY <1>1, <1>3, <2>1, TakeTypes DEF Loop
  <2>4. QED
    BY <1>1, <1>3, <1>5, <1>6, <2>1, <2>2, <2>3, TakeStep
       DEF IInv, LoopToleratesTheUnknown, UrlNamesThisConnection
<1>10. CASE HandleMessage(res)
  <2>1. /\ IsMessage(f) /\ res.dataType = {"json"} /\ res.data = f["data"]
        /\ res.sequenceId = {IF reliable THEN f["sequenceId"] ELSE 0}
    BY <1>1, <1>10, HandledFacts DEF HandleMessage
  <2>2. UNCHANGED <<loop, pending, results, connection, url>>
    BY <1>10 DEF HandleMessage
  <2>3. downlink # <<>> /\ IsSequence(downlink) /\ downlink' = Tail(downlink)
    BY <1>1, HeadFacts DEF Take, Typed
  <2>4. \A i : Made(i)' = Made(i)
    BY <1>3 DEF Made, Seen, Request
  <2>5. CASE reliable
    <3>1. f["sequenceId"] = seqId + 1 /\ Numbered(Tail(downlink), seqId + 1, Len(echoes))
      BY <1>3, <2>1, <2>3, <2>5, NumbersTake DEF IInv, NumberInv
    <3>2. res.sequenceId = {seqId + 1}
      BY <2>1, <2>5, <3>1
    <3>3. seqId' = seqId + 1 /\ got' = Append(got, res)
      <4>1. \A n \in res.sequenceId : n > seqId
        BY <1>3, <3>2
      <4>2. ValueOr({seqId + 1}, seqId) = seqId + 1
        BY ValueOrFacts
      <4>3. QED  BY <1>10, <3>2, <4>1, <4>2 DEF HandleMessage
    <3>4. /\ IsSequence(got') /\ Len(got') = Len(got) + 1 /\ DOMAIN got' = 1 .. Len(got) + 1
          /\ \A n \in DOMAIN got : got'[n] = got[n]
          /\ got'[Len(got) + 1] = res
          /\ DOMAIN got = 1 .. Len(got) /\ Len(got) = seqId
      BY <1>3, <3>3, JoinFacts, SequenceFacts DEF IInv, DataInv
    <3>5. Typed'
      BY <1>1, <1>3, <2>2, <3>3, <3>4, TakeTypes
    <3>6. NumberInv'
      BY <1>3, <2>3, <2>5, <3>1, <3>3 DEF NumberInv
    <3>7. DataInv'
      <4>1. \A n \in DOMAIN got' :
              /\ got'[n].sequenceId = {n} /\ got'[n].dataType = {"json"}
              /\ got'[n].data \in Made(echoes[n])
        <5>1. ASSUME NEW n \in DOMAIN got'
              PROVE  /\ got'[n].sequenceId = {n} /\ got'[n].dataType = {"json"}
                     /\ got'[n].data \in Made(echoes[n])
          <6>1. CASE n \in DOMAIN got
            BY <3>4, <6>1 DEF IInv, DataInv
          <6>2. CASE n = Len(got) + 1
            <7>1. f["data"] \in Made(echoes[f["sequenceId"]])
              BY <1>1, <2>1, <2>5, HeadFacts DEF IInv, DataInv
            <7>2. QED  BY <2>1, <3>1, <3>2, <3>4, <6>2, <7>1
          <6>3. QED  BY <1>3, <3>4, <6>1, <6>2
        <5>2. QED  BY <5>1
      <4>2. \A k \in DOMAIN downlink' :
              IsMessage(downlink'[k]) => downlink'[k]["data"] \in Made(echoes[downlink'[k]["sequenceId"]])
        BY <1>1, <2>3, <2>5, HeadFacts DEF IInv, DataInv
      <4>3. QED  BY <1>3, <2>4, <3>3, <3>4, <4>1, <4>2 DEF DataInv
    <3>8. QED
      BY <1>1, <1>3, <1>5, <1>6, <2>2, <3>5, <3>6, <3>7, TakeStep
         DEF IInv, LoopToleratesTheUnknown, UrlNamesThisConnection
  <2>6. CASE ~reliable
    <3>1. seqId = 0 /\ res.sequenceId = {0}
      BY <2>1, <2>6 DEF IInv, NumberInv
    <3>2. seqId' = seqId /\ got' = got
      BY <1>10, <3>1 DEF HandleMessage
    <3>3. Typed'
      BY <1>1, <1>3, <2>2, <3>2, TakeTypes
    <3>4. NumberInv' /\ DataInv'
      BY <1>3, <2>4, <2>6, <3>1, <3>2 DEF IInv, NumberInv, DataInv
    <3>5. QED
      BY <1>1, <1>3, <1>5, <1>6, <2>2, <3>3, <3>4, TakeStep
         DEF IInv, LoopToleratesTheUnknown, UrlNamesThisConnection
  <2>7. QED  BY <2>5, <2>6
<1>11. QED  BY <1>2, <1>7, <1>8, <1>9, <1>10

\* A frame without a response, and one that cannot be read: neither is a message.
LEMMA SkipStep ==
  ASSUME IInv, Skip
  PROVE  IInv'
<1>1. /\ Readable /\ Reading /\ Take
      /\ UNCHANGED <<loop, pending, results, connection, seqId, got, url>>
      /\ UNCHANGED <<sessions, odd, requests>>
  BY DEF Skip, Readable, Take
<1>2. ~IsMessage(Head(downlink))
  <2>1. SUFFICES ASSUME IsMessage(Head(downlink)) PROVE FALSE
    OBVIOUS
  <2>2. Decode(Head(downlink), "type", {"message", "system"}, "ack") = "message"
    BY <2>1 DEF IsMessage, Decode, Value
  <2>3. Read(Head(downlink)) # {}
    BY <2>2 DEF Read
  <2>4. QED  BY <2>3 DEF Skip
<1>3. Typed'
  BY <1>1, TakeTypes DEF IInv, Typed, TypeOK
<1>4. LoopToleratesTheUnknown' /\ UrlNamesThisConnection'
  BY <1>1 DEF IInv, LoopToleratesTheUnknown, UrlNamesThisConnection
<1>5. QED  BY <1>1, <1>2, <1>3, <1>4, TakeStep DEF IInv

LEMMA FailStep ==
  ASSUME IInv, Fail
  PROVE  IInv'
<1>1. /\ ~Readable /\ Reading /\ Take /\ Head(downlink) = Unreadable
      /\ loop' = "failed" /\ pending' = {} /\ url' = ReconnectionUrl
      /\ UNCHANGED <<results, connection, seqId, got>>
      /\ UNCHANGED <<sessions, odd, requests>>
  BY DEF Fail, Readable, Take
<1>2. ~IsMessage(Head(downlink))
  BY <1>1, NoMessage DEF Odd
<1>3. Unreadable \in odd
  <2>1. Sent(Unreadable)
    BY <1>1, HeadFacts
  <2>2. \A id, answer : Unreadable # Ack(id, answer)
    <3>1. ASSUME NEW id, NEW answer PROVE "type" \in DOMAIN Ack(id, answer)
      BY DEF Ack, @@
    <3>2. "type" \notin DOMAIN Unreadable
      BY DEF Unreadable
    <3>3. QED  BY <3>1, <3>2
  <2>3. Unreadable # Connected
    <3>1. "type" \in DOMAIN Connected
      BY DEF Connected, @@
    <3>2. "type" \notin DOMAIN Unreadable
      BY DEF Unreadable
    <3>3. QED  BY <3>1, <3>2
  <2>4. QED  BY <1>1, <1>2, <2>1, <2>2, <2>3 DEF Sent
<1>4. Typed'
  BY <1>1, TakeTypes DEF IInv, Typed, TypeOK, Loop
<1>5. LoopToleratesTheUnknown'
  BY <1>1, <1>3 DEF LoopToleratesTheUnknown
<1>6. UrlNamesThisConnection'
  <2>1. connection.id \subseteq {sessions}
    BY DEF IInv, Typed, TypeOK
  <2>2. ASSUME NEW u \in url' PROVE u.id = sessions
    <3>1. PICK i \in connection.id, t \in connection.token : u = [id |-> i, token |-> t]
      BY <1>1, <2>2 DEF ReconnectionUrl
    <3>2. QED  BY <2>1, <3>1
  <2>3. QED  BY <1>1, <2>2 DEF UrlNamesThisConnection
<1>7. QED  BY <1>1, <1>2, <1>4, <1>5, <1>6, TakeStep DEF IInv

------------------------------------------------------------------------------
(* The other steps.                                                          *)

\* A frame that is added to what travels to the client.
LEMMA DownlinkJoin ==
  ASSUME IInv, UNCHANGED <<reliable, sessions, requests, echoes, seqId, got>>,
         odd \subseteq odd', answers \subseteq answers',
         \A k \in DOMAIN uplink' : Written(uplink[k])',
         NEW f, ~IsMessage(f), downlink' = Append(downlink, f), Sent(f)'
  PROVE  IsSequence(downlink') /\ FramesInv' /\ NumberInv' /\ DataInv'
<1>1. /\ IsSequence(downlink') /\ DOMAIN downlink' = 1 .. Len(downlink) + 1
      /\ DOMAIN downlink = 1 .. Len(downlink) /\ Len(downlink) \in Nat
      /\ \A k \in DOMAIN downlink : downlink'[k] = downlink[k]
      /\ downlink'[Len(downlink) + 1] = f
  BY JoinFacts, SequenceFacts DEF IInv, Typed
<1>2. \A k \in DOMAIN downlink' : k \in DOMAIN downlink \/ k = Len(downlink) + 1
  BY <1>1
<1>3. \A g : Sent(g) => Sent(g)'
  BY FramesKept
<1>4. FramesInv'
  BY <1>1, <1>2, <1>3 DEF IInv, FramesInv
<1>5. NumberInv'
  BY NumbersJoin DEF IInv, Typed, NumberInv
<1>6. \A i : Made(i)' = Made(i)
  BY DEF Made, Seen, Request
<1>7. DataInv'
  BY <1>1, <1>2, <1>6 DEF IInv, DataInv
<1>8. QED  BY <1>1, <1>4, <1>5, <1>7

LEMMA ConnectStep ==
  ASSUME IInv, Connect
  PROVE  IInv'
<1>1. /\ sessions' = sessions + 1 /\ uplink' = <<Handshake>> /\ downlink' = <<>> /\ echoes' = <<>>
      /\ loop' = "reading" /\ pending' = {} /\ connection' = [id |-> {}, token |-> {}]
      /\ seqId' = 0 /\ got' = <<>> /\ url' = {}
      /\ UNCHANGED <<odd, answers, reliable, requests, results>>
  BY DEF Connect
<1>2. /\ IsSequence(uplink') /\ DOMAIN uplink' = {1} /\ uplink'[1] = Handshake
      /\ IsSequence(downlink') /\ DOMAIN downlink' = {} /\ IsSequence(got') /\ DOMAIN got' = {}
      /\ Len(got') = 0 /\ Len(echoes') = 0 /\ echoes' \in Seq(Nat) /\ DOMAIN echoes' = {}
  BY <1>1, ShortFacts
<1>3. Typed'
  <2>1. Ids' = Ids
    BY <1>1 DEF Ids
  <2>2. {echoes'[n] : n \in DOMAIN echoes'} = {}
    BY <1>2
  <2>3. QED  BY <1>1, <1>2, <2>1, <2>2 DEF IInv, Typed, TypeOK, Loop
<1>4. FramesInv'
  BY <1>2 DEF FramesInv, Written
<1>5. NumberInv' /\ DataInv'
  BY <1>1, <1>2 DEF NumberInv, Numbered, DataInv
<1>6. LoopToleratesTheUnknown' /\ UrlNamesThisConnection'
  BY <1>1 DEF LoopToleratesTheUnknown, UrlNamesThisConnection
<1>7. QED  BY <1>3, <1>4, <1>5, <1>6 DEF IInv

LEMMA SendStep ==
  ASSUME IInv, NEW r \in Sample, Send(r)
  PROVE  IInv'
<1>0. PICK i : i = Len(requests)
  OBVIOUS
<1>1. /\ Len(requests) < MaxRequests /\ requests' = Append(requests, r)
      /\ pending' = pending \cup {Len(requests)}
      /\ UNCHANGED <<sessions, downlink, echoes, odd, answers, loop, reliable, results,
                     connection, seqId, got, url>>
      /\ Typed /\ requests \in Seq(Sample) /\ r \in Sendable
  BY ExchangeAssumption DEF Send, IInv, Typed, TypeOK
<1>2. /\ requests' \in Seq(Sample) /\ Len(requests') = Len(requests) + 1
      /\ Len(requests) \in Nat /\ Request(i)' = r /\ i \in Ids'
  BY <1>0, <1>1 DEF Request, Ids
<1>3. /\ Ids \subseteq Ids' /\ \A j \in Ids : Made(j)' = Made(j)
      /\ \A f : Written(f) => Written(f)'
      /\ \A f : Sent(f) => Sent(f)'
  BY <1>1, RequestsGrow, FramesKept
<1>4. uplink' = uplink \/ \E seen \in Seen(r) : \E f \in Write([ackId |-> {i}] @@ seen) : uplink' = Append(uplink, f)
  BY <1>0 DEF Send
<1>5. IsSequence(uplink') /\ \A k \in DOMAIN uplink' : Written(uplink[k])'
  <2>1. IsSequence(uplink) /\ \A k \in DOMAIN uplink : Written(uplink[k])
    BY <1>1 DEF Typed, IInv, FramesInv
  <2>2. CASE uplink' = uplink
    BY <1>3, <2>1, <2>2
  <2>3. ASSUME NEW seen \in Seen(r), NEW f \in Write([ackId |-> {i}] @@ seen), uplink' = Append(uplink, f)
        PROVE  IsSequence(uplink') /\ \A k \in DOMAIN uplink' : Written(uplink[k])'
    <3>1. seen \in Seen(Request(i))'
      BY <1>2, <2>3 DEF Seen
    <3>2. Written(f)'
      BY <1>2, <2>3, <3>1 DEF Written
    <3>3. /\ IsSequence(uplink') /\ DOMAIN uplink' = 1 .. Len(uplink) + 1
          /\ DOMAIN uplink = 1 .. Len(uplink) /\ Len(uplink) \in Nat
          /\ \A k \in DOMAIN uplink : uplink'[k] = uplink[k]
          /\ uplink'[Len(uplink) + 1] = f
      BY <2>1, <2>3, JoinFacts, SequenceFacts
    <3>4. \A k \in DOMAIN uplink' : k \in DOMAIN uplink \/ k = Len(uplink) + 1
      BY <3>3
    <3>5. QED  BY <1>3, <2>1, <3>2, <3>3, <3>4
  <2>4. QED  BY <1>4, <2>2, <2>3
<1>6. Typed'
  <2>1. Len(requests') <= MaxRequests
    BY <1>1, <1>2, ExchangeAssumption
  <2>2. pending' \subseteq Ids' /\ results' \subseteq Ids' /\ {echoes'[n] : n \in DOMAIN echoes'} \subseteq Ids'
    BY <1>0, <1>1, <1>2, <1>3 DEF Typed, TypeOK
  <2>3. QED  BY <1>1, <1>2, <1>5, <2>1, <2>2 DEF Typed, TypeOK
<1>7. FramesInv'
  BY <1>1, <1>3, <1>5 DEF IInv, FramesInv
<1>8. NumberInv'
  BY <1>1 DEF IInv, NumberInv
<1>9. DataInv'
  <2>1. /\ \A n \in DOMAIN echoes : Made(echoes[n])' = Made(echoes[n])
        /\ Len(echoes) \in Nat /\ DOMAIN echoes = 1 .. Len(echoes)
    <3>1. \A n \in DOMAIN echoes : echoes[n] \in Ids
      BY <1>1 DEF Typed, TypeOK
    <3>2. QED  BY <1>1, <1>3, <3>1 DEF Typed
  <2>2. CASE reliable
    <3>1. Numbered(downlink, seqId, Len(echoes)) /\ DOMAIN got = 1 .. seqId
      BY <1>1, <2>2, SequenceFacts DEF IInv, NumberInv, DataInv, Typed
    <3>2. \A n \in DOMAIN got : n \in DOMAIN echoes
      BY <2>1, <3>1 DEF Numbered
    <3>3. \A k \in DOMAIN downlink : IsMessage(downlink[k]) => downlink[k]["sequenceId"] \in DOMAIN echoes
      BY <2>1, <3>1 DEF Numbered
    <3>4. QED  BY <1>1, <2>1, <3>2, <3>3 DEF IInv, DataInv
  <2>3. CASE ~reliable
    <3>1. DOMAIN got = {}
      BY <1>1, <2>3, SequenceFacts DEF IInv, NumberInv, DataInv, Typed
    <3>2. QED  BY <1>1, <2>3, <3>1 DEF IInv, DataInv
  <2>4. QED  BY <2>2, <2>3
<1>10. LoopToleratesTheUnknown' /\ UrlNamesThisConnection'
  BY <1>1 DEF IInv, LoopToleratesTheUnknown, UrlNamesThisConnection
<1>11. QED  BY <1>6, <1>7, <1>8, <1>9, <1>10 DEF IInv

LEMMA GreetStep ==
  ASSUME IInv, Greet
  PROVE  IInv'
<1>1. /\ uplink # <<>> /\ uplink' = Tail(uplink) /\ downlink' = Append(downlink, Connected)
      /\ UNCHANGED <<sessions, echoes, odd, answers, loop, reliable, requests, pending, results,
                     connection, seqId, got, url>>
  BY DEF Greet, client
<1>2. IsSequence(uplink') /\ \A k \in DOMAIN uplink' : Written(uplink[k])'
  <2>1. /\ IsSequence(uplink')
        /\ \A k \in DOMAIN uplink' : k + 1 \in DOMAIN uplink /\ uplink'[k] = uplink[k + 1]
    BY <1>1, SequenceFacts DEF IInv, Typed
  <2>2. \A f : Written(f) => Written(f)'
    BY <1>1, FramesKept
  <2>3. QED  BY <2>1, <2>2 DEF IInv, FramesInv
<1>3. PICK f : f = Connected
  OBVIOUS
<1>4. ~IsMessage(f) /\ Sent(f)'
  <2>1. Connected' = Connected
    BY <1>1 DEF Connected
  <2>2. QED  BY <1>3, <2>1, NoMessage DEF Sent
<1>5. IsSequence(downlink') /\ FramesInv' /\ NumberInv' /\ DataInv'
  BY <1>1, <1>2, <1>3, <1>4, DownlinkJoin
<1>6. Typed'
  <2>1. Ids' = Ids
    BY <1>1 DEF Ids
  <2>2. QED  BY <1>1, <1>2, <1>5, <2>1 DEF IInv, Typed, TypeOK
<1>7. LoopToleratesTheUnknown' /\ UrlNamesThisConnection'
  BY <1>1 DEF IInv, LoopToleratesTheUnknown, UrlNamesThisConnection
<1>8. QED  BY <1>5, <1>6, <1>7 DEF IInv

LEMMA OddStep ==
  ASSUME IInv, NEW f \in Odd, SendOdd(f)
  PROVE  IInv'
<1>1. /\ odd' = odd \cup {f} /\ downlink' = Append(downlink, f)
      /\ UNCHANGED <<sessions, uplink, echoes, answers, loop, reliable, requests, pending, results,
                     connection, seqId, got, url>>
  BY DEF SendOdd, client
<1>2. \A k \in DOMAIN uplink' : Written(uplink[k])'
  <2>1. \A g : Written(g) => Written(g)'
    BY <1>1, FramesKept
  <2>2. QED  BY <1>1, <2>1 DEF IInv, FramesInv
<1>3. ~IsMessage(f) /\ Sent(f)'
  BY <1>1, NoMessage DEF Sent
<1>4. IsSequence(downlink') /\ FramesInv' /\ NumberInv' /\ DataInv'
  BY <1>1, <1>2, <1>3, DownlinkJoin
<1>5. Typed'
  <2>1. Ids' = Ids
    BY <1>1 DEF Ids
  <2>2. QED  BY <1>1, <1>4, <2>1 DEF IInv, Typed, TypeOK
<1>6. LoopToleratesTheUnknown' /\ UrlNamesThisConnection'
  BY <1>1 DEF IInv, LoopToleratesTheUnknown, UrlNamesThisConnection
<1>7. QED  BY <1>4, <1>5, <1>6 DEF IInv

\* The next frame on its way to the service, if it is not the handshake.
LEMMA ServedFacts ==
  ASSUME IInv, uplink # <<>>, Head(uplink) # Handshake
  PROVE  LET f == Head(uplink) IN
         /\ f.ackId \in Ids /\ "dataType" \notin DOMAIN f
         /\ f.type = "sendToGroup" => f.data \in Made(f.ackId)
<1>1. Written(Head(uplink))
  BY SequenceFacts DEF IInv, Typed, FramesInv
<1>2. PICK i \in Ids : \E seen \in Seen(Request(i)) : Head(uplink) \in Write([ackId |-> {i}] @@ seen)
  BY <1>1 DEF Written
<1>3. PICK seen \in Seen(Request(i)) : Head(uplink) \in Write([ackId |-> {i}] @@ seen)
  BY <1>2
<1>4. Request(i) \in Sendable
  <2>1. requests \in Seq(Sample) /\ Sample \subseteq Sendable
    BY ExchangeAssumption DEF IInv, Typed, TypeOK
  <2>2. QED  BY <2>1 DEF Ids, Request
<1>5. seen \in Sendable /\ seen.type = Request(i).type
  BY <1>4, SeenFacts
<1>6. /\ seen.type = "sendToGroup" => Head(uplink).data \in DataToJson(seen.kind, seen.dataType)
      /\ Head(uplink).type = seen.type /\ Head(uplink).ackId = i /\ "dataType" \notin DOMAIN Head(uplink)
  <2>1. PICK f : f = Head(uplink)
    OBVIOUS
  <2>2. f \in Write([ackId |-> {i}] @@ seen)
    BY <1>3, <2>1
  <2>3. /\ f.type = seen.type /\ f.ackId = i /\ "dataType" \notin DOMAIN f
        /\ seen.type = "sendToGroup" => f.data \in DataToJson(seen.kind, seen.dataType)
    BY <1>5, <2>2, WriteFacts
  <2>4. QED  BY <2>1, <2>3
<1>7. DataToJson(seen.kind, seen.dataType) \subseteq Made(i)
  BY <1>3 DEF Made
<1>8. QED  BY <1>6, <1>7

LEMMA ServeStep ==
  ASSUME IInv, NEW answer, Serve(answer)
  PROVE  IInv'
<1>1. PICK f : f = Head(uplink)
  OBVIOUS
<1>2. PICK ack : ack = Ack(f.ackId, answer)
  OBVIOUS
<1>3. PICK m : m = Message(f)
  OBVIOUS
<1>4. /\ uplink # <<>> /\ f # Handshake /\ uplink' = Tail(uplink)
      /\ answers' = answers \cup {[id |-> f.ackId, answer |-> answer]}
      /\ UNCHANGED <<sessions, odd, loop, reliable, requests, pending, results, connection, seqId, got, url>>
      /\ \/ /\ f.type = "sendToGroup" /\ downlink' = downlink \o <<m, ack>>
            /\ echoes' = Append(echoes, f.ackId)
         \/ downlink' = Append(downlink, ack) /\ echoes' = echoes
  BY <1>1, <1>2, <1>3 DEF Serve, client
<1>5. f.ackId \in Ids /\ "dataType" \notin DOMAIN f /\ (f.type = "sendToGroup" => f.data \in Made(f.ackId))
  BY <1>1, <1>4, ServedFacts
<1>6. (\A g : Written(g) => Written(g)') /\ (\A g : Sent(g) => Sent(g)')
  BY <1>4, FramesKept
<1>7. IsSequence(uplink') /\ \A k \in DOMAIN uplink' : Written(uplink[k])'
  <2>1. /\ IsSequence(uplink')
        /\ \A k \in DOMAIN uplink' : k + 1 \in DOMAIN uplink /\ uplink'[k] = uplink[k + 1]
    BY <1>4, SequenceFacts DEF IInv, Typed
  <2>2. QED  BY <1>6, <2>1 DEF IInv, FramesInv
<1>8. ~IsMessage(ack) /\ Sent(ack)'
  <2>1. PICK a : a = [id |-> f.ackId, answer |-> answer]
    OBVIOUS
  <2>2. a \in answers' /\ ack = Ack(a.id, a.answer)
    BY <1>2, <1>4, <2>1
  <2>3. Sent(ack)'
    BY <2>2 DEF Sent, Ack
  <2>4. QED  BY <1>2, <2>3, NoMessage
<1>9. CASE downlink' = Append(downlink, ack) /\ echoes' = echoes
  <2>1. IsSequence(downlink') /\ FramesInv' /\ NumberInv' /\ DataInv'
    BY <1>4, <1>7, <1>8, <1>9, DownlinkJoin
  <2>2. Ids' = Ids
    BY <1>4 DEF Ids
  <2>3. Typed'
    BY <1>4, <1>7, <1>9, <2>1, <2>2 DEF IInv, Typed, TypeOK
  <2>4. LoopToleratesTheUnknown' /\ UrlNamesThisConnection'
    BY <1>4 DEF IInv, LoopToleratesTheUnknown, UrlNamesThisConnection
  <2>5. QED  BY <2>1, <2>3, <2>4 DEF IInv
<1>10. CASE /\ f.type = "sendToGroup" /\ downlink' = downlink \o <<m, ack>>
            /\ echoes' = Append(echoes, f.ackId)
  <2>1. /\ IsMessage(m) /\ (IsNumbered(m) <=> reliable) /\ m["data"] = f.data
        /\ reliable => m["sequenceId"] = Len(echoes) + 1
    BY <1>3, <1>5, MessageFacts
  <2> DEFINE d == Append(downlink, m)
  <2>2. /\ IsSequence(downlink) /\ DOMAIN downlink = 1 .. Len(downlink) /\ Len(downlink) \in Nat
        /\ IsSequence(d) /\ DOMAIN d = 1 .. Len(downlink) + 1 /\ Len(d) = Len(downlink) + 1
        /\ \A k \in DOMAIN downlink : d[k] = downlink[k]
        /\ d[Len(downlink) + 1] = m
        /\ downlink' = Append(d, ack)
    BY <1>10, JoinFacts, SequenceFacts DEF IInv, Typed
  <2> HIDE DEF d
  <2>3. /\ IsSequence(downlink') /\ DOMAIN downlink' = 1 .. Len(downlink) + 2
        /\ \A k \in DOMAIN d : downlink'[k] = d[k]
        /\ downlink'[Len(downlink) + 2] = ack
    BY <2>2, JoinFacts
  <2>4. \A k \in DOMAIN downlink' :
          \/ k \in DOMAIN downlink /\ downlink'[k] = downlink[k]
          \/ k = Len(downlink) + 1 /\ downlink'[k] = m
          \/ k = Len(downlink) + 2 /\ downlink'[k] = ack
    BY <2>2, <2>3
  <2>5. /\ echoes \in Seq(Nat) /\ f.ackId \in Nat
        /\ echoes' \in Seq(Nat) /\ Len(echoes') = Len(echoes) + 1 /\ Len(echoes) \in Nat
        /\ DOMAIN echoes' = 1 .. Len(echoes) + 1 /\ DOMAIN echoes = 1 .. Len(echoes)
        /\ \A n \in DOMAIN echoes : echoes'[n] = echoes[n]
        /\ echoes'[Len(echoes) + 1] = f.ackId
    <3>1. echoes \in Seq(Nat) /\ f.ackId \in Nat
      BY <1>5 DEF IInv, Typed, Ids
    <3>2. QED  BY <1>10, <3>1
  <2>6. FramesInv'
    <3>1. Sent(m)'
      BY <1>4, <2>1 DEF Sent
    <3>2. \A k \in DOMAIN downlink : Sent(downlink[k])
      BY DEF IInv, FramesInv
    <3>3. \A k \in DOMAIN downlink' : Sent(downlink[k])'
      BY <1>6, <1>8, <2>4, <3>1, <3>2
    <3>4. QED  BY <1>7, <3>3 DEF FramesInv
  <2>7. NumberInv'
    <3>1. CASE reliable
      <4>1. Numbered(d, seqId, Len(echoes) + 1)
        BY <2>1, <2>2, <3>1, NumbersPass DEF IInv, NumberInv, d
      <4>2. Numbered(downlink', seqId, Len(echoes) + 1)
        BY <1>8, <2>2, <4>1, NumbersJoin
      <4>3. QED  BY <1>4, <2>5, <3>1, <4>2 DEF NumberInv
    <3>2. CASE ~reliable
      BY <1>4, <3>2 DEF IInv, NumberInv
    <3>3. QED  BY <3>1, <3>2
  <2>8. \A i : Made(i)' = Made(i)
    BY <1>4 DEF Made, Seen, Request
  <2>9. DataInv'
    <3>1. CASE reliable
      <4>1. Numbered(downlink, seqId, Len(echoes)) /\ DOMAIN got = 1 .. seqId
        BY <3>1, SequenceFacts DEF IInv, NumberInv, DataInv, Typed
      <4>2. \A n \in DOMAIN got : n \in DOMAIN echoes
        BY <2>5, <4>1 DEF Numbered
      <4>3. \A k \in DOMAIN downlink : IsMessage(downlink[k]) => downlink[k]["sequenceId"] \in DOMAIN echoes
        BY <2>5, <4>1 DEF Numbered
      <4>4. \A n \in DOMAIN got :
              /\ got[n].sequenceId = {n} /\ got[n].dataType = {"json"}
              /\ got[n].data \in Made(echoes'[n])
        BY <2>5, <4>2 DEF IInv, DataInv
      <4>5. \A k \in DOMAIN downlink' :
              IsMessage(downlink'[k]) => downlink'[k]["data"] \in Made(echoes'[downlink'[k]["sequenceId"]])
        <5>1. m["data"] \in Made(echoes'[m["sequenceId"]])
          BY <1>5, <1>10, <2>1, <2>5, <3>1
        <5>2. \A k \in DOMAIN downlink :
                IsMessage(downlink[k]) => downlink[k]["data"] \in Made(echoes'[downlink[k]["sequenceId"]])
          BY <2>5, <3>1, <4>3 DEF IInv, DataInv
        <5>3. QED  BY <1>8, <2>4, <5>1, <5>2
      <4>6. QED  BY <1>4, <2>8, <3>1, <4>4, <4>5 DEF IInv, DataInv
    <3>2. CASE ~reliable
      <4>1. DOMAIN got = {}
        BY <3>2, SequenceFacts DEF IInv, NumberInv, DataInv, Typed
      <4>2. QED  BY <1>4, <3>2, <4>1 DEF IInv, DataInv
    <3>3. QED  BY <3>1, <3>2
  <2>10. Typed'
    <3>1. Ids' = Ids
      BY <1>4 DEF Ids
    <3>2. {echoes'[n] : n \in DOMAIN echoes'} \subseteq Ids
      <4>1. \A n \in DOMAIN echoes : echoes[n] \in Ids
        BY DEF IInv, Typed, TypeOK
      <4>2. \A n \in DOMAIN echoes' : n \in DOMAIN echoes \/ n = Len(echoes) + 1
        BY <2>5
      <4>3. \A n \in DOMAIN echoes' : echoes'[n] \in Ids
        BY <1>5, <2>5, <4>1, <4>2
      <4>4. QED  BY <4>3
    <3>3. QED  BY <1>4, <1>7, <2>3, <2>5, <3>1, <3>2 DEF IInv, Typed, TypeOK
  <2>11. LoopToleratesTheUnknown' /\ UrlNamesThisConnection'
    BY <1>4 DEF IInv, LoopToleratesTheUnknown, UrlNamesThisConnection
  <2>12. QED  BY <2>6, <2>7, <2>9, <2>10, <2>11 DEF IInv
<1>11. QED  BY <1>4, <1>9, <1>10

LEMMA Invariance == Spec => []IInv
<1>1. Init => IInv
  <2>1. SUFFICES ASSUME Init PROVE IInv
    OBVIOUS
  <2>2. /\ requests \in Seq(Sample) /\ Len(requests) = 0 /\ echoes \in Seq(Nat)
        /\ Len(echoes) = 0 /\ Len(got) = 0
        /\ DOMAIN echoes = {} /\ DOMAIN uplink = {} /\ DOMAIN downlink = {} /\ DOMAIN got = {}
        /\ IsSequence(uplink) /\ IsSequence(downlink) /\ IsSequence(got)
    BY <2>1, ShortFacts DEF Init
  <2>3. Typed
    <3>1. {echoes[n] : n \in DOMAIN echoes} = {}
      BY <2>2
    <3>2. QED  BY <2>1, <2>2, <3>1, ExchangeAssumption DEF Init, Typed, TypeOK, Loop
  <2>4. FramesInv /\ NumberInv /\ DataInv
    BY <2>1, <2>2 DEF Init, FramesInv, NumberInv, Numbered, DataInv
  <2>5. LoopToleratesTheUnknown /\ UrlNamesThisConnection
    BY <2>1 DEF Init, LoopToleratesTheUnknown, UrlNamesThisConnection
  <2>6. QED  BY <2>3, <2>4, <2>5 DEF IInv
<1>2. IInv /\ [Next]_vars => IInv'
  <2>1. SUFFICES ASSUME IInv, [Next]_vars PROVE IInv'
    OBVIOUS
  <2>2. CASE UNCHANGED vars
    <3>1. UNCHANGED <<sessions, uplink, downlink, echoes, odd, answers, loop, reliable, requests,
                      pending, results, connection, seqId, got, url>>
      BY <2>2 DEF vars, service, client
    <3>2. Typed'
      BY <2>1, <3>1 DEF IInv, Typed, TypeOK, Ids
    <3>3. FramesInv'
      <4>1. (\A f : Written(f) => Written(f)') /\ (\A f : Sent(f) => Sent(f)')
        BY <2>1, <3>1, FramesKept
      <4>2. QED  BY <2>1, <3>1, <4>1 DEF IInv, FramesInv
    <3>4. NumberInv' /\ DataInv'
      <4>1. \A i : Made(i)' = Made(i)
        BY <3>1 DEF Made, Seen, Request
      <4>2. QED  BY <2>1, <3>1, <4>1 DEF IInv, NumberInv, DataInv
    <3>5. LoopToleratesTheUnknown' /\ UrlNamesThisConnection'
      BY <2>1, <3>1 DEF IInv, LoopToleratesTheUnknown, UrlNamesThisConnection
    <3>6. QED  BY <3>2, <3>3, <3>4, <3>5 DEF IInv
  <2>3. QED
    BY <2>1, <2>2, ConnectStep, SendStep, GreetStep, ServeStep, OddStep, HandleStep, SkipStep, FailStep
       DEF Next
<1>3. QED  BY <1>1, <1>2, PTL DEF Spec

------------------------------------------------------------------------------
(* What follows of it.                                                       *)

\* The variables have their types: what is waited for, returned and passed on are requests that
\* have been made, and what the client knows of a connection is of this one.
THEOREM TypeCorrect == Spec => []TypeOK
<1>1. IInv => TypeOK
  BY DEF IInv, Typed
<1>2. QED  BY <1>1, Invariance, PTL

\* With the reliable protocol, the callbacks have been given every message that the service has
\* numbered when everything has been read, in order and once, on each connection
\* (update_sequence_id, reset_connection and the callbacks of the two data handlers), with however
\* many frames of whatever kind in between.
THEOREM Delivered == Spec => []NumberedAreDelivered
<1>1. ASSUME IInv PROVE NumberedAreDelivered
  <2>1. Len(got) = seqId /\ \A n \in DOMAIN got : got[n].sequenceId = {n}
    BY <1>1 DEF IInv, DataInv
  <2>2. ASSUME reliable, downlink = <<>> PROVE seqId = Len(echoes)
    <3>1. Numbered(downlink, seqId, Len(echoes)) /\ DOMAIN downlink = {}
      BY <1>1, <2>2, ShortFacts DEF IInv, NumberInv
    <3>2. seqId \in Nat /\ Len(echoes) \in Nat /\ seqId <= Len(echoes)
          /\ \A m \in seqId + 1 .. Len(echoes) : FALSE
      BY <3>1 DEF Numbered
    <3>3. seqId < Len(echoes) => seqId + 1 \in seqId + 1 .. Len(echoes)
      BY <3>2
    <3>4. QED  BY <3>2, <3>3
  <2>3. QED  BY <2>1, <2>2 DEF NumberedAreDelivered
<1>2. QED  BY <1>1, Invariance, PTL

\* The n-th message that callbacks get has the data of the n-th request that was passed on, and an
\* object that was sent as JSON comes back as what it was: dataToJson leaves it as it is, and
\* getData takes data without a type for JSON.
THEOREM WholeObjects == Spec => []ObjectsArriveWhole
<1>1. ASSUME IInv PROVE ObjectsArriveWhole
  <2>1. SUFFICES ASSUME NEW n \in DOMAIN got, ~Request(echoes[n]).kept,
                        Request(echoes[n]).kind = "object",
                        ValueOr(Request(echoes[n]).dataType, "json") = "json"
                 PROVE  <<>> \in GetData("object", got[n])
    BY DEF ObjectsArriveWhole
  <2>2. echoes[n] \in Ids
    <3>1. Len(got) = seqId /\ DOMAIN got = 1 .. Len(got)
      BY <1>1, SequenceFacts DEF IInv, Typed, DataInv
    <3>2. reliable
      BY <1>1, <2>1, <3>1 DEF IInv, NumberInv
    <3>3. seqId <= Len(echoes) /\ seqId \in Nat /\ Len(echoes) \in Nat /\ DOMAIN echoes = 1 .. Len(echoes)
      BY <1>1, <3>2 DEF IInv, NumberInv, Numbered, Typed
    <3>4. n \in DOMAIN echoes
      BY <2>1, <3>1, <3>3
    <3>5. QED  BY <1>1, <3>4 DEF IInv, Typed, TypeOK
  <2>3. PICK r : r = Request(echoes[n])
    OBVIOUS
  <2>4. r \in Sendable
    <3>1. requests \in Seq(Sample) /\ Sample \subseteq Sendable
      BY <1>1, ExchangeAssumption DEF IInv, Typed, TypeOK
    <3>2. QED  BY <2>2, <2>3, <3>1 DEF Ids, Request
  <2>5. Made(echoes[n]) = DataToJson(r.kind, r.dataType)
    <3>1. Seen(r) = {r}
      BY <2>1, <2>3, <2>4, SeenFacts
    <3>2. QED  BY <2>3, <3>1 DEF Made
  <2>6. PICK m : m = got[n]
    OBVIOUS
  <2>7. m.dataType = {"json"} /\ m.data \in DataToJson(r.kind, r.dataType)
    BY <1>1, <2>1, <2>5, <2>6 DEF IInv, DataInv
  <2>8. <<>> \in GetData(r.kind, m)
    BY <2>1, <2>3, <2>4, <2>7, ArrivesWhole
  <2>9. QED  BY <2>1, <2>3, <2>6, <2>8
<1>2. QED  BY <1>1, Invariance, PTL

\* Only a frame that is no JSON object ends the message loop, and only the disconnected
\* response crashes it: a type or an event that the client does not know is skipped or
\* read as an answer of nobody (json_protocol_base::read, async_handle_payload).
THEOREM UnknownTolerated == Spec => []LoopToleratesTheUnknown
<1>1. IInv => LoopToleratesTheUnknown
  BY DEF IInv
<1>2. QED  BY <1>1, Invariance, PTL

\* A url to recover a connection names the connection that failed, never an earlier one
\* (reset_connection, build_reconnection_url).
THEOREM UrlOfThisConnection == Spec => []UrlNamesThisConnection
<1>1. IInv => UrlNamesThisConnection
  BY DEF IInv
<1>2. QED  BY <1>1, Invariance, PTL

\* The ids of requests are never the id that stands for a missing one.
LEMMA NobodysId ==
  ASSUME IInv
  PROVE  MaxUint \notin Ids
<1>1. requests \in Seq(Sample) /\ Len(requests) <= MaxRequests
  BY DEF IInv, Typed, TypeOK
<1>2. QED  BY <1>1, ExchangeAssumption, ProtocolAssumption DEF Ids

\* While a connection lasts, a request stops waiting, and is returned, by an answer of the
\* service to this request (async_handle_ack_response), and it is returned only by a success
\* or by the error Duplicate: no frame without an id, of an unknown type or to another
\* request ends it.
THEOREM OwnAnswers == Spec => AnswersEndTheirOwn
<1> DEFINE A(i) == \E a \in answers : a.id = i
           B(i) == \E a \in answers : a.id = i /\ a.answer # "Forbidden"
<1>1. ASSUME IInv, [Next]_vars, NEW i \in Ids
      PROVE  /\ i \in pending \ pending' /\ loop' = "reading" /\ sessions' = sessions => A(i)
             /\ i \in results' \ results => B(i)
  <2>1. CASE Connect
    <3>1. sessions' # sessions /\ results' = results
      BY <1>1, <2>1 DEF Connect, IInv, Typed, TypeOK
    <3>2. QED  BY <3>1
  <2>2. CASE \E r \in Sample : Send(r)
    BY <2>2 DEF Send
  <2>3. CASE Greet \/ (\E answer \in {"success", "Duplicate", "Forbidden"} : Serve(answer))
             \/ (\E frame \in Odd : SendOdd(frame)) \/ UNCHANGED vars
    BY <2>3 DEF Greet, Serve, SendOdd, vars, client
  <2>4. CASE Skip
    BY <2>4 DEF Skip
  <2>5. CASE Fail
    BY <2>5 DEF Fail
  <2>6. CASE Handle
    <3>1. Readable
      BY <2>6 DEF Handle
    <3>2. PICK res \in Read(Head(downlink)) :
            HandleAck(res) \/ HandleMessage(res) \/ HandleConnected(res) \/ HandleDisconnected(res)
      BY <2>6 DEF Handle
    <3>3. CASE HandleMessage(res) \/ HandleConnected(res) \/ HandleDisconnected(res)
      BY <3>3 DEF HandleMessage, HandleConnected, HandleDisconnected
    <3>4. CASE HandleAck(res)
      <4>1. /\ i \in pending \ pending' => res.ackId = i
            /\ i \in results' \ results => res.ackId = i /\ (res.success \/ res.error = {"Duplicate"})
        BY <3>4 DEF HandleAck
      <4>2. CASE res.ackId = MaxUint
        BY <1>1, <4>1, <4>2, NobodysId
      <4>3. ASSUME NEW a \in answers, res.ackId = a.id, res.success = (a.answer = "success"),
                   res.error = {a.answer} \ {"success"}
            PROVE  /\ i \in pending \ pending' => A(i)
                   /\ i \in results' \ results => B(i)
        <5>1. res.success \/ res.error = {"Duplicate"} => a.answer # "Forbidden"
          BY <4>3
        <5>2. QED  BY <4>1, <4>3, <5>1
      <4>4. res.kind = "ack"
        BY <3>4 DEF HandleAck
      <4>5. QED  BY <1>1, <3>1, <3>2, <4>2, <4>3, <4>4, HandledFacts
    <3>5. QED  BY <3>2, <3>3, <3>4
  <2>7. QED  BY <1>1, <2>1, <2>2, <2>3, <2>4, <2>5, <2>6 DEF Next
<1>2. IInv /\ [Next]_vars =>
        [\A i \in Ids : /\ i \in pending \ pending' /\ loop' = "reading" /\ sessions' = sessions => A(i)
                        /\ i \in results' \ results => B(i)]_vars
  BY <1>1
<1>3. QED  BY <1>2, Invariance, PTL DEF Spec, AnswersEndTheirOwn
=============================================================================
