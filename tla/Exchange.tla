------------------------------ MODULE Exchange ------------------------------
(****************************************************************************)
(* What frames do: the application sends requests, the service answers them *)
(* and passes on what was sent to the group, the message loop reads what    *)
(* comes, and callbacks read the data.  The service may also send frames    *)
(* that this client does not know, and may answer with an error.            *)
(*                                                                          *)
(* The conversions are those of Protocol; the suspensions between them are  *)
(* the business of Requests and Delivery.                                   *)
(****************************************************************************)
EXTENDS Protocol, FiniteSets

CONSTANTS Sample,         \* what the application may ask for
          MaxRequests,    \* bound: how many requests are sent
          MaxSessions,    \* bound: how often a connection is made
          MaxOdd          \* bound: how many frames the service sends of its own accord

VARIABLES reliable,       \* the protocol: reliable_json_v1_protocol or json_protocol_base
          sessions,       \* how many connections have been made
          uplink,         \* frames that the service has not taken yet
          downlink,       \* frames that the client has not read yet
          echoes,         \* the requests that the service has passed on, on this connection
          odd,            \* history: the frames that the service sent of its own accord
          answers,        \* history: the service's answers
          loop,           \* the message loop
          requests,       \* history: the requests; their ack ids count from 0
          pending,        \* the ids that requests wait for
          results,        \* history: the ids that requests have returned
          connection,     \* connection_id_ and reconnection_token_
          seqId,          \* sequence_id.id_
          got,            \* history: the messages that callbacks got on this connection
          url             \* reconnect_uri of the latest failure

service == <<uplink, downlink, echoes, odd, answers>>
client == <<reliable, requests, pending, results, connection, seqId, got, url>>
vars == <<sessions, service, loop, client>>

Loop == {"none", "reading", "failed", "crashed"}
Ids == 0 .. Len(requests) - 1
Request(i) == requests[i + 1]

Unreadable == [unreadable |-> TRUE]  \* no JSON, no object, or a value of a wrong type
Disconnected == [type |-> "system", event |-> "disconnected"]
Odd == {[type |-> "pong"], [type |-> "system", event |-> "moved"], Disconnected, Unreadable}

Handshake == [type |-> "handshake"]  \* of the websocket

Options(S) == {{}} \cup {{v} : v \in S}

\* A request, and whether it is made with a request object that the application has
\* kept, whose references to its options dangle.
Sendable ==
  [type : {"joinGroup", "leaveGroup", "sendToGroup", "event"}, kind : Kind,
   dataType : Options(DataType), noEcho : Options({TRUE}), kept : BOOLEAN]

ASSUME ExchangeAssumption ==
  /\ Sample \subseteq Sendable
  /\ MaxRequests \in 0 .. MaxUint
  /\ MaxSessions \in Nat
  /\ MaxOdd \in Nat

------------------------------------------------------------------------------
Init ==
  /\ reliable \in BOOLEAN
  /\ sessions = 0
  /\ uplink = <<>> /\ downlink = <<>> /\ echoes = <<>>
  /\ odd = {} /\ answers = {}
  /\ loop = "none"
  /\ requests = <<>> /\ pending = {} /\ results = {}
  /\ connection = [id |-> {}, token |-> {}]
  /\ seqId = 0
  /\ got = <<>>
  /\ url = {}

------------------------------------------------------------------------------
(* The client                                                                *)

\* Mutant: reset_connection does not reset the send service, which has the sequence id.
ConnectNumbering ==
  /\ loop # "crashed"
  /\ sessions < MaxSessions
  /\ sessions' = sessions + 1
  /\ uplink' = <<Handshake>> /\ downlink' = <<>> /\ echoes' = <<>>
  /\ loop' = "reading"
  /\ pending' = {}
  /\ connection' = [id |-> {}, token |-> {}]
  /\ got' = <<>>
  /\ url' = {}
  /\ UNCHANGED <<odd, answers, reliable, requests, results, seqId>>

\* Mutant: reset_connection keeps what it knows of the last connection.
ConnectKeeping ==
  /\ loop # "crashed"
  /\ sessions < MaxSessions
  /\ sessions' = sessions + 1
  /\ uplink' = <<Handshake>> /\ downlink' = <<>> /\ echoes' = <<>>
  /\ loop' = "reading"
  /\ pending' = {}
  /\ seqId' = 0
  /\ got' = <<>>
  /\ url' = {}
  /\ UNCHANGED <<odd, answers, reliable, requests, results, connection>>

\* The client is stopped, if need be, and started: reset_connection wakes those
\* who wait and forgets the last connection.
Connect ==
  /\ loop # "crashed"
  /\ sessions < MaxSessions
  /\ sessions' = sessions + 1
  /\ uplink' = <<Handshake>> /\ downlink' = <<>> /\ echoes' = <<>>
  /\ loop' = "reading"
  /\ pending' = {}
  /\ connection' = [id |-> {}, token |-> {}]
  /\ seqId' = 0
  /\ got' = <<>>
  /\ url' = {}
  /\ UNCHANGED <<odd, answers, reliable, requests, results>>

\* The request as to_json sees it; what it reads from dangling references is arbitrary.
\* (The name of the group or event is one of them.  A frame that goes to some other group
\* looks like one whose echo is suppressed, and the service may refuse it.)
Seen(r) ==
  IF r.kept
  THEN [type : {r.type}, kind : {r.kind},
        dataType : Options(DataType), noEcho : Options({TRUE}), kept : {TRUE}]
  ELSE {r}

\* A request that waits for its answer.  One that cannot be written is logged by
\* async_send_request, and waits as well.  (A name that dangles may not be UTF-8.)
Send(r) ==
  /\ loop = "reading"
  /\ Len(requests) < MaxRequests
  /\ requests' = Append(requests, r)
  /\ pending' = pending \cup {Len(requests)}
  /\ \E seen \in Seen(r) :
       LET frames == Write([ackId |-> {Len(requests)}] @@ seen) IN
         \/ (frames = {} \/ r.kept) /\ UNCHANGED uplink
         \/ \E f \in frames : uplink' = Append(uplink, f)
  /\ UNCHANGED <<sessions, downlink, echoes, odd, answers, loop, reliable, results,
                 connection, seqId, got, url>>

------------------------------------------------------------------------------
(* The service (external)                                                    *)

Ack(id, answer) ==
  [type |-> "ack", ackId |-> id, success |-> answer = "success"]
    @@ Optional("error", {answer} \ {"success"})

Message(frame) ==
  [type |-> "message", from |-> "group", data |-> frame.data,
   dataType |-> Value(frame, "dataType", "json")]
    @@ Optional("sequenceId", {n \in {Len(echoes) + 1} : reliable})

Connected ==
  [type |-> "system", event |-> "connected", connectionId |-> sessions]
    @@ Optional("reconnectionToken", {t \in {"token"} : reliable})

\* The service greets the client that connects.
Greet ==
  /\ uplink # <<>> /\ Head(uplink) = Handshake
  /\ uplink' = Tail(uplink)
  /\ downlink' = Append(downlink, Connected)
  /\ UNCHANGED <<sessions, echoes, odd, answers, loop, client>>

\* The service answers a request; one that was sent to the group it passes on first.
Serve(answer) ==
  /\ uplink # <<>> /\ Head(uplink) # Handshake
  /\ uplink' = Tail(uplink)
  /\ LET frame == Head(uplink)
         ack == Ack(frame.ackId, answer)
     IN  /\ answers' = answers \cup {[id |-> frame.ackId, answer |-> answer]}
         /\ IF answer = "success" /\ frame.type = "sendToGroup" /\ "noEcho" \notin DOMAIN frame
            THEN /\ downlink' = downlink \o <<Message(frame), ack>>
                 /\ echoes' = Append(echoes, frame.ackId)
            ELSE /\ downlink' = Append(downlink, ack)
                 /\ UNCHANGED echoes
  /\ UNCHANGED <<sessions, odd, loop, client>>

\* The service, or what is between, sends something of its own accord.
SendOdd(frame) ==
  /\ loop = "reading"
  /\ frame \notin odd
  /\ Cardinality(odd) < MaxOdd
  /\ odd' = odd \cup {frame}
  /\ downlink' = Append(downlink, frame)
  /\ UNCHANGED <<sessions, uplink, echoes, answers, loop, client>>

------------------------------------------------------------------------------
(* The message loop: async_handle_payload of the next frame                  *)

Reading == loop = "reading" /\ downlink # <<>>
Readable == Reading /\ Head(downlink) # Unreadable
Take ==
  /\ downlink' = Tail(downlink)
  /\ UNCHANGED <<sessions, uplink, echoes, odd, answers, reliable, requests>>

\* async_handle_ack_response, for whoever waits for this id.
HandleAck(res) ==
  /\ res.kind = "ack"
  /\ pending' = pending \ {res.ackId}
  /\ results' = IF res.ackId \in pending /\ (res.success \/ res.error = {"Duplicate"})
                THEN results \cup {res.ackId} ELSE results
  /\ UNCHANGED <<loop, connection, seqId, got, url>>

\* async_handle_group_data_response and async_handle_server_data_response.
HandleMessage(res) ==
  /\ res.kind \in {"group", "server"}
  /\ IF \A n \in res.sequenceId : n > seqId
     THEN /\ seqId' = ValueOr(res.sequenceId, seqId)
          /\ got' = Append(got, res)
     ELSE UNCHANGED <<seqId, got>>
  /\ UNCHANGED <<loop, pending, results, connection, url>>

\* async_handle_connected_response, without groups to rejoin.
HandleConnected(res) ==
  /\ res.kind = "connected"
  /\ connection' = [id |-> res.connectionId, token |-> res.token]
  /\ UNCHANGED <<loop, pending, results, seqId, got, url>>

\* async_handle_disconnected_response returns an empty awaitable: awaiting it
\* dereferences a null pointer.
HandleDisconnected(res) ==
  /\ res.kind = "disconnected"
  /\ loop' = "crashed"
  /\ UNCHANGED <<pending, results, connection, seqId, got, url>>

Handle ==
  /\ Readable
  /\ Take
  /\ \E res \in Read(Head(downlink)) :
       HandleAck(res) \/ HandleMessage(res) \/ HandleConnected(res) \/ HandleDisconnected(res)

\* A frame without a response is logged and skipped.
Skip ==
  /\ Readable
  /\ Read(Head(downlink)) = {}
  /\ Take
  /\ UNCHANGED <<loop, pending, results, connection, seqId, got, url>>

\* build_reconnection_url.
ReconnectionUrl ==
  {[id |-> i, token |-> t] : i \in connection.id, t \in connection.token}

\* Mutant: finish_all is left out.
FailQuietly ==
  /\ Reading
  /\ ~Readable
  /\ Take
  /\ loop' = "failed"
  /\ url' = ReconnectionUrl
  /\ UNCHANGED <<pending, results, connection, seqId, got>>

\* Mutant: a frame without a response ends the loop.
FailOnUnknown ==
  /\ Reading
  /\ Readable => Read(Head(downlink)) = {}
  /\ Take
  /\ loop' = "failed"
  /\ pending' = {}
  /\ url' = ReconnectionUrl
  /\ UNCHANGED <<results, connection, seqId, got>>

\* A frame that cannot be read ends the loop: finish_all wakes those who wait.
Fail ==
  /\ Reading
  /\ ~Readable
  /\ Take
  /\ loop' = "failed"
  /\ pending' = {}
  /\ url' = ReconnectionUrl
  /\ UNCHANGED <<results, connection, seqId, got>>

Next ==
  \/ Connect
  \/ \E r \in Sample : Send(r)
  \/ Greet
  \/ \E answer \in {"success", "Duplicate", "Forbidden"} : Serve(answer)
  \/ \E frame \in Odd : SendOdd(frame)
  \/ Handle \/ Skip \/ Fail

\* The service answers, and the message loop reads what there is.
Fairness ==
  /\ WF_vars(Greet)
  /\ WF_vars(\E answer \in {"success", "Duplicate", "Forbidden"} : Serve(answer))
  /\ WF_vars(Handle \/ Skip \/ Fail)

Spec == Init /\ [][Next]_vars
FairSpec == Spec /\ Fairness

------------------------------------------------------------------------------
\* The variables have their types.
TypeOK ==
  /\ reliable \in BOOLEAN
  /\ sessions \in Nat
  /\ loop \in Loop
  /\ requests \in Seq(Sample)
  /\ pending \subseteq Ids /\ results \subseteq Ids
  /\ {echoes[n] : n \in DOMAIN echoes} \subseteq Ids
  /\ odd \subseteq Odd
  /\ connection.id \subseteq {sessions} /\ connection.token \subseteq {"token"}
  /\ seqId \in Nat

\* A request comes to its end by the service's answer to this request, or with its session.  An
\* answer of any kind, a frame of an unknown type (which is read as an answer) and an answer without
\* an id never end the request of another; and an id is returned only if the answer was a success.
AnswersEndTheirOwn ==
  [][\A i \in Ids :
       /\ i \in pending \ pending' /\ loop' = "reading" /\ sessions' = sessions =>
            \E a \in answers : a.id = i
       /\ i \in results' \ results =>
            \E a \in answers : a.id = i /\ a.answer # "Forbidden"]_vars

\* When everything has been read, the callbacks have been given every message that the service has
\* numbered, in order and once: also on a later connection, whose numbers begin with 1 again, and
\* whatever frames without a number come in between.
NumberedAreDelivered ==
  /\ reliable /\ loop = "reading" /\ downlink = <<>> => Len(got) = Len(echoes)
  /\ \A n \in DOMAIN got : got[n].sequenceId = {n}

\* The n-th message that callbacks get carries the data of the n-th request that was passed on, and
\* if that was an object sent as JSON, or sent without a type, they read it as what it was.
ObjectsArriveWhole ==
  \A n \in DOMAIN got :
    LET r == Request(echoes[n])
    IN  ~r.kept /\ r.kind = "object" /\ ValueOr(r.dataType, "json") = "json" =>
          <<>> \in GetData("object", got[n])

\* What is sent to the group arrives, with either protocol, and text that is sent as text is read
\* as the string that it was.
SentArrives ==
  /\ loop = "reading" /\ downlink = <<>> => Len(got) = Len(echoes)
  /\ \A n \in DOMAIN got :
       LET r == Request(echoes[n])
       IN  ~r.kept /\ r.kind \in {"string", "chars"} /\ r.dataType = {"text"} =>
             <<>> \in GetData("string", got[n])

\* Only a frame that is no JSON object ends the message loop; unknown types and events do not,
\* nor do acknowledgements that nobody waits for.
LoopToleratesTheUnknown ==
  /\ loop = "failed" => Unreadable \in odd
  /\ loop = "crashed" => Disconnected \in odd

\* A url to recover a connection names the connection that failed, never an earlier one: a client
\* whose loop fails before the service has greeted it has no url.
UrlNamesThisConnection ==
  \A u \in url : u.id = sessions

\* Nothing to send may have become of the request: it has data of no class, and they were to be sent
\* as JSON, or text that is not UTF-8, or it is written with whatever is where its arguments were.
Unwritten(i) ==
  LET r == Request(i) IN r.kept \/ Write([ackId |-> {i}] @@ r) = {}

\* Every request returns, also one that is refused, unless it could not be written: that one waits
\* for an answer that cannot come, until its connection is reset.
WrittenRequestsReturn ==
  \A i \in 0 .. MaxRequests - 1 :
    (i \in pending) ~> (i \notin pending \/ loop = "crashed" \/ Unwritten(i))
=============================================================================
