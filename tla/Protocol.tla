------------------------------ MODULE Protocol ------------------------------
(****************************************************************************)
(* webpubsub-protocols: how a request becomes a frame, how a frame becomes  *)
(* a response, and how the data of a message are read.                      *)
(*                                                                          *)
(* A frame is a function from keys to values.  An optional is a set with at *)
(* most one element; so is the result of an operator that may throw.        *)
(* A JSON value is known by its shape and by the conversions that made it.  *)
(****************************************************************************)
EXTENDS Naturals, Sequences

CONSTANT MaxUint          \* uint64_t(-1)

ASSUME ProtocolAssumption == MaxUint \in Nat

DataType == {"json", "text", "binary"}
Kind == {"object", "string", "garbled", "chars", "bytes", "number"}
                          \* of data, by their C++ type; garbled is a string that is not UTF-8

ValueOr(optional, default) == IF optional = {} THEN default ELSE CHOOSE v \in optional : TRUE

------------------------------------------------------------------------------
(* Requests                                                                  *)

ShapeOf(kind) ==
  CASE kind \in {"object", "number"} -> kind
    [] kind \in {"string", "garbled", "chars"} -> "string"
    [] kind = "bytes" -> "array"

\* Mutant: text is the default.
DataToJsonText(kind, dataType) ==
  LET type == ValueOr(dataType, "text")
      made(shape, steps) == {[shape |-> shape, steps |-> steps]}
  IN  CASE type = "text" ->
             made("string", IF ShapeOf(kind) = "string" THEN <<>> ELSE <<"dump">>)
        [] type = "binary" -> made("string", <<"dump", "encode">>)
        [] type = "json" ->
             IF kind \in {"object", "string", "garbled", "bytes"}
             THEN made(ShapeOf(kind), <<>>) ELSE {}

\* dataToJson: text of a string is the string, of anything else its JSON text;
\* binary is the base64 of the JSON text; only objects of a class are sent as JSON.
DataToJson(kind, dataType) ==
  LET type == ValueOr(dataType, "json")
      made(shape, steps) == {[shape |-> shape, steps |-> steps]}
  IN  CASE type = "text" ->
             made("string", IF ShapeOf(kind) = "string" THEN <<>> ELSE <<"dump">>)
        [] type = "binary" -> made("string", <<"dump", "encode">>)
        [] type = "json" ->
             IF kind \in {"object", "string", "garbled", "bytes"} THEN made(ShapeOf(kind), <<>>) ELSE {}

\* A frame with the keys of f, and with those of g that f has not.
f @@ g == [k \in DOMAIN f \cup DOMAIN g |-> IF k \in DOMAIN f THEN f[k] ELSE g[k]]

Optional(key, optional) == [k \in {key : v \in optional} |-> CHOOSE v \in optional : TRUE]

\* requestToJson.
RequestToJson(r) == [type |-> r.type] @@ Optional("ackId", r.ackId)

\* to_json of SendToGroupRequest, which leaves out the type of the data.
SendToGroup(r) ==
  {RequestToJson(r) @@ Optional("noEcho", r.noEcho)
     @@ [data |-> d] : d \in DataToJson(r.kind, r.dataType)}

\* to_json of SendEventRequest, which leaves it out as well.
SendEvent(r) == {RequestToJson(r) @@ [data |-> d] : d \in DataToJson(r.kind, r.dataType)}

Utf8(r) == r.kind # "garbled"

\* json_protocol_base::write; dump() throws on a string that is not UTF-8.
Write(r) ==
  CASE r.type \in {"joinGroup", "leaveGroup"} -> {RequestToJson(r)}
    [] r.type = "sendToGroup" -> IF Utf8(r) THEN SendToGroup(r) ELSE {}
    [] r.type = "event" -> IF Utf8(r) THEN SendEvent(r) ELSE {}

------------------------------------------------------------------------------
(* Responses                                                                 *)

Value(frame, key, default) == IF key \in DOMAIN frame THEN frame[key] ELSE default
Given(frame, key) == {frame[k] : k \in {key} \cap DOMAIN frame}

\* NLOHMANN_JSON_SERIALIZE_ENUM: what is missing or unknown becomes the first value.
Decode(frame, key, others, first) ==
  IF Value(frame, key, first) \in others THEN frame[key] ELSE first

ToDataType(frame) ==
  {Decode(frame, "dataType", {"text", "binary"}, "json") : t \in Given(frame, "dataType")}

\* Mutant: a missing ack id is read as 0.
ToAckFromZero(frame) ==
  [kind |-> "ack", ackId |-> Value(frame, "ackId", 0),
   success |-> Value(frame, "success", FALSE), error |-> Given(frame, "error")]

\* AckResponse.
ToAck(frame) ==
  [kind |-> "ack", ackId |-> Value(frame, "ackId", MaxUint),
   success |-> Value(frame, "success", FALSE), error |-> Given(frame, "error")]

\* GroupMessageResponseV2 and ServerMessageResponse: a missing sequence id is an engaged 0.
ToMessage(frame, from) ==
  [kind |-> from, sequenceId |-> {Value(frame, "sequenceId", 0)},
   dataType |-> ToDataType(frame), data |-> Value(frame, "data", <<>>)]

\* json_protocol_base::read of a frame that is a JSON object whose values have their
\* types: its response, if there is one.
Read(frame) ==
  LET type == Decode(frame, "type", {"message", "system"}, "ack") IN
  CASE type = "ack" -> {ToAck(frame)}
    [] type = "message" -> {ToMessage(frame, Decode(frame, "from", {"group"}, "server"))}
    [] type = "system" ->
         {[kind |-> event, connectionId |-> Given(frame, "connectionId"),
           token |-> Given(frame, "reconnectionToken")]
            : event \in {"connected", "disconnected"} \cap Given(frame, "event")}

------------------------------------------------------------------------------
\* getData of a message into data of some kind: the conversions that the data have
\* then gone through.  Whole data have gone through none.
GetData(kind, message) ==
  LET type == ValueOr(message.dataType, "json")
      data == message.data
  IN  CASE kind = "string" /\ type # "text" -> {Append(data.steps, "dump")}
        [] kind = "string" /\ type = "text" -> {data.steps : s \in {"string"} \cap {data.shape}}
        [] kind = "bytes" ->
             IF data.shape = "string" /\ type = "binary" /\ data.steps = <<"dump", "encode">>
             THEN {<<"dump">>} ELSE {}
        [] kind = "object" /\ type = "json" -> {data.steps : s \in {"object"} \cap {data.shape}}
        [] OTHER -> {}
=============================================================================
