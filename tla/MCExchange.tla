----------------------------- MODULE MCExchange -----------------------------
(* Two requests over two connections, and one frame that the service sends   *)
(* of its own accord.  What is sent to the group has every kind of data, and *)
(* every type of data where that makes a difference; one request suppresses  *)
(* its echo, and one is made with an object that was kept.                   *)
EXTENDS Exchange

Plain(kind, dataType) ==
  [type |-> "sendToGroup", kind |-> kind, dataType |-> dataType, noEcho |-> {}, kept |-> FALSE]

Requests ==
  {Plain("object", {}), Plain("object", {"text"}), Plain("string", {"text"}),
   Plain("chars", {"json"}), Plain("garbled", {"text"}), Plain("bytes", {"binary"}),
   Plain("number", {"text"}),
   [Plain("object", {}) EXCEPT !.type = "joinGroup"],
   [Plain("string", {"binary"}) EXCEPT !.type = "event"],
   [Plain("object", {}) EXCEPT !.noEcho = {TRUE}],
   [Plain("number", {"text"}) EXCEPT !.kept = TRUE]}

\* What the sample of the client sends, and an object.
Samples == {Plain("chars", {"text"}), Plain("object", {})}
=============================================================================
