--------------------------- MODULE LifetimeDiagram ---------------------------
(****************************************************************************)
(* The state diagram in the comment of transition_context.hpp, with its     *)
(* three choices contracted: what the life cycle of a client promises.      *)
(****************************************************************************)
VARIABLES state, autoReconnect

Edges ==
  {<<"stopped", "connecting">>,         \* to_connecting_state
   <<"connecting", "connected">>,       \* to_connected
   <<"connected", "recovering">>,       \* should_recover, YES
   <<"connected", "disconnected">>,     \* should_recover, NO
   <<"recovering", "connected">>,       \* is_recovered, YES
   <<"recovering", "disconnected">>,    \* is_recovered, NO
   <<"disconnected", "reconnecting">>,  \* to_reconnecting
   <<"reconnecting", "connected">>,     \* is_reconnected, YES
   <<"reconnecting", "stopped">>,       \* is_reconnected, NO
   <<"connected", "stopping">>,         \* to_stopping
   <<"disconnected", "stopping">>,      \* to_stopping
   <<"stopping", "stopped">>}           \* to_stopped

Init == state = "stopped" /\ autoReconnect \in BOOLEAN

\* The diagram, where the client reconnects; a client that does not goes from
\* disconnected to stopped, an edge that the comment does not draw.
Next ==
  /\ \/ <<state, state'>> \in Edges /\ (state' = "reconnecting" => autoReconnect)
     \/ state = "disconnected" /\ state' = "stopped" /\ ~autoReconnect
  /\ UNCHANGED autoReconnect

Spec == Init /\ [][Next]_<<state, autoReconnect>>
=============================================================================
