--------------------------- MODULE LifecycleClaims ---------------------------
(****************************************************************************)
(* What the comments and the tests of the repository say of the life cycle, *)
(* where the code does something else.  Each claim is refuted by a run of   *)
(* its own.                                                                 *)
(****************************************************************************)
EXTENDS ClientLifecycle

\* should_recover --> recovering: YES to_recovering (transition_context.hpp:35).
\* A connected client whose connection can be recovered enters recovering when
\* the operation raises its first event.
RecoveryIsTried ==
  [][\A o \in Op :
       pc[o] = "op_raise" /\ recover[o] /\ state = "connected" /\ pc'[o] # "op_raise"
         => state' = "recovering"]_vars

\* "enter connected state" (connected.hpp:42), with the loops that on_enter_core
\* spawns; "This's for send/receive messages" (README.md:11).  A client that
\* reconnects has a message loop.
ReconnectedReads ==
  [][state = "reconnecting" /\ state' = "connected" => (Live("receive") # {})']_vars

=============================================================================
