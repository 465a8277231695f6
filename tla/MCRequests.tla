----------------------------- MODULE MCRequests -----------------------------
(* Two requests of the application and a rejoin, with two sessions, so that  *)
(* a group joined in the first is rejoined in the second.                    *)
EXTENDS Requests
=============================================================================
