---------------------------- MODULE MCMessageLoop ----------------------------
(* A request and a rejoin, and data of one kind with room for one message,   *)
(* over two sessions of a client that rejoins its groups.  The application   *)
(* only joins: what it sends otherwise takes the same steps and leaves the   *)
(* groups alone.                                                             *)
EXTENDS MessageLoop

OnlyJoins == \A r \in Request : at[r] # "idle" => joining[r] # NoGroup

MCInit == Init /\ autoRejoin = TRUE
MCNext == Next /\ OnlyJoins'
MCSpec == MCInit /\ [][MCNext]_vars /\ Fairness
=============================================================================
