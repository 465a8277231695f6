----------------------------- MODULE MCDelivery -----------------------------
(* Channels of one message, so that the message loop waits for room, and two *)
(* sessions, the second of which finds what the first left in the channels.  *)
EXTENDS Delivery
=============================================================================
