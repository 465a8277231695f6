--------------------------- MODULE RequestOutcomes ---------------------------
(* What a caller may rely on: every call has an identity that no other call  *)
(* has had, it returns at most once, and what it returns as acknowledged has  *)
(* been accepted by the service under its own identity.                       *)
EXTENDS Naturals

CONSTANT Caller

VARIABLES given,     \* the identities given out
          status,    \* what has become of the latest call of each caller
          identity,  \* and its identity
          accepted   \* the identities that the service has accepted

vars == <<given, status, identity, accepted>>

Status == {"idle", "pending", "acknowledged", "unanswered"}

Init ==
  /\ given = {}
  /\ status = [c \in Caller |-> "idle"]
  /\ identity = [c \in Caller |-> 0]
  /\ accepted = {}

Call(c) ==
  /\ status[c] # "pending"
  /\ identity' = [identity EXCEPT ![c] = identity'[c]]
  /\ identity'[c] \in Nat \ given
  /\ given' = given \cup {identity'[c]}
  /\ status' = [status EXCEPT ![c] = "pending"]
  /\ UNCHANGED accepted

Accept(c) ==
  /\ status[c] = "pending"
  /\ accepted' = accepted \cup {identity[c]}
  /\ UNCHANGED <<given, status, identity>>

Acknowledge(c) ==
  /\ status[c] = "pending"
  /\ identity[c] \in accepted
  /\ status' = [status EXCEPT ![c] = "acknowledged"]
  /\ UNCHANGED <<given, identity, accepted>>

\* Calls may be given up together, when their connection is lost.
GiveUp(C) ==
  /\ \A c \in C : status[c] = "pending"
  /\ status' = [c \in Caller |-> IF c \in C THEN "unanswered" ELSE status[c]]
  /\ UNCHANGED <<given, identity, accepted>>

Next ==
  \/ \E c \in Caller : Call(c) \/ Accept(c) \/ Acknowledge(c)
  \/ \E C \in SUBSET Caller : GiveUp(C)

Spec == Init /\ [][Next]_vars
=============================================================================
