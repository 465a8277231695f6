-------------------------- MODULE RecoveringProofs --------------------------
(****************************************************************************)
(* How long a recovery may last, how often it may try, and that it leaves   *)
(* no timer behind, for any limit and any timeouts.                         *)
(****************************************************************************)
EXTENDS Recovering, TLAPS

\* When each stage may have begun, and for how long it lasts.
TimeInv ==
  /\ expiry = Limit
  /\ since <= now
  /\ pc = "checking" => now <= Limit + Longest + 1
  /\ pc = "resolving" => since <= Limit /\ now <= since + Slow
  /\ pc = "connecting" =>
       since <= Limit + Slow /\ timer = since + StreamTimeout /\ now <= timer
  /\ pc = "securing" => since <= Limit + Slow + StreamTimeout /\ now <= since + Slow
  /\ pc = "upgrading" =>
       since <= Limit + 2 * Slow + StreamTimeout /\ now <= since + HandshakeTimeout
  /\ pc = "pausing" => since <= Limit + Longest /\ now <= since + 1

\* An attempt begins a second or more after the one before.
PaceInv ==
  /\ attempts <= Limit + 1
  /\ attempts <= since + 1
  /\ pc = "checking" => attempts <= now

TimerInv == pc \in {"upgrading", "connected"} => timer = Never

IInv == TypeOK /\ TimeInv /\ PaceInv /\ TimerInv

USE RecoveringAssumption

LEMMA InvInit == Init => IInv
  BY DEF Init, IInv, TypeOK, TimeInv, PaceInv, TimerInv, PC, Stage, Longest, Never

LEMMA InvNext == IInv /\ [Next]_vars => IInv'
<1> SUFFICES ASSUME IInv, [Next]_vars PROVE IInv'
  OBVIOUS
<1> USE DEF IInv, TypeOK, TimeInv, PaceInv, TimerInv, PC, Stage, Longest, Never, Go
<1>1. CASE Tick
  BY <1>1 DEF Tick, End
<1>2. CASE Check
  BY <1>2 DEF Check
<1>3. CASE Resolve
  BY <1>3 DEF Resolve
<1>4. CASE ConnectStream
  BY <1>4 DEF ConnectStream
<1>5. CASE Secure
  BY <1>5 DEF Secure
<1>6. CASE Upgrade
  BY <1>6 DEF Upgrade
<1>7. CASE Fail
  BY <1>7 DEF Fail
<1>8. CASE Pause
  BY <1>8 DEF Pause
<1>9. CASE UNCHANGED vars
  BY <1>9 DEF vars
<1> QED
  BY <1>1, <1>2, <1>3, <1>4, <1>5, <1>6, <1>7, <1>8, <1>9 DEF Next

LEMMA Invariance == Spec => []IInv
  BY InvInit, InvNext, PTL DEF Spec

------------------------------------------------------------------------------
\* The variables of Recovering keep their types.
THEOREM TypeCorrect == Spec => []TypeOK
<1>1. IInv => TypeOK
  BY DEF IInv
<1> QED
  BY <1>1, Invariance, PTL

\* async_recover_connection overruns its limit by one attempt and one pause at most.
THEOREM OverrunBounded == Spec => []OverrunIsBounded
<1>1. IInv => OverrunIsBounded
  BY DEF IInv, TypeOK, TimeInv, OverrunIsBounded, Stage, PC, Longest
<1> QED
  BY <1>1, Invariance, PTL

\* async_recover_connection makes at most one attempt a second.
THEOREM AttemptsPaced == Spec => []AttemptsArePaced
<1>1. IInv => AttemptsArePaced
  BY DEF IInv, TypeOK, TimeInv, PaceInv, AttemptsArePaced
<1> QED
  BY <1>1, Invariance, PTL

\* async_connect of default_websocket leaves no timer on a connection that it has made.
THEOREM ConnectedNotTimed == Spec => []ConnectedIsNotTimed
<1>1. IInv => ConnectedIsNotTimed
  BY DEF IInv, TimerInv, ConnectedIsNotTimed
<1> QED
  BY <1>1, Invariance, PTL
=============================================================================
