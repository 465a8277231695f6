----------------------------- MODULE Recovering -----------------------------
(****************************************************************************)
(* The handler of the state recovering: attempts to open a websocket to the *)
(* reconnection url, until one succeeds or the limit has passed.  No event  *)
(* reaches it today (RecoveryIsTried of LifecycleClaims); the module says   *)
(* how it behaves when one does.                                            *)
(*                                                                          *)
(* An attempt is async_connect of default_websocket: resolve, connect, TLS  *)
(* handshake, websocket handshake.  Time is counted in seconds; what ends   *)
(* at a timer or after a pause ends exactly then.                           *)
(****************************************************************************)
EXTENDS Integers

CONSTANTS Limit,          \* of the recovery: 30
          StreamTimeout,  \* of the tcp_stream: 30
          HandshakeTimeout, \* of the websocket: 30
          Slow,           \* what the resolver, and the TLS handshake, may take: no timer ends them
          MaxTime         \* bound: how far the clock goes

ASSUME RecoveringAssumption ==
  /\ Limit \in Nat /\ StreamTimeout \in Nat /\ HandshakeTimeout \in Nat /\ Slow \in Nat
  /\ MaxTime \in Nat

VARIABLES now,            \* the clock
          expiry,         \* of timeout_timer
          pc,             \* what the handler awaits
          since,          \* when it began to
          timer,          \* of the tcp_stream, or Never
          attempts        \* history: the attempts begun

vars == <<now, expiry, pc, since, timer, attempts>>

Never == -1
Stage == {"resolving", "connecting", "securing", "upgrading"}
PC == {"checking", "pausing", "connected", "disconnected"} \cup Stage

\* When the stage ends at the latest.
End ==
  CASE pc \in {"resolving", "securing"} -> since + Slow
    [] pc = "connecting" -> timer
    [] pc = "upgrading" -> since + HandshakeTimeout
    [] pc = "pausing" -> since + 1
    [] OTHER -> now

Go(p) == pc' = p /\ since' = now

------------------------------------------------------------------------------
Init ==
  /\ now = 0
  /\ expiry = Limit
  /\ pc = "checking"
  /\ since = 0
  /\ timer = Never
  /\ attempts = 0

Tick ==
  /\ now < End
  /\ now < MaxTime
  /\ now' = now + 1
  /\ UNCHANGED <<expiry, pc, since, timer, attempts>>

\* Mutant: every attempt has the whole limit.
CheckAnew ==
  /\ pc = "checking"
  /\ expiry' = now + Limit
  /\ attempts' = attempts + 1
  /\ Go("resolving")
  /\ UNCHANGED <<now, timer>>

\* The limit is looked at between two attempts only, and the last may begin at the limit.
Check ==
  /\ pc = "checking"
  /\ IF expiry < now
     THEN Go("disconnected") /\ UNCHANGED attempts
     ELSE Go("resolving") /\ attempts' = attempts + 1
  /\ UNCHANGED <<now, expiry, timer>>

\* The name is resolved: the stream, a new one, gets a timer.
Resolve ==
  /\ pc = "resolving"
  /\ Go("connecting")
  /\ timer' = now + StreamTimeout
  /\ UNCHANGED <<now, expiry, attempts>>

\* The connection is made: the TLS handshake begins, which is synchronous.
ConnectStream ==
  /\ pc = "connecting"
  /\ Go("securing")
  /\ timer' = now + StreamTimeout
  /\ UNCHANGED <<now, expiry, attempts>>

\* expires_never, and the timeouts of the websocket take over.
Secure ==
  /\ pc = "securing"
  /\ Go("upgrading")
  /\ timer' = Never
  /\ UNCHANGED <<now, expiry, attempts>>

Upgrade ==
  /\ pc = "upgrading"
  /\ Go("connected")
  /\ UNCHANGED <<now, expiry, timer, attempts>>

\* Mutant: a failure is not followed by a pause.
FailAtOnce ==
  /\ pc \in Stage
  /\ Go("checking")
  /\ timer' = Never
  /\ UNCHANGED <<now, expiry, attempts>>

\* A stage fails, at a timer or before, and the handler pauses.
Fail ==
  /\ pc \in Stage
  /\ Go("pausing")
  /\ timer' = Never
  /\ UNCHANGED <<now, expiry, attempts>>

Pause ==
  /\ pc = "pausing"
  /\ now >= since + 1
  /\ Go("checking")
  /\ UNCHANGED <<now, expiry, timer, attempts>>

Next == Tick \/ Check \/ Resolve \/ ConnectStream \/ Secure \/ Upgrade \/ Fail \/ Pause

\* Time passes; a stage ends one way or the other, a pause ends.
Fairness ==
  /\ WF_vars(Tick) /\ WF_vars(Check) /\ WF_vars(Pause)
  /\ WF_vars(Resolve \/ ConnectStream \/ Secure \/ Upgrade \/ Fail)

Spec == Init /\ [][Next]_vars
FairSpec == Spec /\ Fairness

------------------------------------------------------------------------------
\* The variables have their types.
TypeOK ==
  /\ now \in Nat
  /\ expiry \in Nat
  /\ pc \in PC
  /\ since \in Nat
  /\ timer \in Nat \cup {Never}
  /\ attempts \in Nat

\* How long an attempt may take.
Longest == 2 * Slow + StreamTimeout + HandshakeTimeout

\* The recovery overruns its limit by one attempt and one pause at most, although nothing stops an
\* attempt that is under way when the limit passes.
OverrunIsBounded ==
  pc \in Stage \cup {"checking", "pausing"} => now <= Limit + Longest + 1

\* A client whose attempts fail at once makes no more than one attempt a second.
AttemptsArePaced ==
  attempts <= Limit + 1 /\ attempts <= now + 1

\* No timer of an attempt is left that would cut the connection off later.
ConnectedIsNotTimed ==
  pc = "connected" => timer = Never

\* The recovery ends, with a connection or without.
RecoveryEnds == <>(pc \in {"connected", "disconnected"})
=============================================================================
