------------------------------ MODULE RetryLoop ------------------------------
(****************************************************************************)
(* The loop of client_send_service::async_retry_send around one request:    *)
(* send, and when that throws, update_delay, wait and send again.  (What    *)
(* derives from std::exception is caught inside a send; the loop sees what  *)
(* a websocket throws otherwise.)                                           *)
(****************************************************************************)
EXTENDS RetryPolicy

CONSTANT Choices          \* the message_retry_options an application may choose

ASSUME RetryAssumption == Choices \subseteq Options

VARIABLES opt,            \* options_.message_retry_options
          ctx,            \* the retry_context of this call
          sends,          \* how many times the request has been sent
          phase           \* where the call stands

vars == <<opt, ctx, sends, phase>>

Phase == {"sending", "delaying", "returned", "rethrown", "cancelled"}

Init ==
  /\ opt \in Choices
  /\ ctx = FirstContext(opt)
  /\ sends = 1
  /\ phase = "sending"

Return ==
  /\ phase = "sending"
  /\ phase' = "returned"
  /\ UNCHANGED <<opt, ctx, sends>>

\* Mutant: the loop does not ask whether a delay is left.
ThrowOn ==
  /\ phase = "sending"
  /\ ctx' \in UpdateDelay(opt, ctx)
  /\ phase' = "delaying"
  /\ UNCHANGED <<opt, sends>>

\* The exception is rethrown when update_delay leaves no delay.
Throw ==
  /\ phase = "sending"
  /\ ctx' \in UpdateDelay(opt, ctx)
  /\ phase' = IF ctx'.delay = NoDelay THEN "rethrown" ELSE "delaying"
  /\ UNCHANGED <<opt, sends>>

\* After the delay the loop looks at the cancellation state, then sends again.
Again ==
  /\ phase = "delaying"
  /\ phase' \in {"sending", "cancelled"}
  /\ sends' = IF phase' = "sending" THEN sends + 1 ELSE sends
  /\ UNCHANGED <<opt, ctx>>

Next == Return \/ Throw \/ Again

Spec == Init /\ [][Next]_vars

------------------------------------------------------------------------------
\* The variables have their types.
TypeOK ==
  /\ opt \in Options
  /\ ctx \in Context
  /\ sends \in Nat \ {0}
  /\ phase \in Phase

\* Each update counts twice (the policy's increment and update_delay's own), so a
\* request is sent at most max_retry / 2 + 2 times, whatever the mode.
SendsBounded == 2 * (sends - 1) <= opt.maxRetry + 2

\* A delay is never more than the first delay or twice max_delay: the exponential
\* policy caps, then doubles.  With the fixed mode it is the first delay.
DelayBounded ==
  ctx.delay <= IF opt.mode = "fixed" \/ ctx.attempts = 0 THEN opt.delay ELSE 2 * opt.maxDelay

\* What the exponential policy reads from an emptied optional is emptied again by
\* the fixed policy it falls through to: no delay ever depends on it.
GarbageIsDropped ==
  \A c, d \in UpdateDelay(opt, ctx) : c = d
=============================================================================
