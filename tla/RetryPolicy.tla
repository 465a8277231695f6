----------------------------- MODULE RetryPolicy -----------------------------
(****************************************************************************)
(* The retry policies of the client: how one call of update_delay changes   *)
(* the attempt counter and the delay of a retry_context.                    *)
(*                                                                          *)
(* A delay is a number of milliseconds, or NoDelay for the empty            *)
(* std::optional that tells a retry loop to give up.  The policies are      *)
(* operators that return the SET of contexts a call may leave behind: the   *)
(* exponential policy reads the optional after it has emptied it, and what  *)
(* that read yields is not defined.  Garbage stands for the values it can   *)
(* yield.                                                                   *)
(****************************************************************************)
EXTENDS Integers

CONSTANT Garbage          \* what dereferencing an empty optional may yield

NoDelay == -1
Delay == Nat \cup {NoDelay}

ASSUME GarbageAssumption == Garbage \subseteq Nat

\* retry_options, the part the application chooses.
Options == [mode : {"fixed", "exponential"}, delay : Nat, maxDelay : Nat, maxRetry : Nat]

\* retry_context, the part the policies change.
Context == [attempts : Nat, delay : Delay]

FirstContext(opt) == [attempts |-> 0, delay |-> opt.delay]

Exhausted(opt, ctx) == ctx.attempts > opt.maxRetry

\* fixed_retry_policy::next_retry_delay
FixedNext(opt, ctx) ==
  [attempts |-> ctx.attempts + 1,
   delay    |-> IF Exhausted(opt, ctx) THEN NoDelay ELSE ctx.delay]

\* Mutant: the delay is doubled past max_delay.
ExponentialUncapped(opt, ctx) ==
  {[attempts |-> ctx.attempts + 1, delay |-> b + b] :
     b \in IF Exhausted(opt, ctx) \/ ctx.delay = NoDelay THEN Garbage ELSE {ctx.delay}}

\* exponential_retry_policy::next_retry_delay.  An empty optional compares
\* below every delay, so the cap is skipped and the doubling reads it.
ExponentialNext(opt, ctx) ==
  LET emptied == Exhausted(opt, ctx) \/ ctx.delay = NoDelay
      capped  == ~emptied /\ ctx.delay >= opt.maxDelay
      base    == IF emptied THEN Garbage
                 ELSE IF capped THEN {opt.maxDelay} ELSE {ctx.delay}
  IN  {[attempts |-> ctx.attempts + (IF capped THEN 2 ELSE 1), delay |-> b + b] : b \in base}

\* Mutant: the exponential case ends with the break that it lacks.
UpdateDelayBreaks(opt, ctx) ==
  {[c EXCEPT !.attempts = @ + 1] :
     c \in IF opt.mode = "exponential" THEN ExponentialNext(opt, ctx) ELSE {FixedNext(opt, ctx)}}

\* update_delay: the exponential case has no break and runs into the fixed one.
UpdateDelay(opt, ctx) ==
  {[FixedNext(opt, c) EXCEPT !.attempts = @ + 1] :
     c \in IF opt.mode = "exponential" THEN ExponentialNext(opt, ctx) ELSE {ctx}}

=============================================================================
