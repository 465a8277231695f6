--------------------------- MODULE RetryLoopProofs ---------------------------
(****************************************************************************)
(* Proofs about retrying a request, for every choice of options and for     *)
(* every value that reading an empty optional may yield.                    *)
(****************************************************************************)
EXTENDS RetryLoop, TLAPS

\* Every send but the first followed an update, and each update counts twice.
CountInv ==
  /\ phase = "sending" => 2 * (sends - 1) <= ctx.attempts
  /\ phase = "delaying" => 2 * sends <= ctx.attempts /\ 2 * (sends - 1) <= opt.maxRetry
  /\ SendsBounded

\* An empty delay means that the attempts are used up, and is never sent again.
DelayInv ==
  /\ phase \in {"sending", "delaying"} => ctx.delay # NoDelay
  /\ ctx.delay = NoDelay => Exhausted(opt, ctx)
  /\ DelayBounded

IInv == TypeOK /\ CountInv /\ DelayInv

------------------------------------------------------------------------------
\* update_delay leaves a context whose delay, if any, is defined and bounded.
LEMMA UpdateFacts ==
  ASSUME NEW o \in Options, NEW x \in Context, x.delay = NoDelay => Exhausted(o, x),
         NEW c \in UpdateDelay(o, x)
  PROVE  /\ c \in Context
         /\ c.attempts >= x.attempts + 2
         /\ Exhausted(o, x) => c.delay = NoDelay
         /\ c.delay = NoDelay => Exhausted(o, c)
         /\ c.delay # NoDelay => IF o.mode = "fixed" THEN c.delay = x.delay ELSE c.delay <= 2 * o.maxDelay
         /\ c.attempts # 0
<1>1. /\ o.mode \in {"fixed", "exponential"} /\ o.maxDelay \in Nat /\ o.maxRetry \in Nat
      /\ x.attempts \in Nat /\ x.delay \in Nat \cup {-1}
  BY DEF Options, Context, Delay, NoDelay
<1>2. CASE o.mode = "fixed"
  <2>1. c = [attempts |-> x.attempts + 2, delay |-> IF Exhausted(o, x) THEN NoDelay ELSE x.delay]
    BY <1>1, <1>2 DEF UpdateDelay, FixedNext
  <2>2. QED  BY <1>1, <1>2, <2>1 DEF Exhausted, NoDelay, Context, Delay
<1>3. CASE o.mode = "exponential"
  <2>1. PICK e \in ExponentialNext(o, x) : c = [FixedNext(o, e) EXCEPT !.attempts = @ + 1]
    BY <1>3 DEF UpdateDelay
  <2>2. /\ e.attempts \in {x.attempts + 1, x.attempts + 2}
        /\ e.delay \in Nat
        /\ ~Exhausted(o, x) => e.delay <= 2 * o.maxDelay
    BY <1>1, GarbageAssumption DEF ExponentialNext, Exhausted, NoDelay
  <2>3. c = [attempts |-> e.attempts + 2, delay |-> IF Exhausted(o, e) THEN NoDelay ELSE e.delay]
    BY <1>1, <2>1, <2>2 DEF FixedNext
  <2>4. QED  BY <1>1, <1>3, <2>2, <2>3 DEF Exhausted, NoDelay, Context, Delay
<1>4. QED  BY <1>1, <1>2, <1>3

LEMMA Invariance == Spec => []IInv
<1>1. Init => IInv
  <2> SUFFICES ASSUME Init PROVE IInv
    OBVIOUS
  <2>1. opt \in Options /\ opt.delay \in Nat /\ opt.maxRetry \in Nat
    BY RetryAssumption DEF Init, Options
  <2>2. QED  BY <2>1 DEF Init, IInv, TypeOK, CountInv, DelayInv, FirstContext, Context, Delay, NoDelay, Phase,
             SendsBounded, DelayBounded, Exhausted
<1>2. IInv /\ [Next]_vars => IInv'
  <2> SUFFICES ASSUME IInv, [Next]_vars PROVE IInv'
    OBVIOUS
  <2> USE DEF IInv
  <2>1. /\ opt.mode \in {"fixed", "exponential"} /\ opt.delay \in Nat /\ opt.maxDelay \in Nat /\ opt.maxRetry \in Nat
        /\ ctx.attempts \in Nat /\ ctx.delay \in Nat \cup {-1} /\ sends \in Nat \ {0}
    BY DEF TypeOK, Options, Context, Delay, NoDelay
  <2>2. CASE Return
    BY <2>2 DEF Return, TypeOK, Phase, CountInv, DelayInv, SendsBounded, DelayBounded
  <2>3. CASE Throw
    <3>1. /\ ctx' \in Context /\ ctx'.attempts >= ctx.attempts + 2
          /\ Exhausted(opt, ctx) => ctx'.delay = NoDelay
          /\ ctx'.delay = NoDelay => Exhausted(opt, ctx')
          /\ ctx'.delay # NoDelay =>
               IF opt.mode = "fixed" THEN ctx'.delay = ctx.delay ELSE ctx'.delay <= 2 * opt.maxDelay
          /\ ctx'.attempts # 0
      BY <2>3, UpdateFacts DEF Throw, TypeOK, DelayInv
    <3>2. ctx'.attempts \in Nat /\ ctx'.delay \in Nat \cup {-1}
      BY <3>1 DEF Context, Delay, NoDelay
    <3>3. /\ phase = "sending" /\ opt' = opt /\ sends' = sends
          /\ phase' = IF ctx'.delay = NoDelay THEN "rethrown" ELSE "delaying"
      BY <2>3 DEF Throw
    <3>4. TypeOK'
      BY <3>1, <3>3 DEF TypeOK, Phase
    <3>5. CountInv'
      BY <2>1, <3>1, <3>2, <3>3 DEF CountInv, SendsBounded, Exhausted
    <3>6. DelayInv'
      BY <2>1, <3>1, <3>2, <3>3 DEF DelayInv, DelayBounded, NoDelay
    <3>7. QED  BY <3>4, <3>5, <3>6
  <2>4. CASE Again
    BY <2>1, <2>4 DEF Again, TypeOK, Phase, CountInv, DelayInv, SendsBounded, DelayBounded
  <2>5. CASE UNCHANGED vars
    BY <2>5 DEF vars, TypeOK, CountInv, DelayInv, SendsBounded, DelayBounded
  <2>6. QED  BY <2>2, <2>3, <2>4, <2>5 DEF Next
<1>3. QED  BY <1>1, <1>2, PTL DEF Spec

\* A request is sent at most max_retry / 2 + 2 times.
THEOREM SendsAreBounded == Spec => []SendsBounded
<1>1. IInv => SendsBounded
  BY DEF IInv, CountInv
<1>2. QED  BY <1>1, Invariance, PTL

\* No delay exceeds the first one or twice max_delay.
THEOREM DelaysAreBounded == Spec => []DelayBounded
<1>1. IInv => DelayBounded
  BY DEF IInv, DelayInv
<1>2. QED  BY <1>1, Invariance, PTL

\* What is read from an empty optional never reaches a delay.
THEOREM GarbageNeverShows == Spec => []GarbageIsDropped
<1>1. ASSUME IInv, NEW c \in UpdateDelay(opt, ctx), NEW d \in UpdateDelay(opt, ctx) PROVE c = d
  <2>1. opt.maxRetry \in Nat /\ ctx.attempts \in Nat
    BY <1>1 DEF IInv, TypeOK, Options, Context
  <2>2. CASE Exhausted(opt, ctx)
    <3>1. ASSUME NEW e \in ExponentialNext(opt, ctx)
          PROVE  FixedNext(opt, e) = [attempts |-> ctx.attempts + 2, delay |-> NoDelay]
      BY <2>1, <2>2 DEF ExponentialNext, FixedNext, Exhausted
    <3>2. QED  BY <3>1 DEF UpdateDelay
  <2>3. CASE ~Exhausted(opt, ctx)
    <3>1. ctx.delay # NoDelay
      BY <1>1, <2>3 DEF IInv, DelayInv
    <3>2. \A e, f \in ExponentialNext(opt, ctx) : e = f
      BY <2>3, <3>1 DEF ExponentialNext
    <3>3. QED  BY <3>2 DEF UpdateDelay
  <2>4. QED  BY <2>2, <2>3
<1>2. IInv => GarbageIsDropped
  BY <1>1 DEF GarbageIsDropped
<1>3. QED  BY <1>2, Invariance, PTL
=============================================================================
