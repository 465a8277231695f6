-------------------------- MODULE MCClientLifecycle --------------------------
(* Small instances of ClientLifecycle for TLC.                               *)
EXTENDS LifecycleClaims, TLC

CONSTANTS c1, c2, c3, o1, o2

\* The options of the test auto_reconnect: a fixed delay and three attempts.
FixedRetry == [mode |-> "fixed", delay |-> 1, maxDelay |-> 0, maxRetry |-> 3]

\* Options under which the first update leaves no delay.
ExhaustedRetry == [mode |-> "exponential", delay |-> 1, maxDelay |-> 2, maxRetry |-> 0]

Persistent == {[autoReconnect |-> TRUE, reconnectRetry |-> FixedRetry]}
AnyChoice ==
  Persistent \cup {[autoReconnect |-> TRUE, reconnectRetry |-> ExhaustedRetry],
                  [autoReconnect |-> FALSE, reconnectRetry |-> FixedRetry]}

\* The calls are interchangeable, and so are the slots of the operations.
Interchangeable == Permutations(Caller) \cup Permutations(Op)
=============================================================================
