----------------------------- MODULE MCRetryLoop -----------------------------
(* Both modes, with options around every boundary the policies test.         *)
EXTENDS RetryLoop

SmallChoices ==
  [mode : {"fixed", "exponential"}, delay : 0 .. 4, maxDelay : 0 .. 4, maxRetry : 0 .. 7]
=============================================================================
