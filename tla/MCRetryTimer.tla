---------------------------- MODULE MCRetryTimer ----------------------------
(* TLC instance of RetryTimer alone.  RetryTimerEarly.cfg: the timing of the *)
(* test RetryFails, so that the back-off is 20, 30, 40.                      *)
EXTENDS RetryTimer
=============================================================================
