---------------------------- MODULE MCRateLimiter ----------------------------
(* Two threads share the limiter; one of them may call wait() again while the
   other still sleeps off its reservation. *)
EXTENDS RateLimiter
===============================================================================
