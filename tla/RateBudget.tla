------------------------------ MODULE RateBudget ------------------------------
(***************************************************************************)
(* What --rate-limit promises on average, with nothing said about threads, *)
(* locks or sleeping: counted from the first tick, one request may leave   *)
(* at once and one more for every Interval that has passed.  RateLimiter   *)
(* is shown to implement it.                                               *)
(***************************************************************************)
EXTENDS Integers

CONSTANTS Interval,  \* ticks between two slots: 1/rps
          Start      \* the clock when the limiter is created

VARIABLES clock, departed

Init == clock = Start /\ departed = 0

Pass == clock' > clock /\ UNCHANGED departed

Depart ==
  /\ departed * Interval <= clock - Start
  /\ departed' = departed + 1
  /\ UNCHANGED clock

Next == Pass \/ Depart

Spec == Init /\ [][Next]_<<clock, departed>>
===============================================================================
