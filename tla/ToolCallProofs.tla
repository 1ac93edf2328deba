---------------------------- MODULE ToolCallProofs ----------------------------
(***************************************************************************)
(* The bounds of one tool call, for every --retry, wait and Retry-After:   *)
(* how often it is sent, how long it sleeps, and that a POST is never      *)
(* repeated behind the API's back.                                         *)
(***************************************************************************)
EXTENDS ToolCall, TLAPS

(* the most one execute() can send, and sleep *)
SendShare == Attempts + 2
SleepShare == Attempts * RetryDelay + config.cap

(* what earlier rounds may have used up *)
Before(share) == IF round = 2 THEN share ELSE 0

Past == IF pc \in {"decide", "done", "refused", "raised"} THEN 1 ELSE 0
Wait == IF waited THEN 1 ELSE 0

(* In each execute() a request is sent once for the call itself, once for every
   retry counted in `attempt` and once if `waited_429` was set. *)
CallInv ==
  /\ round = 2 => config.oauth /\ first = 401
  /\ pc = "build" =>
       /\ sends <= Before(SendShare)
       /\ slept <= Before(SleepShare)
       /\ config.method \notin Idempotent => attempt = 0 /\ ~waited /\ sends <= round - 1
  /\ pc \in {"try", "decide", "done", "refused", "raised"} =>
       /\ sends <= Before(SendShare) + attempt + Wait + Past
       /\ slept <= Before(SleepShare) + attempt * RetryDelay + Wait * config.cap
       /\ config.method \notin Idempotent =>
            attempt = 0 /\ ~waited /\ sends <= round - 1 + Past
  /\ pc = "done" => ~MustWait /\ ~MustRetry

(* --retry is capped: no configuration asks for a negative number of retries or
   for more than MAX_RETRIES. *)
LEMMA AttemptsBounded ==
  ASSUME config.retry \in Int
  PROVE  Attempts \in 0 .. MaxRetries
  BY RetryAssumption DEF Attempts, Larger, Smaller

(* A wait for a 429 is for a number of seconds within the cap. *)
LEMMA WaitBounded ==
  ASSUME TypeOK, MustWait
  PROVE  RetryAfter \in Nat /\ RetryAfter <= config.cap
<1>1. result.retryAfter \in Delays \cup {NoHeader, HttpDate}
  BY DEF TypeOK, Result
<1>2. result.retryAfter # HttpDate /\ RetryAfter <= config.cap
  BY DEF MustWait, WithinCap
<1>3. RetryAfter \in Nat
  BY <1>1, <1>2, RetryAssumption, WaitAssumption DEF RetryAfter
<1> QED
  BY <1>2, <1>3

(* The loop variables, the counters and the result keep their types; `attempt`
   never passes the capped number of retries. *)
THEOREM TypeCorrect == Spec => []TypeOK
<1> USE RetryAssumption, WaitAssumption
<1>1. Init => TypeOK
  <2> SUFFICES ASSUME Init PROVE TypeOK
    OBVIOUS
  <2>1. config.retry \in Int
    BY DEF Init
  <2>2. 0 \in 0 .. Attempts
    BY <2>1, AttemptsBounded
  <2>3. result \in Result
    BY DEF Init, Result, NoStatus, NoHeader, HttpDate
  <2> QED
    BY <2>2, <2>3 DEF Init, TypeOK
<1>2. TypeOK /\ [Next]_vars => TypeOK'
  <2> SUFFICES ASSUME TypeOK, [Next]_vars PROVE TypeOK'
    OBVIOUS
  <2>0. Attempts \in Nat /\ Attempts' = Attempts
    <3>1. config' = config
      BY DEF Next, Build, BuildFails, Send, SendRaises, ServeFromCache, Wait429, Retry, SelfHeal,
             Return, vars
    <3>2. config.retry \in Int
      BY DEF TypeOK
    <3> QED
      BY <3>1, <3>2, AttemptsBounded DEF Attempts
  <2>1. CASE Build
    <3>1. hooked' \in BOOLEAN
      BY <2>1 DEF Build
    <3>2. /\ attempt' = 0 /\ waited' = FALSE /\ pc' = "try"
          /\ UNCHANGED <<config, round, result, stream, sends, bare, slept, first, audited>>
      BY <2>1 DEF Build
    <3>3. attempt' \in 0 .. Attempts'
      BY <2>0, <3>2
    <3> QED
      BY <3>1, <3>2, <3>3 DEF TypeOK
  <2>2. CASE BuildFails
    BY <2>0, <2>2 DEF BuildFails, TypeOK
  <2>3. CASE Send
    <3>1. result' \in Result /\ stream' \in {"whole"} \cup Broken
      BY <2>3 DEF Send, Result, ReportedRaw, Broken
    <3> QED
      BY <2>0, <2>3, <3>1 DEF Send, TypeOK
  <2>10. CASE SendRaises
    <3>1. stream' \in {"whole"} \cup Broken
      BY <2>10 DEF SendRaises, Uncaught
    <3> QED
      BY <2>0, <2>10, <3>1 DEF SendRaises, TypeOK
  <2>4. CASE ServeFromCache
    <3>1. result' \in Result /\ stream' = "whole"
      BY <2>4 DEF ServeFromCache, Result, Statuses, NoHeader
    <3> QED
      BY <2>0, <2>4, <3>1 DEF ServeFromCache, TypeOK
  <2>5. CASE Wait429
    <3>1. RetryAfter \in Nat
      BY <2>5, WaitBounded DEF Wait429
    <3>2. slept + RetryAfter \in Nat
      BY <3>1 DEF TypeOK
    <3> QED
      BY <2>0, <2>5, <3>2 DEF Wait429, TypeOK
  <2>6. CASE Retry
    BY <2>0, <2>6 DEF Retry, MustRetry, NextAttempt, TypeOK
  <2>7. CASE SelfHeal
    BY <2>0, <2>7 DEF SelfHeal, SelfHeals, Refused, TypeOK, Statuses
  <2>8. CASE Return
    <3>1. pc = "decide" /\ result.status \in {NoStatus} \cup Statuses
      BY <2>8 DEF Return, Settled, TypeOK, Result
    <3> QED
      BY <2>0, <2>8, <3>1 DEF Return, TypeOK
  <2>9. CASE UNCHANGED vars
    BY <2>0, <2>9 DEF vars, TypeOK
  <2> QED
    BY <2>1, <2>2, <2>3, <2>4, <2>5, <2>6, <2>7, <2>8, <2>9, <2>10 DEF Next
<1> QED
  BY <1>1, <1>2, PTL DEF Spec

-------------------------------------------------------------------------------
(* The shares are natural numbers, and no step changes them: the configuration
   of a call is fixed. *)
LEMMA Shares ==
  ASSUME TypeOK, [Next]_vars
  PROVE  /\ Attempts \in Nat /\ Attempts' = Attempts
         /\ SendShare \in Nat /\ SendShare' = SendShare
         /\ SleepShare \in Nat /\ SleepShare' = SleepShare
         /\ config' = config /\ config.cap \in Nat
<1>1. config' = config
  BY DEF Next, Build, BuildFails, Send, SendRaises, ServeFromCache, Wait429, Retry, SelfHeal,
         Return, vars
<1>2. config.retry \in Int /\ config.cap \in Nat
  BY RetryAssumption, WaitAssumption DEF TypeOK
<1>3. Attempts \in Nat /\ Attempts' = Attempts
  BY <1>1, <1>2, AttemptsBounded, RetryAssumption DEF Attempts
<1>4. Attempts * RetryDelay \in Nat
  BY <1>3, RetryAssumption
<1> QED
  BY <1>1, <1>2, <1>3, <1>4 DEF SendShare, SleepShare

(* Every step keeps the accounts of CallInv. *)
THEOREM CallCorrect == Spec => []CallInv
<1>1. Init => CallInv
  BY DEF Init, CallInv, Before
<1>2. TypeOK /\ CallInv /\ [Next]_vars => CallInv'
  <2> SUFFICES ASSUME TypeOK, CallInv, [Next]_vars PROVE CallInv'
    OBVIOUS
  <2>0. /\ Attempts \in Nat /\ Attempts' = Attempts
        /\ SendShare \in Nat /\ SendShare' = SendShare
        /\ SleepShare \in Nat /\ SleepShare' = SleepShare
        /\ config' = config /\ config.cap \in Nat
        /\ RetryDelay \in Nat
    BY Shares, RetryAssumption
  <2>00. /\ sends \in Nat /\ slept \in Nat /\ attempt \in 0 .. Attempts
         /\ round \in {1, 2} /\ waited \in BOOLEAN
    BY DEF TypeOK
  <2>1. CASE Build
    <3>1. 0 * RetryDelay = 0 /\ 0 * config.cap = 0
      BY <2>0
    <3> QED
      BY <2>0, <2>00, <2>1, <3>1 DEF Build, CallInv, Before, Past, Wait
  <2>2. CASE BuildFails
    <3>1. attempt * RetryDelay \in Nat /\ Wait * config.cap \in Nat /\ Wait \in Nat
      BY <2>0, <2>00 DEF Wait
    <3>2. Wait' = Wait
      BY <2>2 DEF BuildFails, Wait
    <3>3. ~waited => Wait = 0
      BY DEF Wait
    <3>4. Before(SendShare)' = Before(SendShare) /\ Before(SleepShare)' = Before(SleepShare)
      BY <2>0, <2>2 DEF BuildFails, Before
    <3>5. Before(SendShare) \in Nat /\ Before(SleepShare) \in Nat
      BY <2>0 DEF Before
    <3> QED
      BY <2>0, <2>00, <2>2, <3>1, <3>2, <3>3, <3>4, <3>5 DEF BuildFails, CallInv, Past
  <2>3. CASE Send
    BY <2>0, <2>00, <2>3 DEF Send, CallInv, Before, Past, Wait
  <2>10. CASE SendRaises
    BY <2>0, <2>00, <2>10 DEF SendRaises, CallInv, Before, Past, Wait
  <2>4. CASE ServeFromCache
    BY <2>0, <2>00, <2>4 DEF ServeFromCache, CallInv, Before, Past, Wait
  <2>5. CASE Wait429
    <3>1. RetryAfter \in Nat /\ RetryAfter <= config.cap
      BY <2>5, WaitBounded DEF Wait429
    <3>2. ~waited /\ waited' = TRUE /\ config.method \in Idempotent
      BY <2>5 DEF Wait429, MustWait, AlreadyWaited, Repeatable
    <3>3. 0 * config.cap = 0 /\ 1 * config.cap = config.cap
      BY <2>0
    <3> QED
      BY <2>0, <2>00, <2>5, <3>1, <3>2, <3>3 DEF Wait429, CallInv, Before, Past, Wait
  <2>6. CASE Retry
    <3>1. (attempt + 1) * RetryDelay = attempt * RetryDelay + RetryDelay
      BY <2>0, <2>00
    <3>2. config.method \in Idempotent
      BY <2>6 DEF Retry, MustRetry, Repeatable
    <3> QED
      BY <2>0, <2>00, <2>6, <3>1, <3>2
         DEF Retry, NextAttempt, CallInv, Before, Past, Wait
  <2>7. CASE SelfHeal
    <3>1. round = 1 /\ config.oauth /\ result.status = 401 /\ pc = "decide"
      BY <2>7 DEF SelfHeal, SelfHeals, Refused, Settled
    <3>2. attempt * RetryDelay <= Attempts * RetryDelay
      BY <2>0, <2>00
    <3>3. Wait * config.cap <= config.cap /\ Wait * config.cap \in Nat
      BY <2>0 DEF Wait
    <3>4. attempt * RetryDelay \in Nat /\ Attempts * RetryDelay \in Nat
      BY <2>0, <2>00
    <3>5. sends <= SendShare
      BY <2>0, <2>00, <3>1 DEF CallInv, Before, Past, Wait, SendShare
    <3>6. slept <= SleepShare
      BY <2>0, <2>00, <3>1, <3>2, <3>3, <3>4 DEF CallInv, Before, SleepShare
    <3> QED
      BY <2>0, <2>00, <2>7, <3>1, <3>5, <3>6 DEF SelfHeal, CallInv, Before, Past, Wait
  <2>8. CASE Return
    <3>1. pc = "decide" /\ ~MustWait /\ ~MustRetry
      BY <2>8 DEF Return, Settled
    <3>2. ~MustWait' /\ ~MustRetry'
      BY <2>8, <2>0, <3>1 DEF Return, MustWait, MustRetry, AlreadyWaited, Repeatable,
         WithinCap, RetryAfter, Attempts
    <3> QED
      BY <2>0, <2>00, <2>8, <3>1, <3>2 DEF Return, CallInv, Before, Past, Wait
  <2>9. CASE UNCHANGED vars
    BY <2>0, <2>9 DEF vars, CallInv, Before, Past, Wait, MustWait, MustRetry,
       AlreadyWaited, Repeatable, WithinCap, RetryAfter
  <2> QED
    BY <2>1, <2>2, <2>3, <2>4, <2>5, <2>6, <2>7, <2>8, <2>9, <2>10 DEF Next
<1> QED
  BY <1>1, <1>2, TypeCorrect, PTL DEF Spec

(* The accounts imply the bounds on what one call may do to the API. *)
LEMMA AccountsBound ==
  TypeOK /\ CallInv => RequestsBounded /\ SleepBounded /\ NeverRepeatedBlindly /\ GivesUpLast
<1> SUFFICES ASSUME TypeOK, CallInv
             PROVE  RequestsBounded /\ SleepBounded /\ NeverRepeatedBlindly /\ GivesUpLast
  OBVIOUS
<1>0. /\ Attempts \in Nat /\ RetryDelay \in Nat /\ config.cap \in Nat
      /\ SendShare \in Nat /\ SleepShare \in Nat
      /\ attempt \in 0 .. Attempts /\ round \in {1, 2} /\ waited \in BOOLEAN
      /\ sends \in Nat /\ slept \in Nat
  <2>1. config.retry \in Int /\ config.cap \in Nat
    BY RetryAssumption, WaitAssumption DEF TypeOK
  <2>2. Attempts \in Nat
    BY <2>1, AttemptsBounded, RetryAssumption
  <2>3. Attempts * RetryDelay \in Nat
    BY <2>2, RetryAssumption
  <2> QED
    BY <2>1, <2>2, <2>3, RetryAssumption DEF TypeOK, SendShare, SleepShare
<1>1. sends <= Before(SendShare) + SendShare
  BY <1>0 DEF TypeOK, CallInv, Before, Past, Wait, SendShare
<1>2. slept <= Before(SleepShare) + SleepShare
  <2>1. attempt * RetryDelay <= Attempts * RetryDelay
        /\ attempt * RetryDelay \in Nat /\ Attempts * RetryDelay \in Nat
    BY <1>0
  <2>2. Wait * config.cap <= config.cap /\ Wait * config.cap \in Nat
    BY <1>0 DEF Wait
  <2> QED
    BY <1>0, <2>1, <2>2 DEF TypeOK, CallInv, Before, SleepShare
<1>3. round = 2 => Rounds = 2
  BY DEF CallInv, Rounds
<1>4. RequestsBounded
  BY <1>0, <1>1, <1>3 DEF RequestsBounded, Before, Rounds, SendShare, Attempts
<1>5. SleepBounded
  BY <1>0, <1>2, <1>3 DEF SleepBounded, Before, Rounds, SleepShare, Attempts
<1>6. NeverRepeatedBlindly
  BY <1>0 DEF NeverRepeatedBlindly, CallInv, Past, TypeOK
<1>7. GivesUpLast
  <2> SUFFICES ASSUME pc = "done", Repeatable
               PROVE  /\ result.status \in {Unreachable, 502, 503, 504} => attempt = Attempts
                      /\ result.status = 429 => \/ waited \/ config.cap = 0
                            \/ RetryAfter > config.cap \/ result.retryAfter = HttpDate
    BY DEF GivesUpLast, Repeatable
  <2>1. ~MustWait /\ ~MustRetry
    BY DEF CallInv
  <2>2. ASSUME result.status \in {Unreachable, 502, 503, 504} PROVE attempt = Attempts
    <3>1. ~(attempt < Attempts)
      BY <2>1, <2>2 DEF MustRetry, MustWait, Retryable, Unreachable
    <3> QED
      BY <3>1, <1>0
  <2>3. ASSUME result.status = 429, ~waited, config.cap # 0, result.retryAfter # HttpDate
        PROVE  RetryAfter > config.cap
    <3>1. config.cap > 0
      BY <1>0, <2>3
    <3>2. ~(RetryAfter <= config.cap)
      BY <2>1, <2>3, <3>1 DEF MustWait, AlreadyWaited, WithinCap
    <3>3. result.retryAfter \in Delays \cup {NoHeader}
      <4>1. result.retryAfter # HttpDate
        BY <2>3
      <4> QED
        BY <4>1 DEF TypeOK, Result
    <3>4. RetryAfter \in Nat
      BY <3>3, RetryAssumption, WaitAssumption DEF RetryAfter
    <3> QED
      BY <1>0, <3>2, <3>4
  <2> QED
    BY <2>2, <2>3
<1> QED
  BY <1>4, <1>5, <1>6, <1>7

(* One tool call sends no more requests than --retry, one honored Retry-After
   and one self-heal account for. *)
THEOREM CallBounded == Spec => []RequestsBounded
  BY AccountsBound, TypeCorrect, CallCorrect, PTL

(* Nor does it sleep longer than the retry delays and one capped Retry-After. *)
THEOREM CallSleepsBounded == Spec => []SleepBounded
  BY AccountsBound, TypeCorrect, CallCorrect, PTL

(* What may have been executed already is not sent again: a request that is
   not idempotent is repeated only by the self-heal of a refused one. *)
THEOREM NoBlindRepeats == Spec => []NeverRepeatedBlindly
  BY AccountsBound, TypeCorrect, CallCorrect, PTL

(* A repeatable call gives up on a passing failure only when its retries, or
   the wait its cap allows, are used up. *)
THEOREM NoEarlySurrender == Spec => []GivesUpLast
  BY AccountsBound, TypeCorrect, CallCorrect, PTL
===============================================================================
