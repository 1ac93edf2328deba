------------------------------- MODULE ToolCall -------------------------------
(***************************************************************************)
(* One tool call on its way upstream: api_server._send around              *)
(* http_client.execute.  execute() repeats a request after 502/503/504 or  *)
(* no connection, waits once for a 429, and _send starts a second execute()*)
(* with a rebuilt request when an OAuth2 call got 401.  The API answers    *)
(* whatever it likes each time.                                            *)
(***************************************************************************)
EXTENDS Integers

CONSTANTS Methods,     \* the methods of the tools
          Idempotent,  \* IDEMPOTENT_METHODS
          MaxRetries,  \* MAX_RETRIES
          RetryDelay,  \* retry_delay, in seconds
          Retries,     \* the values of --retry to consider
          Caps,        \* the values of wait_on_429 to consider; 0 is off
          Delays       \* the seconds a Retry-After header may ask for

ASSUME MethodAssumption == Idempotent \subseteq Methods
ASSUME RetryAssumption ==
  MaxRetries \in Nat /\ RetryDelay \in Nat /\ Retries \subseteq Int
ASSUME WaitAssumption == Caps \subseteq Nat /\ Delays \subseteq Nat

VARIABLES
  config,    \* method, retry, wait_on_429 and whether auth is OAuth2
  pc,        \* where the call is in _send() and execute()
  round,     \* 1: the first execute(), 2: the one after a 401
  attempt,   \* attempt
  waited,    \* waited_429
  hooked,    \* whether the request hooks saw the current request
  result,    \* the last result: status, and the Retry-After header
  stream,    \* how the last answer came in
  sends,     \* history: requests that reached the API
  bare,      \* history: those the request hooks did not see
  slept,     \* history: seconds slept in execute()
  first,     \* history: status of the first execute(), once it returned
  audited    \* history: status in the call's audit line, or NoStatus

vars == <<config, pc, round, attempt, waited, hooked, result, stream, sends, bare,
          slept, first, audited>>

NoStatus == -1
Unreachable == 0       \* connection failed or timed out
MutantOnlyGateway == {502, 503, 504}

(* RETRYABLE_STATUS, and status 0 *)
Retryable == {502, 503, 504, Unreachable}
Statuses == {Unreachable, 200, 401, 404, 429, 502, 503, 504}

(* the forms of Retry-After that _retry_after_seconds tells apart *)
NoHeader == -1
HttpDate == -2

Result == [status : {NoStatus} \cup Statuses, retryAfter : Delays \cup {NoHeader, HttpDate}]

(* An answer comes in whole, or it breaks: as a compressed body that is corrupt or
   cut short, as a body shorter than announced, as an error page that stalls.  (A
   connection lost before or inside a success is status 0.) *)
Broken == {"corrupt", "cut deflate", "cut gzip", "short body", "stalled page"}
Compressed == {"corrupt", "cut deflate", "cut gzip"}

(* What _decode_payload catches and reports raw: OSError and zlib.error.  A gzip
   stream cut short is an EOFError, and the last two break before it is called,
   where _execute_once does not catch what they raise. *)
ReportedRaw == {"corrupt", "cut deflate"}
Uncaught == Broken \ ReportedRaw

Larger(a, b) == IF a > b THEN a ELSE b
Smaller(a, b) == IF a < b THEN a ELSE b

MutantUncapped == Larger(0, config.retry)

(* `attempts = max(0, min(retry, MAX_RETRIES))` *)
Attempts == Larger(0, Smaller(config.retry, MaxRetries))

Init ==
  /\ config \in [method : Methods, retry : Retries, cap : Caps, oauth : BOOLEAN]
  /\ pc = "build"
  /\ round = 1
  /\ attempt = 0
  /\ waited = FALSE
  /\ hooked = FALSE
  /\ result = [status |-> NoStatus, retryAfter |-> NoHeader]
  /\ stream = "whole"
  /\ sends = 0
  /\ bare = 0
  /\ slept = 0
  /\ first = NoStatus
  /\ audited = NoStatus

-------------------------------------------------------------------------------
(* _send(): build the request; the hooks see it before the first execute(), not
   when it is rebuilt after a 401 *)

Build ==
  /\ pc = "build"
  /\ hooked' = (round = 1)
  /\ attempt' = 0
  /\ waited' = FALSE
  /\ pc' = "try"
  /\ UNCHANGED <<config, round, result, stream, sends, bare, slept, first, audited>>

(* build_request raises RequestError: an argument it cannot place, a credential
   that is not set, a token that cannot be fetched *)
BuildFails ==
  /\ pc = "build"
  /\ pc' = "refused"
  /\ UNCHANGED <<config, round, attempt, waited, hooked, result, stream, sends, bare,
                 slept, first, audited>>

(* execute(): after the rate limiter, the request leaves and is answered; a body
   that cannot be decompressed is reported as it came *)
Send ==
  /\ pc = "try"
  /\ sends' = sends + 1
  /\ bare' = IF hooked THEN bare ELSE bare + 1
  /\ result' \in [status : Statuses, retryAfter : Delays \cup {NoHeader, HttpDate}]
  /\ stream' \in {"whole"} \cup ReportedRaw
  /\ result'.status = Unreachable => stream' = "whole"
  /\ pc' = "decide"
  /\ UNCHANGED <<config, round, attempt, waited, hooked, slept, first, audited>>

(* ... or the answer breaks in a way neither _decode_payload nor _execute_once
   catches, and the exception leaves execute() and _send *)
SendRaises ==
  /\ pc = "try"
  /\ sends' = sends + 1
  /\ bare' = IF hooked THEN bare ELSE bare + 1
  /\ stream' \in Uncaught
  /\ pc' = "raised"
  /\ UNCHANGED <<config, round, attempt, waited, hooked, result, slept, first, audited>>

(* a GET that the response cache answers *)
ServeFromCache ==
  /\ pc = "try"
  /\ config.method = "GET"
  /\ result' = [status |-> 200, retryAfter |-> NoHeader]
  /\ stream' = "whole"
  /\ pc' = "decide"
  /\ UNCHANGED <<config, round, attempt, waited, hooked, sends, bare, slept, first,
                 audited>>

MutantAnyMethod == TRUE

Repeatable == config.method \in Idempotent

RetryAfter == IF result.retryAfter = NoHeader THEN RetryDelay ELSE result.retryAfter

MutantWaitAgain == FALSE

AlreadyWaited == waited

MutantLongWait == result.retryAfter # HttpDate

WithinCap == result.retryAfter # HttpDate /\ RetryAfter <= config.cap

MustWait ==
  /\ result.status = 429
  /\ ~AlreadyWaited
  /\ config.cap > 0
  /\ Repeatable
  /\ WithinCap

MustRetry ==
  /\ ~MustWait
  /\ attempt < Attempts
  /\ result.status \in Retryable
  /\ Repeatable

Wait429 ==
  /\ pc = "decide"
  /\ MustWait
  /\ slept' = slept + RetryAfter
  /\ waited' = TRUE
  /\ pc' = "try"
  /\ UNCHANGED <<config, round, attempt, hooked, result, stream, sends, bare, first,
                 audited>>

MutantCountTwo == attempt + 2

NextAttempt == attempt + 1

Retry ==
  /\ pc = "decide"
  /\ MustRetry
  /\ slept' = slept + RetryDelay
  /\ attempt' = NextAttempt
  /\ pc' = "try"
  /\ UNCHANGED <<config, round, waited, hooked, result, stream, sends, bare, first,
                 audited>>

MutantHealAnyway == TRUE

Refused == result.status = 401

SelfHeals == round = 1 /\ Refused /\ config.oauth

MutantOnlyGoodEnds == pc = "decide" /\ ~MustWait /\ result.status \notin Retryable

Settled == pc = "decide" /\ ~MustWait /\ ~MustRetry

(* execute() returns a 401 to _send, which invalidates the token and rebuilds *)
SelfHeal ==
  /\ Settled
  /\ SelfHeals
  /\ round' = 2
  /\ first' = result.status
  /\ pc' = "build"
  /\ UNCHANGED <<config, attempt, waited, hooked, result, stream, sends, bare, slept,
                 audited>>

(* any other result is audited and returned *)
Return ==
  /\ Settled
  /\ ~SelfHeals
  /\ first' = IF round = 1 THEN result.status ELSE first
  /\ audited' = result.status
  /\ pc' = "done"
  /\ UNCHANGED <<config, round, attempt, waited, hooked, result, stream, sends, bare,
                 slept>>

Next ==
  \/ Build \/ BuildFails \/ Send \/ SendRaises \/ ServeFromCache
  \/ Wait429 \/ Retry \/ SelfHeal \/ Return

Spec == Init /\ [][Next]_vars

(* the thread runs, sleeps end, and urllib answers or times out *)
FairSpec == Spec /\ WF_vars(Next)

-------------------------------------------------------------------------------
(* Properties *)

TypeOK ==
  /\ config \in [method : Methods, retry : Retries, cap : Caps, oauth : BOOLEAN]
  /\ pc \in {"build", "try", "decide", "done", "refused", "raised"}
  /\ round \in {1, 2}
  /\ attempt \in 0 .. Attempts
  /\ waited \in BOOLEAN
  /\ hooked \in BOOLEAN
  /\ result \in Result
  /\ stream \in {"whole"} \cup Broken
  /\ sends \in Nat
  /\ bare \in Nat
  /\ slept \in Nat
  /\ first \in {NoStatus} \cup Statuses
  /\ audited \in {NoStatus} \cup Statuses

Rounds == IF config.oauth THEN 2 ELSE 1

(* However the API answers, one tool call sends it no more than one request,
   the retries and one repetition after a 429, and twice that when a 401 makes
   an OAuth2 call start over; --retry beyond MAX_RETRIES changes nothing. *)
RequestsBounded == sends <= Rounds * (Larger(0, Smaller(config.retry, MaxRetries)) + 2)

(* A POST or PATCH reaches the API a second time only after the API refused it
   with a 401, so it is never executed twice by a retry, a wait or a timeout. *)
NeverRepeatedBlindly ==
  sends > 1 /\ config.method \notin Idempotent => first = 401 /\ sends = 2

(* A call gives up on a transient failure only when there was nothing left to
   try: it used all its attempts, or it had already waited, or may not. *)
GivesUpLast ==
  pc = "done" /\ config.method \in Idempotent =>
    /\ result.status \in {Unreachable, 502, 503, 504} => attempt = Attempts
    /\ result.status = 429 => \/ waited \/ config.cap = 0
                              \/ RetryAfter > config.cap \/ result.retryAfter = HttpDate

(* The time a call spends asleep is bounded by its configuration, whatever
   Retry-After the API asks for. *)
SleepBounded ==
  slept <= Rounds * (Larger(0, Smaller(config.retry, MaxRetries)) * RetryDelay + config.cap)

(* The call ends: the retry loop does not go on for ever.  It ends with its last
   result in the audit line, or refused before a request is built; or, which is
   the exemption, with an exception, and then only because the answer was cut or
   stalled where nothing catches it, never because it was corrupt or refused. *)
CallEnds ==
  <>(\/ pc = "done" /\ audited = result.status
     \/ pc = "refused"
     \/ pc = "raised" /\ stream \in {"cut gzip", "short body", "stalled page"})

(* "Broken streams degrade to the raw body (never crash)" (_decode_payload): no
   compressed body, whatever is wrong with it, ends a call with an exception. *)
BrokenStreamDegrades == pc = "raised" => stream \notin Compressed

(* "on_request: see every upstream request" (USAGE, plugins): the API gets no
   request that the hooks were not given. *)
HooksSeeEveryRequest == bare = 0

(* "One JSON line per real API call" (USAGE, --audit-log): a call whose request
   reached the API does not end without a line. *)
EveryCallAudited ==
  pc \in {"done", "refused", "raised"} /\ sends > 0 => audited # NoStatus

(* No call breaks these three promises at once.  This is weaker than each of them,
   so that one counterexample breaks them all: the request that the self-heal
   rebuilt bypasses the hooks, its answer is cut short, and no line is left. *)
SomeCallPromiseKept ==
  HooksSeeEveryRequest \/ BrokenStreamDegrades \/ EveryCallAudited
===============================================================================
