------------------------------ MODULE OAuth2Token ------------------------------
(***************************************************************************)
(* http_client.OAuth2ClientCredentials under the concurrent tool calls of  *)
(* api_server._send: one token in memory, fetched behind a double-checked  *)
(* lock, dropped by whichever call meets a 401, which then asks once more  *)
(* with a fresh token.  headers() reads the two fields without the lock,   *)
(* field by field, and so does this module.                                *)
(***************************************************************************)
EXTENDS Integers, FiniteSets, Sequences

CONSTANTS Threads,         \* the threads that run tool calls
          NoThread,        \* the lock is free
          Forbidden,       \* threads whose calls the API refuses whatever the token
          Lifetimes,       \* the expires_in values the token endpoint gives
          Margin,          \* OAUTH2_REFRESH_MARGIN
          MaxClock,        \* bound on the clock
          MaxCalls,        \* bound on the calls, of all threads together
          MaxRevocations   \* bound on the tokens the server revokes or forgets

ASSUME ThreadAssumption == NoThread \notin Threads /\ Forbidden \subseteq Threads
ASSUME TimeAssumption == Lifetimes \subseteq Nat /\ Margin \in Nat
ASSUME BoundAssumption == MaxClock \in Nat /\ MaxCalls \in Nat /\ MaxRevocations \in Nat

VARIABLES
  clock,      \* self._clock()
  lock,       \* self._lock
  token,      \* self._token: NoToken or the serial number of a token
  expiresAt,  \* self._expires_at
  pc,         \* where each thread is in _send() and headers()
  attempt,    \* 1: first request of the call, 2: the one after a 401
  got,        \* the token endpoint's answer to the thread that fetches
  header,     \* the token in the request's Authorization header
  refused,    \* history: the token of the call's first request, when it got 401
  calls,      \* history: calls begun
  outcome,    \* history: how the thread's last call ended
  issued,     \* the server: how many tokens it has issued
  revoked,    \* the server: tokens it no longer accepts
  lifeEnd,    \* history: the _expires_at computed for each token, 0 until it is
  dropped     \* history: tokens removed by invalidate()

client == <<lock, token, expiresAt, got, lifeEnd, dropped>>
server == <<issued, revoked>>
call == <<attempt, header, refused, calls, outcome>>
vars == <<clock, client, server, call, pc>>

NoToken == 0

NoGrant == [token |-> NoToken, ttl |-> 0]

Init ==
  /\ clock = 0
  /\ lock = NoThread
  /\ token = NoToken
  /\ expiresAt = 0
  /\ pc = [t \in Threads |-> "idle"]
  /\ attempt = [t \in Threads |-> 1]
  /\ got = [t \in Threads |-> NoGrant]
  /\ header = [t \in Threads |-> NoToken]
  /\ refused = [t \in Threads |-> NoToken]
  /\ calls = 0
  /\ outcome = [t \in Threads |-> "none"]
  /\ issued = 0
  /\ revoked = {}
  /\ lifeEnd = <<>>
  /\ dropped = {}

Goto(t, label) == pc' = [pc EXCEPT ![t] = label]

(* the call is over, and its locals with it *)
Finish(t, how) ==
  /\ Goto(t, "idle")
  /\ attempt' = [attempt EXCEPT ![t] = 1]
  /\ refused' = [refused EXCEPT ![t] = NoToken]
  /\ outcome' = [outcome EXCEPT ![t] = how]

-------------------------------------------------------------------------------
(* The server's side: any token may stop being accepted at any time, and the
   API accepts a token it issued and has not revoked. *)

Revoke ==
  /\ Cardinality(revoked) < MaxRevocations
  /\ \E k \in (1 .. issued) \ revoked : revoked' = revoked \cup {k}
  /\ UNCHANGED <<clock, client, issued, call, pc>>

Accepts(t) == t \notin Forbidden /\ header[t] \in (1 .. issued) \ revoked

Tick ==
  /\ clock < MaxClock
  /\ clock' = clock + 1
  /\ UNCHANGED <<client, server, call, pc>>

-------------------------------------------------------------------------------
(* headers(), called by build_request.  As in RateLimiter, a Mutant...
   definition is a plausible bug in the definition after it. *)

Begin(t) ==
  /\ pc[t] = "idle"
  /\ calls < MaxCalls
  /\ calls' = calls + 1
  /\ outcome' = [outcome EXCEPT ![t] = "none"]
  /\ header' = [header EXCEPT ![t] = NoToken]
  /\ Goto(t, "check_token")
  /\ UNCHANGED <<clock, client, server, attempt, refused>>

NearExpiry == clock > expiresAt - Margin

(* the first check, `self._token is None or ...`: two reads without the lock *)
CheckToken(t) ==
  /\ pc[t] = "check_token"
  /\ Goto(t, IF token = NoToken THEN "lock" ELSE "check_expiry")
  /\ UNCHANGED <<clock, client, server, call>>

CheckExpiry(t) ==
  /\ pc[t] = "check_expiry"
  /\ Goto(t, IF NearExpiry THEN "lock" ELSE "present")
  /\ UNCHANGED <<clock, client, server, call>>

MutantFetchUnchecked == TRUE

MustFetch == token = NoToken \/ NearExpiry

(* the second check, under the lock; when it finds a good token the lock is
   released at once *)
EnterLock(t) ==
  /\ pc[t] = "lock"
  /\ lock = NoThread
  /\ IF MustFetch
       THEN lock' = t /\ Goto(t, "fetch")
       ELSE UNCHANGED lock /\ Goto(t, "present")
  /\ UNCHANGED <<clock, token, expiresAt, got, lifeEnd, dropped, server, call>>

(* _fetch(): the token endpoint answers with a new token ... *)
Issue(t) ==
  /\ pc[t] = "fetch"
  /\ issued' = issued + 1
  /\ lifeEnd' = Append(lifeEnd, 0)
  /\ \E ttl \in Lifetimes : got' = [got EXCEPT ![t] = [token |-> issued + 1, ttl |-> ttl]]
  /\ Goto(t, "store_token")
  /\ UNCHANGED <<clock, lock, token, expiresAt, dropped, revoked, call>>

MutantKeepLock == UNCHANGED lock

Release == lock' = NoThread

(* ... or is unreachable or refuses: RequestError leaves headers() and the
   call, and the `with` block releases the lock *)
FetchFails(t) ==
  /\ pc[t] = "fetch"
  /\ Release
  /\ Finish(t, "fetch_failed")
  /\ UNCHANGED <<clock, token, expiresAt, got, lifeEnd, dropped, server,
                 header, calls>>

MutantWrongField(t) == got[t].ttl

AccessToken(t) == got[t].token

StoreToken(t) ==
  /\ pc[t] = "store_token"
  /\ token' = AccessToken(t)
  /\ Goto(t, "store_expiry")
  /\ UNCHANGED <<clock, lock, expiresAt, got, lifeEnd, dropped, server, call>>

Lifetime(ttl) == IF ttl < 1 THEN 1 ELSE ttl

StoreExpiry(t) ==
  /\ pc[t] = "store_expiry"
  /\ expiresAt' = clock + Lifetime(got[t].ttl)
  /\ lifeEnd' = [lifeEnd EXCEPT ![got[t].token] = clock + Lifetime(got[t].ttl)]
  /\ got' = [got EXCEPT ![t] = NoGrant]
  /\ Release
  /\ Goto(t, "present")
  /\ UNCHANGED <<clock, token, dropped, server, call>>

(* after the lock: `if self._token is None: raise`, then the header is built
   from a second read of the field *)
Present(t) ==
  /\ pc[t] = "present"
  /\ token # NoToken
  /\ Goto(t, "read_header")
  /\ UNCHANGED <<clock, client, server, call>>

NoTokenAfterAll(t) ==
  /\ pc[t] = "present"
  /\ token = NoToken
  /\ Finish(t, "no_token")
  /\ UNCHANGED <<clock, client, server, header, calls>>

ReadHeader(t) ==
  /\ pc[t] = "read_header"
  /\ header' = [header EXCEPT ![t] = token]
  /\ Goto(t, "send")
  /\ UNCHANGED <<clock, client, server, attempt, refused, calls, outcome>>

-------------------------------------------------------------------------------
(* _send(): the request, and after a first 401 invalidate() and one more *)

Answered(t) ==
  /\ pc[t] = "send"
  /\ Accepts(t)
  /\ Finish(t, "answered")
  /\ UNCHANGED <<clock, client, server, header, calls>>

MutantRetryAtOnce == "check_token"

AfterFirstRefusal == "drop_token"

FirstRefusal(t) ==
  /\ pc[t] = "send"
  /\ ~Accepts(t)
  /\ attempt[t] = 1
  /\ refused' = [refused EXCEPT ![t] = header[t]]
  /\ attempt' = [attempt EXCEPT ![t] = 2]
  /\ Goto(t, AfterFirstRefusal)
  /\ UNCHANGED <<clock, client, server, header, calls, outcome>>

SecondRefusal(t) ==
  /\ pc[t] = "send"
  /\ ~Accepts(t)
  /\ attempt[t] = 2
  /\ Finish(t, "unauthorized")
  /\ UNCHANGED <<clock, client, server, header, calls>>

MutantDropUnlocked(t) == lock' = t

Acquire(t) == lock = NoThread /\ lock' = t

(* invalidate(): the two writes, under the lock *)
DropToken(t) ==
  /\ pc[t] = "drop_token"
  /\ Acquire(t)
  /\ token' = NoToken
  /\ dropped' = dropped \cup ({token} \ {NoToken})
  /\ Goto(t, "drop_expiry")
  /\ UNCHANGED <<clock, expiresAt, got, lifeEnd, server, call>>

DropExpiry(t) ==
  /\ pc[t] = "drop_expiry"
  /\ expiresAt' = 0
  /\ Release
  /\ Goto(t, "check_token")
  /\ UNCHANGED <<clock, token, got, lifeEnd, dropped, server, call>>

-------------------------------------------------------------------------------
Headers(t) ==
  \/ CheckToken(t) \/ CheckExpiry(t) \/ EnterLock(t) \/ Issue(t) \/ FetchFails(t)
  \/ StoreToken(t) \/ StoreExpiry(t) \/ Present(t) \/ NoTokenAfterAll(t) \/ ReadHeader(t)

SelfHeal(t) ==
  \/ Answered(t) \/ FirstRefusal(t) \/ SecondRefusal(t)
  \/ DropToken(t) \/ DropExpiry(t)

Next ==
  \/ Tick
  \/ Revoke
  \/ \E t \in Threads : Begin(t) \/ Headers(t) \/ SelfHeal(t)

Spec == Init /\ [][Next]_vars

(* Threads run, and both servers answer or time out (--timeout is always set).
   Nothing obliges a client to call, a token to be revoked or time to pass. *)
Fairness == \A t \in Threads : WF_vars(Headers(t) \/ SelfHeal(t))

FairSpec == Spec /\ Fairness

-------------------------------------------------------------------------------
(* Properties *)

Labels == {"idle", "check_token", "check_expiry", "lock", "fetch", "store_token",
           "store_expiry", "present", "read_header", "send", "drop_token", "drop_expiry"}

TypeOK ==
  /\ clock \in Nat
  /\ lock \in Threads \cup {NoThread}
  /\ token \in 0 .. issued
  /\ expiresAt \in Nat
  /\ pc \in [Threads -> Labels]
  /\ attempt \in [Threads -> {1, 2}]
  /\ got \in [Threads -> [token : 0 .. issued, ttl : Lifetimes \cup {0}]]
  /\ header \in [Threads -> 0 .. issued]
  /\ refused \in [Threads -> 0 .. issued]
  /\ calls \in Nat
  /\ outcome \in [Threads -> {"none", "answered", "unauthorized", "fetch_failed", "no_token"}]
  /\ issued \in Nat
  /\ revoked \subseteq 1 .. issued
  /\ lifeEnd \in [1 .. issued -> Nat]
  /\ dropped \subseteq 1 .. issued

(* The double-checked lock keeps concurrent calls from each fetching a token:
   every token but the newest was replaced for a reason of its own, an
   invalidate() that removed it or the refresh margin before its expiry. *)
FetchedForAReason ==
  \A k \in 1 .. issued - 1 : k \in dropped \/ clock > lifeEnd[k] - Margin

(* headers() compares the clock with the expiry of the token it is about to
   use: whenever nobody is inside the lock, the two fields belong together. *)
FieldsAgree ==
  lock = NoThread => expiresAt = (IF token = NoToken THEN 0 ELSE lifeEnd[token])

(* The second request of a call never carries the token the first one was
   refused with, however many calls drop and fetch tokens meanwhile. *)
RetryCarriesAnotherToken ==
  \A t \in Threads :
    pc[t] = "send" /\ attempt[t] = 2 /\ refused[t] # NoToken => header[t] # refused[t]

(* Every call ends, with an answer or an error: no failure of the token
   endpoint leaves the lock behind, and the self-heal does not go round. *)
CallsEnd == \A t \in Threads : pc[t] # "idle" ~> pc[t] = "idle"

(* "a second 401 is a real authorization problem" (_send): the API refuses the
   client, or the fresh token was revoked as well.  Another call's
   invalidate() between the two reads after the lock makes it false. *)
SecondRefusalIsReal ==
  \A t \in Threads :
    outcome[t] = "unauthorized" => t \in Forbidden \/ header[t] \in revoked
===============================================================================
