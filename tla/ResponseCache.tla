----------------------------- MODULE ResponseCache -----------------------------
(***************************************************************************)
(* http_client.ResponseCache and the GETs of _execute_once that use it.    *)
(* Each method of the cache is one critical section; between them a thread *)
(* sends its request, and other threads read, fill, evict and clear the    *)
(* same cache.  The resource behind a key changes at any time; its version *)
(* stands for the body, and for the ETag where the API sends one.          *)
(***************************************************************************)
EXTENDS Integers, FiniteSets, Functions

CONSTANTS Threads,     \* the threads that run execute()
          Keys,        \* cache keys: "GET " and the url
          Tagged,      \* the keys whose 200 answers carry an ETag
          Patterns,    \* the sets of keys that an invalidate() pattern matches
          TTL,         \* ttl
          MaxEntries,  \* MAX_CACHE_ENTRIES
          Timeout,     \* the longest a request is under way (--timeout)
          MaxClock,    \* bound on the clock
          MaxVersion,  \* bound on the versions of a resource
          MaxCalls     \* bound on the GETs

ASSUME KeyAssumption ==
  Keys # {} /\ Tagged \subseteq Keys /\ Patterns \subseteq SUBSET Keys
ASSUME TimeAssumption == TTL \in Nat \ {0} /\ Timeout \in Nat
ASSUME SizeAssumption == MaxEntries \in Nat \ {0}
ASSUME BoundAssumption == MaxClock \in Nat /\ MaxVersion \in Nat \ {0} /\ MaxCalls \in Nat

VARIABLES
  clock,      \* time.monotonic()
  store,      \* _store: key -> [expires, version]
  pc,         \* where each thread is in _execute_once
  key,        \* cache_key
  now,        \* get(): the clock as read before the lock
  condition,  \* revalidate_entry: the version kept for If-None-Match, or NoEntry
  answer,     \* the response, or the result that is returned
  asked,      \* history: when the thread's request was sent
  begun,      \* history: when the thread's GET began
  floor,      \* history: least version each call may return, see ClearedStaysCleared
  calls,      \* history: GETs begun
  version,    \* the API: the current version of every resource
  changed,    \* history: when each version of each resource came to be
  cleared     \* history: the version at the last undisturbed invalidate()

local == <<pc, key, now, condition, answer, asked, begun, floor, calls>>
world == <<version, changed>>
vars == <<clock, store, local, world, cleared>>

NoEntry == 0
Nothing == [status |-> "none", version |-> NoEntry]

Init ==
  /\ clock = 0
  /\ store = [k \in {} |-> Nothing]
  /\ pc = [t \in Threads |-> "idle"]
  /\ key = [t \in Threads |-> CHOOSE k \in Keys : TRUE]
  /\ now = [t \in Threads |-> 0]
  /\ condition = [t \in Threads |-> NoEntry]
  /\ answer = [t \in Threads |-> Nothing]
  /\ asked = [t \in Threads |-> 0]
  /\ begun = [t \in Threads |-> 0]
  /\ floor = [t \in Threads |-> 1]
  /\ calls = 0
  /\ version = [k \in Keys |-> 1]
  /\ changed = [k \in Keys |-> [v \in 1 .. MaxVersion |-> 0]]
  /\ cleared = [k \in Keys |-> 1]

Goto(t, label) == pc' = [pc EXCEPT ![t] = label]

(* the call returns, its locals are gone *)
Return(t, result) ==
  /\ Goto(t, "idle")
  /\ answer' = [answer EXCEPT ![t] = result]
  /\ now' = [now EXCEPT ![t] = 0]
  /\ asked' = [asked EXCEPT ![t] = 0]
  /\ condition' = [condition EXCEPT ![t] = NoEntry]

-------------------------------------------------------------------------------
(* The API and the clock.  A tick is long beside local computation, so time
   passes only while every GET under way waits for the network, and none
   waits past its timeout. *)

Change(k) ==
  /\ version[k] < MaxVersion
  /\ version' = [version EXCEPT ![k] = @ + 1]
  /\ changed' = [changed EXCEPT ![k][version[k] + 1] = clock]
  /\ UNCHANGED <<clock, store, local, cleared>>

OnTheWire(t) == pc[t] \in {"sent", "answered"} /\ clock < asked[t] + Timeout

Tick ==
  /\ clock < MaxClock
  /\ \A t \in Threads : pc[t] = "idle" \/ OnTheWire(t)
  /\ clock' = clock + 1
  /\ UNCHANGED <<store, local, world, cleared>>

-------------------------------------------------------------------------------
(* The methods of ResponseCache, as functions of the store.  A Mutant...
   definition is a plausible bug in the definition after it. *)

Live(s, k, at) == k \in DOMAIN s /\ s[k].expires > at

Without(s, K) == Restrict(s, DOMAIN s \ K)

Stored(s, k, v) ==
  [j \in DOMAIN s \cup {k} |->
     IF j = k THEN [expires |-> clock + TTL, version |-> v] ELSE s[j]]

MutantFullLate(s) == Cardinality(DOMAIN s) > MaxEntries

Full(s) == Cardinality(DOMAIN s) >= MaxEntries

(* an entry that expires first; dict order decides between equals *)
Oldest(s) ==
  {k \in DOMAIN s : \A j \in DOMAIN s : s[k].expires <= s[j].expires}

(* put(): makes room whenever the cache is full, even to replace an entry *)
Put(s, k, v) ==
  IF Full(s) THEN {Stored(Without(s, {old}), k, v) : old \in Oldest(s)}
             ELSE {Stored(s, k, v)}

-------------------------------------------------------------------------------
(* _execute_once for a GET *)

Begin(t, k) ==
  /\ pc[t] = "idle"
  /\ calls < MaxCalls
  /\ calls' = calls + 1
  /\ key' = [key EXCEPT ![t] = k]
  /\ begun' = [begun EXCEPT ![t] = clock]
  /\ floor' = [floor EXCEPT ![t] = cleared[k]]
  /\ now' = [now EXCEPT ![t] = clock]
  /\ answer' = [answer EXCEPT ![t] = Nothing]
  /\ Goto(t, "get")
  /\ UNCHANGED <<clock, store, condition, asked, world, cleared>>

MutantNoExpiry(t) == key[t] \in DOMAIN store

Hit(t) == Live(store, key[t], now[t])

(* get(): a live entry is the result ... *)
GetHit(t) ==
  /\ pc[t] = "get"
  /\ Hit(t)
  /\ Return(t, [status |-> "hit", version |-> store[key[t]].version])
  /\ UNCHANGED <<clock, store, key, begun, floor, calls, world, cleared>>

(* ... and a dead one is deleted on the way *)
GetMiss(t) ==
  /\ pc[t] = "get"
  /\ ~Hit(t)
  /\ store' = Without(store, {key[t]})
  /\ Goto(t, "get_stale")
  /\ UNCHANGED <<clock, key, now, condition, answer, asked, begun, floor, calls,
                 world, cleared>>

(* get_stale(), and the request leaves, conditional if an entry has an ETag *)
GetStale(t) ==
  /\ pc[t] = "get_stale"
  /\ condition' = [condition EXCEPT ![t] =
       IF key[t] \in DOMAIN store \cap Tagged THEN store[key[t]].version ELSE NoEntry]
  /\ asked' = [asked EXCEPT ![t] = clock]
  /\ Goto(t, "sent")
  /\ UNCHANGED <<clock, store, key, now, answer, begun, floor, calls, world, cleared>>

(* the API answers: 304 when the condition still holds, otherwise 200 *)
Answer(t) ==
  LET v == version[key[t]] IN
  /\ pc[t] = "sent"
  /\ answer' = [answer EXCEPT ![t] =
       [status |-> IF condition[t] = v THEN "304" ELSE "200", version |-> v]]
  /\ Goto(t, "answered")
  /\ UNCHANGED <<clock, store, key, now, condition, asked, begun, floor, calls,
                 world, cleared>>

MutantCacheErrors(t) == answer[t].status \in {"200", "error"}

Cacheable(t) == answer[t].status = "200"

(* any other status, a timeout or a lost connection: the call returns it *)
Fail(t) ==
  /\ pc[t] = "sent"
  /\ answer' = [answer EXCEPT ![t] = [status |-> "error", version |-> NoEntry]]
  /\ Goto(t, "answered")
  /\ UNCHANGED <<clock, store, key, now, condition, asked, begun, floor, calls,
                 world, cleared>>

PutAnswer(t) ==
  /\ pc[t] = "answered"
  /\ Cacheable(t)
  /\ store' \in Put(store, key[t], answer[t].version)
  /\ Return(t, answer[t])
  /\ UNCHANGED <<clock, key, begun, floor, calls, world, cleared>>

MutantAnyAnswer(t) == condition[t] # NoEntry

NotModified(t) == answer[t].status = "304"

(* revalidate(): the entry found under the key now gets a new lease, and the
   body kept since get_stale is returned *)
Revalidate(t) ==
  /\ pc[t] = "answered"
  /\ NotModified(t)
  /\ store' = [k \in DOMAIN store |->
       IF k = key[t] THEN [store[k] EXCEPT !.expires = clock + TTL] ELSE store[k]]
  /\ Return(t, [status |-> "304", version |-> condition[t]])
  /\ UNCHANGED <<clock, key, begun, floor, calls, world, cleared>>

ReturnError(t) ==
  /\ pc[t] = "answered"
  /\ answer[t].status = "error"
  /\ ~Cacheable(t)
  /\ Return(t, answer[t])
  /\ UNCHANGED <<clock, store, key, begun, floor, calls, world, cleared>>

MutantClearExpired(K) == Without(store, {k \in K : ~Live(store, k, clock)})

Remaining(K) == Without(store, K)

(* invalidate(pattern): the meta tool, between any two steps of the GETs *)
Invalidate(K) ==
  /\ store' = Remaining(K)
  /\ cleared' = [k \in Keys |->
       IF k \in K /\ ~\E t \in Threads : pc[t] = "answered" /\ key[t] = k
         THEN version[k] ELSE cleared[k]]
  /\ UNCHANGED <<clock, local, world>>

Get(t) ==
  \/ GetHit(t) \/ GetMiss(t) \/ GetStale(t) \/ Answer(t) \/ Fail(t)
  \/ PutAnswer(t) \/ Revalidate(t) \/ ReturnError(t)

Next ==
  \/ Tick
  \/ \E k \in Keys : Change(k)
  \/ \E K \in Patterns : Invalidate(K)
  \/ \E t \in Threads : Get(t) \/ \E k \in Keys : Begin(t, k)

Spec == Init /\ [][Next]_vars

-------------------------------------------------------------------------------
(* Properties *)

Results == [status : {"none", "hit", "200", "304", "error"}, version : 0 .. MaxVersion]

TypeOK ==
  /\ clock \in Nat
  /\ DOMAIN store \subseteq Keys
  /\ store \in [DOMAIN store -> [expires : 1 .. clock + TTL, version : 1 .. MaxVersion]]
  /\ \A k \in DOMAIN store : store[k].version <= version[k]
  /\ pc \in [Threads -> {"idle", "get", "get_stale", "sent", "answered"}]
  /\ key \in [Threads -> Keys]
  /\ now \in [Threads -> 0 .. clock]
  /\ condition \in [Threads -> 0 .. MaxVersion]
  /\ answer \in [Threads -> Results]
  /\ asked \in [Threads -> 0 .. clock]
  /\ begun \in [Threads -> 0 .. clock]
  /\ floor \in [Threads -> 1 .. MaxVersion]
  /\ calls \in 0 .. MaxCalls
  /\ version \in [Keys -> 1 .. MaxVersion]
  /\ changed \in [Keys -> [1 .. MaxVersion -> 0 .. clock]]
  /\ cleared \in [Keys -> 1 .. MaxVersion]

(* However many threads fill it at once, the cache stays within its bound. *)
Bounded == Cardinality(DOMAIN store) <= MaxEntries

Returned(t) == pc[t] = "idle" /\ answer[t].version # NoEntry

(* when the version the call returned was replaced by the next one *)
Outdated(t) == answer[t].version < version[key[t]]
ReplacedAt(t) == changed[key[t]][answer[t].version + 1]

(* A change of a resource is seen, at the latest, by the calls that begin a TTL
   and a timeout after it: an answer may be a timeout old when it is stored,
   and is served for a TTL from then.  Stated for answers without an ETag: the
   lease that revalidate() gives to whatever entry it finds is not bounded. *)
ChangesBecomeVisible ==
  \A t \in Threads :
    Returned(t) /\ key[t] \notin Tagged /\ Outdated(t)
      => begun[t] < ReplacedAt(t) + TTL + Timeout

(* A call that asks the API returns a version that was current after the call
   began, also when it serves a stored body on a 304. *)
AskedIsCurrent ==
  \A t \in Threads :
    Returned(t) /\ answer[t].status # "hit" /\ Outdated(t) => ReplacedAt(t) >= begun[t]

(* Once mcpify_cache_invalidate cleared a key while no answer for it was on its
   way to the cache, no later call returns a version from before. *)
ClearedStaysCleared ==
  \A t \in Threads : Returned(t) => answer[t].version >= floor[t]

(* "a possibly-expired entry (kept for ETag revalidation)" (get_stale): a get()
   that finds an expired entry with an ETag leaves it for get_stale(). *)
ExpiredKeptForRevalidation ==
  [][\A t \in Threads :
       pc[t] = "get" /\ pc'[t] = "get_stale" /\ key[t] \in DOMAIN store \cap Tagged
         => key[t] \in DOMAIN store']_vars
===============================================================================
