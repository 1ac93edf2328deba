-------------------------- MODULE ResponseCacheProofs -------------------------
(***************************************************************************)
(* Why stale answers leave the cache, for any number of threads and keys.  *)
(* An answer is written down with the time its question was asked: the     *)
(* version it carries was current then or later.  What the cache promises  *)
(* follows from how long an answer travels and how long an entry lives.    *)
(***************************************************************************)
EXTENDS ResponseCache, FiniteSetTheorems, TLAPS

\* Version v of the resource k was the current one at time b or later.
CurrentSince(k, v, b) == v < version[k] => changed[k][v + 1] >= b

EntryInv(k) ==
  /\ cleared[k] <= store[k].version
  /\ k \notin Tagged => CurrentSince(k, store[k].version, store[k].expires - TTL - Timeout)

StoreInv ==
  /\ IsFiniteSet(DOMAIN store) /\ Bounded
  /\ \A k \in DOMAIN store : EntryInv(k)
  /\ \A k \in Keys : cleared[k] <= version[k]

\* What a call knows while it waits for the API, and when it has its answer.
Waiting(t) ==
  /\ begun[t] <= asked[t] /\ clock <= asked[t] + Timeout
  /\ key[t] \notin Tagged => condition[t] = NoEntry

HasAnswer(t) ==
  \/ answer[t] = [status |-> "error", version |-> NoEntry]
  \/ /\ answer[t].status \in {"200", "304"}
     /\ 1 <= answer[t].version /\ cleared[key[t]] <= answer[t].version
     /\ CurrentSince(key[t], answer[t].version, asked[t])
     /\ answer[t].status = "304" => condition[t] = answer[t].version

\* What is true of a call that is over.
Over(t) ==
  /\ floor[t] <= answer[t].version
  /\ answer[t].status # "hit" => CurrentSince(key[t], answer[t].version, begun[t])
  /\ key[t] \notin Tagged => CurrentSince(key[t], answer[t].version, begun[t] - TTL - Timeout + 1)

ThreadInv(t) ==
  /\ answer[t].version <= version[key[t]] /\ floor[t] <= cleared[key[t]]
  /\ pc[t] = "get" => now[t] = begun[t]
  /\ pc[t] \in {"sent", "answered"} => Waiting(t)
  /\ pc[t] = "answered" => HasAnswer(t)
  /\ Returned(t) => Over(t)

CallInv == \A t \in Threads : ThreadInv(t)

CacheInv == TypeOK /\ StoreInv /\ CallInv
-------------------------------------------------------------------------------
Entries == [expires : 1 .. clock + TTL, version : 1 .. MaxVersion]

\* put() makes room first, keeps the bound, and what it keeps it keeps as it was.
LEMMA PutEntry ==
  ASSUME NEW k, NEW v, store' \in Put(store, k, v), store \in [DOMAIN store -> Entries],
         IsFiniteSet(DOMAIN store), Bounded
  PROVE  \E F \in SUBSET (DOMAIN store \cup {k}) :
           /\ store' = [j \in F |-> IF j = k THEN [expires |-> clock + TTL, version |-> v]
                                             ELSE store[j]]
           /\ IsFiniteSet(F) /\ Cardinality(F) <= MaxEntries
<1> DEFINE D == DOMAIN store
           New(F) == [j \in F |-> IF j = k THEN [expires |-> clock + TTL, version |-> v] ELSE store[j]]
<1> USE SizeAssumption
<1>0. Cardinality(D) \in Nat /\ Cardinality(D) <= MaxEntries
  BY FS_CardinalityType DEF Bounded
<1>1. CASE Full(store)
  <2>1. PICK old \in D : store' = Stored(Without(store, {old}), k, v)
    BY <1>1 DEF Put, Oldest
  <2> DEFINE R == D \ {old}
  <2>2. store' = New(R \cup {k})
    BY <2>1 DEF Stored, Without, Restrict
  <2>3. IsFiniteSet(R) /\ Cardinality(R) = Cardinality(D) - 1
    BY FS_RemoveElement
  <2>4. /\ IsFiniteSet(R \cup {k})
        /\ Cardinality(R \cup {k}) = IF k \in R THEN Cardinality(R) ELSE Cardinality(R) + 1
    BY <2>3, FS_AddElement
  <2>5. Cardinality(R \cup {k}) <= MaxEntries
    BY <1>0, <2>3, <2>4
  <2> QED
    BY <2>2, <2>4, <2>5
<1>2. CASE ~Full(store)
  <2>1. store' = New(D \cup {k})
    BY <1>2 DEF Put, Stored
  <2>2. /\ IsFiniteSet(D \cup {k})
        /\ Cardinality(D \cup {k}) = IF k \in D THEN Cardinality(D) ELSE Cardinality(D) + 1
    BY FS_AddElement
  <2>3. Cardinality(D) < MaxEntries
    BY <1>0, <1>2 DEF Full
  <2>4. Cardinality(D \cup {k}) <= MaxEntries
    BY <1>0, <2>2, <2>3
  <2> QED
    BY <2>1, <2>2, <2>4
<1> QED
  BY <1>1, <1>2

\* Versions only rise, and one that was current at b remains so known.
LEMMA WorldStep ==
  ASSUME TypeOK, [Next]_vars
  PROVE  /\ \A k \in Keys : version[k] <= version'[k]
         /\ \A k \in Keys, v \in Nat, b \in Int :
              v <= version[k] /\ b <= clock /\ CurrentSince(k, v, b) => CurrentSince(k, v, b)'
<1> USE DEF TypeOK, CurrentSince
<1>1. CASE UNCHANGED world
  BY <1>1 DEF world
<1>2. ASSUME NEW j \in Keys, Change(j)
      PROVE  /\ \A k \in Keys : version[k] <= version'[k]
             /\ \A k \in Keys, v \in Nat, b \in Int :
                  v <= version[k] /\ b <= clock /\ CurrentSince(k, v, b) => CurrentSince(k, v, b)'
  <2>1. /\ version[j] < MaxVersion /\ version' = [version EXCEPT ![j] = version[j] + 1]
        /\ changed' = [changed EXCEPT ![j] = [changed[j] EXCEPT ![version[j] + 1] = clock]]
    BY <1>2 DEF Change
  <2>2. \A k \in Keys : version[k] \in 1 .. MaxVersion /\ changed[k] \in [1 .. MaxVersion -> 0 .. clock]
    OBVIOUS
  <2>3. changed'[j] = [changed[j] EXCEPT ![version[j] + 1] = clock] /\ version'[j] = version[j] + 1
        /\ \A k \in Keys \ {j} : changed'[k] = changed[k] /\ version'[k] = version[k]
    BY <2>1
  <2>4. ASSUME NEW v \in Nat, NEW b \in Int, v <= version[j], b <= clock, CurrentSince(j, v, b)
        PROVE  CurrentSince(j, v, b)'
    <3>1. CASE v = version[j]
      <4>1. changed'[j][v + 1] = clock
        BY <2>1, <2>2, <2>3, <3>1, BoundAssumption
      <4> QED
        BY <2>4, <4>1
    <3>2. CASE v < version[j]
      <4>1. changed'[j][v + 1] = changed[j][v + 1]
        BY <2>2, <2>3, <3>2
      <4> QED
        BY <2>4, <3>2, <4>1
    <3> QED
      BY <2>2, <2>4, <3>1, <3>2
  <2>5. ASSUME NEW k \in Keys
        PROVE  /\ version[k] <= version'[k]
               /\ \A v \in Nat, b \in Int :
                    v <= version[k] /\ b <= clock /\ CurrentSince(k, v, b) => CurrentSince(k, v, b)'
    <3>1. CASE k = j
      <4>1. version[j] <= version'[j]
        BY <2>2, <2>3
      <4>2. \A v \in Nat, b \in Int :
              v <= version[j] /\ b <= clock /\ CurrentSince(j, v, b) => CurrentSince(j, v, b)'
        BY <2>4
      <4> QED
        BY <3>1, <4>1, <4>2
    <3>2. CASE k # j
      <4>1. version'[k] = version[k] /\ changed'[k] = changed[k]
        BY <2>3, <3>2
      <4>2. version[k] <= version'[k]
        BY <2>2, <4>1
      <4> HIDE DEF TypeOK
      <4> QED
        BY <4>1, <4>2
    <3> QED
      BY <3>1, <3>2
  <2> QED
    BY <2>5
<1>3. UNCHANGED world \/ \E j \in Keys : Change(j)
  BY DEF Next, vars, Tick, Begin, Invalidate, Get, GetHit, GetMiss, GetStale, Answer, Fail,
         PutAnswer, Revalidate, ReturnError
<1> QED
  BY <1>1, <1>2, <1>3

LEMMA CacheInit == Init => CacheInv
<1> SUFFICES ASSUME Init PROVE CacheInv
  OBVIOUS
<1> USE KeyAssumption, TimeAssumption, SizeAssumption, BoundAssumption DEF Init
<1>1. DOMAIN store = {} /\ store \in [DOMAIN store -> Entries]
  OBVIOUS
<1>2. (CHOOSE k \in Keys : TRUE) \in Keys
  OBVIOUS
<1>3. TypeOK
  BY <1>1, <1>2 DEF TypeOK, Entries, Results, Nothing, NoEntry
<1>4. StoreInv
  BY <1>1, FS_EmptySet DEF StoreInv, Bounded
<1>5. CallInv
  BY <1>2 DEF CallInv, ThreadInv, Returned, Nothing, NoEntry
<1> QED
  BY <1>3, <1>4, <1>5 DEF CacheInv

\* The steps that leave the store and what is known about it alone.
LEMMA StoreKept ==
  ASSUME CacheInv, [Next]_vars, TypeOK', UNCHANGED <<store, cleared>>
  PROVE  StoreInv'
<1>1. /\ \A k \in Keys : version[k] <= version'[k]
      /\ \A k \in Keys, v \in Nat, b \in Int :
           v <= version[k] /\ b <= clock /\ CurrentSince(k, v, b) => CurrentSince(k, v, b)'
  BY WorldStep DEF CacheInv
<1>2. /\ clock \in Nat /\ version \in [Keys -> 1 .. MaxVersion] /\ version' \in [Keys -> 1 .. MaxVersion]
      /\ cleared \in [Keys -> 1 .. MaxVersion]
      /\ \A k \in DOMAIN store :
           /\ k \in Keys /\ store[k].expires \in 1 .. clock + TTL
           /\ store[k].version \in 1 .. MaxVersion /\ store[k].version <= version[k]
  BY DEF CacheInv, TypeOK
<1>3. ASSUME NEW k \in DOMAIN store PROVE EntryInv(k)'
  <2> DEFINE v == store[k].version
             b == store[k].expires - TTL - Timeout
  <2>1. k \in Keys /\ v \in Nat /\ v <= version[k] /\ b \in Int /\ b <= clock
    BY <1>2, TimeAssumption, BoundAssumption
  <2>2. cleared[k] <= v /\ (k \notin Tagged => CurrentSince(k, v, b))
    BY <1>3 DEF CacheInv, StoreInv, EntryInv
  <2>3. v' = v /\ b' = b
    OBVIOUS
  <2> HIDE DEF v, b
  <2>4. k \notin Tagged => CurrentSince(k, v, b)'
    BY <1>1, <2>1, <2>2, <2>3 DEF CurrentSince
  <2> QED
    BY <2>2, <2>4 DEF EntryInv, v, b
<1>4. \A k \in Keys : cleared[k] <= version'[k]
  BY <1>1, <1>2, BoundAssumption DEF CacheInv, StoreInv
<1> QED
  BY <1>3, <1>4 DEF CacheInv, StoreInv, Bounded

\* Thread t does not move.
Still(t) ==
  /\ pc'[t] = pc[t] /\ key'[t] = key[t] /\ now'[t] = now[t] /\ condition'[t] = condition[t]
  /\ answer'[t] = answer[t] /\ asked'[t] = asked[t] /\ begun'[t] = begun[t] /\ floor'[t] = floor[t]

ClearedRises == \A k \in Keys : cleared[k] <= cleared'[k]

\* A call that does not move keeps what it knows.
LEMMA CallKept ==
  ASSUME CacheInv, [Next]_vars, TypeOK', NEW t \in Threads, Still(t), ClearedRises,
         pc[t] \in {"sent", "answered"} => clock' = clock \/ (OnTheWire(t) /\ clock' = clock + 1),
         pc[t] = "answered" => cleared'[key[t]] = cleared[key[t]]
  PROVE  ThreadInv(t)'
<1> USE DEF Still, ClearedRises
<1> DEFINE k == key[t]
           v == answer[t].version
<1>1. /\ k \in Keys /\ v \in Nat /\ asked[t] \in Int /\ begun[t] \in Int
      /\ floor[t] \in Nat /\ cleared[k] \in Nat /\ cleared'[k] \in Nat
      /\ version[k] \in Nat /\ version'[k] \in Nat /\ clock \in Nat
      /\ asked[t] <= clock /\ begun[t] <= clock
  <2>1. answer[t] \in Results
    BY DEF CacheInv, TypeOK
  <2>2. v \in Nat
    BY <2>1 DEF Results
  <2>3. /\ k \in Keys /\ asked[t] \in 0 .. clock /\ begun[t] \in 0 .. clock
        /\ floor[t] \in 1 .. MaxVersion /\ clock \in Nat
        /\ cleared[k] \in 1 .. MaxVersion /\ version[k] \in 1 .. MaxVersion
    BY DEF CacheInv, TypeOK
  <2>4. cleared'[k] \in 1 .. MaxVersion /\ version'[k] \in 1 .. MaxVersion
    BY <2>3 DEF TypeOK
  <2> QED
    BY <2>2, <2>3, <2>4, BoundAssumption
<1>2. ThreadInv(t)
  BY DEF CacheInv, CallInv
<1>3. /\ version[k] <= version'[k] /\ v <= version[k]
      /\ \A b \in Int : b <= clock /\ CurrentSince(k, v, b) => CurrentSince(k, v, b)'
  BY <1>1, <1>2, WorldStep DEF CacheInv, ThreadInv
<1>4. begun[t] - TTL - Timeout + 1 \in Int /\ begun[t] - TTL - Timeout + 1 <= clock
  BY <1>1, TimeAssumption
<1>5. Waiting(t) /\ pc[t] \in {"sent", "answered"} => Waiting(t)'
  BY <1>1, TimeAssumption DEF Waiting, OnTheWire
<1>6. HasAnswer(t) /\ pc[t] = "answered" => HasAnswer(t)'
  BY <1>1, <1>3 DEF HasAnswer, CurrentSince
<1>7. Over(t) => Over(t)'
  BY <1>1, <1>3, <1>4 DEF Over, CurrentSince
<1>8. /\ answer'[t].version <= version'[key'[t]] /\ floor'[t] <= cleared'[key'[t]]
      /\ pc'[t] = "get" => now'[t] = begun'[t]
  BY <1>1, <1>2, <1>3 DEF ThreadInv
<1> QED
  BY <1>2, <1>5, <1>6, <1>7, <1>8 DEF ThreadInv, Returned

\* TypeOK, by what changes together.
StoreType ==
  /\ DOMAIN store \subseteq Keys
  /\ store \in [DOMAIN store -> Entries]
  /\ \A k \in DOMAIN store : store[k].version <= version[k]

LocalType ==
  /\ pc \in [Threads -> {"idle", "get", "get_stale", "sent", "answered"}]
  /\ key \in [Threads -> Keys]
  /\ condition \in [Threads -> 0 .. MaxVersion]
  /\ answer \in [Threads -> Results]
  /\ floor \in [Threads -> 1 .. MaxVersion]
  /\ calls \in 0 .. MaxCalls

TimesType ==
  /\ clock \in Nat
  /\ now \in [Threads -> 0 .. clock]
  /\ asked \in [Threads -> 0 .. clock]
  /\ begun \in [Threads -> 0 .. clock]

WorldType ==
  /\ version \in [Keys -> 1 .. MaxVersion]
  /\ changed \in [Keys -> [1 .. MaxVersion -> 0 .. clock]]
  /\ cleared \in [Keys -> 1 .. MaxVersion]

LEMMA TypeParts ==
  /\ TypeOK <=> StoreType /\ LocalType /\ TimesType /\ WorldType
  /\ TypeOK' <=> StoreType' /\ LocalType' /\ TimesType' /\ WorldType'
<1>1. TypeOK <=> StoreType /\ LocalType /\ TimesType /\ WorldType
  BY DEF TypeOK, StoreType, LocalType, TimesType, WorldType, Entries
<1> QED
  BY <1>1, PTL

\* A time that has been remains one when the clock moves.
LEMMA TimePasses ==
  ASSUME TypeOK, clock' = clock + 1, UNCHANGED <<store, local, world, cleared>>
  PROVE  TypeOK'
<1> USE DEF local, world
<1>0. StoreType /\ LocalType /\ TimesType /\ WorldType
  BY TypeParts
<1>1. StoreType' /\ LocalType'
  BY <1>0, TimeAssumption DEF StoreType, LocalType, TimesType, Entries
<1>2. TimesType'
  BY <1>0 DEF TimesType
<1>3. WorldType'
  <2>1. \A k \in Keys : changed[k] \in [1 .. MaxVersion -> 0 .. clock']
    BY <1>0 DEF WorldType, TimesType
  <2> QED
    BY <1>0, <2>1 DEF WorldType
<1> QED
  BY <1>1, <1>2, <1>3, TypeParts

LEMMA TypeNext == CacheInv /\ [Next]_vars => TypeOK'
<1> SUFFICES ASSUME CacheInv, [Next]_vars PROVE TypeOK'
  OBVIOUS
<1> StoreType /\ LocalType /\ TimesType /\ WorldType
  BY TypeParts DEF CacheInv
<1> SUFFICES StoreType' /\ LocalType' /\ TimesType' /\ WorldType'
  BY TypeParts
<1> USE BoundAssumption DEF Goto, NoEntry
<1>0. /\ Nothing \in Results /\ [status |-> "error", version |-> NoEntry] \in Results
      /\ \A v \in 0 .. MaxVersion, u \in {"hit", "200", "304"} : [status |-> u, version |-> v] \in Results
  BY DEF Results, Nothing
<1>1. ASSUME UNCHANGED vars PROVE StoreType' /\ LocalType' /\ TimesType' /\ WorldType'
  BY <1>1 DEF vars, local, world, StoreType, LocalType, TimesType, WorldType, Entries
<1>2. ASSUME Tick PROVE StoreType' /\ LocalType' /\ TimesType' /\ WorldType'
  BY <1>2, TimePasses, TypeParts DEF Tick, CacheInv
<1>3. ASSUME NEW k \in Keys, Change(k) PROVE StoreType' /\ LocalType' /\ TimesType' /\ WorldType'
  <2>1. LocalType' /\ TimesType'
    BY <1>3 DEF Change, local, LocalType, TimesType
  <2>2. /\ version[k] \in 1 .. MaxVersion /\ version[k] < MaxVersion /\ clock \in 0 .. clock
        /\ changed[k] \in [1 .. MaxVersion -> 0 .. clock]
    BY <1>3 DEF Change, WorldType, TimesType
  <2>3. changed' = [changed EXCEPT ![k] = [changed[k] EXCEPT ![version[k] + 1] = clock]]
    BY <1>3 DEF Change
  <2>4. changed' \in [Keys -> [1 .. MaxVersion -> 0 .. clock]]
    BY <2>2, <2>3 DEF WorldType
  <2>5. version' = [version EXCEPT ![k] = version[k] + 1] /\ version[k] + 1 \in 1 .. MaxVersion
        /\ version \in [Keys -> 1 .. MaxVersion]
    BY <1>3, <2>2 DEF Change, WorldType
  <2>6. version' \in [Keys -> 1 .. MaxVersion] /\ \A j \in Keys : version[j] <= version'[j]
    BY <2>5
  <2>7. WorldType'
    BY <1>3, <2>4, <2>6 DEF Change, WorldType
  <2>8. ASSUME NEW j \in DOMAIN store PROVE store[j].version <= version'[j]
    <3>1. j \in Keys /\ store[j].version \in Nat /\ store[j].version <= version[j]
      BY DEF StoreType, Entries
    <3> QED
      BY <2>5, <2>6, <3>1
  <2>9. StoreType'
    BY <1>3, <2>8 DEF Change, StoreType, Entries
  <2> QED
    BY <2>1, <2>7, <2>9
<1>4. ASSUME NEW K \in Patterns, Invalidate(K)
      PROVE  StoreType' /\ LocalType' /\ TimesType' /\ WorldType'
  <2>1. StoreType'
    BY <1>4 DEF Invalidate, Remaining, Without, Restrict, world, StoreType, Entries
  <2>2. LocalType' /\ TimesType'
    BY <1>4 DEF Invalidate, local, LocalType, TimesType
  <2>3. WorldType'
    BY <1>4 DEF Invalidate, world, WorldType
  <2> QED
    BY <2>1, <2>2, <2>3
<1>5. ASSUME NEW t \in Threads, NEW k \in Keys, Begin(t, k)
      PROVE  StoreType' /\ LocalType' /\ TimesType' /\ WorldType'
  <2>1. StoreType' /\ WorldType'
    BY <1>5 DEF Begin, world, StoreType, WorldType, Entries
  <2>2. LocalType'
    <3>1. cleared[k] \in 1 .. MaxVersion /\ calls' \in 0 .. MaxCalls
      BY <1>5 DEF Begin, LocalType, WorldType
    <3>2. pc' \in [Threads -> {"idle", "get", "get_stale", "sent", "answered"}]
      BY <1>5 DEF Begin, LocalType
    <3> QED
      BY <1>0, <1>5, <3>1, <3>2 DEF Begin, LocalType
  <2>3. TimesType'
    BY <1>5 DEF Begin, TimesType
  <2> QED
    BY <2>1, <2>2, <2>3
<1>6. ASSUME NEW t \in Threads, NEW r \in Results, Return(t, r),
             UNCHANGED <<key, floor, calls, clock, begun>>
      PROVE  LocalType' /\ TimesType'
  BY <1>6 DEF Return, LocalType, TimesType
<1>7. ASSUME NEW t \in Threads, GetHit(t) PROVE StoreType' /\ LocalType' /\ TimesType' /\ WorldType'
  <2>1. store[key[t]].version \in 0 .. MaxVersion
    BY <1>7 DEF GetHit, Hit, Live, StoreType, Entries
  <2>2. LocalType' /\ TimesType'
    BY <1>0, <1>6, <1>7, <2>1 DEF GetHit
  <2> QED
    BY <1>7, <2>2 DEF GetHit, world, StoreType, WorldType, Entries
<1>8. ASSUME NEW t \in Threads, GetMiss(t) PROVE StoreType' /\ LocalType' /\ TimesType' /\ WorldType'
  <2>1. StoreType'
    BY <1>8 DEF GetMiss, Without, Restrict, world, StoreType, Entries
  <2>2. LocalType' /\ TimesType' /\ WorldType'
    BY <1>8 DEF GetMiss, world, LocalType, TimesType, WorldType
  <2> QED
    BY <2>1, <2>2
<1>9. ASSUME NEW t \in Threads, GetStale(t) PROVE StoreType' /\ LocalType' /\ TimesType' /\ WorldType'
  <2>1. StoreType' /\ TimesType' /\ WorldType'
    BY <1>9 DEF GetStale, world, StoreType, TimesType, WorldType, Entries
  <2>2. LocalType'
    BY <1>9 DEF GetStale, LocalType, StoreType, Entries
  <2> QED
    BY <2>1, <2>2
<1>10. ASSUME NEW t \in Threads, Answer(t) \/ Fail(t)
       PROVE  StoreType' /\ LocalType' /\ TimesType' /\ WorldType'
  <2>1. StoreType' /\ TimesType' /\ WorldType'
    BY <1>10 DEF Answer, Fail, world, StoreType, TimesType, WorldType, Entries
  <2>2. version[key[t]] \in 0 .. MaxVersion
    BY DEF LocalType, WorldType
  <2>3. \E r \in Results : answer' = [answer EXCEPT ![t] = r]
    BY <1>0, <1>10, <2>2 DEF Answer, Fail
  <2>4. LocalType'
    BY <1>10, <2>3 DEF Answer, Fail, LocalType
  <2> QED
    BY <2>1, <2>4
<1>11. ASSUME NEW t \in Threads, PutAnswer(t)
       PROVE  StoreType' /\ LocalType' /\ TimesType' /\ WorldType'
  <2>1. answer[t] \in Results /\ key[t] \in Keys
    BY DEF LocalType
  <2>2. ThreadInv(t) /\ pc[t] = "answered" /\ answer[t].status = "200"
    BY <1>11 DEF PutAnswer, Cacheable, CacheInv, CallInv
  <2>3. answer[t].version \in 1 .. version[key[t]] /\ answer[t].version \in 1 .. MaxVersion
    BY <2>1, <2>2 DEF ThreadInv, HasAnswer, Results, WorldType
  <2>4. PICK F \in SUBSET (DOMAIN store \cup {key[t]}) :
          store' = [j \in F |-> IF j = key[t] THEN [expires |-> clock + TTL, version |-> answer[t].version]
                                              ELSE store[j]]
    BY <1>11, PutEntry DEF PutAnswer, StoreType, CacheInv, StoreInv
  <2>5. [expires |-> clock + TTL, version |-> answer[t].version] \in Entries
    BY <2>3, TimeAssumption DEF Entries, TimesType
  <2>6. StoreType'
    BY <1>11, <2>1, <2>3, <2>4, <2>5 DEF PutAnswer, world, StoreType, Entries
  <2>7. LocalType' /\ TimesType'
    BY <1>6, <1>11, <2>1 DEF PutAnswer
  <2> QED
    BY <1>11, <2>6, <2>7 DEF PutAnswer, world, WorldType
<1>12. ASSUME NEW t \in Threads, Revalidate(t)
       PROVE  StoreType' /\ LocalType' /\ TimesType' /\ WorldType'
  <2>1. condition[t] \in 0 .. MaxVersion
    BY DEF LocalType
  <2>2. LocalType' /\ TimesType'
    BY <1>0, <1>6, <1>12, <2>1 DEF Revalidate
  <2>3. StoreType'
    BY <1>12, TimeAssumption DEF Revalidate, world, StoreType, TimesType, Entries
  <2> QED
    BY <1>12, <2>2, <2>3 DEF Revalidate, world, WorldType
<1>13. ASSUME NEW t \in Threads, ReturnError(t)
       PROVE  StoreType' /\ LocalType' /\ TimesType' /\ WorldType'
  <2>1. LocalType' /\ TimesType'
    BY <1>6, <1>13 DEF ReturnError, LocalType
  <2> QED
    BY <1>13, <2>1 DEF ReturnError, world, StoreType, WorldType, Entries
<1> QED
  BY <1>1, <1>2, <1>3, <1>4, <1>5, <1>7, <1>8, <1>9, <1>10, <1>11, <1>12, <1>13 DEF Next, Get
-------------------------------------------------------------------------------
\* No thread but t moves.
Alone(t) == \A s \in Threads \ {t} : Still(s)

LEMMA VersionsTyped ==
  TypeOK => \A k \in Keys : cleared[k] \in Nat /\ version[k] \in Nat
<1>1. TypeOK => cleared \in [Keys -> 1 .. MaxVersion] /\ version \in [Keys -> 1 .. MaxVersion]
  BY DEF TypeOK
<1> QED
  BY <1>1, BoundAssumption

LEMMA OneMoves ==
  ASSUME CacheInv, [Next]_vars, TypeOK', NEW t \in Threads, Alone(t), ThreadInv(t)',
         UNCHANGED <<clock, cleared>>
  PROVE  CallInv'
<1>1. ClearedRises
  <2>1. \A k \in Keys : cleared[k] \in Nat
    BY VersionsTyped DEF CacheInv
  <2> QED
    BY <2>1 DEF ClearedRises
<1>2. ASSUME NEW s \in Threads \ {t} PROVE ThreadInv(s)'
  <2>1. Still(s) /\ s \in Threads
    BY DEF Alone
  <2> QED
    BY <1>1, <2>1, CallKept
<1> QED
  BY <1>2 DEF CallInv

\* What t reads has these types.
Typed(t) ==
  /\ key[t] \in Keys /\ answer[t] \in Results /\ answer[t].version \in Nat
  /\ condition[t] \in Nat /\ version[key[t]] \in 1 .. MaxVersion /\ cleared[key[t]] \in 1 .. MaxVersion
  /\ floor[t] \in 1 .. MaxVersion /\ clock \in Nat
  /\ now[t] \in 0 .. clock /\ asked[t] \in 0 .. clock /\ begun[t] \in 0 .. clock
  /\ pc \in [Threads -> {"idle", "get", "get_stale", "sent", "answered"}]
  /\ key \in [Threads -> Keys]
  /\ DOMAIN now = Threads /\ DOMAIN condition = Threads /\ DOMAIN answer = Threads
  /\ DOMAIN asked = Threads /\ DOMAIN begun = Threads /\ DOMAIN floor = Threads

LEMMA AllTyped == ASSUME TypeOK, NEW t \in Threads PROVE Typed(t)
<1>1. /\ key[t] \in Keys /\ answer[t] \in Results /\ condition[t] \in Nat
      /\ version[key[t]] \in 1 .. MaxVersion /\ cleared[key[t]] \in 1 .. MaxVersion
      /\ floor[t] \in 1 .. MaxVersion /\ clock \in Nat
  BY DEF TypeOK
<1>2. answer[t].version \in Nat
  BY <1>1 DEF Results
<1>3. now[t] \in 0 .. clock /\ asked[t] \in 0 .. clock /\ begun[t] \in 0 .. clock
  BY DEF TypeOK
<1>4. /\ DOMAIN now = Threads /\ DOMAIN condition = Threads /\ DOMAIN answer = Threads
      /\ DOMAIN asked = Threads /\ DOMAIN begun = Threads /\ DOMAIN floor = Threads
  BY DEF TypeOK
<1> QED
  BY <1>1, <1>2, <1>3, <1>4 DEF TypeOK, Typed

LEMMA ChangedType ==
  TypeOK => \A k \in Keys, v \in Nat : v < version[k] => changed[k][v + 1] \in Nat
<1> SUFFICES ASSUME TypeOK, NEW k \in Keys, NEW v \in Nat, v < version[k]
             PROVE  changed[k][v + 1] \in Nat
  OBVIOUS
<1>1. version[k] \in 1 .. MaxVersion /\ changed[k] \in [1 .. MaxVersion -> 0 .. clock] /\ clock \in Nat
  BY DEF TypeOK
<1> QED
  BY <1>1, BoundAssumption

LEMMA CallNext == CacheInv /\ TypeOK' /\ [Next]_vars => CallInv'
<1> SUFFICES ASSUME CacheInv, TypeOK', [Next]_vars PROVE CallInv'
  OBVIOUS
<1>0. /\ TypeOK /\ \A s \in Threads : ThreadInv(s) /\ Typed(s)
      /\ \A k \in Keys : cleared[k] \in Nat /\ version[k] \in Nat /\ cleared[k] <= version[k]
  <2>1. \A k \in Keys : cleared[k] \in Nat /\ version[k] \in Nat
    BY VersionsTyped DEF CacheInv
  <2> QED
    BY <2>1, AllTyped DEF CacheInv, CallInv, StoreInv
<1> USE TimeAssumption DEF Goto, NoEntry
<1>1. CASE UNCHANGED vars \/ Tick \/ \E k \in Keys : Change(k)
  <2>1. UNCHANGED <<local, cleared>>
    BY <1>1 DEF vars, Tick, Change
  <2>2. clock' = clock \/ Tick
    BY <1>1 DEF vars, Change
  <2>3. ASSUME NEW s \in Threads, pc[s] \in {"sent", "answered"}
        PROVE  clock' = clock \/ (OnTheWire(s) /\ clock' = clock + 1)
    BY <2>2, <2>3 DEF Tick
  <2>4. ClearedRises /\ \A s \in Threads : Still(s)
    BY <1>0, <2>1 DEF ClearedRises, Still, local
  <2>5. ASSUME NEW s \in Threads PROVE ThreadInv(s)'
    BY <2>1, <2>3, <2>4, CallKept
  <2> QED
    BY <2>5 DEF CallInv
<1>2. ASSUME NEW K \in Patterns, Invalidate(K) PROVE CallInv'
  <2>1. UNCHANGED <<local, clock>>
    BY <1>2 DEF Invalidate
  <2>2. /\ ClearedRises /\ \A s \in Threads : Still(s)
        /\ \A s \in Threads : pc[s] = "answered" => cleared'[key[s]] = cleared[key[s]]
    BY <1>0, <1>2, <2>1 DEF Invalidate, ClearedRises, Still, Typed, local
  <2>3. ASSUME NEW s \in Threads PROVE ThreadInv(s)'
    BY <2>1, <2>2, CallKept
  <2> QED
    BY <2>3 DEF CallInv
<1>3. ASSUME NEW t \in Threads, NEW k \in Keys, Begin(t, k) PROVE CallInv'
  <2>1. /\ Alone(t) /\ UNCHANGED <<clock, cleared, version>>
        /\ pc'[t] = "get" /\ key'[t] = k /\ now'[t] = begun'[t] /\ answer'[t] = Nothing
        /\ floor'[t] = cleared[k]
    BY <1>0, <1>3 DEF Begin, Alone, Still, Typed, world
  <2>2. ThreadInv(t)'
    BY <1>0, <2>1 DEF ThreadInv, Returned, Nothing
  <2> QED
    BY <2>1, <2>2, OneMoves
<1>4. ASSUME NEW t \in Threads, NEW r, Return(t, r), UNCHANGED <<key, floor, begun>>
      PROVE  Alone(t) /\ pc'[t] = "idle" /\ answer'[t] = r
  BY <1>0, <1>4 DEF Return, Alone, Still, Typed
<1>5. ASSUME NEW t \in Threads, GetHit(t) PROVE CallInv'
  <2> DEFINE k == key[t]
  <2>1. /\ Alone(t) /\ pc'[t] = "idle" /\ answer'[t] = [status |-> "hit", version |-> store[k].version]
        /\ UNCHANGED <<clock, cleared, key, floor, begun, world>>
    BY <1>4, <1>5 DEF GetHit
  <2>2. /\ k \in DOMAIN store /\ EntryInv(k) /\ store[k].expires > begun[t]
        /\ store[k].expires \in Nat /\ store[k].version \in Nat /\ store[k].version <= version[k]
    <3>1. k \in DOMAIN store /\ pc[t] = "get" /\ store[k].expires > now[t]
      BY <1>5 DEF GetHit, Hit, Live
    <3>2. store[k].expires \in Nat /\ store[k].version \in Nat /\ store[k].version <= version[k]
      BY <1>0, <3>1, TypeParts DEF StoreType, Entries
    <3> QED
      BY <1>0, <3>1, <3>2 DEF ThreadInv, CacheInv, StoreInv
  <2>3. Over(t)'
    <3>1. /\ floor[t] <= cleared[k] /\ floor[t] \in Nat /\ cleared[k] \in Nat /\ begun[t] \in Nat
          /\ k \in Keys
      BY <1>0 DEF ThreadInv, Typed
    <3>2. floor[t] <= store[k].version
      BY <2>2, <3>1 DEF EntryInv
    <3>3. CurrentSince(k, store[k].version, store[k].expires - TTL - Timeout)
            => CurrentSince(k, store[k].version, begun[t] - TTL - Timeout + 1)
      BY <1>0, <2>2, <3>1, ChangedType DEF CurrentSince
    <3> QED
      BY <2>1, <2>2, <3>2, <3>3 DEF Over, EntryInv, CurrentSince, world
  <2>4. ThreadInv(t)'
    BY <1>0, <2>1, <2>2, <2>3 DEF ThreadInv, world
  <2> QED
    BY <2>1, <2>4, OneMoves
<1>6. ASSUME NEW t \in Threads, GetMiss(t) PROVE CallInv'
  <2>1. /\ Alone(t) /\ pc'[t] = "get_stale"
        /\ UNCHANGED <<clock, cleared, key, floor, answer, version>>
    BY <1>0, <1>6 DEF GetMiss, Alone, Still, Typed, world
  <2>2. ThreadInv(t)'
    BY <1>0, <2>1 DEF ThreadInv, Returned
  <2> QED
    BY <2>1, <2>2, OneMoves
<1>7. ASSUME NEW t \in Threads, GetStale(t) PROVE CallInv'
  <2>1. /\ Alone(t) /\ pc'[t] = "sent" /\ asked'[t] = clock
        /\ key[t] \notin Tagged => condition'[t] = NoEntry
        /\ UNCHANGED <<clock, cleared, key, floor, answer, version, begun>>
    BY <1>0, <1>7 DEF GetStale, Alone, Still, Typed, world
  <2>2. Waiting(t)'
    BY <1>0, <2>1 DEF Waiting, Typed
  <2>3. ThreadInv(t)'
    BY <1>0, <2>1, <2>2 DEF ThreadInv, Returned
  <2> QED
    BY <2>1, <2>3, OneMoves
<1>8. ASSUME NEW t \in Threads, Answer(t) \/ Fail(t) PROVE CallInv'
  <2>1. /\ Alone(t) /\ pc[t] = "sent" /\ pc'[t] = "answered"
        /\ \/ answer'[t] = [status |-> "error", version |-> NoEntry]
           \/ /\ answer'[t] \in [status : {"304", "200"}, version : {version[key[t]]}]
              /\ answer'[t].status = "304" => condition[t] = version[key[t]]
        /\ UNCHANGED <<clock, cleared, key, floor, version, asked, begun, condition>>
    BY <1>0, <1>8 DEF Answer, Fail, Alone, Still, Typed, world
  <2>2. HasAnswer(t)'
    BY <1>0, <2>1 DEF HasAnswer, CurrentSince, Typed
  <2>3. ThreadInv(t)'
    BY <1>0, <2>1, <2>2 DEF ThreadInv, Waiting, Returned, Typed
  <2> QED
    BY <2>1, <2>3, OneMoves
<1>9. ASSUME NEW t \in Threads, PutAnswer(t) \/ Revalidate(t) PROVE CallInv'
  <2> DEFINE v == answer[t].version
  <2>1. /\ pc[t] = "answered" /\ answer[t].status \in {"200", "304"}
        /\ HasAnswer(t) /\ Waiting(t) /\ v \in Nat
    BY <1>0, <1>9 DEF PutAnswer, Revalidate, Cacheable, NotModified, ThreadInv, Typed
  <2>2. /\ 1 <= v /\ cleared[key[t]] <= v /\ CurrentSince(key[t], v, asked[t])
        /\ answer[t].status = "304" => condition[t] = v
    BY <2>1 DEF HasAnswer
  <2>3. /\ Alone(t) /\ pc'[t] = "idle" /\ answer'[t].version = v
        /\ UNCHANGED <<clock, cleared, key, floor, begun, world>>
    BY <1>4, <1>9, <2>2 DEF PutAnswer, Revalidate, NotModified
  <2>4. Over(t)'
    <3>1. /\ floor[t] <= cleared[key[t]] /\ floor[t] \in Nat /\ cleared[key[t]] \in Nat
          /\ begun[t] \in Nat /\ asked[t] \in Nat /\ begun[t] <= asked[t] /\ key[t] \in Keys
      BY <1>0, <2>1 DEF ThreadInv, Typed, Waiting
    <3>2. floor[t] <= v
      BY <2>1, <2>2, <3>1
    <3>3. /\ CurrentSince(key[t], v, begun[t])
          /\ CurrentSince(key[t], v, begun[t] - TTL - Timeout + 1)
      BY <1>0, <2>1, <2>2, <3>1, ChangedType DEF CurrentSince
    <3> QED
      BY <2>3, <3>2, <3>3 DEF Over, CurrentSince, world
  <2>5. ThreadInv(t)'
    BY <1>0, <2>2, <2>3, <2>4 DEF ThreadInv, Typed, world
  <2> QED
    BY <2>3, <2>5, OneMoves
<1>10. ASSUME NEW t \in Threads, ReturnError(t) PROVE CallInv'
  <2>1. /\ Alone(t) /\ pc'[t] = "idle" /\ answer'[t] = answer[t]
        /\ UNCHANGED <<clock, cleared, key, floor, version>>
    BY <1>4, <1>10 DEF ReturnError, world
  <2>2. answer[t].version = NoEntry
    BY <1>0, <1>10 DEF ReturnError, ThreadInv, HasAnswer
  <2>3. ThreadInv(t)'
    BY <1>0, <2>1, <2>2 DEF ThreadInv, Returned
  <2> QED
    BY <2>1, <2>3, OneMoves
<1> QED
  BY <1>1, <1>2, <1>3, <1>5, <1>6, <1>7, <1>8, <1>9, <1>10 DEF Next, Get
-------------------------------------------------------------------------------
LEMMA FewerEntries ==
  ASSUME NEW D, IsFiniteSet(D), Cardinality(D) <= MaxEntries, NEW E \in SUBSET D
  PROVE  IsFiniteSet(E) /\ Cardinality(E) <= MaxEntries
<1>1. /\ IsFiniteSet(E) /\ Cardinality(E) <= Cardinality(D)
      /\ Cardinality(D) \in Nat /\ Cardinality(E) \in Nat
  BY FS_Subset, FS_CardinalityType
<1> QED
  BY <1>1, SizeAssumption

LEMMA StoreNext == CacheInv /\ TypeOK' /\ [Next]_vars => StoreInv'
<1> SUFFICES ASSUME CacheInv, TypeOK', [Next]_vars PROVE StoreInv'
  OBVIOUS
<1>0. /\ TypeOK /\ StoreType /\ \A s \in Threads : ThreadInv(s) /\ Typed(s)
      /\ \A k \in Keys : cleared[k] \in Nat /\ version[k] \in Nat /\ cleared[k] <= version[k]
      /\ IsFiniteSet(DOMAIN store) /\ Cardinality(DOMAIN store) <= MaxEntries
      /\ \A k \in DOMAIN store : EntryInv(k)
  <2>1. \A k \in Keys : cleared[k] \in Nat /\ version[k] \in Nat
    BY VersionsTyped DEF CacheInv
  <2> QED
    BY <2>1, AllTyped, TypeParts DEF CacheInv, CallInv, StoreInv, Bounded
<1>1. CASE UNCHANGED <<store, cleared>>
  BY <1>1, StoreKept
<1>2. ASSUME NEW K \in Patterns, Invalidate(K) PROVE StoreInv'
  <2>1. /\ DOMAIN store' = DOMAIN store \ K /\ UNCHANGED world
        /\ \A k \in DOMAIN store \ K : store'[k] = store[k]
        /\ \A k \in Keys : cleared'[k] \in {cleared[k], version[k]}
        /\ \A k \in Keys \ K : cleared'[k] = cleared[k]
    BY <1>0, <1>2 DEF Invalidate, Remaining, Without, Restrict, StoreType
  <2>2. \A k \in DOMAIN store' : EntryInv(k)'
    BY <1>0, <2>1 DEF EntryInv, CurrentSince, StoreType, world
  <2>3. \A k \in Keys : cleared'[k] <= version'[k]
    BY <1>0, <2>1 DEF world
  <2> QED
    BY <1>0, <2>1, <2>2, <2>3, FewerEntries DEF StoreInv, Bounded
<1>3. ASSUME NEW t \in Threads, GetMiss(t) PROVE StoreInv'
  <2>1. /\ DOMAIN store' = DOMAIN store \ {key[t]} /\ UNCHANGED <<world, cleared>>
        /\ \A k \in DOMAIN store' : store'[k] = store[k]
    BY <1>3 DEF GetMiss, Without, Restrict
  <2>2. \A k \in DOMAIN store' : EntryInv(k)'
    BY <1>0, <2>1 DEF EntryInv, CurrentSince, world
  <2> QED
    BY <1>0, <2>1, <2>2, FewerEntries DEF StoreInv, Bounded, world
<1>4. ASSUME NEW t \in Threads, PutAnswer(t) PROVE StoreInv'
  <2> DEFINE k == key[t]
             v == answer[t].version
             e == [expires |-> clock + TTL, version |-> v]
  <2>1. /\ pc[t] = "answered" /\ answer[t].status = "200" /\ HasAnswer(t) /\ Waiting(t)
        /\ store' \in Put(store, k, v) /\ UNCHANGED <<world, cleared>>
    BY <1>0, <1>4 DEF PutAnswer, Cacheable, ThreadInv
  <2>2. cleared[k] <= v /\ CurrentSince(k, v, asked[t]) /\ k \in Keys
        /\ v \in Nat /\ asked[t] \in Nat /\ clock \in Nat /\ clock <= asked[t] + Timeout
    BY <1>0, <2>1 DEF HasAnswer, Waiting, Typed
  <2>3. CurrentSince(k, v, clock + TTL - TTL - Timeout)
    BY <1>0, <2>2, ChangedType, TimeAssumption DEF CurrentSince
  <2>4. PICK F \in SUBSET (DOMAIN store \cup {k}) :
          /\ store' = [j \in F |-> IF j = k THEN e ELSE store[j]]
          /\ IsFiniteSet(F) /\ Cardinality(F) <= MaxEntries
    BY <1>0, <2>1, PutEntry DEF StoreType, Bounded
  <2>5. DOMAIN store' = F /\ \A j \in F : store'[j] = IF j = k THEN e ELSE store[j]
    BY <2>4
  <2>6. ASSUME NEW j \in F PROVE EntryInv(j)'
    <3>1. CASE j = k
      <4>1. store'[j].version = v /\ store'[j].expires = clock + TTL
        BY <2>5, <3>1
      <4> HIDE DEF v, k
      <4> QED
        BY <2>1, <2>2, <2>3, <3>1, <4>1, TimeAssumption DEF EntryInv, CurrentSince, world
    <3>2. CASE j # k
      BY <1>0, <2>1, <2>5, <3>2 DEF EntryInv, CurrentSince, world
    <3> QED
      BY <3>1, <3>2
  <2> QED
    BY <1>0, <2>1, <2>4, <2>5, <2>6 DEF StoreInv, Bounded, world
<1>5. ASSUME NEW t \in Threads, Revalidate(t) PROVE StoreInv'
  <2>1. /\ pc[t] = "answered" /\ HasAnswer(t) /\ Waiting(t)
        /\ answer[t].status = "304" /\ UNCHANGED <<world, cleared>>
        /\ DOMAIN store' = DOMAIN store
        /\ \A j \in DOMAIN store : store'[j].version = store[j].version
        /\ \A j \in DOMAIN store \ {key[t]} : store'[j] = store[j]
    BY <1>0, <1>5 DEF Revalidate, NotModified, ThreadInv, StoreType, Entries
  <2>2. key[t] \in Tagged
    BY <1>0, <2>1 DEF HasAnswer, Waiting, NoEntry, Typed
  <2>3. \A j \in DOMAIN store' : EntryInv(j)'
    BY <1>0, <2>1, <2>2 DEF EntryInv, CurrentSince, world
  <2> QED
    BY <1>0, <2>1, <2>3 DEF StoreInv, Bounded, world
<1>6. \/ UNCHANGED <<store, cleared>> \/ \E K \in Patterns : Invalidate(K)
      \/ \E t \in Threads : GetMiss(t) \/ PutAnswer(t) \/ Revalidate(t)
  BY DEF Next, vars, Get, Tick, Change, Begin, GetHit, GetStale, Answer, Fail, ReturnError
<1> QED
  BY <1>1, <1>2, <1>3, <1>4, <1>5, <1>6

LEMMA CacheAlways == Spec => []CacheInv
<1>1. CacheInv /\ [Next]_vars => CacheInv'
  BY TypeNext, StoreNext, CallNext DEF CacheInv
<1> QED
  BY <1>1, CacheInit, PTL DEF Spec

\* Every field has its type; no stored body is of a version the API has not had.
THEOREM TypeCorrect == Spec => []TypeOK
<1>1. CacheInv => TypeOK
  BY DEF CacheInv
<1> QED
  BY <1>1, CacheAlways, PTL

\* Whatever the threads put and clear, there are at most MaxEntries entries.
THEOREM NeverTooMany == Spec => []Bounded
<1>1. CacheInv => Bounded
  BY DEF CacheInv, StoreInv
<1> QED
  BY <1>1, CacheAlways, PTL

\* An answer the API was asked for was true after the call began, a 304 included.
THEOREM AnswersAreCurrent == Spec => []AskedIsCurrent
<1>1. CacheInv => AskedIsCurrent
  BY DEF CacheInv, CallInv, ThreadInv, Over, CurrentSince, AskedIsCurrent, Outdated, ReplacedAt
<1> QED
  BY <1>1, CacheAlways, PTL

\* What an invalidation removed does not come back, unless it was on its way to the cache.
THEOREM InvalidationHolds == Spec => []ClearedStaysCleared
<1>1. CacheInv => ClearedStaysCleared
  BY DEF CacheInv, CallInv, ThreadInv, Over, ClearedStaysCleared
<1> QED
  BY <1>1, CacheAlways, PTL

\* Without ETags no answer is older than a TTL and a timeout.
THEOREM ChangesAreSeen == Spec => []ChangesBecomeVisible
<1>1. CacheInv => ChangesBecomeVisible
  <2> SUFFICES ASSUME CacheInv, NEW t \in Threads, Returned(t), key[t] \notin Tagged, Outdated(t)
               PROVE  begun[t] < ReplacedAt(t) + TTL + Timeout
    BY DEF ChangesBecomeVisible
  <2>1. Typed(t) /\ Over(t) /\ ReplacedAt(t) \in Nat
    BY AllTyped, ChangedType DEF CacheInv, CallInv, ThreadInv, ReplacedAt, Outdated, Typed
  <2> QED
    BY <2>1, TimeAssumption DEF Typed, Over, CurrentSince, ReplacedAt, Outdated
<1> QED
  BY <1>1, CacheAlways, PTL
===============================================================================
