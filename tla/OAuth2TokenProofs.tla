-------------------------- MODULE OAuth2TokenProofs ---------------------------
(***************************************************************************)
(* Why the double-checked lock is enough, for any number of threads and    *)
(* any lifetimes of tokens.  Everything rests on what a thread inside the  *)
(* lock knows: that it is alone there, that the reason it had to fetch is  *)
(* still true, and that the token it was given is the newest.              *)
(***************************************************************************)
EXTENDS OAuth2Token, SequenceTheorems, TLAPS

\* The places inside the lock.
Inside == {"fetch", "store_token", "store_expiry", "drop_expiry"}

\* The lock is its holder's, and nobody else is inside.
Exclusion == \A t \in Threads : pc[t] \in Inside <=> lock = t

Agree == expiresAt = (IF token = NoToken THEN 0 ELSE lifeEnd[token])

\* What is true while t is at each place inside.
InsideInv == \A t \in Threads :
  /\ pc[t] = "fetch" => Agree /\ MustFetch
  /\ pc[t] = "store_token" => token < issued /\ got[t].token = issued
  /\ pc[t] = "store_expiry" => issued > 0 /\ token = issued /\ got[t].token = issued
  /\ pc[t] = "drop_expiry" => token = NoToken

\* Between the answer and its storing, nobody can have seen the newest token.
Unseen == \A s \in Threads : pc[s] = "store_token" =>
  \A t \in Threads : header[t] # issued /\ refused[t] # issued

\* The field holds the newest token, unless that one has been dropped or is on its way.
Newest ==
  \/ token = issued
  \/ token = NoToken /\ issued \in dropped
  \/ \E t \in Threads : pc[t] = "store_token"

TokenInv ==
  /\ TypeOK /\ Exclusion /\ FieldsAgree /\ InsideInv /\ Newest
  /\ FetchedForAReason

\* After its self-heal a call never finds the refused token again.
RetryInv == Unseen /\ \A t \in Threads :
  attempt[t] = 2 /\ refused[t] # NoToken =>
    /\ pc[t] # "drop_token" => token # refused[t]
    /\ pc[t] = "send" => header[t] # refused[t]
-------------------------------------------------------------------------------
\* What Issue does to lifeEnd.
LEMMA AppendLife ==
  ASSUME NEW n \in Nat, NEW s \in [1 .. n -> Nat], NEW x \in Nat
  PROVE  /\ Append(s, x) \in [1 .. n + 1 -> Nat]
         /\ Append(s, x)[n + 1] = x
         /\ \A k \in 1 .. n : Append(s, x)[k] = s[k]
<1>1. s \in Seq(Nat) /\ Len(s) = n
  OBVIOUS
<1>2. Append(s, x) \in Seq(Nat)
  BY <1>1
<1>3. Len(Append(s, x)) = n + 1
  BY <1>1
<1>4. Append(s, x)[n + 1] = x
  BY <1>1
<1>5. ASSUME NEW k \in 1 .. n PROVE Append(s, x)[k] = s[k]
  BY <1>1
<1>6. Append(s, x) \in [1 .. Len(Append(s, x)) -> Nat]
  BY <1>2, LenProperties
<1> QED
  BY <1>3, <1>4, <1>5, <1>6

LEMMA TypeInit == Init => TypeOK
  BY ThreadAssumption, TimeAssumption, BoundAssumption DEF Init, TypeOK, Labels, NoGrant, NoToken

LEMMA TypeNext == TypeOK /\ [Next]_vars => TypeOK'
<1> SUFFICES ASSUME TypeOK, [Next]_vars PROVE TypeOK'
  OBVIOUS
<1> USE ThreadAssumption, TimeAssumption DEF TypeOK, NoToken, NoGrant, Labels, Goto
<1>0. ASSUME NEW t \in Threads, NEW how \in {"answered", "unauthorized", "fetch_failed", "no_token"},
             Finish(t, how)
      PROVE  /\ pc' \in [Threads -> Labels] /\ attempt' \in [Threads -> {1, 2}]
             /\ refused' \in [Threads -> 0 .. issued]
             /\ outcome' \in [Threads -> {"none", "answered", "unauthorized", "fetch_failed", "no_token"}]
  <2>1. pc' \in [Threads -> Labels] /\ attempt' \in [Threads -> {1, 2}]
    BY <1>0 DEF Finish
  <2>2. 0 \in 0 .. issued
    OBVIOUS
  <2>3. refused' \in [Threads -> 0 .. issued]
    BY <1>0, <2>2 DEF Finish
  <2>4. outcome' \in [Threads -> {"none", "answered", "unauthorized", "fetch_failed", "no_token"}]
    BY <1>0 DEF Finish
  <2> QED
    BY <2>1, <2>3, <2>4
<1>1. CASE UNCHANGED vars
  BY <1>1 DEF vars, client, server, call
<1>2. CASE Tick
  BY <1>2, BoundAssumption DEF Tick, client, server, call
<1>3. CASE Revoke
  BY <1>3 DEF Revoke, client, call
<1>4. ASSUME NEW t \in Threads, Begin(t) PROVE TypeOK'
  <2>1. header' \in [Threads -> 0 .. issued] /\ pc' \in [Threads -> Labels]
    BY <1>4 DEF Begin
  <2>2. outcome' = [outcome EXCEPT ![t] = "none"] /\ calls' = calls + 1 /\ calls < MaxCalls
    BY <1>4 DEF Begin
  <2>3. UNCHANGED <<clock, client, server, attempt, refused>>
    BY <1>4 DEF Begin
  <2>4. /\ outcome' \in [Threads -> {"none", "answered", "unauthorized", "fetch_failed", "no_token"}]
        /\ calls' \in Nat
    BY <2>2, BoundAssumption
  <2> QED
    BY <2>1, <2>3, <2>4 DEF client, server
<1>5. ASSUME NEW t \in Threads, CheckToken(t) PROVE TypeOK'
  BY <1>5 DEF CheckToken, client, server, call
<1>6. ASSUME NEW t \in Threads, CheckExpiry(t) PROVE TypeOK'
  BY <1>6 DEF CheckExpiry, client, server, call
<1>7. ASSUME NEW t \in Threads, EnterLock(t) PROVE TypeOK'
  BY <1>7 DEF EnterLock, server, call
<1>8. ASSUME NEW t \in Threads, Issue(t) PROVE TypeOK'
  <2>1. lifeEnd' \in [1 .. issued' -> Nat]
    BY <1>8, AppendLife DEF Issue
  <2>2. got' \in [Threads -> [token : 0 .. issued', ttl : Lifetimes \cup {0}]]
    BY <1>8 DEF Issue
  <2>3. issued' \in Nat /\ 0 .. issued \subseteq 0 .. issued' /\ 1 .. issued \subseteq 1 .. issued'
    BY <1>8 DEF Issue
  <2>4. header' \in [Threads -> 0 .. issued'] /\ refused' \in [Threads -> 0 .. issued']
    BY <1>8, <2>3 DEF Issue, call
  <2>5. pc' \in [Threads -> Labels]
    BY <1>8 DEF Issue
  <2> QED
    BY <1>8, <2>1, <2>2, <2>3, <2>4, <2>5 DEF Issue, call
<1>9. ASSUME NEW t \in Threads, FetchFails(t) PROVE TypeOK'
  BY <1>9 DEF FetchFails, Release, Finish, server
<1>10. ASSUME NEW t \in Threads, StoreToken(t) PROVE TypeOK'
  BY <1>10 DEF StoreToken, AccessToken, server, call
<1>11. ASSUME NEW t \in Threads, StoreExpiry(t) PROVE TypeOK'
  <2>1. clock + Lifetime(got[t].ttl) \in Nat
    <3>1. got[t] \in [token : 0 .. issued, ttl : Lifetimes \cup {0}]
      OBVIOUS
    <3>2. got[t].ttl \in Lifetimes \cup {0}
      BY <3>1
    <3>3. Lifetimes \cup {0} \subseteq Nat
      OBVIOUS
    <3>4. got[t].ttl \in Nat
      BY <3>2, <3>3, Zenon
    <3> QED
      BY <3>4 DEF Lifetime
  <2>2. lifeEnd' \in [1 .. issued -> Nat] /\ expiresAt' \in Nat
    BY <1>11, <2>1 DEF StoreExpiry
  <2>3. got' \in [Threads -> [token : 0 .. issued, ttl : Lifetimes \cup {0}]]
    <3>1. got' = [got EXCEPT ![t] = NoGrant]
      BY <1>11 DEF StoreExpiry
    <3>2. NoGrant \in [token : 0 .. issued, ttl : Lifetimes \cup {0}]
      OBVIOUS
    <3> HIDE DEF NoGrant
    <3> QED
      BY <3>1, <3>2
  <2>4. pc' \in [Threads -> Labels] /\ lock' = NoThread /\ UNCHANGED <<clock, token, dropped, server, call>>
    BY <1>11 DEF StoreExpiry, Release
  <2> QED
    BY <2>2, <2>3, <2>4 DEF server, call
<1>12. ASSUME NEW t \in Threads, Present(t) PROVE TypeOK'
  BY <1>12 DEF Present, client, server, call
<1>13. ASSUME NEW t \in Threads, NoTokenAfterAll(t) PROVE TypeOK'
  BY <1>13, <1>0 DEF NoTokenAfterAll, client, server
<1>14. ASSUME NEW t \in Threads, ReadHeader(t) PROVE TypeOK'
  BY <1>14 DEF ReadHeader, client, server
<1>15. ASSUME NEW t \in Threads, Answered(t) PROVE TypeOK'
  BY <1>15, <1>0 DEF Answered, client, server
<1>16. ASSUME NEW t \in Threads, FirstRefusal(t) PROVE TypeOK'
  BY <1>16 DEF FirstRefusal, AfterFirstRefusal, client, server
<1>17. ASSUME NEW t \in Threads, SecondRefusal(t) PROVE TypeOK'
  BY <1>17, <1>0 DEF SecondRefusal, client, server
<1>18. ASSUME NEW t \in Threads, DropToken(t) PROVE TypeOK'
  BY <1>18 DEF DropToken, Acquire, server, call
<1>19. ASSUME NEW t \in Threads, DropExpiry(t) PROVE TypeOK'
  BY <1>19 DEF DropExpiry, Release, server, call
<1>20. QED
  BY <1>1, <1>2, <1>3, <1>4, <1>5, <1>6, <1>7, <1>8, <1>9, <1>10, <1>11, <1>12, <1>13, <1>14, <1>15, <1>16, <1>17, <1>18, <1>19 DEF Next, Headers, SelfHeal
\* Every field has its type, for any number of threads and any lifetimes.
THEOREM TypeCorrect == Spec => []TypeOK
  BY TypeInit, TypeNext, PTL DEF Spec
-------------------------------------------------------------------------------
LEMMA TokenInit == Init => TokenInv
  BY TypeInit, ThreadAssumption
     DEF Init, TokenInv, Exclusion, Inside, FieldsAgree, Agree, InsideInv, Newest, FetchedForAReason,
         NoGrant, NoToken

\* Who changes no field of the client and enters or leaves no part of the lock disturbs
\* nothing; time only makes a token nearer its expiry.
LEMMA OutsideSteps ==
  ASSUME TokenInv, TypeOK', UNCHANGED <<client, issued>>, clock' \in {clock, clock + 1},
         \A t \in Threads : pc[t] \in Inside \/ pc'[t] \in Inside => pc'[t] = pc[t]
  PROVE  TokenInv'
<1> USE DEF TokenInv, TypeOK, client, NoToken
<1>1. Exclusion'
  BY DEF Exclusion, Inside
<1>2. FieldsAgree'
  BY DEF FieldsAgree
<1>3. MustFetch => MustFetch'
  BY TimeAssumption DEF MustFetch, NearExpiry
<1>4. InsideInv'
  <2>1. Agree => Agree'
    BY DEF Agree
  <2> QED
    BY <1>3, <2>1 DEF InsideInv, Inside
<1>5. Newest'
  BY DEF Newest, Inside
<1>6. FetchedForAReason'
  BY TimeAssumption DEF FetchedForAReason
<1> QED
  BY <1>1, <1>2, <1>4, <1>5, <1>6

LEMMA TokenNext == TokenInv /\ [Next]_vars => TokenInv'
<1> SUFFICES ASSUME TokenInv, [Next]_vars PROVE TokenInv'
  OBVIOUS
<1> TypeOK /\ TypeOK'
  BY TypeNext DEF TokenInv
<1> USE ThreadAssumption, TimeAssumption DEF Inside, Goto, NoToken
<1>1. CASE UNCHANGED vars \/ Tick \/ Revoke
  <2>1. UNCHANGED <<client, issued>> /\ clock' \in {clock, clock + 1} /\ pc' = pc
    BY <1>1 DEF vars, Tick, Revoke, client, server
  <2> QED
    BY <2>1, OutsideSteps
<1>2. ASSUME NEW t \in Threads,
             \/ Begin(t) \/ CheckToken(t) \/ CheckExpiry(t) \/ Present(t) \/ NoTokenAfterAll(t)
             \/ ReadHeader(t) \/ Answered(t) \/ FirstRefusal(t) \/ SecondRefusal(t)
      PROVE  TokenInv'
  <2>1. /\ UNCHANGED <<client, issued, clock>>
        /\ pc[t] \notin Inside
        /\ \E l \in Labels \ Inside : pc' = [pc EXCEPT ![t] = l]
    BY <1>2 DEF Begin, CheckToken, CheckExpiry, Present, NoTokenAfterAll, ReadHeader, Answered,
                FirstRefusal, SecondRefusal, AfterFirstRefusal, Finish, client, server, Labels
  <2>2. \A s \in Threads : pc[s] \in Inside \/ pc'[s] \in Inside => pc'[s] = pc[s]
    BY <2>1 DEF TypeOK
  <2> QED
    BY <2>1, <2>2, OutsideSteps
<1>3. ASSUME NEW t \in Threads, EnterLock(t) PROVE TokenInv'
  <2> USE DEF TokenInv, TypeOK
  <2>1. UNCHANGED <<clock, token, expiresAt, issued, got, dropped, lifeEnd>> /\ lock = NoThread
    BY <1>3 DEF EnterLock, server
  <2>2. CASE ~MustFetch
    <3>1. \A s \in Threads : pc[s] \in Inside \/ pc'[s] \in Inside => pc'[s] = pc[s]
      BY <1>3, <2>2 DEF EnterLock
    <3> QED
      BY <1>3, <2>1, <2>2, <3>1, OutsideSteps DEF EnterLock, client, server
  <2>3. CASE MustFetch
    <3>1. lock' = t /\ pc' = [pc EXCEPT ![t] = "fetch"]
      BY <1>3, <2>3 DEF EnterLock
    <3>2. Exclusion' /\ FieldsAgree'
      BY <2>1, <3>1 DEF Exclusion, FieldsAgree
    <3>3. Agree' /\ MustFetch'
      BY <2>1, <2>3 DEF FieldsAgree, Agree, MustFetch, NearExpiry
    <3>4. InsideInv'
      BY <2>1, <3>1, <3>3 DEF InsideInv, Exclusion
    <3>5. Newest' /\ FetchedForAReason'
      BY <1>3, <2>1, <3>1 DEF EnterLock, Newest, FetchedForAReason
    <3> QED
      BY <3>2, <3>4, <3>5
  <2> QED
    BY <2>2, <2>3
<1>4. ASSUME NEW t \in Threads, Issue(t) PROVE TokenInv'
  <2> USE DEF TokenInv, TypeOK
  <2>1. /\ pc[t] = "fetch" /\ pc' = [pc EXCEPT ![t] = "store_token"]
        /\ issued' = issued + 1 /\ lifeEnd' = Append(lifeEnd, 0) /\ got'[t].token = issued + 1
        /\ UNCHANGED <<clock, lock, token, expiresAt, dropped>>
    BY <1>4 DEF Issue
  <2>2. \A k \in 1 .. issued : lifeEnd'[k] = lifeEnd[k]
    BY <2>1, AppendLife
  <2>3. Exclusion' /\ FieldsAgree' /\ Newest'
    BY <2>1 DEF Exclusion, FieldsAgree, Newest
  <2>4. InsideInv'
    BY <2>1, <1>4 DEF InsideInv, Exclusion, Issue
  <2>5. FetchedForAReason'
    <3> SUFFICES ASSUME NEW k \in 1 .. issued
                 PROVE  k \in dropped \/ clock > lifeEnd[k] - Margin
      BY <2>1, <2>2 DEF FetchedForAReason
    <3>1. CASE k < issued
      BY <3>1 DEF FetchedForAReason
    <3>2. CASE k = issued
      <4>1. CASE token = issued
        <5>1. clock > expiresAt - Margin /\ expiresAt = lifeEnd[issued]
          BY <2>1, <3>2, <4>1 DEF InsideInv, Agree, MustFetch, NearExpiry
        <5> QED
          BY <3>2, <5>1
      <4>2. CASE token = NoToken /\ issued \in dropped
        BY <3>2, <4>2
      <4>3. ASSUME NEW s \in Threads, pc[s] = "store_token" PROVE FALSE
        BY <2>1, <4>3, ThreadAssumption DEF Exclusion, Inside
      <4> QED
        BY <4>1, <4>2, <4>3 DEF Newest
    <3> QED
      BY <3>1, <3>2
  <2> QED
    BY <2>3, <2>4, <2>5
<1>5. ASSUME NEW t \in Threads, FetchFails(t) PROVE TokenInv'
  <2> USE DEF TokenInv, TypeOK
  <2>1. /\ pc[t] = "fetch" /\ lock' = NoThread /\ pc' = [pc EXCEPT ![t] = "idle"]
        /\ UNCHANGED <<clock, token, expiresAt, issued, got, dropped, lifeEnd>>
    BY <1>5 DEF FetchFails, Release, Finish, server
  <2>2. Exclusion' /\ Newest' /\ FetchedForAReason'
    BY <2>1 DEF Exclusion, Newest, FetchedForAReason
  <2>3. FieldsAgree'
    BY <2>1 DEF InsideInv, Agree, FieldsAgree
  <2>4. InsideInv'
    BY <2>1 DEF InsideInv, Exclusion
  <2> QED
    BY <2>2, <2>3, <2>4
<1>6. ASSUME NEW t \in Threads, StoreToken(t) PROVE TokenInv'
  <2> USE DEF TokenInv, TypeOK
  <2>1. /\ pc[t] = "store_token" /\ pc' = [pc EXCEPT ![t] = "store_expiry"] /\ token' = issued
        /\ UNCHANGED <<clock, lock, expiresAt, issued, got, dropped, lifeEnd>>
    BY <1>6 DEF StoreToken, AccessToken, InsideInv, server
  <2>2. Exclusion' /\ FieldsAgree' /\ Newest' /\ FetchedForAReason'
    BY <2>1 DEF Exclusion, FieldsAgree, Newest, FetchedForAReason
  <2>3. InsideInv'
    BY <2>1 DEF InsideInv, Exclusion
  <2> QED
    BY <2>2, <2>3
<1>7. ASSUME NEW t \in Threads, StoreExpiry(t) PROVE TokenInv'
  <2> USE DEF TokenInv, TypeOK
  <2>1. /\ pc[t] = "store_expiry" /\ lock' = NoThread /\ pc' = [pc EXCEPT ![t] = "present"]
        /\ token = issued /\ expiresAt' = clock + Lifetime(got[t].ttl)
        /\ lifeEnd' = [lifeEnd EXCEPT ![issued] = expiresAt']
        /\ UNCHANGED <<clock, token, issued, dropped>>
    BY <1>7 DEF StoreExpiry, InsideInv, Release, server
  <2>2. issued > 0
    BY <1>7 DEF StoreExpiry, InsideInv
  <2>3. Exclusion' /\ Newest'
    BY <2>1 DEF Exclusion, Newest
  <2>4. \A k \in 1 .. issued - 1 : lifeEnd'[k] = lifeEnd[k]
    BY <2>1
  <2>5. FetchedForAReason' /\ FieldsAgree'
    <3>1. FetchedForAReason'
      BY <2>1, <2>4 DEF FetchedForAReason
    <3>2. issued \in 1 .. issued /\ lifeEnd'[issued] = expiresAt' /\ token # NoToken
      BY <2>1, <2>2
    <3>3. FieldsAgree'
      BY <2>1, <3>2 DEF FieldsAgree
    <3> QED
      BY <3>1, <3>3
  <2>6. InsideInv'
    BY <2>1 DEF InsideInv, Exclusion
  <2> QED
    BY <2>3, <2>6, <2>5
<1>8. ASSUME NEW t \in Threads, DropToken(t) PROVE TokenInv'
  <2> USE DEF TokenInv, TypeOK
  <2>1. /\ lock = NoThread /\ lock' = t /\ pc' = [pc EXCEPT ![t] = "drop_expiry"]
        /\ token' = NoToken /\ dropped' = dropped \cup ({token} \ {NoToken})
        /\ UNCHANGED <<clock, expiresAt, issued, got, lifeEnd>>
    BY <1>8 DEF DropToken, Acquire, server
  <2>2. Exclusion' /\ FieldsAgree' /\ FetchedForAReason'
    BY <2>1 DEF Exclusion, FieldsAgree, FetchedForAReason
  <2>3. Newest'
    BY <2>1 DEF Newest, Exclusion
  <2>4. InsideInv'
    BY <2>1 DEF InsideInv, Exclusion
  <2> QED
    BY <2>2, <2>3, <2>4
<1>9. ASSUME NEW t \in Threads, DropExpiry(t) PROVE TokenInv'
  <2> USE DEF TokenInv, TypeOK
  <2>1. /\ pc[t] = "drop_expiry" /\ lock' = NoThread /\ pc' = [pc EXCEPT ![t] = "check_token"]
        /\ expiresAt' = 0 /\ token = NoToken
        /\ UNCHANGED <<clock, token, issued, got, dropped, lifeEnd>>
    BY <1>9 DEF DropExpiry, InsideInv, Release, server
  <2>2. Exclusion' /\ Newest' /\ FetchedForAReason' /\ FieldsAgree'
    BY <2>1 DEF Exclusion, Newest, FetchedForAReason, FieldsAgree
  <2>3. InsideInv'
    BY <2>1 DEF InsideInv, Exclusion
  <2> QED
    BY <2>2, <2>3
<1> QED
  BY <1>1, <1>2, <1>3, <1>4, <1>5, <1>6, <1>7, <1>8, <1>9 DEF Next, Headers, SelfHeal

LEMMA TokenAlways == Spec => []TokenInv
  BY TokenInit, TokenNext, PTL DEF Spec

\* No token is fetched that an earlier one made unnecessary: each but the newest was
\* dropped after a 401 or had entered its refresh margin.
THEOREM EveryFetchHasAReason == Spec => []FetchedForAReason
<1>1. TokenInv => FetchedForAReason
  BY DEF TokenInv
<1> QED
  BY <1>1, TokenAlways, PTL

\* Outside the lock, the expiry headers() reads is that of the token it reads.
THEOREM FieldsAlwaysAgree == Spec => []FieldsAgree
<1>1. TokenInv => FieldsAgree
  BY DEF TokenInv
<1> QED
  BY <1>1, TokenAlways, PTL
-------------------------------------------------------------------------------
LEMMA RetryInit == Init => RetryInv
  BY DEF Init, RetryInv, Unseen, NoToken

LEMMA RetryNext == TokenInv /\ RetryInv /\ [Next]_vars => RetryInv'
<1> SUFFICES ASSUME TokenInv, RetryInv, [Next]_vars PROVE RetryInv'
  OBVIOUS
<1> USE DEF TokenInv, TypeOK, RetryInv, Goto, NoToken
<1>1. CASE UNCHANGED vars \/ Tick \/ Revoke
  <2>1. UNCHANGED <<token, issued, pc, attempt, header, refused>>
    BY <1>1 DEF vars, Tick, Revoke, client, server, call
  <2> QED
    BY <2>1 DEF Unseen
<1>2. ASSUME NEW t \in Threads,
             \/ CheckToken(t) \/ CheckExpiry(t) \/ EnterLock(t) \/ StoreExpiry(t) \/ Present(t)
             \/ DropExpiry(t)
      PROVE  RetryInv'
  \* Nothing but the thread's place changes: past its drop, and short of its request.
  <2>1. UNCHANGED <<token, issued, attempt, header, refused>>
    BY <1>2 DEF CheckToken, CheckExpiry, EnterLock, StoreExpiry, Present, DropExpiry, client,
                server, call
  <2>2. \E l \in {"lock", "check_expiry", "present", "fetch", "read_header", "check_token"} :
          pc' = [pc EXCEPT ![t] = l]
    BY <1>2 DEF CheckToken, CheckExpiry, EnterLock, StoreExpiry, Present, DropExpiry
  <2>3. pc[t] # "drop_token"
    BY <1>2 DEF CheckToken, CheckExpiry, EnterLock, StoreExpiry, Present, DropExpiry
  <2> QED
    BY <2>1, <2>2, <2>3 DEF Unseen
<1>3. ASSUME NEW t \in Threads,
             FetchFails(t) \/ NoTokenAfterAll(t) \/ Answered(t) \/ SecondRefusal(t)
      PROVE  RetryInv'
  <2>1. UNCHANGED <<token, issued, header>> /\ Finish(t, outcome'[t])
    BY <1>3 DEF FetchFails, NoTokenAfterAll, Answered, SecondRefusal, Finish, client, server
  <2>2. /\ pc' = [pc EXCEPT ![t] = "idle"] /\ attempt' = [attempt EXCEPT ![t] = 1]
        /\ refused' = [refused EXCEPT ![t] = 0]
    BY <2>1 DEF Finish
  <2>3. \A s \in Threads : pc[s] = "store_token" => issued > 0
    BY DEF InsideInv
  <2> QED
    BY <2>1, <2>2, <2>3 DEF Unseen
<1>4. ASSUME NEW t \in Threads, Begin(t) PROVE RetryInv'
  <2>1. /\ UNCHANGED <<token, issued, attempt, refused>> /\ header' = [header EXCEPT ![t] = 0]
        /\ pc[t] = "idle" /\ pc' = [pc EXCEPT ![t] = "check_token"]
    BY <1>4 DEF Begin, client, server
  <2>2. \A s \in Threads : pc[s] = "store_token" => issued > 0
    BY DEF InsideInv
  <2> QED
    BY <2>1, <2>2 DEF Unseen
<1>5. ASSUME NEW t \in Threads, Issue(t) PROVE RetryInv'
  <2>1. /\ UNCHANGED <<token, attempt, header, refused>> /\ issued' = issued + 1
        /\ pc[t] = "fetch" /\ pc' = [pc EXCEPT ![t] = "store_token"]
    BY <1>5 DEF Issue, call
  <2> QED
    BY <2>1 DEF Unseen
<1>6. ASSUME NEW t \in Threads, StoreToken(t) PROVE RetryInv'
  \* Nobody has been refused with the token that nobody could see.
  <2>1. /\ UNCHANGED <<issued, attempt, header, refused>> /\ token' = issued
        /\ pc[t] = "store_token" /\ pc' = [pc EXCEPT ![t] = "store_expiry"]
    BY <1>6 DEF StoreToken, AccessToken, InsideInv, server, call
  <2> QED
    BY <2>1 DEF Unseen
<1>7. ASSUME NEW t \in Threads, ReadHeader(t) PROVE RetryInv'
  <2>1. /\ UNCHANGED <<token, issued, attempt, refused>> /\ header' = [header EXCEPT ![t] = token]
        /\ pc[t] = "read_header" /\ pc' = [pc EXCEPT ![t] = "send"]
    BY <1>7 DEF ReadHeader, client, server
  <2>2. Unseen'
    BY <2>1 DEF Unseen, InsideInv
  <2> QED
    BY <2>1, <2>2
<1>8. ASSUME NEW t \in Threads, FirstRefusal(t) PROVE RetryInv'
  <2>1. /\ UNCHANGED <<token, issued, header>> /\ refused' = [refused EXCEPT ![t] = header[t]]
        /\ pc[t] = "send" /\ pc' = [pc EXCEPT ![t] = "drop_token"]
        /\ attempt' = [attempt EXCEPT ![t] = 2]
    BY <1>8 DEF FirstRefusal, AfterFirstRefusal, client, server
  <2> QED
    BY <2>1 DEF Unseen
<1>9. ASSUME NEW t \in Threads, DropToken(t) PROVE RetryInv'
  <2>1. /\ UNCHANGED <<issued, attempt, header, refused>> /\ token' = 0
        /\ pc[t] = "drop_token" /\ pc' = [pc EXCEPT ![t] = "drop_expiry"]
    BY <1>9 DEF DropToken, server, call
  <2> QED
    BY <2>1 DEF Unseen
<1> QED
  BY <1>1, <1>2, <1>3, <1>4, <1>5, <1>6, <1>7, <1>8, <1>9 DEF Next, Headers, SelfHeal

\* The second request of a call never carries the token its first one was refused with.
THEOREM RetriesCarryAnotherToken == Spec => []RetryCarriesAnotherToken
<1>1. RetryInv => RetryCarriesAnotherToken
  BY DEF RetryInv, RetryCarriesAnotherToken
<1> QED
  BY <1>1, TokenAlways, RetryInit, RetryNext, PTL DEF Spec
===============================================================================
