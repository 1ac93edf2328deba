--------------------------- MODULE RateLimiterProofs ---------------------------
(***************************************************************************)
(* The long-run rate of the limiter, for every number of threads, interval *)
(* and starting time, and for every schedule of the threads.               *)
(***************************************************************************)
EXTENDS RateLimiter, FiniteSetTheorems, TLAPS

(* The state stays within the types of its fields: the locals of wait(), the
   slot and the history of departures. *)
THEOREM TypeCorrect == Spec => []TypeOK
<1>1. Init => TypeOK
  BY StartAssumption DEF Init, TypeOK
<1>2. TypeOK /\ [Next]_vars => TypeOK'
  <2> SUFFICES ASSUME TypeOK, [Next]_vars PROVE TypeOK'
    OBVIOUS
  <2> USE DEF TypeOK
  <2>1. CASE Tick
    BY <2>1 DEF Tick
  <2>2. ASSUME NEW t \in Threads, Call(t) PROVE TypeOK'
    BY <2>2 DEF Call
  <2>3. ASSUME NEW t \in Threads, ReadSlot(t) PROVE TypeOK'
    BY <2>3 DEF ReadSlot, Acquire
  <2>4. ASSUME NEW t \in Threads, Reserve(t) PROVE TypeOK'
    BY <2>4, IntervalAssumption DEF Reserve, Larger, MoveSlot, Release
  <2>5. ASSUME NEW t \in Threads, Nap(t) PROVE TypeOK'
    BY <2>5 DEF Nap, SleepFor, Larger
  <2>6. ASSUME NEW t \in Threads, Send(t) PROVE TypeOK'
    BY <2>6 DEF Send
  <2>7. CASE UNCHANGED vars
    BY <2>7 DEF vars
  <2> QED
    BY <2>1, <2>2, <2>3, <2>4, <2>5, <2>6, <2>7 DEF Next, Step
<1> QED
  BY <1>1, <1>2, PTL DEF Spec

-------------------------------------------------------------------------------
(* Slots are whole ticks, an Interval apart. *)
LEMMA SlotStep ==
  ASSUME NEW k \in Nat
  PROVE  /\ SlotOf(k) \in Int
         /\ SlotOf(k) >= Start
         /\ SlotOf(k + 1) = SlotOf(k) + Interval
<1>1. k * Interval \in Nat /\ (k + 1) * Interval = k * Interval + Interval
  BY IntervalAssumption
<1> QED
  BY <1>1, StartAssumption, IntervalAssumption DEF SlotOf

(* No step of any thread disturbs the reservations: the slot bookkeeping of
   wait() and the history of departures, together with their types, are an
   inductive invariant. *)
THEOREM SlotsCorrect == Spec => [](SlotsInv /\ OneRequestPerSlot)
<1>1. Init => SlotsInv /\ OneRequestPerSlot
  BY StartAssumption DEF Init, SlotsInv, OneRequestPerSlot, Holding, SentTickets
<1>2. TypeOK /\ SlotsInv /\ OneRequestPerSlot /\ [Next]_vars
      => (SlotsInv /\ OneRequestPerSlot)'
  <2> SUFFICES ASSUME TypeOK, SlotsInv, OneRequestPerSlot, [Next]_vars
               PROVE  (SlotsInv /\ OneRequestPerSlot)'
    OBVIOUS
  <2> USE StartAssumption, IntervalAssumption DEF TypeOK, SlotsInv, Holding, SentTickets, SleepFor
  <2>1. CASE Tick
    BY <2>1, SlotStep DEF Tick, Larger, SleepFor, OneRequestPerSlot
  <2>2. ASSUME NEW t \in Threads, Call(t)
        PROVE  (SlotsInv /\ OneRequestPerSlot)'
    BY <2>2 DEF Call, OneRequestPerSlot
  <2>3. ASSUME NEW t \in Threads, ReadSlot(t)
        PROVE  (SlotsInv /\ OneRequestPerSlot)'
    <3>1. \A u \in Threads : pc[u] # "reserve"
      BY <2>3, LockAssumption DEF ReadSlot, Acquire
    <3> QED
      BY <2>3, <3>1 DEF ReadSlot, Acquire, OneRequestPerSlot
  <2>4. ASSUME NEW t \in Threads, Reserve(t)
        PROVE  (SlotsInv /\ OneRequestPerSlot)'
    <3>1. /\ lock = t /\ now[t] \in Start .. clock /\ delay[t] = nextSlot - now[t]
          /\ nextSlot' = Larger(now[t], nextSlot) + Interval
          /\ granted' = granted + 1
      BY <2>4 DEF Reserve, MoveSlot, Release
    <3>2. Larger(now[t], nextSlot) >= SlotOf(granted)
      <4>1. CASE granted = 0
        <5>1. SlotOf(0) = Start
          BY DEF SlotOf
        <5> QED
          BY <3>1, <4>1, <5>1 DEF Larger
      <4>2. CASE granted > 0
        BY <3>1, <4>2, SlotStep DEF Larger, SleepFor
      <4> QED
        BY <4>1, <4>2
    <3>3. nextSlot' >= SlotOf(granted')
      BY <3>1, <3>2, SlotStep DEF Larger, SleepFor
    <3>4. clock + SleepFor(t) >= SlotOf(granted)
      BY <3>1, <3>2, SlotStep DEF Larger, SleepFor
    <3>5. \A u \in Threads : u # t => pc[u] # "reserve"
      BY <3>1
    <3>6. OneRequestPerSlot'
      BY <2>4 DEF Reserve, MoveSlot, Release, OneRequestPerSlot
    <3>7. \A r \in sent : r.ticket < granted
      BY DEF OneRequestPerSlot
    <3> QED
      BY <2>4, <3>3, <3>4, <3>5, <3>6, <3>7 DEF Reserve, MoveSlot, Release
  <2>5. ASSUME NEW t \in Threads, Nap(t)
        PROVE  (SlotsInv /\ OneRequestPerSlot)'
    BY <2>5 DEF Nap, SleepFor, OneRequestPerSlot
  <2>6. ASSUME NEW t \in Threads, Send(t)
        PROVE  (SlotsInv /\ OneRequestPerSlot)'
    <3>1. /\ sent' = sent \cup {[ticket |-> ticket[t], at |-> clock]}
          /\ ticket[t] \notin SentTickets
          /\ ticket[t] < granted
          /\ clock >= SlotOf(ticket[t])
      BY <2>6, SlotStep DEF Send
    <3>2. OneRequestPerSlot'
      BY <2>6, <3>1 DEF OneRequestPerSlot, Send, SlotOf
    <3>3. SlotsInv'
      BY <2>6, <3>1 DEF Send
    <3> QED
      BY <3>2, <3>3
  <2>7. CASE UNCHANGED vars
    BY <2>7 DEF vars, OneRequestPerSlot, SleepFor
  <2> QED
    BY <2>1, <2>2, <2>3, <2>4, <2>5, <2>6, <2>7 DEF Next, Step
<1> QED
  BY <1>1, <1>2, TypeCorrect, PTL DEF Spec

(* wait() gives every request a slot of its own, and none leaves before it. *)
THEOREM SlotsNotShared == Spec => []OneRequestPerSlot
  BY SlotsCorrect, PTL

-------------------------------------------------------------------------------
(* The tickets that left are finitely many: each is an earlier reservation. *)
LEMMA SentFinite ==
  ASSUME TypeOK, OneRequestPerSlot
  PROVE  IsFiniteSet(SentTickets) /\ Cardinality(SentTickets) \in Nat
<1>1. SentTickets \in SUBSET Nat /\ \A k \in SentTickets : k <= granted
  BY DEF TypeOK, OneRequestPerSlot, SentTickets
<1>2. IsFiniteSet(SentTickets)
  BY <1>1, FS_BoundedSetOfNaturals DEF TypeOK
<1> QED
  BY <1>2, FS_CardinalityType

(* Distinct tickets, each gone no earlier than its own slot, bound their
   number: among c of them one is at least c - 1. *)
LEMMA SlotsBoundRate ==
  ASSUME TypeOK, SlotsInv, OneRequestPerSlot
  PROVE  AverageRate
<1> DEFINE c == Cardinality(SentTickets)
<1>1. c \in Nat
  BY SentFinite
<1>2. CASE c <= 1
  <2>1. (c - 1) * Interval <= 0
    BY <1>1, <1>2, IntervalAssumption
  <2> QED
    BY <2>1, StartAssumption, IntervalAssumption, <1>1 DEF AverageRate, SlotsInv, TypeOK
<1>3. CASE c > 1
  <2>1. \E k \in SentTickets : k >= c - 1
    <3>1. SentTickets \in SUBSET Nat
      BY DEF SentTickets, TypeOK
    <3>2. c - 2 \in Nat
      BY <1>1, <1>3
    <3>3. ASSUME \A k \in SentTickets : k <= c - 2 PROVE FALSE
      <4>1. c <= c - 2 + 1
        BY <3>1, <3>2, <3>3, FS_BoundedSetOfNaturals
      <4> HIDE DEF c
      <4> QED
        BY <4>1, <1>1
    <3> HIDE DEF c
    <3>4. PICK k \in SentTickets : ~(k <= c - 2)
      BY <3>3
    <3>5. k \in Nat
      BY <3>1, <3>4
    <3>6. k >= c - 1
      BY <3>4, <3>5, <1>1
    <3> QED
      BY <3>6
  <2>2. PICK r \in sent : r.ticket >= c - 1
    BY <2>1 DEF SentTickets
  <2>3. r.ticket \in Nat /\ r.at \in Nat /\ r.at <= clock
        /\ r.at >= Start + r.ticket * Interval
    BY <2>2 DEF TypeOK, SlotsInv, OneRequestPerSlot
  <2>4. (c - 1) * Interval <= r.ticket * Interval
    BY <1>1, <2>2, <2>3, IntervalAssumption
  <2>5. /\ (c - 1) * Interval \in Int
        /\ r.ticket * Interval \in Int
    BY <1>1, <2>3, IntervalAssumption
  <2> HIDE DEF c
  <2>6. (c - 1) * Interval <= clock - Start
    BY <2>3, <2>4, <2>5, StartAssumption DEF TypeOK
  <2> QED
    BY <2>6 DEF AverageRate, c
<1> QED
  BY <1>1, <1>2, <1>3

(* AverageRate, the promise of --rate-limit over any stretch of time since the
   limiter was created, holds in every reachable state of every instance. *)
THEOREM RateBounded == Spec => []AverageRate
<1>1. TypeOK /\ SlotsInv /\ OneRequestPerSlot => AverageRate
  BY SlotsBoundRate
<1> QED
  BY <1>1, TypeCorrect, SlotsCorrect, PTL

(* A departure adds its own ticket, and no other, to those that left. *)
LEMMA OneMoreTicket ==
  ASSUME NEW S, NEW k, NEW c
  PROVE  {r.ticket : r \in S \cup {[ticket |-> k, at |-> c]}}
         = {r.ticket : r \in S} \cup {k}
<1> DEFINE e == [ticket |-> k, at |-> c]
<1>1. e.ticket = k
  OBVIOUS
<1> HIDE DEF e
<1>2. {r.ticket : r \in S \cup {e}} = {r.ticket : r \in S} \cup {k}
  BY <1>1
<1> QED
  BY <1>2 DEF e

(* The limiter implements its abstract budget: a departure is the only step
   the budget sees, and it is within the budget when it happens. *)
THEOREM Refinement == Spec => ImplementsBudget
<1>1. Init => Budget!Init
  BY FS_EmptySet DEF Init, Budget!Init, SentTickets
<1> DEFINE IInv == TypeOK /\ SlotsInv /\ OneRequestPerSlot
<1>2. IInv /\ IInv' /\ [Next]_vars
      => [Budget!Next]_<<clock, Cardinality(SentTickets)>>
  <2> SUFFICES ASSUME IInv, IInv', [Next]_vars
               PROVE  [Budget!Next]_<<clock, Cardinality(SentTickets)>>
    OBVIOUS
  <2>1. CASE Tick
    <3>1. clock' > clock
      BY <2>1 DEF Tick, TypeOK
    <3> QED
      BY <2>1, <3>1 DEF Tick, SentTickets, Budget!Next, Budget!Pass
  <2>2. ASSUME NEW t \in Threads, Send(t) PROVE Budget!Next
    <3>1. /\ SentTickets' = SentTickets \cup {ticket[t]}
          /\ ticket[t] \notin SentTickets
          /\ clock' = clock
      <4>1. sent' = sent \cup {[ticket |-> ticket[t], at |-> clock]}
            /\ clock' = clock /\ pc[t] = "sleep"
        BY <2>2 DEF Send
      <4>2. SentTickets' = SentTickets \cup {ticket[t]}
        BY <4>1, OneMoreTicket DEF SentTickets
      <4>3. ticket[t] \notin SentTickets
        BY <4>1 DEF SlotsInv, Holding
      <4> QED
        BY <4>1, <4>2, <4>3
    <3>2. /\ Cardinality(SentTickets') = Cardinality(SentTickets) + 1
          /\ Cardinality(SentTickets) \in Nat
      BY <3>1, SentFinite, FS_AddElement
    <3>3. (Cardinality(SentTickets') - 1) * Interval <= clock - Start
      <4>1. AverageRate'
        BY SlotsBoundRate, PTL
      <4> QED
        BY <4>1, <3>1 DEF AverageRate
    <3>4. Cardinality(SentTickets) * Interval <= clock - Start
      BY <3>2, <3>3
    <3> QED
      BY <3>1, <3>2, <3>4 DEF Budget!Next, Budget!Depart
  <2>3. ASSUME NEW t \in Threads, Call(t) \/ ReadSlot(t) \/ Reserve(t) \/ Nap(t)
        PROVE  UNCHANGED <<clock, Cardinality(SentTickets)>>
    BY <2>3 DEF Call, ReadSlot, Reserve, Nap, SentTickets
  <2>4. CASE UNCHANGED vars
    BY <2>4 DEF vars, SentTickets
  <2> QED
    BY <2>1, <2>2, <2>3, <2>4 DEF Next, Step
<1> QED
  BY <1>1, <1>2, TypeCorrect, SlotsCorrect, PTL DEF Spec, ImplementsBudget, Budget!Spec
===============================================================================
