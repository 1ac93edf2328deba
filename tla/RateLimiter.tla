------------------------------ MODULE RateLimiter ------------------------------
(***************************************************************************)
(* http_client.RateLimiter: the client-side throttle every execute() waits *)
(* on before a request leaves.  The clock is read and _next_slot is moved  *)
(* under the lock; the sleep is outside it, so threads sleep side by side, *)
(* and a thread may be held up between any two steps.                      *)
(***************************************************************************)
EXTENDS Integers, FiniteSets

CONSTANTS Threads,    \* the threads that call execute()
          NoThread,   \* the lock is free
          Interval,   \* _min_interval = 1/rps, in clock ticks
          Start,      \* time.monotonic() when the limiter is created
          MaxClock,   \* bound: time passes this tick only for a sleeper
          MaxWaits    \* bound: calls of wait()

ASSUME IntervalAssumption == Interval \in Nat \ {0}
ASSUME StartAssumption == Start \in Nat
ASSUME BoundAssumption == MaxClock \in Nat /\ MaxWaits \in Nat
ASSUME LockAssumption == NoThread \notin Threads

VARIABLES
  clock,     \* the monotonic clock
  lock,      \* _lock: the thread inside the critical section
  nextSlot,  \* _next_slot
  pc,        \* where each thread is in wait()
  now,       \* the local `now`
  delay,     \* the local `delay`
  wake,      \* when the thread's sleep is over
  ticket,    \* history: which reservation, from 0, the thread holds
  waits,     \* history: how many times wait() was called
  granted,   \* history: how many slots were reserved
  sent       \* history: the tickets whose requests left, with the time

vars == <<clock, lock, nextSlot, pc, now, delay, wake, ticket, waits, granted, sent>>

Larger(a, b) == IF a > b THEN a ELSE b

Init ==
  /\ clock = Start
  /\ lock = NoThread
  /\ nextSlot = 0
  /\ pc = [t \in Threads |-> "idle"]
  /\ now = [t \in Threads |-> 0]
  /\ delay = [t \in Threads |-> 0]
  /\ wake = [t \in Threads |-> 0]
  /\ ticket = [t \in Threads |-> 0]
  /\ waits = 0
  /\ granted = 0
  /\ sent = {}

-------------------------------------------------------------------------------
(* wait(), as called by execute() before every attempt.  A definition named
   Mutant... is a plausible bug in the one after it: no behaviour of
   RateLimiter uses it, the runs show which property notices it. *)

MutantNoLock(t) == lock' = t

Acquire(t) == lock = NoThread /\ lock' = t

MutantKeepLock == UNCHANGED lock

Release == lock' = NoThread

MutantNoMax(t) == nextSlot' = nextSlot + Interval

MutantRelativeSlot(t) == nextSlot' = Larger(0, delay[t]) - now[t] + Interval

MoveSlot(t) == nextSlot' = Larger(now[t], nextSlot) + Interval

MutantNoSleep(t) == 0

SleepFor(t) == Larger(0, delay[t])

Call(t) ==
  /\ pc[t] = "idle"
  /\ waits < MaxWaits
  /\ waits' = waits + 1
  /\ pc' = [pc EXCEPT ![t] = "lock"]
  /\ UNCHANGED <<clock, lock, nextSlot, now, delay, wake, ticket, granted, sent>>

(* `with self._lock:` and the two reads it guards, of the clock and of
   _next_slot *)
ReadSlot(t) ==
  /\ pc[t] = "lock"
  /\ Acquire(t)
  /\ now' = [now EXCEPT ![t] = clock]
  /\ delay' = [delay EXCEPT ![t] = nextSlot - clock]
  /\ pc' = [pc EXCEPT ![t] = "reserve"]
  /\ UNCHANGED <<clock, nextSlot, wake, ticket, waits, granted, sent>>

(* the write, which ends the critical section; time may have passed since *)
Reserve(t) ==
  /\ pc[t] = "reserve"
  /\ MoveSlot(t)
  /\ Release
  /\ ticket' = [ticket EXCEPT ![t] = granted]
  /\ granted' = granted + 1
  /\ pc' = [pc EXCEPT ![t] = "nap"]
  /\ UNCHANGED <<clock, now, delay, wake, waits, sent>>

(* `if delay > 0: self._sleeper(delay)`: the sleep counts from here *)
Nap(t) ==
  /\ pc[t] = "nap"
  /\ wake' = [wake EXCEPT ![t] = clock + SleepFor(t)]
  /\ pc' = [pc EXCEPT ![t] = "sleep"]
  /\ UNCHANGED <<clock, lock, nextSlot, now, delay, ticket, waits, granted, sent>>

(* wait() returns and the request leaves, at some moment after the sleep *)
Send(t) ==
  /\ pc[t] = "sleep"
  /\ clock >= wake[t]
  /\ sent' = sent \cup {[ticket |-> ticket[t], at |-> clock]}
  /\ pc' = [pc EXCEPT ![t] = "idle"]
  /\ UNCHANGED <<clock, lock, nextSlot, now, delay, wake, ticket, waits, granted>>

Tick ==
  /\ clock < MaxClock \/ \E t \in Threads : pc[t] = "sleep" /\ clock < wake[t]
  /\ clock' = clock + 1
  /\ UNCHANGED <<lock, nextSlot, pc, now, delay, wake, ticket, waits, granted, sent>>

Step(t) == Call(t) \/ ReadSlot(t) \/ Reserve(t) \/ Nap(t) \/ Send(t)

Next == Tick \/ \E t \in Threads : Step(t)

Spec == Init /\ [][Next]_vars

(* Threads are scheduled, sleeps end and the clock runs; nobody has to call
   wait().  threading.Lock is not fair, and weak fairness is enough here:
   wait() is called finitely often, so the lock is in the end left alone. *)
Fairness ==
  /\ WF_vars(Tick)
  /\ \A t \in Threads : WF_vars(ReadSlot(t) \/ Reserve(t) \/ Nap(t) \/ Send(t))

FairSpec == Spec /\ Fairness

-------------------------------------------------------------------------------
(* Properties                                                              *)

TypeOK ==
  /\ clock \in Nat
  /\ lock \in Threads \cup {NoThread}
  /\ nextSlot \in Nat
  /\ pc \in [Threads -> {"idle", "lock", "reserve", "nap", "sleep"}]
  /\ now \in [Threads -> Nat]
  /\ delay \in [Threads -> Int]
  /\ wake \in [Threads -> Nat]
  /\ ticket \in [Threads -> Nat]
  /\ waits \in Nat
  /\ granted \in Nat
  /\ sent \subseteq [ticket : Nat, at : Nat]

SentTickets == {r.ticket : r \in sent}

(* However the threads are held up, the requests that left since the limiter
   was created number at most one more than the intervals that passed: the
   `max(now, self._next_slot) + self._min_interval` of wait(), taken under the
   lock, never gives two threads the same share of time. *)
AverageRate == (Cardinality(SentTickets) - 1) * Interval <= clock - Start

(* The same promise as a specification of its own: RateLimiter implements
   RateBudget, the history of departures mapped to their number. *)
Budget == INSTANCE RateBudget WITH departed <- Cardinality(SentTickets)
ImplementsBudget == Budget!Spec

(* A reservation is used by one request only, and a request leaves no earlier
   than the slot wait() reserved for it, whatever was slow in between. *)
OneRequestPerSlot ==
  /\ \A r, s \in sent : r.ticket = s.ticket => r = s
  /\ \A r \in sent : r.ticket < granted /\ r.at >= Start + r.ticket * Interval

(* Every call of wait() returns, and its request leaves: holding the lock
   never includes sleeping, so nobody waits for a sleeper. *)
WaitReturns == \A t \in Threads : pc[t] = "lock" ~> pc[t] = "idle"

(* Why AverageRate holds, as an inductive invariant.  Reservation k, counted
   from 0, is for a slot no earlier than Start + k * Interval: _next_slot is
   always that far ahead, the holder of the lock has read it as it still is,
   and no thread wakes before the slot it reserved. *)
SlotOf(k) == Start + k * Interval

Holding(t) == pc[t] \in {"nap", "sleep"}

SlotsInv ==
  /\ clock >= Start
  /\ granted > 0 => nextSlot >= SlotOf(granted)
  /\ \A t \in Threads : pc[t] = "reserve" =>
       /\ lock = t
       /\ now[t] \in Start .. clock
       /\ delay[t] = nextSlot - now[t]
  /\ \A t \in Threads : Holding(t) => ticket[t] < granted
  /\ \A t \in Threads : pc[t] = "nap" =>
       clock + SleepFor(t) >= SlotOf(ticket[t])
  /\ \A t \in Threads : pc[t] = "sleep" => wake[t] >= SlotOf(ticket[t])
  /\ \A t, u \in Threads :
       t # u /\ Holding(t) /\ Holding(u) => ticket[t] # ticket[u]
  /\ \A t \in Threads : Holding(t) => ticket[t] \notin SentTickets
  /\ \A r \in sent : r.at <= clock
===============================================================================
