--------------------------- MODULE ResponseCounter ---------------------------
(***************************************************************************)
(* AtomicMonotonicCounter (agate2/atomic.hpp): threads count responses, and*)
(* others wait for the count to reach a value of their own.  A waiter that *)
(* has spun long enough enlists in deepSleepers_ and sleeps on the counter;*)
(* counting looks at deepSleepers_ after the increment and wakes nobody,   *)
(* one sleeper or all.                                                     *)
(***************************************************************************)
EXTENDS Naturals, Sequences, FiniteSets

CONSTANTS
  Counters,      \* the threads that count
  Waiters,       \* the threads that wait
  Expected,      \* what each of them waits for
  TimedWaiters,  \* those with a deadline
  MaxCount       \* bound on the counter

ASSUME CounterAssumption ==
  /\ IsFiniteSet(Counters) /\ IsFiniteSet(Waiters) /\ Counters \cap Waiters = {}
  /\ TimedWaiters \subseteq Waiters
  /\ MaxCount \in Nat /\ Expected \in [Waiters -> 0 .. MaxCount]

Threads == Counters \cup Waiters

VARIABLES
  count,         \* value_
  deepSleepers,  \* deepSleepers_
  asleepOn,      \* the threads asleep on value_, first come first
  at,            \* where each thread is
  captured       \* capturedValue of each waiter

counterVars == <<count, deepSleepers, asleepOn, at, captured>>

CounterInit ==
  /\ count = 0 /\ deepSleepers = 0 /\ asleepOn = <<>>
  /\ at = [t \in Threads |-> IF t \in Counters THEN "idle" ELSE "test"]
  /\ captured = [w \in Waiters |-> 0]

Move(t, from, to) == at[t] = from /\ at' = [at EXCEPT ![t] = to]
----------------------------------------------------------------------------
\* operator++
Increment(c) ==
  /\ count < MaxCount /\ Move(c, "idle", "look")
  /\ count' = count + 1
  /\ UNCHANGED <<deepSleepers, asleepOn, captured>>

\* Mutant: one wake-up for two sleepers.
WakeOneOfTwo == IF deepSleepers = 0 THEN "idle"
                ELSE IF deepSleepers <= 2 THEN "wake_one" ELSE "wake_all"

WakeKind == IF deepSleepers = 0 THEN "idle"
            ELSE IF deepSleepers = 1 THEN "wake_one" ELSE "wake_all"

LookForSleepers(c) ==
  /\ Move(c, "look", WakeKind)
  /\ UNCHANGED <<count, deepSleepers, asleepOn, captured>>

\* WakeByAddressSingle wakes the thread that has slept longest.
WakeOne(c) ==
  /\ at[c] = "wake_one"
  /\ IF asleepOn = <<>>
     THEN Move(c, "wake_one", "idle") /\ UNCHANGED asleepOn
     ELSE /\ at' = [at EXCEPT ![c] = "idle", ![Head(asleepOn)] = "leave"]
          /\ asleepOn' = Tail(asleepOn)
  /\ UNCHANGED <<count, deepSleepers, captured>>

\* WakeByAddressAll
WakeAll(c) ==
  /\ at[c] = "wake_all"
  /\ at' = [t \in Threads |-> IF t = c THEN "idle"
                             ELSE IF at[t] = "asleep" THEN "leave" ELSE at[t]]
  /\ asleepOn' = <<>>
  /\ UNCHANGED <<count, deepSleepers, captured>>
----------------------------------------------------------------------------
\* The loop's condition, and hasPassed when there is a deadline.
TestCount(w) ==
  /\ \/ count >= Expected[w] /\ Move(w, "test", "reached")
     \/ count < Expected[w] /\ Move(w, "test", "enlist")
     \/ count < Expected[w] /\ w \in TimedWaiters /\ Move(w, "test", "late")
  /\ captured' = [captured EXCEPT ![w] = count]
  /\ UNCHANGED <<count, deepSleepers, asleepOn>>

\* The first rounds of the backoff only spin: back to the test.
SpinAgain(w) ==
  /\ Move(w, "enlist", "test")
  /\ UNCHANGED <<count, deepSleepers, asleepOn, captured>>

Enlist(w) ==
  /\ Move(w, "enlist", "sleep")
  /\ deepSleepers' = deepSleepers + 1
  /\ UNCHANGED <<count, asleepOn, captured>>

\* WaitOnAddress compares the counter with capturedValue and sleeps in one step.
SleepOnCount(w) ==
  /\ IF count = captured[w]
     THEN Move(w, "sleep", "asleep") /\ asleepOn' = Append(asleepOn, w)
     ELSE Move(w, "sleep", "leave") /\ UNCHANGED asleepOn
  /\ UNCHANGED <<count, deepSleepers, captured>>

\* The queue of sleepers when the i-th has left it.
Without(i) == [j \in 1 .. Len(asleepOn) - 1 |-> asleepOn[IF j < i THEN j ELSE j + 1]]

TimeOut(w) ==
  /\ w \in TimedWaiters /\ Move(w, "asleep", "give_up")
  /\ \E i \in 1 .. Len(asleepOn) : asleepOn[i] = w /\ asleepOn' = Without(i)
  /\ UNCHANGED <<count, deepSleepers, captured>>

Delist(w) ==
  /\ Move(w, "leave", "test") \/ Move(w, "give_up", "late")
  /\ deepSleepers' = deepSleepers - 1
  /\ UNCHANGED <<count, asleepOn, captured>>

\* The caller may wait anew after a time-out.
WaitAgain(w) ==
  /\ Move(w, "late", "test")
  /\ UNCHANGED <<count, deepSleepers, asleepOn, captured>>
----------------------------------------------------------------------------
CounterNext ==
  \/ \E c \in Counters : Increment(c) \/ LookForSleepers(c) \/ WakeOne(c) \/ WakeAll(c)
  \/ \E w \in Waiters :
       \/ TestCount(w) \/ SpinAgain(w) \/ Enlist(w) \/ SleepOnCount(w)
       \/ TimeOut(w) \/ Delist(w) \/ WaitAgain(w)

CounterSpec == CounterInit /\ [][CounterNext]_counterVars
----------------------------------------------------------------------------
CounterTypeOK ==
  /\ count \in 0 .. MaxCount /\ deepSleepers \in Nat
  /\ asleepOn \in Seq(Waiters)
  /\ at \in [Threads ->
               {"idle", "look", "wake_one", "wake_all", "test", "enlist", "sleep",
                "asleep", "leave", "give_up", "reached", "late"}]
  /\ captured \in [Waiters -> 0 .. MaxCount]

(* Nobody sleeps through the response waited for: a sleeper whose value    *)
(* has been reached is about to be woken by a thread that counted.         *)
NoSleeperMissed ==
  \A w \in Waiters :
    at[w] = "asleep" /\ count >= Expected[w]
      => \E c \in Counters : at[c] \in {"look", "wake_one", "wake_all"}
=============================================================================
