----------------------------- MODULE Semaphores -----------------------------
(***************************************************************************)
(* The counting primitives of atomicutils.hpp, one step per access to the  *)
(* shared word: semaphore_t, shared_semaphore_t, binary_semaphore_t and    *)
(* mpsc_counter_t (kind selects one).                                      *)
(*                                                                         *)
(* Acquirers take permits and give them to the application (out), from     *)
(* which any releaser puts them back: in a mailbox, senders acquire the    *)
(* slots that the receiving side releases, and the other way round for     *)
(* queued messages.  A thread that finds no permit sleeps on the address   *)
(* of the word (WaitOnAddress, which compares and sleeps in one step) or,  *)
(* with a deadline, spins; WakeByAddressSingle wakes the first sleeper.    *)
(***************************************************************************)
EXTENDS Naturals, Sequences, FiniteSets

CONSTANTS
  KindsUsed,           \* the primitives to consider
  Acquirers, Releasers,
  Hasty,               \* the acquirers that also make calls that may give up
  Permits,             \* how many there are in all
  BlockAmounts,        \* n of acquire(n) and decrease(n)
  TryAmounts,          \* n of the calls that may give up
  ReleaseAmounts       \* update of release(update) and increase(update)

AllKinds == {"semaphore", "shared", "binary", "counter"}

ASSUME KindAssumption   == KindsUsed \subseteq AllKinds
ASSUME ThreadAssumption ==
  /\ IsFiniteSet(Acquirers) /\ IsFiniteSet(Releasers)
  /\ Acquirers \cap Releasers = {} /\ Hasty \subseteq Acquirers
ASSUME AmountAssumption ==
  /\ Permits \in Nat
  /\ BlockAmounts \cup TryAmounts \cup ReleaseAmounts \subseteq Nat \ {0}

Threads == Acquirers \cup Releasers

VARIABLES
  kind,
  value,     \* the word slept on: value, or mp_value_ of a counter
  taken,     \* sc_value_ of a counter
  waiters,   \* of a shared semaphore
  sleepers,  \* the threads asleep on the word, first come first
  pc,        \* where each thread is
  call,      \* the locals of the call each thread is in
  out,       \* permits held by the application
  bulk       \* history: has a release added more than one permit?

shared == <<value, taken, waiters, sleepers>>
vars   == <<kind, shared, pc, call, out, bulk>>

\* mode: acquire, try_acquire or try_acquire_until; want: how many permits it
\* is to take; got: how many it holds, taken so far or about to be added;
\* upd: how many it has added and not told the sleepers of; reg: current.
NoCall == [mode |-> "block", want |-> 0, got |-> 0, upd |-> 0, reg |-> 0]

MaxPermits(k) == IF k = "binary" THEN 1 ELSE Permits

(* The constructors: a semaphore starts with any number of its permits. *)
Init ==
  /\ kind \in KindsUsed
  /\ value \in 0 .. MaxPermits(kind)
  /\ out     = MaxPermits(kind) - value
  /\ taken   = 0
  /\ waiters = 0
  /\ sleepers = <<>>
  /\ pc   = [t \in Threads |-> "idle"]
  /\ call = [t \in Threads |-> NoCall]
  /\ bulk = FALSE

Goto(t, label) == pc' = [pc EXCEPT ![t] = label]
Return(t)      == Goto(t, "idle") /\ call' = [call EXCEPT ![t] = NoCall]
Blocking(t)    == call[t].mode = "block"
Trying(t)      == call[t].mode = "try"

\* Where a call begins to look for a permit.
Start == [semaphore |-> "load", shared |-> "load", binary |-> "exchange",
          counter |-> "compare"][kind]
\* Where a thread that has found no permit waits.
WaitLabel(t) ==
  IF kind = "shared" THEN "enter" ELSE IF Blocking(t) THEN "wait" ELSE "spin"
\* Where it goes on when the word is (or may be) no longer zero.
Again == [semaphore |-> "load", shared |-> "leave", binary |-> "exchange",
          counter |-> "update"][kind]
----------------------------------------------------------------------------
(* Releasing: fetch_add, or the binary semaphore's store, then waking.     *)

ReleaseBegin(t, n) ==
  /\ pc[t] = "idle" /\ t \in Releasers
  /\ n <= out /\ (kind = "binary" => n = 1)
  /\ out'  = out - n
  /\ call' = [call EXCEPT ![t].got = n]
  /\ Goto(t, "add")
  /\ UNCHANGED <<kind, shared, bulk>>

ReleaseAdd(t) ==
  /\ pc[t] = "add"
  /\ value' = IF kind = "binary" THEN 1 ELSE value + call[t].got
  /\ bulk'  = (bulk \/ call[t].got > 1)
  /\ call'  = [call EXCEPT ![t] = [NoCall EXCEPT !.upd = call[t].got]]
  /\ Goto(t, IF kind = "shared" THEN "count" ELSE "notify")
  /\ UNCHANGED <<kind, taken, waiters, sleepers, out>>

\* Wakes the first n sleepers, who look at the word again.
Wake(t, n, label) ==
  /\ sleepers' = SubSeq(sleepers, n + 1, Len(sleepers))
  /\ pc' = [u \in Threads |->
              IF u = t THEN label
              ELSE IF \E i \in 1 .. n : i <= Len(sleepers) /\ sleepers[i] = u
              THEN "woken" ELSE pc[u]]

\* semaphore_t, binary_semaphore_t and mpsc_counter_t wake one thread,
\* however many permits they add.
NotifyOne(t) ==
  /\ pc[t] = "notify" /\ kind # "shared"
  /\ Wake(t, 1, "idle")
  /\ call' = [call EXCEPT ![t] = NoCall]
  /\ UNCHANGED <<kind, value, taken, waiters, out, bulk>>

\* shared_semaphore_t wakes as many as there are permits, or all of them if
\* the upper bound it reads says that there are no more waiters than that.
ReadWaiters(t) ==
  /\ pc[t] = "count"
  /\ \/ waiters = 0 /\ Return(t)
     \/ waiters \in 1 .. call[t].upd /\ Goto(t, "all") /\ UNCHANGED call
     \/ waiters > call[t].upd /\ Goto(t, "notify") /\ UNCHANGED call
  /\ UNCHANGED <<kind, shared, out, bulk>>

NotifyAll(t) ==
  /\ pc[t] = "all"
  /\ Wake(t, Len(sleepers), "idle")
  /\ call' = [call EXCEPT ![t] = NoCall]
  /\ UNCHANGED <<kind, value, taken, waiters, out, bulk>>

\* Mutant: wakes one waiter for all the permits.
NotifyOnce(t) ==
  /\ pc[t] = "notify" /\ kind = "shared"
  /\ Wake(t, 1, "idle")
  /\ call' = [call EXCEPT ![t] = NoCall]
  /\ UNCHANGED <<kind, value, taken, waiters, out, bulk>>

NotifyEach(t) ==
  /\ pc[t] = "notify" /\ kind = "shared"
  /\ Wake(t, 1, IF call[t].upd = 1 THEN "idle" ELSE "notify")
  /\ call' = [call EXCEPT ![t].upd = @ - 1]
  /\ UNCHANGED <<kind, value, taken, waiters, out, bulk>>
----------------------------------------------------------------------------
(* Acquiring n permits: one after the other, or all of them from the       *)
(* consumer's share of a counter (which has one consumer).                 *)

AcquireBegin(t, m, n) ==
  /\ pc[t] = "idle" /\ t \in Acquirers
  /\ m # "block" => t \in Hasty
  /\ kind = "binary"  => n = 1
  /\ kind = "counter" => \A u \in Acquirers : pc[u] = "idle"
  /\ n \in IF m = "block" THEN BlockAmounts ELSE TryAmounts
  /\ call' = [call EXCEPT ![t] = [NoCall EXCEPT !.mode = m, !.want = n]]
  /\ Goto(t, Start)
  /\ UNCHANGED <<kind, shared, out, bulk>>

\* The last permit ends the call; after another the next is looked for.
TakeOne(t) ==
  IF call[t].got + 1 = call[t].want
  THEN Return(t) /\ out' = out + call[t].want
  ELSE /\ Goto(t, "load")
       /\ call' = [call EXCEPT ![t].got = @ + 1, ![t].reg = 0]
       /\ UNCHANGED out

\* Mutant: forgets the permits taken so far.
GiveUpAll(t) == Return(t)

\* release(acquired), which does nothing when acquired is 0.
GiveUp(t) ==
  IF call[t].got = 0 THEN Return(t)
  ELSE Goto(t, "add") /\ call' = [call EXCEPT ![t].reg = 0]

Load(t) ==
  /\ pc[t] = "load"
  /\ \/ /\ value > 0
        /\ Goto(t, "cas") /\ call' = [call EXCEPT ![t].reg = value]
     \/ value = 0 /\ Trying(t) /\ GiveUp(t)
     \/ value = 0 /\ ~ Trying(t) /\ Goto(t, WaitLabel(t)) /\ UNCHANGED call
  /\ UNCHANGED <<kind, shared, out, bulk>>

CasTakes(t) ==
  /\ pc[t] = "cas" /\ value = call[t].reg
  /\ value' = value - 1
  /\ TakeOne(t)
  /\ UNCHANGED <<kind, taken, waiters, sleepers, bulk>>

\* The failed exchange reads the word anew; try_acquire gives up instead.
CasFails(t) ==
  /\ pc[t] = "cas" /\ value # call[t].reg
  /\ IF Trying(t) THEN GiveUp(t)
     ELSE /\ Goto(t, IF value > 0 THEN "cas" ELSE WaitLabel(t))
          /\ call' = [call EXCEPT ![t].reg = value]
  /\ UNCHANGED <<kind, shared, out, bulk>>

\* binary_semaphore_t: one exchange takes the permit or finds none.
Exchange(t) ==
  /\ pc[t] = "exchange"
  /\ value' = 0
  /\ \/ value = 1 /\ TakeOne(t)
     \/ value = 0 /\ Trying(t) /\ Return(t) /\ UNCHANGED out
     \/ /\ value = 0 /\ ~ Trying(t)
        /\ Goto(t, WaitLabel(t)) /\ UNCHANGED <<call, out>>
  /\ UNCHANGED <<kind, taken, waiters, sleepers, bulk>>

\* mpsc_counter_t: the consumer takes from sc_value_.
Compare(t) ==
  /\ pc[t] = "compare"
  /\ IF taken >= call[t].want
     THEN Return(t) /\ taken' = taken - call[t].want /\ out' = out + call[t].want
     ELSE /\ Goto(t, IF Trying(t) THEN "update" ELSE WaitLabel(t))
          /\ UNCHANGED <<taken, call, out>>
  /\ UNCHANGED <<kind, value, waiters, sleepers, bulk>>

\* priv_update moves all that was added to sc_value_.  Only decrease goes
\* round again when that is too little.
Update(t) ==
  LET refilled == taken + value
  IN  /\ pc[t] = "update"
      /\ value' = 0
      /\ IF refilled >= call[t].want
         THEN /\ Return(t)
              /\ taken' = refilled - call[t].want /\ out' = out + call[t].want
         ELSE /\ taken' = refilled /\ UNCHANGED out
              /\ IF Blocking(t) THEN Goto(t, "wait") /\ UNCHANGED call
                 ELSE Return(t)
      /\ UNCHANGED <<kind, waiters, sleepers, bulk>>

\* take_all, when it need not wait: it waits as decrease(1) does.
TakeAll(t) ==
  /\ kind = "counter" /\ t \in Acquirers
  /\ \A u \in Acquirers : pc[u] = "idle"
  /\ taken > 0
  /\ value' = 0 /\ taken' = 0
  /\ out' = out + taken + value
  /\ UNCHANGED <<kind, waiters, sleepers, pc, call, bulk>>
----------------------------------------------------------------------------
(* Waiting.                                                                *)

\* Mutant: does not count the thread.
EnterUncounted(t) ==
  /\ pc[t] = "enter"
  /\ Goto(t, IF Blocking(t) THEN "wait" ELSE "spin")
  /\ UNCHANGED <<kind, value, taken, sleepers, waiters, call, out, bulk>>

\* shared_semaphore_t counts the threads that wait.
Enter(t) ==
  /\ pc[t] = "enter"
  /\ waiters' = waiters + 1
  /\ Goto(t, IF Blocking(t) THEN "wait" ELSE "spin")
  /\ UNCHANGED <<kind, value, taken, sleepers, call, out, bulk>>

\* Mutant: stays counted when its time is up.
LeaveCounted(t) ==
  /\ \/ pc[t] = "leave" /\ waiters' = waiters - 1 /\ Goto(t, "load") /\ UNCHANGED call
     \/ pc[t] = "expired" /\ GiveUp(t) /\ UNCHANGED waiters
  /\ UNCHANGED <<kind, value, taken, sleepers, out, bulk>>

Leave(t) ==
  /\ waiters' = waiters - 1
  /\ \/ pc[t] = "leave" /\ Goto(t, "load") /\ UNCHANGED call
     \/ pc[t] = "expired" /\ GiveUp(t)
  /\ UNCHANGED <<kind, value, taken, sleepers, out, bulk>>

\* Mutant: sleeps on what it read before.
SleepUnchecked(t) ==
  /\ pc[t] = "wait"
  /\ Goto(t, "asleep") /\ sleepers' = Append(sleepers, t)
  /\ UNCHANGED <<kind, value, taken, waiters, call, out, bulk>>

\* value.wait(0), and WaitOnAddress: compare and sleep.
Sleep(t) ==
  /\ pc[t] = "wait"
  /\ IF value = 0
     THEN Goto(t, "asleep") /\ sleepers' = Append(sleepers, t)
     ELSE Goto(t, Again) /\ UNCHANGED sleepers
  /\ UNCHANGED <<kind, value, taken, waiters, call, out, bulk>>

\* std::atomic::wait looks again before it returns; WaitOnAddress does not.
Awake(t) ==
  /\ pc[t] = "woken"
  /\ Goto(t, IF kind = "shared" THEN "leave" ELSE "wait")
  /\ UNCHANGED <<kind, shared, call, out, bulk>>

\* atomic_wait with a deadline: the word has changed, or time is up.
Spin(t) ==
  /\ pc[t] = "spin"
  /\ \/ value # 0 /\ Goto(t, Again) /\ UNCHANGED call
     \/ kind = "shared" /\ Goto(t, "expired") /\ UNCHANGED call
     \/ kind = "counter" /\ Goto(t, "update") /\ UNCHANGED call
     \/ kind \in {"semaphore", "binary"} /\ GiveUp(t)
  /\ UNCHANGED <<kind, shared, out, bulk>>
----------------------------------------------------------------------------
Step(t) ==
  \/ ReleaseAdd(t) \/ NotifyOne(t) \/ ReadWaiters(t) \/ NotifyAll(t)
  \/ NotifyEach(t)
  \/ Load(t) \/ CasTakes(t) \/ CasFails(t) \/ Exchange(t)
  \/ Compare(t) \/ Update(t)
  \/ Enter(t) \/ Leave(t) \/ Sleep(t) \/ Awake(t) \/ Spin(t)

Call(t) ==
  \/ \E n \in ReleaseAmounts : ReleaseBegin(t, n)
  \/ \E m \in {"block", "try", "timed"}, n \in BlockAmounts \cup TryAmounts :
       AcquireBegin(t, m, n)
  \/ TakeAll(t)

Next == \E t \in Threads : Step(t) \/ Call(t)

Spec == Init /\ [][Next]_vars

(* Every thread that can run is run, a spinning one's deadline passes, and *)
(* the application releases what it holds.  Nobody is obliged to acquire.  *)
FairSpec ==
  /\ Spec
  /\ \A t \in Threads : WF_vars(Step(t))
  /\ \A t \in Releasers : WF_vars(\E n \in ReleaseAmounts : ReleaseBegin(t, n))
----------------------------------------------------------------------------
Labels == {"idle", "add", "notify", "count", "all", "load", "cas", "exchange",
           "compare", "update", "enter", "leave", "expired", "wait", "asleep",
           "woken", "spin"}

TypeOK ==
  /\ kind \in AllKinds
  /\ value \in Nat /\ taken \in Nat /\ waiters \in Nat /\ out \in Nat
  /\ sleepers \in Seq(Threads)
  /\ pc   \in [Threads -> Labels]
  /\ call \in [Threads -> [mode : {"block", "try", "timed"},
                            want : Nat, got : Nat, upd : Nat, reg : Nat]]
  /\ bulk \in BOOLEAN

\* The permits in the hands of the calls in progress, numbered.
InHands == UNION {{t} \X (1 .. call[t].got) : t \in Threads}

(* Permits are neither lost nor made, whatever calls give up half-way, are *)
(* timed out or lose a race: those in the word, drawn, in a call's hands   *)
(* and with the application are always as many as at the start.            *)
PermitsConserved ==
  value + taken + out + Cardinality(InHands) = MaxPermits(kind)

(* No thread sleeps beside a free permit with nobody about to wake it or   *)
(* take the permit.  The one exception is semaphore_t after a release of   *)
(* several permits at once, of which it tells one sleeper.                 *)
Watchful(t) ==
  \/ pc[t] \in {"notify", "count", "all"}
  \/ ~ Trying(t) /\ pc[t] \notin {"idle", "asleep", "add"}

NoStrandedSleeper ==
  (value > 0 /\ sleepers # <<>> /\ \A t \in Threads : ~ Watchful(t))
    => kind = "semaphore" /\ bulk

(* The upper bound that release reads counts every thread that sleeps: it  *)
(* may wake too many, never too few.                                       *)
WaitersCounted ==
  kind = "shared" =>
    waiters = Cardinality({t \in Threads :
                pc[t] \in {"wait", "asleep", "woken", "spin", "leave", "expired"}})

(* A thread that sleeps is woken, as long as the application releases.     *)
SleeperWakes == \A t \in Acquirers : pc[t] = "asleep" ~> pc[t] # "asleep"
=============================================================================
