-------------------------- MODULE SemaphoresProofs --------------------------
(***************************************************************************)
(* Theorems about Semaphores, for any threads, permits and amounts.        *)
(***************************************************************************)
EXTENDS Semaphores, FiniteSetTheorems, TLAPS

Locals == [mode : {"block", "try", "timed"},
           want : Nat, got : Nat, upd : Nat, reg : Nat]

\* A thread counted in waiters; one that is in a call to acquire; one of those
\* that goes on until it has its permit, and is not asleep.
CountedPCs  == {"wait", "asleep", "woken", "spin", "leave", "expired"}
AcquirePCs  == {"load", "cas", "exchange", "compare", "update", "enter", "leave",
                "expired", "wait", "asleep", "woken", "spin"}
LookingPCs  == {"load", "cas", "exchange", "enter", "leave", "wait", "woken"}

Counted     == {t \in Threads : pc[t] \in CountedPCs}
Looking     == {t \in Threads : pc[t] \in LookingPCs /\ call[t].mode = "block"}

\* What the releasers that have added permits still have to tell sleepers of:
\* a shared semaphore wakes one for each permit, the others one per release.
Told(t)     == IF kind = "shared" THEN call[t].upd ELSE 1
News        == {n \in Threads \X Nat :
                  pc[n[1]] \in {"count", "notify"} /\ n[2] \in 1 .. Told(n[1])}

(* What a thread at label l with the locals r has made sure of.            *)
Fine(t, l, r) ==
  /\ l = "add" => r.got >= 1
  /\ l \in {"count", "notify", "all"} => r.upd >= 1
  /\ l = "cas" => r.reg >= 1
  /\ l \in {"wait", "asleep", "woken"} => r.mode = "block"
  /\ kind = "shared"  => l # "exchange"
  /\ kind # "shared"  => l \notin {"enter", "leave", "expired", "count", "all"}
  /\ kind # "counter" => l \notin {"compare", "update"}
  /\ l \in AcquirePCs => t \in Acquirers

ThreadsFine == \A t \in Threads : Fine(t, pc[t], call[t])

(* The queue of the operating system holds threads asleep, once each.      *)
QueueFine ==
  /\ \A i \in 1 .. Len(sleepers) : pc[sleepers[i]] = "asleep"
  /\ \A i, j \in 1 .. Len(sleepers) : sleepers[i] = sleepers[j] => i = j

OneConsumer ==
  kind = "counter" =>
    \A t, u \in Threads : pc[t] \in AcquirePCs /\ pc[u] \in AcquirePCs => t = u

(* The argument.  For a free permit beside a sleeper there is a thread that*)
(* will take it or a piece of news that will wake somebody.                *)
Covered ==
  \/ kind = "counter" \/ (kind = "semaphore" /\ bulk) \/ sleepers = <<>>
  \/ \E t \in Threads : pc[t] = "all"
  \/ value <= Cardinality(Looking) + Cardinality(News)

ConsumerTold ==
  kind = "counter" /\ value > 0 /\ sleepers # <<>> => \E t \in Threads : pc[t] = "notify"

SemInv ==
  /\ TypeOK /\ ThreadsFine /\ QueueFine /\ OneConsumer /\ WaitersCounted
  /\ IsFiniteSet(News) /\ Covered /\ ConsumerTold
----------------------------------------------------------------------------
(* What the steps have in common that put no thread to sleep or awake, and *)
(* add no permit: the thread t goes to label l with the locals r.          *)
Moves(t, l, r) ==
  /\ l \in Labels \ {"asleep"} /\ r \in Locals
  /\ pc' = [pc EXCEPT ![t] = l] /\ call' = [call EXCEPT ![t] = r]
  /\ Fine(t, l, r)
  /\ pc[t] \notin {"asleep", "notify", "all"}
  /\ l \in {"count", "notify"} => pc[t] = "count" /\ r = call[t]
  /\ UNCHANGED <<kind, sleepers, bulk>>
  /\ value' \in Nat /\ taken' \in Nat /\ waiters' \in Nat /\ out' \in Nat

CountsWaiters(t, l) ==
  kind = "shared" =>
    \/ waiters' = waiters     /\ (pc[t] \in CountedPCs <=> l \in CountedPCs)
    \/ waiters' = waiters + 1 /\ pc[t] \notin CountedPCs /\ l \in CountedPCs
    \/ waiters' = waiters - 1 /\ pc[t] \in CountedPCs /\ l \notin CountedPCs

StaysOneConsumer(t, l) ==
  kind = "counter" /\ l \in AcquirePCs =>
    pc[t] \in AcquirePCs \/ \A u \in Acquirers : pc[u] = "idle"

\* A blocking call ends when it has taken a permit, or when there is none.
StaysCovered(t, l, r) ==
  \/ value' = 0
  \/ value' = value - 1 /\ value > 0 /\ pc[t] # "count"
  \/ /\ value' = value
     /\ kind # "counter" /\ t \in Looking => l \in LookingPCs /\ r.mode = "block"
     /\ pc[t] = "count" => waiters = 0 \/ l = "all" \/ (l = "notify" /\ r = call[t])

Ordinary(t, l, r) ==
  /\ Moves(t, l, r)
  /\ CountsWaiters(t, l) /\ StaysOneConsumer(t, l) /\ StaysCovered(t, l, r)
----------------------------------------------------------------------------
LEMMA StartLabels ==
  ASSUME kind \in AllKinds
  PROVE  /\ Start = IF kind \in {"semaphore", "shared"} THEN "load"
                    ELSE IF kind = "binary" THEN "exchange" ELSE "compare"
         /\ Again = IF kind = "semaphore" THEN "load" ELSE IF kind = "shared" THEN "leave"
                    ELSE IF kind = "binary" THEN "exchange" ELSE "update"
  <1>1. CASE kind = "semaphore"
    BY <1>1 DEF Start, Again
  <1>2. CASE kind = "shared"
    BY <1>2 DEF Start, Again
  <1>3. CASE kind = "binary"
    BY <1>3 DEF Start, Again
  <1>4. CASE kind = "counter"
    BY <1>4 DEF Start, Again
  <1> QED
    BY <1>1, <1>2, <1>3, <1>4 DEF AllKinds

LEMMA NoCallTyped == NoCall \in Locals /\ NoCall.mode = "block"
  BY DEF NoCall, Locals

(* The ends of a call to acquire.                                          *)
LEMMA ReturnGoes ==
  ASSUME NEW t \in Threads, Return(t)
  PROVE  pc' = [pc EXCEPT ![t] = "idle"] /\ call' = [call EXCEPT ![t] = NoCall]
  BY DEF Return, Goto

LEMMA GiveUpGoes ==
  ASSUME TypeOK, NEW t \in Threads, GiveUp(t)
  PROVE  \/ Return(t)
         \/ \E r \in Locals :
              /\ pc' = [pc EXCEPT ![t] = "add"] /\ call' = [call EXCEPT ![t] = r]
              /\ r.got >= 1
  <1> DEFINE r == [call[t] EXCEPT !.reg = 0]
  <1>1. call[t] \in Locals
    BY DEF TypeOK, Locals
  <1>2. r \in Locals /\ r.got = call[t].got
    BY <1>1 DEF Locals
  <1>3. CASE call[t].got = 0
    BY <1>3 DEF GiveUp
  <1>4. CASE call[t].got # 0
    <2>1. call' = [call EXCEPT ![t] = r] /\ pc' = [pc EXCEPT ![t] = "add"]
      BY <1>4 DEF GiveUp, Goto
    <2>2. r.got >= 1
      BY <1>1, <1>2, <1>4 DEF Locals
    <2> QED
      BY <1>2, <2>1, <2>2
  <1> QED
    BY <1>3, <1>4

LEMMA TakeOneGoes ==
  ASSUME TypeOK, NEW t \in Threads, TakeOne(t)
  PROVE  /\ out' \in Nat
         /\ \/ Return(t)
            \/ \E r \in Locals :
                 /\ pc' = [pc EXCEPT ![t] = "load"] /\ call' = [call EXCEPT ![t] = r]
                 /\ r.mode = call[t].mode
  <1> DEFINE r == [call[t] EXCEPT !.got = call[t].got + 1, !.reg = 0]
  <1>1. call[t] \in Locals /\ out \in Nat /\ call[t].want \in Nat
    BY DEF TypeOK, Locals
  <1>2. r \in Locals /\ r.mode = call[t].mode
    <2>1. call[t].got + 1 \in Nat
      BY <1>1 DEF Locals
    <2> QED
      BY <1>1, <2>1 DEF Locals
  <1>3. CASE call[t].got + 1 = call[t].want
    <2>1. Return(t) /\ out' = out + call[t].want
      BY <1>3 DEF TakeOne
    <2> QED
      BY <1>1, <2>1
  <1>4. CASE call[t].got + 1 # call[t].want
    <2>1. /\ call' = [call EXCEPT ![t] = r] /\ pc' = [pc EXCEPT ![t] = "load"]
          /\ out' = out
      BY <1>4 DEF TakeOne, Goto
    <2> QED
      BY <1>1, <1>2, <2>1
  <1> QED
    BY <1>3, <1>4
----------------------------------------------------------------------------
(* What a step may use of the state before it.                             *)
LEMMA Before ==
  ASSUME SemInv, NEW t \in Threads
  PROVE  /\ pc \in [Threads -> Labels] /\ call \in [Threads -> Locals]
         /\ call[t] \in Locals /\ Fine(t, pc[t], call[t]) /\ kind \in AllKinds
         /\ value \in Nat /\ taken \in Nat /\ waiters \in Nat /\ out \in Nat
         /\ call = [call EXCEPT ![t] = call[t]]
         /\ NoCall \in Locals /\ NoCall.mode = "block"
         /\ kind = "shared" /\ pc[t] \in CountedPCs => waiters >= 1
  <1>1. pc \in [Threads -> Labels] /\ call \in [Threads -> Locals] /\ kind \in AllKinds
    BY DEF SemInv, TypeOK, Locals
  <1>2. value \in Nat /\ taken \in Nat /\ waiters \in Nat /\ out \in Nat
    BY DEF SemInv, TypeOK
  <1>3. Fine(t, pc[t], call[t])
    BY DEF SemInv, ThreadsFine
  <1>4. ASSUME kind = "shared", pc[t] \in CountedPCs PROVE waiters >= 1
    <2>1. waiters = Cardinality(Counted)
      BY <1>4 DEF SemInv, WaitersCounted, Counted, CountedPCs
    <2>2. IsFiniteSet(Counted)
      <3>1. Counted \in SUBSET Threads /\ IsFiniteSet(Threads)
        BY ThreadAssumption, FS_Union DEF Counted, Threads
      <3> QED
        BY <3>1, FS_Subset
    <2>3. t \in Counted
      BY <1>4 DEF Counted
    <2> QED
      BY <1>2, <2>1, <2>2, <2>3, FS_EmptySet
  <1> QED
    BY <1>1, <1>2, <1>3, <1>4, NoCallTyped

LEMMA Amounts ==
  /\ BlockAmounts \subseteq Nat \ {0} /\ TryAmounts \subseteq Nat \ {0}
  /\ ReleaseAmounts \subseteq Nat \ {0}
  BY AmountAssumption

LEMMA ReleaseBeginGoes ==
  ASSUME SemInv, NEW t \in Threads, NEW n \in ReleaseAmounts, ReleaseBegin(t, n)
  PROVE  \E l, r : Ordinary(t, l, r)
  <1> DEFINE r == [call[t] EXCEPT !.got = n]
  <1>1. r \in Locals /\ r.got >= 1
    BY Before, Amounts DEF Locals
  <1>2. /\ pc' = [pc EXCEPT ![t] = "add"] /\ call' = [call EXCEPT ![t] = r]
        /\ pc[t] = "idle" /\ UNCHANGED <<kind, shared, bulk>>
        /\ out' = out - n /\ n <= out
    BY DEF ReleaseBegin, Goto
  <1> HIDE DEF r
  <1>3. out' \in Nat
    BY <1>2, Before, Amounts
  <1>4. Moves(t, "add", r)
    BY <1>1, <1>2, <1>3, Before DEF Moves, Fine, Labels, AcquirePCs, shared
  <1>5. CountsWaiters(t, "add") /\ StaysOneConsumer(t, "add") /\ StaysCovered(t, "add", r)
    BY <1>2 DEF CountsWaiters, StaysOneConsumer, StaysCovered, CountedPCs, AcquirePCs,
                Looking, LookingPCs, shared
  <1> QED
    BY <1>4, <1>5 DEF Ordinary

LEMMA AcquireBeginGoes ==
  ASSUME SemInv, NEW t \in Threads, NEW m \in {"block", "try", "timed"},
         NEW n \in BlockAmounts \cup TryAmounts, AcquireBegin(t, m, n)
  PROVE  \E l, r : Ordinary(t, l, r)
  <1> DEFINE r == [NoCall EXCEPT !.mode = m, !.want = n]
  <1>1. r \in Locals
    BY Before, Amounts DEF Locals
  <1>2. /\ pc' = [pc EXCEPT ![t] = Start] /\ call' = [call EXCEPT ![t] = r]
        /\ pc[t] = "idle" /\ t \in Acquirers /\ UNCHANGED <<kind, shared, out, bulk>>
        /\ kind = "counter" => \A u \in Acquirers : pc[u] = "idle"
    BY DEF AcquireBegin, Goto
  <1> HIDE DEF r
  <1>3. Moves(t, Start, r)
    BY <1>1, <1>2, Before, StartLabels DEF Moves, Fine, Labels, AcquirePCs, shared, AllKinds
  <1>4. CountsWaiters(t, Start) /\ StaysOneConsumer(t, Start) /\ StaysCovered(t, Start, r)
    BY <1>2, Before, StartLabels
       DEF CountsWaiters, StaysOneConsumer, StaysCovered, CountedPCs, Looking, LookingPCs,
           shared
  <1> QED
    BY <1>3, <1>4 DEF Ordinary

LEMMA ReadWaitersGoes ==
  ASSUME SemInv, NEW t \in Threads, ReadWaiters(t)
  PROVE  \E l, r : Ordinary(t, l, r)
  <1>1. pc[t] = "count" /\ UNCHANGED <<kind, shared, out, bulk>>
    BY DEF ReadWaiters
  <1>2. PICK l, r :
          /\ pc' = [pc EXCEPT ![t] = l] /\ call' = [call EXCEPT ![t] = r]
          /\ \/ waiters = 0 /\ l = "idle" /\ r = NoCall
             \/ l \in {"all", "notify"} /\ r = call[t]
    BY Before DEF ReadWaiters, Return, Goto
  <1>3. Moves(t, l, r)
    BY <1>1, <1>2, Before DEF Moves, Fine, Labels, AcquirePCs, shared
  <1>4. CountsWaiters(t, l) /\ StaysOneConsumer(t, l) /\ StaysCovered(t, l, r)
    BY <1>1, <1>2, Before
       DEF CountsWaiters, StaysOneConsumer, StaysCovered, CountedPCs, AcquirePCs, Looking,
           LookingPCs, shared
  <1> QED
    BY <1>3, <1>4 DEF Ordinary

(* A call to acquire that ends, or looks for a permit again.               *)
LEMMA AcquirerGoes ==
  ASSUME SemInv, NEW t \in Threads, pc[t] \in AcquirePCs \ {"asleep"},
         NEW l \in {"idle", "add", "load", "cas", "exchange", "enter", "leave", "wait",
                    "spin", "update", "expired"},
         NEW r \in Locals,
         pc' = [pc EXCEPT ![t] = l], call' = [call EXCEPT ![t] = r], Fine(t, l, r),
         UNCHANGED <<kind, sleepers, bulk>>, CountsWaiters(t, l),
         value' \in Nat, taken' \in Nat, waiters' \in Nat, out' \in Nat,
         \/ value' = 0 \/ value' = value - 1
         \/ value' = value /\ (kind # "counter" /\ t \in Looking
                                 => l \in LookingPCs /\ r.mode = "block")
  PROVE  Ordinary(t, l, r)
  <1>1. Moves(t, l, r)
    BY DEF Moves, Labels, AcquirePCs
  <1>2. StaysOneConsumer(t, l)
    BY DEF StaysOneConsumer
  <1>3. StaysCovered(t, l, r)
    BY Before DEF StaysCovered, AcquirePCs
  <1> QED
    BY <1>1, <1>2, <1>3 DEF Ordinary

LEMMA GiveUpOrdinary ==
  ASSUME SemInv, NEW t \in Threads, pc[t] \in AcquirePCs \ {"asleep"}, ~ Blocking(t),
         GiveUp(t), UNCHANGED <<kind, value, taken, sleepers, out, bulk>>, waiters' \in Nat,
         kind = "shared" => \/ waiters' = waiters     /\ pc[t] \notin CountedPCs
                            \/ waiters' = waiters - 1 /\ pc[t] \in CountedPCs
  PROVE  \E l, r : Ordinary(t, l, r)
  <1>1. PICK l \in {"idle", "add"}, r \in Locals :
          /\ pc' = [pc EXCEPT ![t] = l] /\ call' = [call EXCEPT ![t] = r]
          /\ l = "add" => r.got >= 1
    BY GiveUpGoes, ReturnGoes, Before DEF SemInv
  <1>2. Fine(t, l, r)
    BY <1>1 DEF Fine, AcquirePCs
  <1>3. CountsWaiters(t, l)
    BY <1>1 DEF CountsWaiters, CountedPCs
  <1>4. t \notin Looking
    BY DEF Looking, Blocking
  <1>5. value' \in Nat /\ taken' \in Nat /\ out' \in Nat
    BY Before
  <1> QED
    BY <1>1, <1>2, <1>3, <1>4, <1>5, AcquirerGoes, ZenonT(60)

LEMMA LoadGoes ==
  ASSUME SemInv, NEW t \in Threads, Load(t)
  PROVE  \E l, r : Ordinary(t, l, r)
  <1>1. pc[t] = "load" /\ UNCHANGED <<kind, value, taken, waiters, sleepers, out, bulk>>
    BY DEF Load, shared
  <1>2. pc[t] \in AcquirePCs \ {"asleep"} /\ pc[t] \notin CountedPCs
    BY <1>1 DEF AcquirePCs, CountedPCs
  <1>3. value' \in Nat /\ taken' \in Nat /\ waiters' \in Nat /\ out' \in Nat
    BY <1>1, Before
  <1>4. CASE value > 0 /\ Goto(t, "cas") /\ call' = [call EXCEPT ![t].reg = value]
    <2> DEFINE r == [call[t] EXCEPT !.reg = value]
    <2>1. r \in Locals /\ r.mode = call[t].mode /\ r.reg >= 1
      BY <1>4, Before DEF Locals
    <2>2. pc' = [pc EXCEPT ![t] = "cas"] /\ call' = [call EXCEPT ![t] = r]
      BY <1>4 DEF Goto
    <2> HIDE DEF r
    <2>3. Fine(t, "cas", r)
      BY <1>1, <2>1, Before DEF Fine, AcquirePCs
    <2>4. CountsWaiters(t, "cas")
      BY <1>1 DEF CountsWaiters, CountedPCs
    <2>5. t \in Looking => "cas" \in LookingPCs /\ r.mode = "block"
      BY <2>1 DEF Looking, LookingPCs
    <2>6. Ordinary(t, "cas", r)
      BY <1>1, <1>2, <1>3, <2>1, <2>2, <2>3, <2>4, <2>5, AcquirerGoes
    <2> QED
      BY <2>6
  <1>5. CASE value = 0 /\ Trying(t) /\ GiveUp(t)
    BY <1>1, <1>2, <1>3, <1>5, GiveUpOrdinary DEF Trying, Blocking
  <1>6. CASE value = 0 /\ ~ Trying(t) /\ Goto(t, WaitLabel(t)) /\ UNCHANGED call
    <2> DEFINE l == WaitLabel(t)
    <2>1. /\ l \in {"enter", "wait", "spin"} /\ (l = "wait" => call[t].mode = "block")
          /\ l = "enter" <=> kind = "shared"
      BY DEF WaitLabel, Blocking
    <2>2. pc' = [pc EXCEPT ![t] = l] /\ call' = [call EXCEPT ![t] = call[t]]
      BY <1>6, Before DEF Goto
    <2> HIDE DEF l
    <2>3. Fine(t, l, call[t])
      BY <1>1, <2>1, Before DEF Fine, AcquirePCs
    <2>4. CountsWaiters(t, l)
      BY <1>1, <2>1 DEF CountsWaiters, CountedPCs
    <2>5. call[t] \in Locals /\ value' = 0
      BY <1>1, <1>6, Before
    <2>6. Ordinary(t, l, call[t])
      BY <1>1, <1>2, <1>3, <2>1, <2>2, <2>3, <2>4, <2>5, AcquirerGoes
    <2> QED
      BY <2>6
  <1> QED
    BY <1>4, <1>5, <1>6 DEF Load

LEMMA TakeOneOrdinary ==
  ASSUME SemInv, NEW t \in Threads, pc[t] \in {"cas", "exchange"}, TakeOne(t),
         kind = "shared" => pc[t] = "cas", UNCHANGED <<kind, taken, waiters, sleepers, bulk>>,
         value' \in Nat, value' = 0 \/ value' = value - 1
  PROVE  \E l, r : Ordinary(t, l, r)
  <1>1. out' \in Nat
    BY TakeOneGoes DEF SemInv
  <1>2. PICK l \in {"idle", "load"}, r \in Locals :
          pc' = [pc EXCEPT ![t] = l] /\ call' = [call EXCEPT ![t] = r]
    BY TakeOneGoes, ReturnGoes, Before DEF SemInv
  <1>3. Fine(t, l, r)
    BY <1>2, Before DEF Fine, AcquirePCs
  <1>4. CountsWaiters(t, l)
    BY <1>2 DEF CountsWaiters, CountedPCs
  <1>5. pc[t] \in AcquirePCs \ {"asleep"} /\ taken' \in Nat /\ waiters' \in Nat
    BY Before DEF AcquirePCs
  <1> QED
    BY <1>1, <1>2, <1>3, <1>4, <1>5, AcquirerGoes, ZenonT(60)

LEMMA CasTakesGoes ==
  ASSUME SemInv, NEW t \in Threads, CasTakes(t)
  PROVE  \E l, r : Ordinary(t, l, r)
  <1>1. value >= 1
    BY Before DEF CasTakes, Fine
  <1>2. value' \in Nat
    BY <1>1, Before DEF CasTakes
  <1> QED
    BY <1>2, TakeOneOrdinary DEF CasTakes

LEMMA CasFailsGoes ==
  ASSUME SemInv, NEW t \in Threads, CasFails(t)
  PROVE  \E l, r : Ordinary(t, l, r)
  <1>1. pc[t] = "cas" /\ UNCHANGED <<kind, value, taken, waiters, sleepers, out, bulk>>
    BY DEF CasFails, shared
  <1>2. pc[t] \in AcquirePCs \ {"asleep"} /\ pc[t] \notin CountedPCs
    BY <1>1 DEF AcquirePCs, CountedPCs
  <1>3. value' \in Nat /\ taken' \in Nat /\ waiters' \in Nat /\ out' \in Nat
    BY <1>1, Before
  <1>4. CASE Trying(t)
    BY <1>1, <1>2, <1>3, <1>4, GiveUpOrdinary DEF CasFails, Trying, Blocking
  <1>5. CASE ~ Trying(t)
    <2> DEFINE l == IF value > 0 THEN "cas" ELSE WaitLabel(t)
               r == [call[t] EXCEPT !.reg = value]
    <2>1. r \in Locals /\ r.mode = call[t].mode /\ r.reg = value
      BY Before DEF Locals
    <2>2. pc' = [pc EXCEPT ![t] = l] /\ call' = [call EXCEPT ![t] = r]
      BY <1>5 DEF Goto, CasFails
    <2>3. \/ l = "cas" /\ value > 0
          \/ /\ l \in {"enter", "wait", "spin"} /\ (l = "wait" => call[t].mode = "block")
             /\ l = "enter" <=> kind = "shared"
             /\ value = 0
      BY Before DEF WaitLabel, Blocking
    <2> HIDE DEF l, r
    <2>4. Fine(t, l, r)
      BY <1>1, <2>1, <2>3, Before DEF Fine, AcquirePCs
    <2>5. CountsWaiters(t, l)
      BY <1>1, <2>3 DEF CountsWaiters, CountedPCs
    <2>6. value' = 0 \/ (value' = value /\ (t \in Looking => l \in LookingPCs /\ r.mode = "block"))
      BY <1>1, <2>1, <2>3 DEF Looking, LookingPCs
    <2>7. l \in {"cas", "enter", "wait", "spin"}
      BY <2>3
    <2> QED
      BY <1>1, <1>2, <1>3, <2>1, <2>2, <2>4, <2>5, <2>6, <2>7, AcquirerGoes, ZenonT(60)
  <1> QED
    BY <1>4, <1>5

LEMMA ExchangeGoes ==
  ASSUME SemInv, NEW t \in Threads, Exchange(t)
  PROVE  \E l, r : Ordinary(t, l, r)
  <1>1. /\ pc[t] = "exchange" /\ value' = 0
        /\ UNCHANGED <<kind, taken, waiters, sleepers, bulk>>
    BY DEF Exchange
  <1>2. kind # "shared" /\ pc[t] \in AcquirePCs \ {"asleep"} /\ pc[t] \notin CountedPCs
    BY <1>1, Before DEF Fine, AcquirePCs, CountedPCs
  <1>3. value' \in Nat /\ taken' \in Nat /\ waiters' \in Nat
    BY <1>1, Before
  <1>4. CASE TakeOne(t)
    BY <1>1, <1>2, <1>3, <1>4, TakeOneOrdinary
  <1>5. CASE Return(t) /\ UNCHANGED out
    <2>1. Fine(t, "idle", NoCall) /\ CountsWaiters(t, "idle") /\ out' \in Nat
      BY <1>2, <1>5, Before DEF Fine, AcquirePCs, CountsWaiters
    <2>2. Ordinary(t, "idle", NoCall)
      BY <1>1, <1>2, <1>3, <1>5, <2>1, ReturnGoes, NoCallTyped, AcquirerGoes
    <2> QED
      BY <2>2
  <1>6. CASE Goto(t, WaitLabel(t)) /\ UNCHANGED <<call, out>>
    <2> DEFINE l == WaitLabel(t)
    <2>1. l \in {"wait", "spin"} /\ (l = "wait" => call[t].mode = "block")
      BY <1>2 DEF WaitLabel, Blocking
    <2>2. pc' = [pc EXCEPT ![t] = l] /\ call' = [call EXCEPT ![t] = call[t]]
      BY <1>6, Before DEF Goto
    <2> HIDE DEF l
    <2>3. Fine(t, l, call[t]) /\ CountsWaiters(t, l) /\ out' \in Nat /\ call[t] \in Locals
      BY <1>2, <1>6, <2>1, Before DEF Fine, AcquirePCs, CountsWaiters
    <2>4. Ordinary(t, l, call[t])
      BY <1>1, <1>2, <1>3, <2>1, <2>2, <2>3, AcquirerGoes
    <2> QED
      BY <2>4
  <1> QED
    BY <1>4, <1>5, <1>6 DEF Exchange

\* A consumer of a counter, which covers no sleeper but itself.
LEMMA ConsumerGoes ==
  ASSUME SemInv, NEW t \in Threads, pc[t] \in {"compare", "update"},
         NEW l \in {"idle", "update", "wait", "spin"}, NEW r \in {NoCall, call[t]},
         pc' = [pc EXCEPT ![t] = l], call' = [call EXCEPT ![t] = r],
         l = "wait" => call[t].mode = "block" /\ r = call[t],
         UNCHANGED <<kind, waiters, sleepers, bulk>>,
         taken' \in Nat, out' \in Nat, value' = value \/ value' = 0
  PROVE  Ordinary(t, l, r)
  <1>1. kind = "counter" /\ pc[t] \in AcquirePCs \ {"asleep"}
    BY Before DEF Fine, AcquirePCs
  <1>2. Fine(t, l, r) /\ CountsWaiters(t, l)
    BY <1>1, Before DEF Fine, AcquirePCs, CountsWaiters
  <1>3. value' \in Nat /\ waiters' \in Nat /\ r \in Locals
    BY Before
  <1> QED
    BY <1>1, <1>2, <1>3, AcquirerGoes

LEMMA CompareGoes ==
  ASSUME SemInv, NEW t \in Threads, Compare(t)
  PROVE  \E l, r : Ordinary(t, l, r)
  <1>1. /\ pc[t] = "compare" /\ UNCHANGED <<kind, value, waiters, sleepers, bulk>>
        /\ call[t].want \in Nat /\ kind # "shared"
    BY Before DEF Compare, Locals, Fine
  <1>2. CASE taken >= call[t].want
    <2>1. taken' \in Nat /\ out' \in Nat /\ Return(t)
      BY <1>1, <1>2, Before DEF Compare
    <2>2. Ordinary(t, "idle", NoCall)
      BY <1>1, <2>1, ReturnGoes, ConsumerGoes
    <2> QED
      BY <2>2
  <1>3. CASE ~ (taken >= call[t].want)
    <2> DEFINE l == IF Trying(t) THEN "update" ELSE WaitLabel(t)
    <2>1. l \in {"update", "wait", "spin"} /\ (l = "wait" => call[t].mode = "block")
      BY <1>1 DEF WaitLabel, Blocking
    <2>2. /\ pc' = [pc EXCEPT ![t] = l] /\ call' = [call EXCEPT ![t] = call[t]]
          /\ taken' \in Nat /\ out' \in Nat
      BY <1>3, Before DEF Compare, Goto
    <2> HIDE DEF l
    <2>3. Ordinary(t, l, call[t])
      BY <1>1, <2>1, <2>2, ConsumerGoes
    <2> QED
      BY <2>3
  <1> QED
    BY <1>2, <1>3

LEMMA UpdateGoes ==
  ASSUME SemInv, NEW t \in Threads, Update(t)
  PROVE  \E l, r : Ordinary(t, l, r)
  <1>1. /\ pc[t] = "update" /\ value' = 0 /\ UNCHANGED <<kind, waiters, sleepers, bulk>>
        /\ call[t].want \in Nat
    BY Before DEF Update, Locals
  <1>2. CASE taken + value >= call[t].want
    <2>1. taken' \in Nat /\ out' \in Nat /\ Return(t)
      BY <1>1, <1>2, Before DEF Update
    <2>2. Ordinary(t, "idle", NoCall)
      BY <1>1, <2>1, ReturnGoes, ConsumerGoes
    <2> QED
      BY <2>2
  <1>3. CASE ~ (taken + value >= call[t].want)
    <2>1. taken' \in Nat /\ out' \in Nat
      BY <1>3, Before DEF Update
    <2>2. CASE Blocking(t)
      <3>1. /\ pc' = [pc EXCEPT ![t] = "wait"] /\ call' = [call EXCEPT ![t] = call[t]]
            /\ call[t].mode = "block"
        BY <1>3, <2>2, Before DEF Update, Goto, Blocking
      <3>2. Ordinary(t, "wait", call[t])
        BY <1>1, <2>1, <3>1, ConsumerGoes
      <3> QED
        BY <3>2
    <2>3. CASE ~ Blocking(t)
      <3>1. Return(t)
        BY <1>3, <2>3 DEF Update
      <3>2. Ordinary(t, "idle", NoCall)
        BY <1>1, <2>1, <3>1, ReturnGoes, ConsumerGoes
      <3> QED
        BY <3>2
    <2> QED
      BY <2>2, <2>3
  <1> QED
    BY <1>2, <1>3

LEMMA TakeAllGoes ==
  ASSUME SemInv, NEW t \in Threads, pc[t] = "idle", TakeAll(t)
  PROVE  Ordinary(t, "idle", call[t])
  <1>1. /\ value' = 0 /\ taken' = 0 /\ out' \in Nat /\ kind = "counter"
        /\ UNCHANGED <<kind, waiters, sleepers, pc, call, bulk>>
    BY Before DEF TakeAll
  <1>2. Moves(t, "idle", call[t])
    BY <1>1, Before DEF Moves, Fine, Labels, AcquirePCs
  <1>3. CountsWaiters(t, "idle") /\ StaysOneConsumer(t, "idle")
    BY <1>1 DEF CountsWaiters, StaysOneConsumer, AcquirePCs
  <1>4. StaysCovered(t, "idle", call[t])
    BY <1>1 DEF StaysCovered
  <1> QED
    BY <1>2, <1>3, <1>4 DEF Ordinary

LEMMA EnterGoes ==
  ASSUME SemInv, NEW t \in Threads, Enter(t)
  PROVE  \E l, r : Ordinary(t, l, r)
  <1> DEFINE l == IF Blocking(t) THEN "wait" ELSE "spin"
  <1>1. /\ pc[t] = "enter" /\ waiters' = waiters + 1
        /\ UNCHANGED <<kind, value, taken, sleepers, out, bulk>>
        /\ l \in {"wait", "spin"} /\ (l = "wait" <=> call[t].mode = "block")
        /\ pc' = [pc EXCEPT ![t] = l] /\ call' = [call EXCEPT ![t] = call[t]]
    BY Before DEF Enter, Goto, Blocking
  <1> HIDE DEF l
  <1>2. pc[t] \in AcquirePCs \ {"asleep"} /\ pc[t] \notin CountedPCs /\ l \in CountedPCs
    BY <1>1 DEF AcquirePCs, CountedPCs
  <1>3. Fine(t, l, call[t]) /\ CountsWaiters(t, l)
    BY <1>1, <1>2, Before DEF Fine, AcquirePCs, CountsWaiters
  <1>4. t \in Looking => l \in LookingPCs /\ call[t].mode = "block"
    BY <1>1 DEF Looking, LookingPCs
  <1>5. value' \in Nat /\ taken' \in Nat /\ waiters' \in Nat /\ out' \in Nat
        /\ call[t] \in Locals
    BY <1>1, Before
  <1>6. Ordinary(t, l, call[t])
    BY <1>1, <1>2, <1>3, <1>4, <1>5, AcquirerGoes
  <1> QED
    BY <1>6

LEMMA LeaveGoes ==
  ASSUME SemInv, NEW t \in Threads, Leave(t)
  PROVE  \E l, r : Ordinary(t, l, r)
  <1>1. /\ pc[t] \in {"leave", "expired"} /\ waiters' = waiters - 1
        /\ UNCHANGED <<kind, value, taken, sleepers, out, bulk>>
    BY DEF Leave
  <1>2. /\ kind = "shared" /\ pc[t] \in AcquirePCs \ {"asleep"} /\ pc[t] \in CountedPCs
        /\ value' \in Nat /\ taken' \in Nat /\ waiters' \in Nat /\ out' \in Nat
    BY <1>1, Before DEF Fine, AcquirePCs, CountedPCs
  <1>3. CASE pc[t] = "leave" /\ Goto(t, "load") /\ UNCHANGED call
    <2>1. /\ pc' = [pc EXCEPT ![t] = "load"] /\ call' = [call EXCEPT ![t] = call[t]]
          /\ call[t] \in Locals
      BY <1>3, Before DEF Goto
    <2>2. Fine(t, "load", call[t])
      BY <1>2, Before DEF Fine, AcquirePCs
    <2>3. CountsWaiters(t, "load")
      BY <1>1, <1>2 DEF CountsWaiters, CountedPCs
    <2>4. t \in Looking => "load" \in LookingPCs /\ call[t].mode = "block"
      BY DEF Looking, LookingPCs
    <2>5. Ordinary(t, "load", call[t])
      BY <1>1, <1>2, <2>1, <2>2, <2>3, <2>4, AcquirerGoes
    <2> QED
      BY <2>5
  <1>4. CASE pc[t] = "expired" /\ GiveUp(t)
    <2>1. PICK l \in {"idle", "add"}, r \in Locals :
            /\ pc' = [pc EXCEPT ![t] = l] /\ call' = [call EXCEPT ![t] = r]
            /\ l = "add" => r.got >= 1
      BY <1>4, GiveUpGoes, ReturnGoes, Before DEF SemInv
    <2>2. Fine(t, l, r)
      BY <2>1 DEF Fine, AcquirePCs
    <2>3. CountsWaiters(t, l)
      BY <1>1, <1>2, <2>1 DEF CountsWaiters, CountedPCs
    <2>4. t \notin Looking
      BY <1>4 DEF Looking, LookingPCs
    <2>5. Ordinary(t, l, r)
      BY <1>1, <1>2, <2>1, <2>2, <2>3, <2>4, AcquirerGoes
    <2> QED
      BY <2>5
  <1> QED
    BY <1>3, <1>4 DEF Leave

LEMMA AwakeGoes ==
  ASSUME SemInv, NEW t \in Threads, Awake(t)
  PROVE  \E l, r : Ordinary(t, l, r)
  <1> DEFINE l == IF kind = "shared" THEN "leave" ELSE "wait"
  <1>1. /\ pc[t] = "woken" /\ UNCHANGED <<kind, value, taken, waiters, sleepers, out, bulk>>
        /\ l \in {"leave", "wait"} /\ (l = "leave" <=> kind = "shared")
        /\ pc' = [pc EXCEPT ![t] = l] /\ call' = [call EXCEPT ![t] = call[t]]
    BY Before DEF Awake, shared, Goto
  <1> HIDE DEF l
  <1>2. pc[t] \in AcquirePCs \ {"asleep"} /\ pc[t] \in CountedPCs /\ l \in CountedPCs
    BY <1>1 DEF AcquirePCs, CountedPCs
  <1>3. Fine(t, l, call[t]) /\ CountsWaiters(t, l)
    BY <1>1, <1>2, Before DEF Fine, AcquirePCs, CountsWaiters
  <1>4. t \in Looking => l \in LookingPCs /\ call[t].mode = "block"
    BY <1>1 DEF Looking, LookingPCs
  <1>5. value' \in Nat /\ taken' \in Nat /\ waiters' \in Nat /\ out' \in Nat
        /\ call[t] \in Locals
    BY <1>1, Before
  <1>6. Ordinary(t, l, call[t])
    BY <1>1, <1>2, <1>3, <1>4, <1>5, AcquirerGoes
  <1> QED
    BY <1>6

LEMMA SpinGoes ==
  ASSUME SemInv, NEW t \in Threads, Spin(t)
  PROVE  \E l, r : Ordinary(t, l, r)
  <1>1. pc[t] = "spin" /\ UNCHANGED <<kind, value, taken, waiters, sleepers, out, bulk>>
    BY DEF Spin, shared
  <1>2. /\ pc[t] \in AcquirePCs \ {"asleep"} /\ pc[t] \in CountedPCs /\ t \notin Looking
        /\ value' \in Nat /\ taken' \in Nat /\ waiters' \in Nat /\ out' \in Nat
        /\ t \in Acquirers /\ kind \in AllKinds /\ call[t] \in Locals
    BY <1>1, Before DEF Fine, AcquirePCs, CountedPCs, Looking, LookingPCs
  <1>3. ASSUME NEW l \in {"load", "leave", "exchange", "update", "expired"},
               Goto(t, l), UNCHANGED call,
               kind = "shared" => l \in {"leave", "expired"},
               l \in {"leave", "expired"} => kind = "shared", l = "update" => kind = "counter"
        PROVE  \E m, r : Ordinary(t, m, r)
    <2>1. pc' = [pc EXCEPT ![t] = l] /\ call' = [call EXCEPT ![t] = call[t]]
      BY <1>3, Before DEF Goto
    <2>2. Fine(t, l, call[t])
      BY <1>2, <1>3 DEF Fine, AcquirePCs
    <2>3. CountsWaiters(t, l)
      BY <1>1, <1>2, <1>3 DEF CountsWaiters, CountedPCs
    <2>4. Ordinary(t, l, call[t])
      BY <1>1, <1>2, <2>1, <2>2, <2>3, AcquirerGoes
    <2> QED
      BY <2>4
  <1>4. CASE value # 0 /\ Goto(t, Again) /\ UNCHANGED call
    <2>1. /\ Again \in {"load", "leave", "exchange", "update"}
          /\ Again = "leave" <=> kind = "shared"
          /\ Again = "update" => kind = "counter"
      BY <1>2, StartLabels DEF AllKinds
    <2> QED
      BY <1>3, <1>4, <2>1
  <1>5. CASE kind = "shared" /\ Goto(t, "expired") /\ UNCHANGED call
    BY <1>3, <1>5
  <1>6. CASE kind = "counter" /\ Goto(t, "update") /\ UNCHANGED call
    BY <1>3, <1>6
  <1>7. CASE kind \in {"semaphore", "binary"} /\ GiveUp(t)
    <2>1. PICK l \in {"idle", "add"}, r \in Locals :
            /\ pc' = [pc EXCEPT ![t] = l] /\ call' = [call EXCEPT ![t] = r]
            /\ l = "add" => r.got >= 1
      BY <1>7, GiveUpGoes, ReturnGoes, Before DEF SemInv
    <2>2. Fine(t, l, r) /\ CountsWaiters(t, l)
      BY <1>7, <2>1 DEF Fine, AcquirePCs, CountsWaiters
    <2>3. Ordinary(t, l, r)
      BY <1>1, <1>2, <2>1, <2>2, AcquirerGoes
    <2> QED
      BY <2>3
  <1> QED
    BY <1>1, <1>4, <1>5, <1>6, <1>7 DEF Spin

(* All the steps but adding permits, going to sleep and waking.            *)
LEMMA OrdinarySteps ==
  ASSUME SemInv, NEW t \in Threads,
         \/ \E n \in ReleaseAmounts : ReleaseBegin(t, n)
         \/ \E m \in {"block", "try", "timed"}, n \in BlockAmounts \cup TryAmounts :
              AcquireBegin(t, m, n)
         \/ TakeAll(t) \/ ReadWaiters(t) \/ Load(t) \/ CasTakes(t) \/ CasFails(t)
         \/ Exchange(t) \/ Compare(t) \/ Update(t) \/ Enter(t) \/ Leave(t)
         \/ Awake(t) \/ Spin(t)
  PROVE  \E l, r : Ordinary(t, l, r)
  <1>1. CASE TakeAll(t)
    <2>1. Ordinary(t, "idle", call[t])
      BY <1>1, TakeAllGoes DEF TakeAll
    <2> QED
      BY <2>1
  <1> QED
    BY <1>1, ReleaseBeginGoes, AcquireBeginGoes, ReadWaitersGoes, LoadGoes, CasTakesGoes,
       CasFailsGoes, ExchangeGoes, CompareGoes, UpdateGoes, EnterGoes, LeaveGoes,
       AwakeGoes, SpinGoes
----------------------------------------------------------------------------
(* An ordinary step keeps the invariant.                                   *)
LEMMA FiniteSets ==
  /\ IsFiniteSet(Threads)
  /\ IsFiniteSet(Looking) /\ Cardinality(Looking) \in Nat
  /\ IsFiniteSet(Counted) /\ Cardinality(Counted) \in Nat
  <1>1. IsFiniteSet(Threads)
    BY ThreadAssumption, FS_Union DEF Threads
  <1>2. Looking \in SUBSET Threads /\ Counted \in SUBSET Threads
    BY DEF Looking, Counted
  <1> QED
    BY <1>1, <1>2, FS_Subset, FS_CardinalityType

LEMMA WaitersAreCounted ==
  WaitersCounted <=> (kind = "shared" => waiters = Cardinality(Counted))
  BY DEF WaitersCounted, Counted, CountedPCs

LEMMA NextFinite ==
  /\ IsFiniteSet(Looking') /\ Cardinality(Looking') \in Nat
  /\ IsFiniteSet(Counted') /\ Cardinality(Counted') \in Nat
  <1>1. Looking' \in SUBSET Threads /\ Counted' \in SUBSET Threads
    BY DEF Looking, Counted
  <1> QED
    BY <1>1, FiniteSets, FS_Subset, FS_CardinalityType

\* A thread that goes from a label to another and keeps out of the queue.
LEMMA MoveKeeps ==
  ASSUME SemInv, NEW t \in Threads, NEW l \in Labels \ {"asleep"}, NEW r \in Locals,
         pc' = [pc EXCEPT ![t] = l], call' = [call EXCEPT ![t] = r], Fine(t, l, r),
         pc[t] # "asleep", UNCHANGED <<kind, sleepers>>, bulk' \in BOOLEAN,
         value' \in Nat, taken' \in Nat, waiters' \in Nat, out' \in Nat,
         StaysOneConsumer(t, l)
  PROVE  TypeOK' /\ ThreadsFine' /\ QueueFine' /\ OneConsumer'
  <1> USE Before
  <1>0. /\ \A w \in Threads : w # t => pc'[w] = pc[w]
        /\ pc'[t] = l
    BY Before
  <1>1. TypeOK'
    BY DEF SemInv, TypeOK, Locals
  <1>2. ThreadsFine'
    <2>1. ASSUME NEW u \in Threads PROVE Fine(u, pc[u], call[u])'
      <3>1. CASE u = t
        BY <3>1 DEF Fine
      <3>2. CASE u # t
        <4>1. Fine(u, pc[u], call[u]) /\ pc'[u] = pc[u] /\ call'[u] = call[u] /\ kind' = kind
          BY <1>0, <3>2 DEF SemInv, ThreadsFine
        <4> QED
          BY <4>1 DEF Fine
      <3> QED
        BY <3>1, <3>2
    <2> QED
      BY <2>1 DEF ThreadsFine
  <1>3. QueueFine'
    <2>1. ASSUME NEW i \in 1 .. Len(sleepers) PROVE sleepers[i] \in Threads /\ sleepers[i] # t
      <3>1. sleepers[i] \in Threads
        BY DEF SemInv, TypeOK
      <3>2. pc[sleepers[i]] = "asleep"
        BY DEF SemInv, QueueFine
      <3> QED
        BY <3>1, <3>2
    <2> QED
      BY <1>0, <2>1 DEF SemInv, QueueFine
  <1>4. OneConsumer'
    <2> SUFFICES ASSUME kind = "counter", NEW u \in Threads, NEW v \in Threads,
                        pc'[u] \in AcquirePCs, pc'[v] \in AcquirePCs
                 PROVE  u = v
      BY DEF OneConsumer
    <2>1. \A w \in Threads : pc[w] \in AcquirePCs => w \in Acquirers /\ pc[w] # "idle"
      BY DEF SemInv, ThreadsFine, Fine, AcquirePCs
    <2>2. \A w \in Threads : pc[w] \in AcquirePCs /\ pc[t] \in AcquirePCs => w = t
      BY DEF SemInv, OneConsumer
    <2>3. l \in AcquirePCs => pc[t] \in AcquirePCs \/ \A w \in Acquirers : pc[w] = "idle"
      BY DEF StaysOneConsumer
    <2>4. \A w, x \in Threads : pc[w] \in AcquirePCs /\ pc[x] \in AcquirePCs => w = x
      BY DEF SemInv, OneConsumer
    <2> QED
      BY <1>0, <2>1, <2>2, <2>3, <2>4, Zenon
  <1> QED
    BY <1>1, <1>2, <1>3, <1>4

LEMMA OrdinaryType ==
  ASSUME SemInv, NEW t \in Threads, NEW l, NEW r, Ordinary(t, l, r)
  PROVE  TypeOK' /\ ThreadsFine' /\ QueueFine' /\ OneConsumer'
  <1>1. bulk' \in BOOLEAN
    BY DEF Ordinary, Moves, SemInv, TypeOK
  <1> QED
    BY <1>1, MoveKeeps DEF Ordinary, Moves

LEMMA OrdinaryCounts ==
  ASSUME SemInv, NEW t \in Threads, NEW l, NEW r, Ordinary(t, l, r)
  PROVE  WaitersCounted'
  <1> SUFFICES ASSUME kind = "shared" PROVE waiters' = Cardinality(Counted')
    BY WaitersAreCounted DEF WaitersCounted, Counted, CountedPCs, Ordinary, Moves
  <1>1. waiters = Cardinality(Counted)
    BY WaitersAreCounted DEF SemInv
  <1>2. CASE waiters' = waiters /\ (pc[t] \in CountedPCs <=> l \in CountedPCs)
    <2>1. Counted' = Counted
      BY <1>2, Before DEF Ordinary, Moves, Counted
    <2> QED
      BY <1>1, <1>2, <2>1
  <1>3. CASE waiters' = waiters + 1 /\ pc[t] \notin CountedPCs /\ l \in CountedPCs
    <2>1. Counted' = Counted \cup {t} /\ t \notin Counted
      BY <1>3, Before DEF Ordinary, Moves, Counted
    <2> QED
      BY <1>1, <1>3, <2>1, FiniteSets, FS_AddElement
  <1>4. CASE waiters' = waiters - 1 /\ pc[t] \in CountedPCs /\ l \notin CountedPCs
    <2>1. Counted' = Counted \ {t} /\ t \in Counted
      BY <1>4, Before DEF Ordinary, Moves, Counted
    <2> QED
      BY <1>1, <1>4, <2>1, FiniteSets, FS_RemoveElement
  <1> QED
    BY <1>2, <1>3, <1>4 DEF Ordinary, CountsWaiters

(* Whoever is in the queue counts as a waiter.                             *)
LEMMA QueueCounted ==
  ASSUME SemInv, kind = "shared", waiters = 0
  PROVE  sleepers = <<>>
  <1>1. Counted = {}
    BY FiniteSets, FS_EmptySet, WaitersAreCounted DEF SemInv
  <1>2. ASSUME sleepers # <<>> PROVE FALSE
    <2>1. 1 \in 1 .. Len(sleepers) /\ sleepers[1] \in Threads
      BY <1>2 DEF SemInv, TypeOK
    <2>2. sleepers[1] \in Counted
      BY <2>1 DEF SemInv, QueueFine, Counted, CountedPCs
    <2> QED
      BY <1>1, <2>2
  <1> QED
    BY <1>2

LEMMA SmallerSet ==
  ASSUME NEW S, NEW T, IsFiniteSet(T), S \subseteq T
  PROVE  /\ IsFiniteSet(S) /\ Cardinality(S) \in Nat /\ Cardinality(T) \in Nat
         /\ Cardinality(S) <= Cardinality(T)
  <1>1. S \in SUBSET T
    OBVIOUS
  <1> QED
    BY <1>1, FS_Subset, FS_CardinalityType

LEMMA OneMore ==
  ASSUME NEW S, IsFiniteSet(S), NEW x
  PROVE  /\ IsFiniteSet(S \cup {x})
         /\ Cardinality(S \cup {x}) <= Cardinality(S) + 1
  <1>1. Cardinality(S) \in Nat
    BY FS_CardinalityType
  <1>2. /\ IsFiniteSet(S \cup {x})
        /\ Cardinality(S \cup {x}) = IF x \in S THEN Cardinality(S) ELSE Cardinality(S) + 1
    BY FS_AddElement
  <1> QED
    BY <1>1, <1>2

LEMMA OrdinaryCovers ==
  ASSUME SemInv, NEW t \in Threads, NEW l, NEW r, Ordinary(t, l, r)
  PROVE  IsFiniteSet(News') /\ Covered' /\ ConsumerTold'
  <1>1. /\ \A w \in Threads : w # t => pc'[w] = pc[w] /\ call'[w] = call[w]
        /\ pc'[t] = l /\ call'[t] = r /\ UNCHANGED <<kind, sleepers, bulk>>
        /\ pc[t] \notin {"asleep", "notify", "all"}
        /\ l \in {"count", "notify"} => pc[t] = "count" /\ r = call[t]
        /\ value \in Nat /\ value' \in Nat
    BY Before DEF Ordinary, Moves
  <1>2. News' \subseteq News
    <2>1. ASSUME NEW n \in News' PROVE n \in News
      <3>1. /\ n \in Threads \X Nat /\ pc'[n[1]] \in {"count", "notify"}
            /\ n[2] \in 1 .. (IF kind' = "shared" THEN call'[n[1]].upd ELSE 1)
        BY <2>1 DEF News, Told
      <3>2. n[1] \in Threads
        BY <3>1
      <3>3. pc[n[1]] \in {"count", "notify"} /\ call'[n[1]] = call[n[1]]
        BY <1>1, <3>1, <3>2
      <3> QED
        BY <1>1, <3>1, <3>3 DEF News, Told
    <2> QED
      BY <2>1
  <1>3. /\ IsFiniteSet(News') /\ IsFiniteSet(News)
        /\ Cardinality(News) \in Nat /\ Cardinality(News') \in Nat
    BY <1>2, SmallerSet DEF SemInv
  <1>4. News \subseteq News' \/ pc[t] = "count"
    <2> SUFFICES ASSUME pc[t] # "count", NEW n \in News PROVE n \in News'
      OBVIOUS
    <2>1. /\ n \in Threads \X Nat /\ pc[n[1]] \in {"count", "notify"}
          /\ n[2] \in 1 .. (IF kind = "shared" THEN call[n[1]].upd ELSE 1)
      BY DEF News, Told
    <2>2. n[1] \in Threads /\ n[1] # t
      BY <1>1, <2>1
    <2>3. pc'[n[1]] = pc[n[1]] /\ call'[n[1]] = call[n[1]]
      BY <1>1, <2>2
    <2> QED
      BY <1>1, <2>1, <2>3 DEF News, Told
  <1>5. Covered'
    <2>1. CASE kind = "counter" \/ (kind = "semaphore" /\ bulk) \/ sleepers = <<>>
      BY <1>1, <2>1 DEF Covered
    <2>2. CASE \E u \in Threads : pc[u] = "all"
      BY <1>1, <2>2 DEF Covered
    <2>3. CASE value <= Cardinality(Looking) + Cardinality(News) /\ kind # "counter"
      <3>1. CASE value' = 0
        BY <1>3, <3>1, NextFinite DEF Covered
      <3>2. CASE value' = value - 1 /\ pc[t] # "count"
        <4>1. Looking \subseteq Looking' \cup {t}
          BY <1>1 DEF Looking
        <4>2. Cardinality(Looking) <= Cardinality(Looking') + 1
          <5>1. /\ IsFiniteSet(Looking' \cup {t})
                /\ Cardinality(Looking' \cup {t}) <= Cardinality(Looking') + 1
            BY NextFinite, OneMore
          <5>2. /\ Cardinality(Looking) \in Nat /\ Cardinality(Looking' \cup {t}) \in Nat
                /\ Cardinality(Looking) <= Cardinality(Looking' \cup {t})
            BY <4>1, <5>1, SmallerSet
          <5> QED
            BY <5>1, <5>2, NextFinite
        <4>3. Cardinality(News) <= Cardinality(News')
          BY <1>3, <1>4, <3>2, SmallerSet
        <4>4. value' <= Cardinality(Looking') + Cardinality(News')
          BY <1>1, <1>3, <2>3, <3>2, <4>2, <4>3, NextFinite, FiniteSets
        <4> QED
          BY <4>4 DEF Covered
      <3>3. CASE /\ value' = value
                 /\ t \in Looking => l \in LookingPCs /\ r.mode = "block"
                 /\ pc[t] = "count" => waiters = 0 \/ l = "all" \/ (l = "notify" /\ r = call[t])
        <4>1. CASE pc[t] = "count" /\ waiters = 0
          <5>1. kind = "shared"
            BY <4>1, Before DEF Fine
          <5> QED
            BY <1>1, <4>1, <5>1, QueueCounted DEF Covered
        <4>2. CASE l = "all"
          BY <1>1, <4>2 DEF Covered
        <4>3. CASE pc[t] # "count" \/ (l = "notify" /\ r = call[t])
          <5>1. Looking \subseteq Looking'
            BY <1>1, <3>3 DEF Looking
          <5>2. News \subseteq News'
            <6>1. CASE pc[t] # "count"
              BY <1>4, <6>1
            <6>2. CASE pc[t] = "count" /\ l = "notify" /\ r = call[t]
              <7> SUFFICES ASSUME NEW n \in News PROVE n \in News'
                OBVIOUS
              <7>1. /\ n \in Threads \X Nat /\ pc[n[1]] \in {"count", "notify"}
                    /\ n[2] \in 1 .. (IF kind = "shared" THEN call[n[1]].upd ELSE 1)
                BY DEF News, Told
              <7>2. n[1] \in Threads
                BY <7>1
              <7>3. pc'[n[1]] \in {"count", "notify"} /\ call'[n[1]] = call[n[1]]
                BY <1>1, <6>2, <7>1, <7>2
              <7> QED
                BY <1>1, <7>1, <7>3 DEF News, Told
            <6> QED
              BY <4>3, <6>1, <6>2
          <5>3. /\ Cardinality(Looking) <= Cardinality(Looking')
                /\ Cardinality(News) <= Cardinality(News')
            BY <1>3, <5>1, <5>2, NextFinite, SmallerSet
          <5>4. value' <= Cardinality(Looking') + Cardinality(News')
            BY <1>1, <1>3, <2>3, <3>3, <5>3, NextFinite, FiniteSets
          <5> QED
            BY <5>4 DEF Covered
        <4> QED
          BY <3>3, <4>1, <4>2, <4>3
      <3> QED
        BY <2>3, <3>1, <3>2, <3>3 DEF Ordinary, StaysCovered
    <2> QED
      BY <2>1, <2>2, <2>3 DEF SemInv, Covered
  <1>6. ConsumerTold'
    <2> SUFFICES ASSUME kind = "counter", value' > 0, sleepers # <<>>
                 PROVE  \E u \in Threads : pc'[u] = "notify"
      BY <1>1 DEF ConsumerTold
    <2>1. value > 0
      BY <1>1 DEF Ordinary, StaysCovered
    <2>2. PICK u \in Threads : pc[u] = "notify"
      BY <2>1 DEF SemInv, ConsumerTold
    <2> QED
      BY <1>1, <2>2
  <1> QED
    BY <1>3, <1>5, <1>6

LEMMA OrdinaryKeeps ==
  ASSUME SemInv, NEW t \in Threads, NEW l, NEW r, Ordinary(t, l, r)
  PROVE  SemInv'
  BY OrdinaryType, OrdinaryCounts, OrdinaryCovers DEF SemInv
----------------------------------------------------------------------------
(* Adding permits, going to sleep and waking.                              *)

(* The news of a thread that has added n permits.                          *)
LEMMA PairsCounted ==
  ASSUME NEW t, NEW n \in Nat
  PROVE  IsFiniteSet({t} \X (1 .. n)) /\ Cardinality({t} \X (1 .. n)) = n
  <1>1. IsFiniteSet({t}) /\ Cardinality({t}) = 1
    BY FS_Singleton
  <1>2. IsFiniteSet(1 .. n) /\ Cardinality(1 .. n) = n
    BY FS_Interval
  <1>3. /\ IsFiniteSet({t} \X (1 .. n))
        /\ Cardinality({t} \X (1 .. n)) = Cardinality({t}) * Cardinality(1 .. n)
    BY <1>1, <1>2, FS_Product, Zenon
  <1> QED
    BY <1>1, <1>2, <1>3

LEMMA ReleaseAddKeeps ==
  ASSUME SemInv, NEW t \in Threads, ReleaseAdd(t)
  PROVE  SemInv'
  <1> DEFINE l == IF kind = "shared" THEN "count" ELSE "notify"
             r == [NoCall EXCEPT !.upd = call[t].got]
             n == IF kind = "shared" THEN call[t].got ELSE 1
  <1>1. call[t].got \in Nat /\ call[t].got >= 1
    BY Before DEF ReleaseAdd, Fine, Locals
  <1>2. /\ r \in Locals /\ r.upd = call[t].got /\ n \in Nat /\ n >= 1
        /\ n = IF kind = "shared" THEN r.upd ELSE 1
    BY <1>1, Before DEF Locals
  <1>3. /\ pc[t] = "add" /\ pc' = [pc EXCEPT ![t] = l] /\ call' = [call EXCEPT ![t] = r]
        /\ UNCHANGED <<kind, taken, waiters, sleepers, out>>
        /\ value' = IF kind = "binary" THEN 1 ELSE value + call[t].got
        /\ bulk' = (bulk \/ call[t].got > 1)
        /\ l \in {"count", "notify"} /\ (l = "count" => kind = "shared")
    BY DEF ReleaseAdd, Goto
  <1>4. kind = "shared" => n = call[t].got
    OBVIOUS
  <1> HIDE DEF l, r, n
  <1>5. /\ \A w \in Threads : w # t => pc'[w] = pc[w] /\ call'[w] = call[w]
        /\ pc'[t] = l /\ call'[t] = r
    BY <1>3, Before
  <1>6. TypeOK' /\ ThreadsFine' /\ QueueFine' /\ OneConsumer'
    <2>1. bulk' \in BOOLEAN /\ value' \in Nat /\ taken' \in Nat /\ waiters' \in Nat /\ out' \in Nat
      BY <1>1, <1>3, Before DEF SemInv, TypeOK
    <2>2. Fine(t, l, r) /\ StaysOneConsumer(t, l) /\ l \in Labels \ {"asleep"}
      BY <1>1, <1>2, <1>3 DEF Fine, StaysOneConsumer, AcquirePCs, Labels
    <2> QED
      BY <1>2, <1>3, <2>1, <2>2, MoveKeeps
  <1>7. WaitersCounted'
    <2>1. Counted' = Counted
      BY <1>3, <1>5 DEF Counted, CountedPCs
    <2> QED
      BY <1>3, <2>1, WaitersAreCounted DEF SemInv, WaitersCounted, Counted, CountedPCs
  <1>8. News' = News \cup ({t} \X (1 .. n)) /\ News \cap ({t} \X (1 .. n)) = {}
    <2>1. ASSUME NEW p \in Threads \X Nat
          PROVE  p \in News' <=> p \in News \/ p \in {t} \X (1 .. n)
      <3>1. p[1] \in Threads /\ p = <<p[1], p[2]>>
        OBVIOUS
      <3>2. CASE p[1] = t
        BY <1>2, <1>3, <1>5, <3>1, <3>2 DEF News, Told
      <3>3. CASE p[1] # t
        BY <1>3, <1>5, <3>1, <3>3 DEF News, Told
      <3> QED
        BY <3>2, <3>3
    <2>2. {t} \X (1 .. n) \subseteq Threads \X Nat
      OBVIOUS
    <2>3. News \subseteq Threads \X Nat /\ News' \subseteq Threads \X Nat
      BY DEF News
    <2>4. \A p \in {t} \X (1 .. n) : p[1] = t
      OBVIOUS
    <2>5. \A p \in News : p[1] # t
      BY <1>3 DEF News
    <2> QED
      BY <2>1, <2>2, <2>3, <2>4, <2>5
  <1>9. /\ IsFiniteSet(News') /\ Cardinality(News) \in Nat
        /\ Cardinality(News') = Cardinality(News) + n
    <2>1. IsFiniteSet(News) /\ Cardinality(News) \in Nat
      BY FS_CardinalityType DEF SemInv
    <2> DEFINE P == {t} \X (1 .. n)
    <2>2. IsFiniteSet(P) /\ Cardinality(P) = n /\ News' = News \cup P /\ News \cap P = {}
      BY <1>2, <1>8, PairsCounted
    <2> HIDE DEF P
    <2>3. /\ IsFiniteSet(News \cup P)
          /\ Cardinality(News \cup P) = Cardinality(News) + n - Cardinality({})
      BY <2>1, <2>2, FS_Union
    <2> QED
      BY <1>2, <2>1, <2>2, <2>3, FS_EmptySet
  <1>10. Cardinality(Looking') = Cardinality(Looking)
    <2>1. Looking' = Looking
      BY <1>3, <1>5 DEF Looking, LookingPCs
    <2> QED
      BY <2>1
  <1>11. Covered'
    <2>1. CASE kind = "counter" \/ (kind = "semaphore" /\ bulk) \/ sleepers = <<>>
      BY <1>3, <2>1 DEF Covered
    <2>2. CASE \E u \in Threads : pc[u] = "all"
      BY <1>3, <1>5, <2>2 DEF Covered
    <2>3. CASE kind = "semaphore" /\ call[t].got > 1
      BY <1>3, <2>3 DEF Covered
    <2>4. CASE kind = "binary"
      <3>1. value' <= Cardinality(Looking') + Cardinality(News')
        BY <1>2, <1>3, <1>9, <1>10, <2>4, FiniteSets
      <3> QED
        BY <3>1 DEF Covered
    <2>5. CASE /\ value <= Cardinality(Looking) + Cardinality(News)
               /\ kind = "shared" \/ (kind = "semaphore" /\ ~ (call[t].got > 1))
      <3>1. n = call[t].got
        BY <1>1, <1>2, <1>4, <2>5
      <3>2. value' = value + n
        BY <1>3, <2>5, <3>1
      <3>3. value' <= Cardinality(Looking') + Cardinality(News')
        BY <1>2, <1>9, <1>10, <2>5, <3>2, FiniteSets, Before
      <3> QED
        BY <3>3 DEF Covered
    <2> QED
      BY <2>1, <2>2, <2>3, <2>4, <2>5, Before DEF SemInv, Covered, AllKinds
  <1>12. ConsumerTold'
    BY <1>3, <1>5 DEF ConsumerTold
  <1> QED
    BY <1>6, <1>7, <1>9, <1>11, <1>12 DEF SemInv

LEMMA SleepKeeps ==
  ASSUME SemInv, NEW t \in Threads, Sleep(t)
  PROVE  SemInv'
  <1>1. pc[t] = "wait" /\ UNCHANGED <<kind, value, taken, waiters, call, out, bulk>>
    BY DEF Sleep
  <1>2. /\ pc[t] \in AcquirePCs \ {"asleep"} /\ pc[t] \in CountedPCs
        /\ t \in Acquirers /\ call[t].mode = "block" /\ call[t] \in Locals
        /\ value' \in Nat /\ taken' \in Nat /\ waiters' \in Nat /\ out' \in Nat
    BY <1>1, Before DEF Fine, AcquirePCs, CountedPCs
  <1>3. CASE value # 0
    <2> DEFINE l == Again
    <2>1. /\ l \in {"load", "leave", "exchange", "update"}
          /\ l = "leave" <=> kind = "shared"
          /\ l = "update" => kind = "counter"
      BY StartLabels, Before DEF AllKinds
    <2>2. /\ pc' = [pc EXCEPT ![t] = l] /\ call' = [call EXCEPT ![t] = call[t]]
          /\ UNCHANGED sleepers
      BY <1>1, <1>3, Before DEF Sleep, Goto
    <2> HIDE DEF l
    <2>3. Fine(t, l, call[t])
      BY <1>2, <2>1 DEF Fine, AcquirePCs
    <2>4. CountsWaiters(t, l)
      BY <1>1, <1>2, <2>1 DEF CountsWaiters, CountedPCs
    <2>5. kind # "counter" => l \in LookingPCs
      BY <2>1 DEF LookingPCs
    <2>6. Ordinary(t, l, call[t])
      BY <1>1, <1>2, <2>1, <2>2, <2>3, <2>4, <2>5, AcquirerGoes, ZenonT(60)
    <2> QED
      BY <2>6, OrdinaryKeeps
  <1>4. CASE value = 0
    <2>1. pc' = [pc EXCEPT ![t] = "asleep"] /\ sleepers' = Append(sleepers, t)
      BY <1>4 DEF Sleep, Goto
    <2>2. /\ \A w \in Threads : w # t => pc'[w] = pc[w]
          /\ pc'[t] = "asleep"
      BY <2>1, Before
    <2>3. TypeOK'
      <3>1. sleepers' \in Seq(Threads)
        BY <2>1 DEF SemInv, TypeOK
      <3>2. pc' \in [Threads -> Labels] /\ call' \in [Threads -> Locals]
        BY <1>1, <2>1, Before DEF Labels
      <3> QED
        BY <1>1, <1>2, <3>1, <3>2, Before DEF SemInv, TypeOK, Locals
    <2>4. ThreadsFine'
      <3>1. ASSUME NEW u \in Threads PROVE Fine(u, pc[u], call[u])'
        <4>1. Fine(u, pc[u], call[u])
          BY DEF SemInv, ThreadsFine
        <4>2. CASE u = t
          BY <1>1, <1>2, <2>2, <4>2 DEF Fine, AcquirePCs
        <4>3. CASE u # t
          BY <1>1, <2>2, <4>1, <4>3 DEF Fine
        <4> QED
          BY <4>2, <4>3
      <3> QED
        BY <3>1 DEF ThreadsFine
    <2>5. QueueFine'
      <3>1. PICK n \in Nat : n = Len(sleepers)
        BY DEF SemInv, TypeOK
      <3>2. /\ Len(sleepers') = n + 1 /\ sleepers'[n + 1] = t
            /\ \A i \in 1 .. n : sleepers'[i] = sleepers[i] /\ sleepers[i] \in Threads
            /\ \A i \in 1 .. n + 1 : i \in 1 .. n \/ i = n + 1
        BY <2>1, <3>1, SMTT(30) DEF SemInv, TypeOK
      <3>3. /\ \A i \in 1 .. n : pc[sleepers[i]] = "asleep" /\ sleepers[i] # t
            /\ \A i, j \in 1 .. n : sleepers[i] = sleepers[j] => i = j
        BY <1>1, <3>1 DEF SemInv, QueueFine
      <3>4. ASSUME NEW i \in 1 .. n + 1 PROVE pc'[sleepers'[i]] = "asleep"
        <4>1. CASE i = n + 1
          BY <2>2, <3>2, <4>1
        <4>2. CASE i \in 1 .. n
          BY <2>2, <3>2, <3>3, <4>2
        <4> QED
          BY <3>2, <4>1, <4>2
      <3>5. ASSUME NEW i \in 1 .. n + 1, NEW j \in 1 .. n + 1, sleepers'[i] = sleepers'[j]
            PROVE  i = j
        <4>1. (i \in 1 .. n \/ i = n + 1) /\ (j \in 1 .. n \/ j = n + 1)
          BY <3>2
        <4>2. CASE i \in 1 .. n /\ j \in 1 .. n
          BY <3>2, <3>3, <3>5, <4>2, Zenon
        <4>3. CASE i \in 1 .. n /\ j = n + 1
          BY <3>2, <3>3, <3>5, <4>3, Zenon
        <4>4. CASE i = n + 1 /\ j \in 1 .. n
          BY <3>2, <3>3, <3>5, <4>4, Zenon
        <4> QED
          BY <4>1, <4>2, <4>3, <4>4, Zenon
      <3> QED
        BY <3>2, <3>4, <3>5 DEF QueueFine
    <2>6. OneConsumer'
      BY <1>1, <1>2, <2>2 DEF SemInv, OneConsumer, AcquirePCs
    <2>7. WaitersCounted'
      <3>1. Counted' = Counted
        BY <1>2, <2>2 DEF Counted, CountedPCs
      <3> QED
        BY <1>1, <3>1, WaitersAreCounted DEF SemInv, WaitersCounted, Counted, CountedPCs
    <2>8. News' = News
      <3>1. pc[t] \notin {"count", "notify"} /\ pc'[t] \notin {"count", "notify"}
        BY <1>1, <2>2
      <3>2. \A w \in Threads : pc'[w] \in {"count", "notify"} <=> pc[w] \in {"count", "notify"}
        BY <2>2, <3>1
      <3> QED
        BY <1>1, <3>2 DEF News, Told
    <2>9. IsFiniteSet(News') /\ Covered' /\ ConsumerTold'
      <3>1. IsFiniteSet(News) /\ Cardinality(News) \in Nat
        BY FS_CardinalityType DEF SemInv
      <3>2. value' <= Cardinality(Looking') + Cardinality(News')
        BY <1>1, <1>4, <2>8, <3>1, NextFinite
      <3> QED
        BY <1>1, <1>4, <2>8, <3>1, <3>2 DEF Covered, ConsumerTold
    <2> QED
      BY <2>3, <2>4, <2>5, <2>6, <2>7, <2>9 DEF SemInv
  <1> QED
    BY <1>3, <1>4

(* The first n sleepers, all of whom are asleep, look at the word again.   *)
FirstAsleep(n) == {u \in Threads : \E i \in 1 .. n : i <= Len(sleepers) /\ sleepers[i] = u}

\* Where a thread goes that has told one.
TellerPCs == {"idle", "notify"}

LEMMA TellerLabels == "idle" \in TellerPCs
  BY DEF TellerPCs

LEMMA WakeKeeps ==
  ASSUME SemInv, NEW t \in Threads, pc[t] \in {"notify", "all"}, NEW n \in Nat,
         NEW l \in TellerPCs, NEW r \in Locals, Wake(t, n, l),
         call' = [call EXCEPT ![t] = r], Fine(t, l, r),
         UNCHANGED <<kind, value, taken, waiters, out, bulk>>
  PROVE  /\ TypeOK' /\ ThreadsFine' /\ QueueFine' /\ OneConsumer' /\ WaitersCounted'
         /\ Looking' = Looking \cup FirstAsleep(n)
         /\ \A u \in FirstAsleep(n) : pc[u] = "asleep"
         /\ \A u \in Threads : u # t => call'[u] = call[u]
         /\ \A u \in Threads :
              pc'[u] = IF u = t THEN l ELSE IF u \in FirstAsleep(n) THEN "woken" ELSE pc[u]
  <1> DEFINE W == FirstAsleep(n)
  <1>1. \A u \in W : u \in Threads /\ pc[u] = "asleep" /\ u # t
    BY DEF FirstAsleep, SemInv, QueueFine
  <1>2. /\ \A u \in Threads : pc'[u] = IF u = t THEN l ELSE IF u \in W THEN "woken" ELSE pc[u]
        /\ pc' \in [Threads -> Labels]
    <2>1. pc' = [u \in Threads |-> IF u = t THEN l ELSE IF u \in W THEN "woken" ELSE pc[u]]
      BY DEF Wake, FirstAsleep
    <2> QED
      BY <2>1, Before DEF Labels, TellerPCs
  <1>3. /\ call' \in [Threads -> Locals] /\ call'[t] = r
        /\ \A u \in Threads : u # t => call'[u] = call[u]
    BY Before
  <1> HIDE DEF W
  <1>4. /\ \A i \in 1 .. Len(sleepers') : /\ i + n \in 1 .. Len(sleepers)
                                          /\ sleepers'[i] = sleepers[i + n]
        /\ sleepers' \in Seq(Threads)
    <2>1. sleepers \in Seq(Threads) /\ Len(sleepers) \in Nat
      BY DEF SemInv, TypeOK
    <2>2. sleepers' = SubSeq(sleepers, n + 1, Len(sleepers))
      BY DEF Wake
    <2> QED
      BY <2>1, <2>2
  <1>5. TypeOK'
    BY <1>2, <1>3, <1>4, Before DEF SemInv, TypeOK, Locals
  <1>6. ThreadsFine'
    <2>1. ASSUME NEW u \in Threads PROVE Fine(u, pc[u], call[u])'
      <3>1. Fine(u, pc[u], call[u])
        BY DEF SemInv, ThreadsFine
      <3>2. CASE u = t
        BY <1>2, <1>3, <3>2 DEF Fine
      <3>3. CASE u # t /\ u \in W
        BY <1>1, <1>2, <1>3, <3>1, <3>3 DEF Fine, AcquirePCs
      <3>4. CASE u # t /\ u \notin W
        BY <1>2, <1>3, <3>1, <3>4 DEF Fine
      <3> QED
        BY <3>2, <3>3, <3>4
    <2> QED
      BY <2>1 DEF ThreadsFine
  <1>7. QueueFine'
    <2>1. ASSUME NEW i \in 1 .. Len(sleepers') PROVE pc'[sleepers'[i]] = "asleep"
      <3>1. i + n \in 1 .. Len(sleepers) /\ sleepers'[i] = sleepers[i + n]
        BY <1>4
      <3>2. PICK k \in 1 .. Len(sleepers) : k = i + n /\ sleepers'[i] = sleepers[k]
        BY <3>1
      <3>3. sleepers[k] \in Threads /\ pc[sleepers[k]] = "asleep"
        <4>1. \A j \in 1 .. Len(sleepers) : sleepers[j] \in Threads
          BY DEF SemInv, TypeOK
        <4>2. \A j \in 1 .. Len(sleepers) : pc[sleepers[j]] = "asleep"
          BY DEF SemInv, QueueFine
        <4> QED
          BY <4>1, <4>2
      <3>4. sleepers[k] \notin W
        <4> SUFFICES ASSUME NEW j \in 1 .. n, j <= Len(sleepers), sleepers[j] = sleepers[k]
                     PROVE  FALSE
          BY DEF W, FirstAsleep
        <4>1. j \in 1 .. Len(sleepers)
          BY <3>2 DEF SemInv, TypeOK
        <4>2. j = k
          BY <3>2, <4>1 DEF SemInv, QueueFine
        <4> QED
          BY <3>2, <4>2
      <3> QED
        BY <1>2, <3>2, <3>3, <3>4
    <2>2. ASSUME NEW i \in 1 .. Len(sleepers'), NEW j \in 1 .. Len(sleepers'),
                 sleepers'[i] = sleepers'[j]
          PROVE  i = j
      <3>1. /\ i + n \in 1 .. Len(sleepers) /\ j + n \in 1 .. Len(sleepers)
            /\ sleepers[i + n] = sleepers[j + n]
        BY <1>4, <2>2
      <3>2. i + n = j + n
        BY <3>1 DEF SemInv, QueueFine
      <3> QED
        BY <3>2
    <2> QED
      BY <2>1, <2>2 DEF QueueFine
  <1>8. OneConsumer' /\ WaitersCounted' /\ Looking' = Looking \cup W
    <2>1. \A u \in Threads : /\ pc'[u] \in AcquirePCs <=> pc[u] \in AcquirePCs
                             /\ pc'[u] \in CountedPCs <=> pc[u] \in CountedPCs
                             /\ pc'[u] \in LookingPCs <=> pc[u] \in LookingPCs \/ u \in W
      BY <1>1, <1>2 DEF AcquirePCs, CountedPCs, LookingPCs, TellerPCs
    <2>2. OneConsumer'
      BY <2>1 DEF SemInv, OneConsumer
    <2>3. Counted' = Counted
      BY <2>1 DEF Counted
    <2>4. WaitersCounted'
      BY <2>3, WaitersAreCounted DEF SemInv, WaitersCounted, Counted, CountedPCs
    <2>5. \A u \in W : call[u].mode = "block"
      BY <1>1 DEF SemInv, ThreadsFine, Fine
    <2>6. pc[t] \notin LookingPCs /\ t \notin W
      BY <1>1 DEF LookingPCs
    <2>7. \A u \in Threads : u # t => call'[u].mode = call[u].mode
      BY <1>3
    <2>8. \A u \in Threads : u \in Looking' <=> u \in Looking \/ u \in W
      BY <2>1, <2>5, <2>6, <2>7 DEF Looking
    <2>9. Looking' = Looking \cup W
      BY <1>1, <2>8 DEF Looking
    <2> QED
      BY <2>2, <2>4, <2>9
  <1> QED
    BY <1>1, <1>2, <1>3, <1>5, <1>6, <1>7, <1>8 DEF W

(* One piece of news told: one permit more is looked for, if any sleep.    *)
LEMMA ToldKeeps ==
  ASSUME SemInv, NEW t \in Threads, pc[t] = "notify",
         NEW l \in TellerPCs, NEW r \in Locals, Wake(t, 1, l),
         call' = [call EXCEPT ![t] = r], Fine(t, l, r),
         UNCHANGED <<kind, value, taken, waiters, out, bulk>>,
         NEW p \in News, News' = News \ {p}
  PROVE  SemInv'
  <1>1. /\ TypeOK' /\ ThreadsFine' /\ QueueFine' /\ OneConsumer' /\ WaitersCounted'
        /\ Looking' = Looking \cup FirstAsleep(1)
        /\ \A u \in FirstAsleep(1) : pc[u] = "asleep"
        /\ \A u \in Threads :
             pc'[u] = IF u = t THEN l ELSE IF u \in FirstAsleep(1) THEN "woken" ELSE pc[u]
    <2>1. PICK n \in Nat : n = 1
      OBVIOUS
    <2>2. pc[t] \in {"notify", "all"} /\ Wake(t, n, l)
      BY <2>1
    <2>3. /\ TypeOK' /\ ThreadsFine' /\ QueueFine' /\ OneConsumer' /\ WaitersCounted'
          /\ Looking' = Looking \cup FirstAsleep(n)
          /\ \A u \in FirstAsleep(n) : pc[u] = "asleep"
          /\ \A u \in Threads :
               pc'[u] = IF u = t THEN l ELSE IF u \in FirstAsleep(n) THEN "woken" ELSE pc[u]
      BY <2>2, WakeKeeps, ZenonT(60)
    <2> QED
      BY <2>1, <2>3, Zenon
  <1>2. /\ IsFiniteSet(News') /\ Cardinality(News) \in Nat /\ Cardinality(News') \in Nat
        /\ Cardinality(News') = Cardinality(News) - 1
    BY FS_RemoveElement, FS_CardinalityType DEF SemInv
  <1>3. Cardinality(Looking) \in Nat /\ Cardinality(Looking') \in Nat /\ value \in Nat
    BY FiniteSets, NextFinite, Before
  <1>4. sleepers' = SubSeq(sleepers, 2, Len(sleepers))
    BY DEF Wake
  <1>5. CASE sleepers = <<>>
    <2>1. sleepers' = <<>>
      BY <1>4, <1>5
    <2> QED
      BY <1>1, <1>2, <2>1 DEF SemInv, Covered, ConsumerTold
  <1>6. CASE sleepers # <<>>
    <2>1. /\ 1 \in 1 .. Len(sleepers) /\ sleepers[1] \in Threads
          /\ Len(sleepers) \in Nat /\ Len(sleepers) >= 1
      BY <1>6, SMTT(30) DEF SemInv, TypeOK
    <2>2. FirstAsleep(1) = {sleepers[1]}
      BY <2>1 DEF FirstAsleep
    <2>3. sleepers[1] \notin Looking
      BY <1>1, <2>2 DEF Looking, LookingPCs
    <2>4. Cardinality(Looking') = Cardinality(Looking) + 1
      BY <1>1, <2>2, <2>3, FiniteSets, FS_AddElement
    <2>5. Covered'
      <3>1. CASE \E u \in Threads : pc[u] = "all"
        <4>1. PICK u \in Threads : pc[u] = "all"
          BY <3>1
        <4>2. pc'[u] = "all"
          BY <1>1, <4>1
        <4> QED
          BY <4>2 DEF Covered
      <3>2. CASE kind = "counter" \/ (kind = "semaphore" /\ bulk)
        BY <3>2 DEF Covered
      <3>3. CASE value <= Cardinality(Looking) + Cardinality(News)
        <4>1. value' <= Cardinality(Looking') + Cardinality(News')
          BY <1>2, <1>3, <2>4, <3>3
        <4> QED
          BY <4>1 DEF Covered
      <3> QED
        BY <1>6, <3>1, <3>2, <3>3 DEF SemInv, Covered
    <2>6. ConsumerTold'
      <3> SUFFICES ASSUME kind = "counter", sleepers' # <<>> PROVE FALSE
        BY DEF ConsumerTold
      <3>1. 1 \in 1 .. Len(sleepers) /\ 2 \in 1 .. Len(sleepers)
        <4>1. ASSUME Len(sleepers) = 1 PROVE FALSE
          <5>1. sleepers \in Seq(Threads) /\ sleepers' = SubSeq(sleepers, 2, 1)
            BY <1>4, <4>1 DEF SemInv, TypeOK
          <5>2. SubSeq(sleepers, 2, 1) = <<>>
            BY <5>1
          <5> QED
            BY <5>1, <5>2
        <4>2. \A n \in Nat : n >= 1 /\ n # 1 => 1 \in 1 .. n /\ 2 \in 1 .. n
          OBVIOUS
        <4> QED
          BY <2>1, <4>1, <4>2
      <3>2. /\ sleepers[1] \in Threads /\ sleepers[2] \in Threads
            /\ pc[sleepers[1]] \in AcquirePCs /\ pc[sleepers[2]] \in AcquirePCs
        <4>1. /\ \A i \in 1 .. Len(sleepers) : sleepers[i] \in Threads
              /\ \A i \in 1 .. Len(sleepers) : pc[sleepers[i]] = "asleep"
          BY DEF SemInv, TypeOK, QueueFine
        <4> QED
          BY <3>1, <4>1 DEF AcquirePCs
      <3>3. sleepers[1] = sleepers[2]
        BY <3>2 DEF SemInv, OneConsumer
      <3> QED
        BY <3>1, <3>3 DEF SemInv, QueueFine
    <2> QED
      BY <1>1, <1>2, <2>5, <2>6 DEF SemInv
  <1> QED
    BY <1>5, <1>6

LEMMA NotifyOneKeeps ==
  ASSUME SemInv, NEW t \in Threads, NotifyOne(t)
  PROVE  SemInv'
  <1>1. /\ pc[t] = "notify" /\ kind # "shared" /\ Wake(t, 1, "idle")
        /\ call' = [call EXCEPT ![t] = NoCall]
        /\ UNCHANGED <<kind, value, taken, waiters, out, bulk>>
    BY DEF NotifyOne
  <1>2. Fine(t, "idle", NoCall)
    BY DEF Fine, AcquirePCs
  <1>3. /\ \A u \in FirstAsleep(1) : pc[u] = "asleep"
        /\ \A u \in Threads :
             pc'[u] = IF u = t THEN "idle" ELSE IF u \in FirstAsleep(1) THEN "woken" ELSE pc[u]
    <2>1. PICK n \in Nat : n = 1
      OBVIOUS
    <2>2. pc[t] \in {"notify", "all"} /\ Wake(t, n, "idle")
      BY <1>1, <2>1
    <2>3. /\ \A u \in FirstAsleep(n) : pc[u] = "asleep"
          /\ \A u \in Threads :
               pc'[u] = IF u = t THEN "idle"
                        ELSE IF u \in FirstAsleep(n) THEN "woken" ELSE pc[u]
      BY <1>1, <1>2, <2>2, WakeKeeps, NoCallTyped, TellerLabels
    <2> QED
      BY <2>1, <2>3, Zenon
  <1>4. <<t, 1>> \in News
    BY <1>1 DEF News, Told
  <1>5. \A u \in Threads :
          pc'[u] \in {"count", "notify"} <=> u # t /\ pc[u] \in {"count", "notify"}
    BY <1>3
  <1>6. News' = News \ {<<t, 1>>}
    <2>1. ASSUME NEW n \in Threads \X Nat PROVE n \in News' <=> n \in News /\ n # <<t, 1>>
      <3>1. n[1] \in Threads /\ n[2] \in Nat /\ n = <<n[1], n[2]>>
        OBVIOUS
      <3> QED
        BY <1>1, <1>5, <3>1 DEF News, Told
    <2>2. News \subseteq Threads \X Nat /\ News' \subseteq Threads \X Nat
      BY DEF News
    <2> QED
      BY <2>1, <2>2
  <1> QED
    BY <1>1, <1>2, <1>4, <1>6, ToldKeeps, NoCallTyped, TellerLabels

LEMMA NotifyEachKeeps ==
  ASSUME SemInv, NEW t \in Threads, NotifyEach(t)
  PROVE  SemInv'
  <1> DEFINE l == IF call[t].upd = 1 THEN "idle" ELSE "notify"
             r == [call[t] EXCEPT !.upd = call[t].upd - 1]
             m == call[t].upd
  <1>1. /\ pc[t] = "notify" /\ kind = "shared" /\ Wake(t, 1, l)
        /\ call' = [call EXCEPT ![t] = r]
        /\ UNCHANGED <<kind, value, taken, waiters, out, bulk>>
    BY DEF NotifyEach
  <1>2. m \in Nat /\ m >= 1
    BY <1>1, Before DEF Fine, Locals
  <1>3. r \in Locals /\ r.upd = m - 1 /\ l \in TellerPCs
    BY <1>2, Before DEF Locals, TellerPCs
  <1>4. l = "notify" => m - 1 >= 1
    BY <1>2
  <1> HIDE DEF l, r, m
  <1>5. Fine(t, l, r)
    BY <1>3, <1>4 DEF Fine, AcquirePCs, TellerPCs
  <1>6. /\ \A u \in FirstAsleep(1) : pc[u] = "asleep"
        /\ \A u \in Threads : u # t => call'[u] = call[u]
        /\ \A u \in Threads :
             pc'[u] = IF u = t THEN l ELSE IF u \in FirstAsleep(1) THEN "woken" ELSE pc[u]
    <2>1. PICK n \in Nat : n = 1
      OBVIOUS
    <2>2. pc[t] \in {"notify", "all"} /\ Wake(t, n, l)
      BY <1>1, <2>1
    <2>3. /\ \A u \in FirstAsleep(n) : pc[u] = "asleep"
          /\ \A u \in Threads : u # t => call'[u] = call[u]
          /\ \A u \in Threads :
               pc'[u] = IF u = t THEN l ELSE IF u \in FirstAsleep(n) THEN "woken" ELSE pc[u]
      BY <1>1, <1>3, <1>5, <2>2, WakeKeeps, ZenonT(60)
    <2> QED
      BY <2>1, <2>3, Zenon
  <1>7. call'[t] = r /\ call[t].upd = m /\ (l = "idle" <=> m = 1)
    BY <1>1, Before DEF l, m
  <1>8. <<t, m>> \in News
    BY <1>1, <1>2, <1>7 DEF News, Told
  <1>9. \A u \in Threads : u # t =>
          /\ pc'[u] \in {"count", "notify"} <=> pc[u] \in {"count", "notify"}
          /\ Told(u)' = Told(u)
    BY <1>1, <1>6 DEF Told
  <1>10. News' = News \ {<<t, m>>}
    <2>1. ASSUME NEW n \in Threads \X Nat PROVE n \in News' <=> n \in News /\ n # <<t, m>>
      <3>1. n[1] \in Threads /\ n[2] \in Nat /\ n = <<n[1], n[2]>>
        OBVIOUS
      <3>2. CASE n[1] # t
        BY <1>9, <3>1, <3>2 DEF News
      <3>3. CASE n[1] = t
        <4>1. n \in News <=> n[2] \in 1 .. m
          BY <1>1, <1>7, <3>3 DEF News, Told
        <4>2. pc'[t] = l
          BY <1>6
        <4>3. n \in News' <=> l = "notify" /\ n[2] \in 1 .. (m - 1)
          BY <1>1, <1>3, <1>7, <3>3, <4>2 DEF News, Told, TellerPCs
        <4>4. n # <<t, m>> <=> n[2] # m
          BY <3>1, <3>3
        <4> QED
          BY <1>2, <1>3, <1>7, <3>1, <4>1, <4>3, <4>4 DEF TellerPCs
      <3> QED
        BY <3>2, <3>3
    <2>2. News \subseteq Threads \X Nat /\ News' \subseteq Threads \X Nat
      BY DEF News
    <2> QED
      BY <2>1, <2>2
  <1> QED
    BY <1>1, <1>3, <1>5, <1>8, <1>10, ToldKeeps

LEMMA NotifyAllKeeps ==
  ASSUME SemInv, NEW t \in Threads, NotifyAll(t)
  PROVE  SemInv'
  <1>1. PICK n \in Nat : n = Len(sleepers)
    BY DEF SemInv, TypeOK
  <1>2. /\ pc[t] = "all" /\ Wake(t, n, "idle")
        /\ call' = [call EXCEPT ![t] = NoCall]
        /\ UNCHANGED <<kind, value, taken, waiters, out, bulk>>
    BY <1>1 DEF NotifyAll
  <1>3. Fine(t, "idle", NoCall)
    BY DEF Fine, AcquirePCs
  <1>4. /\ TypeOK' /\ ThreadsFine' /\ QueueFine' /\ OneConsumer' /\ WaitersCounted'
        /\ \A u \in FirstAsleep(n) : pc[u] = "asleep"
        /\ \A u \in Threads : u # t => call'[u] = call[u]
        /\ \A u \in Threads :
             pc'[u] = IF u = t THEN "idle" ELSE IF u \in FirstAsleep(n) THEN "woken" ELSE pc[u]
    BY <1>2, <1>3, WakeKeeps, NoCallTyped, TellerLabels, ZenonT(60)
  <1>5. sleepers' = <<>>
    BY <1>1, <1>2 DEF SemInv, TypeOK, Wake
  <1>6. IsFiniteSet(News')
    <2>1. \A u \in Threads :
            /\ pc'[u] \in {"count", "notify"} <=> pc[u] \in {"count", "notify"}
            /\ pc'[u] \in {"count", "notify"} => Told(u)' = Told(u)
      BY <1>2, <1>4 DEF Told
    <2>2. News' = News
      <3>1. ASSUME NEW p \in Threads \X Nat PROVE p \in News' <=> p \in News
        <4>1. p[1] \in Threads
          OBVIOUS
        <4> QED
          BY <2>1, <4>1 DEF News
      <3>2. News \subseteq Threads \X Nat /\ News' \subseteq Threads \X Nat
        BY DEF News
      <3> QED
        BY <3>1, <3>2
    <2> QED
      BY <2>2 DEF SemInv
  <1>7. Covered' /\ ConsumerTold'
    BY <1>5 DEF Covered, ConsumerTold
  <1> QED
    BY <1>4, <1>6, <1>7 DEF SemInv
----------------------------------------------------------------------------
(* The theorems.                                                           *)
LEMMA SemInit == Init => SemInv
  <1> SUFFICES ASSUME Init PROVE SemInv
    OBVIOUS
  <1>1. /\ \A t \in Threads : pc[t] = "idle" /\ call[t] = NoCall
        /\ sleepers = <<>> /\ waiters = 0 /\ taken = 0 /\ bulk = FALSE
        /\ pc = [t \in Threads |-> "idle"] /\ call = [t \in Threads |-> NoCall]
    BY DEF Init
  <1>2. TypeOK
    <2>1. kind \in AllKinds /\ MaxPermits(kind) \in Nat
      BY KindAssumption, AmountAssumption DEF Init, MaxPermits
    <2>2. value \in 0 .. MaxPermits(kind) /\ out = MaxPermits(kind) - value
      BY DEF Init
    <2>3. value \in Nat /\ out \in Nat
      BY <2>1, <2>2
    <2>4. pc \in [Threads -> Labels]
      BY <1>1 DEF Labels
    <2>5. call \in [Threads -> Locals]
      BY <1>1, NoCallTyped
    <2>6. sleepers \in Seq(Threads)
      BY <1>1
    <2> QED
      BY <1>1, <2>1, <2>3, <2>4, <2>5, <2>6 DEF TypeOK, Locals
  <1>3. ThreadsFine /\ OneConsumer
    BY <1>1 DEF ThreadsFine, Fine, OneConsumer, AcquirePCs
  <1>4. QueueFine
    BY <1>1 DEF QueueFine
  <1>5. WaitersCounted
    <2>1. Counted = {}
      BY <1>1 DEF Counted, CountedPCs
    <2> QED
      BY <1>1, <2>1, WaitersAreCounted, FS_EmptySet
  <1>6. IsFiniteSet(News)
    <2>1. News = {}
      <3>1. \A p \in Threads \X Nat : p[1] \in Threads
        OBVIOUS
      <3> QED
        BY <1>1, <3>1 DEF News
    <2> QED
      BY <2>1, FS_EmptySet
  <1>7. Covered /\ ConsumerTold
    BY <1>1 DEF Covered, ConsumerTold
  <1> QED
    BY <1>2, <1>3, <1>4, <1>5, <1>6, <1>7 DEF SemInv

LEMMA SemStep == SemInv /\ [Next]_vars => SemInv'
  <1> SUFFICES ASSUME SemInv, [Next]_vars PROVE SemInv'
    OBVIOUS
  <1>1. CASE UNCHANGED vars
    <2>1. /\ UNCHANGED <<kind, value, taken, waiters, sleepers, pc, call, out, bulk>>
      BY <1>1 DEF vars, shared
    <2>2. News' = News /\ Looking' = Looking
      BY <2>1 DEF News, Told, Looking
    <2>3. TypeOK' /\ ThreadsFine' /\ QueueFine' /\ OneConsumer' /\ WaitersCounted'
      BY <2>1 DEF SemInv, TypeOK, ThreadsFine, Fine, QueueFine, OneConsumer, WaitersCounted
    <2>4. Covered' /\ ConsumerTold' /\ IsFiniteSet(News')
      BY <2>1, <2>2 DEF SemInv, Covered, ConsumerTold
    <2> QED
      BY <2>3, <2>4 DEF SemInv
  <1>2. ASSUME NEW t \in Threads, Step(t) PROVE SemInv'
    BY <1>2, OrdinarySteps, OrdinaryKeeps, ReleaseAddKeeps, SleepKeeps, NotifyOneKeeps,
       NotifyEachKeeps, NotifyAllKeeps DEF Step
  <1>3. ASSUME NEW t \in Threads, Call(t) PROVE SemInv'
    BY <1>3, OrdinarySteps, OrdinaryKeeps DEF Call
  <1> QED
    BY <1>1, <1>2, <1>3 DEF Next

LEMMA SemCorrect == Spec => []SemInv
  BY SemInit, SemStep, PTL DEF Spec

(* Every kind of semaphore keeps its word, its queue of sleepers and its   *)
(* threads' locals within their types, for any threads and amounts.        *)
THEOREM SemaphoreTypeCorrect == Spec => []TypeOK
  <1>1. SemInv => TypeOK
    BY DEF SemInv
  <1> QED
    BY <1>1, SemCorrect, PTL

(* The bound that release of a shared semaphore reads counts all the       *)
(* threads that wait, however many there are (shared_semaphore_t).         *)
THEOREM WaitersCorrect == Spec => []WaitersCounted
  <1>1. SemInv => WaitersCounted
    BY DEF SemInv
  <1> QED
    BY <1>1, SemCorrect, PTL

LEMMA CoveredSleepersHaveHelp == SemInv => NoStrandedSleeper
  <1> SUFFICES ASSUME SemInv, value > 0, sleepers # <<>>, \A t \in Threads : ~ Watchful(t),
                      ~ (kind = "semaphore" /\ bulk)
               PROVE  FALSE
    BY DEF NoStrandedSleeper
  <1>1. kind # "counter"
    BY DEF SemInv, ConsumerTold, Watchful
  <1>2. ~ \E t \in Threads : pc[t] = "all"
    BY DEF Watchful
  <1>3. value <= Cardinality(Looking) + Cardinality(News)
    BY <1>1, <1>2 DEF SemInv, Covered
  <1>4. Looking = {}
    BY DEF Looking, LookingPCs, Watchful, Trying
  <1>5. News = {}
    <2>1. \A p \in Threads \X Nat : p[1] \in Threads
      OBVIOUS
    <2> QED
      BY <2>1 DEF News, Watchful
  <1>6. Cardinality(Looking) = 0 /\ Cardinality(News) = 0
    BY <1>4, <1>5, FS_EmptySet
  <1>7. value \in Nat
    BY DEF SemInv, TypeOK
  <1> QED
    BY <1>3, <1>6, <1>7

(* No thread is left asleep beside a free permit, whatever the number of   *)
(* acquirers, releasers and permits, but for the one case that the model   *)
(* of release shows (semaphore_t::release of several permits).             *)
THEOREM NoStrandedCorrect == Spec => []NoStrandedSleeper
  BY SemCorrect, CoveredSleepersHaveHelp, PTL
----------------------------------------------------------------------------
(* Permits.  Only a call to acquire several of them, or one that is about  *)
(* to add some, has permits in its hands.                                  *)
HandOK(t) ==
  /\ call[t].got # 0 =>
       \/ pc[t] = "add"
       \/ kind \in {"semaphore", "shared"} /\ pc[t] \in AcquirePCs
  /\ kind = "binary" /\ pc[t] \in AcquirePCs => call[t].want = 1
  /\ kind = "counter" => pc[t] \notin {"load", "cas", "exchange"}
  /\ kind = "semaphore" => pc[t] # "exchange"

HandsOK == \A t \in Threads : HandOK(t)

PermitInv == IsFiniteSet(InHands) /\ PermitsConserved /\ HandsOK

(* What each step does to the permits: those of the thread t change place. *)
Balanced(t) ==
  /\ \A u \in Threads : u # t =>
       /\ call'[u] = call[u]
       /\ pc'[u] = pc[u] \/ (pc[u] = "asleep" /\ pc'[u] = "woken")
  /\ kind' = kind
  /\ value' + taken' + out' + call'[t].got = value + taken + out + call[t].got
  /\ HandOK(t)'

Hand(t) == {t} \X (1 .. call[t].got)

LEMMA HandsOf ==
  \A p : p \in InHands <=> \E t \in Threads : p \in Hand(t)
  BY DEF InHands, Hand

LEMMA HandsNext ==
  \A p : p \in InHands' <=> \E t \in Threads : p \in Hand(t)'
  BY DEF InHands, Hand

LEMMA DisjointUnion ==
  ASSUME NEW R, NEW H, IsFiniteSet(R), IsFiniteSet(H), R \cap H = {}
  PROVE  /\ IsFiniteSet(R \cup H)
         /\ Cardinality(R \cup H) = Cardinality(R) + Cardinality(H)
  <1>1. Cardinality(R) \in Nat /\ Cardinality(H) \in Nat
    BY FS_CardinalityType
  <1>2. Cardinality(R \cup H) = Cardinality(R) + Cardinality(H) - Cardinality(R \cap H)
    BY FS_Union
  <1>3. Cardinality(R \cap H) = 0
    BY FS_EmptySet
  <1> QED
    BY <1>1, <1>2, <1>3, FS_Union

(* The permits are those in one thread's hands and in the others'.         *)
LEMMA HandsSplit ==
  ASSUME TypeOK, IsFiniteSet(InHands), NEW t \in Threads
  PROVE  /\ IsFiniteSet(InHands \ Hand(t))
         /\ Cardinality(InHands \ Hand(t)) \in Nat
         /\ Cardinality(InHands) = Cardinality(InHands \ Hand(t)) + call[t].got
  <1>1. call[t].got \in Nat
    BY DEF TypeOK
  <1>2. IsFiniteSet(Hand(t)) /\ Cardinality(Hand(t)) = call[t].got
    BY <1>1, PairsCounted DEF Hand
  <1>3. InHands \cap Hand(t) = Hand(t)
    BY HandsOf
  <1>4. /\ IsFiniteSet(InHands \ Hand(t))
        /\ Cardinality(InHands \ Hand(t)) = Cardinality(InHands) - Cardinality(Hand(t))
    BY <1>3, FS_Difference
  <1>5. Cardinality(InHands) \in Nat /\ Cardinality(InHands \ Hand(t)) \in Nat
    BY <1>4, FS_CardinalityType
  <1> QED
    BY <1>1, <1>2, <1>4, <1>5

LEMMA HandsChange ==
  ASSUME TypeOK, TypeOK', IsFiniteSet(InHands), NEW t \in Threads,
         \A u \in Threads : u # t => call'[u] = call[u]
  PROVE  /\ IsFiniteSet(InHands') /\ Cardinality(InHands) \in Nat
         /\ Cardinality(InHands') + call[t].got = Cardinality(InHands) + call'[t].got
  <1> DEFINE R == InHands \ Hand(t)
             H == Hand(t)'
  <1>1. call[t].got \in Nat /\ call'[t].got \in Nat
    BY DEF TypeOK
  <1>2. IsFiniteSet(H) /\ Cardinality(H) = call'[t].got
    BY <1>1, PairsCounted DEF Hand
  <1>3. /\ IsFiniteSet(R) /\ Cardinality(R) \in Nat
        /\ Cardinality(InHands) = Cardinality(R) + call[t].got
    BY HandsSplit
  <1>4. \A p : p \in R <=> \E u \in Threads : u # t /\ p \in Hand(u)
    <2>1. \A u \in Threads : \A p \in Hand(u) : p[1] = u
      BY DEF Hand
    <2> QED
      BY <2>1, HandsOf
  <1>5. \A p : p \in InHands' <=> p \in R \/ p \in H
    <2>1. \A u \in Threads : u # t => Hand(u)' = Hand(u)
      BY DEF Hand
    <2> QED
      BY <1>4, <2>1, HandsNext
  <1>6. InHands' = R \cup H /\ R \cap H = {}
    <2>1. \A p \in R : p[1] # t
      BY <1>4 DEF Hand
    <2>2. \A p \in H : p[1] = t
      BY DEF Hand
    <2> HIDE DEF R, H
    <2> QED
      BY <1>5, <2>1, <2>2
  <1> HIDE DEF R, H
  <1>7. /\ IsFiniteSet(R \cup H)
        /\ Cardinality(R \cup H) = Cardinality(R) + Cardinality(H)
    BY <1>1, <1>2, <1>3, <1>6, DisjointUnion
  <1>8. IsFiniteSet(InHands') /\ Cardinality(InHands') = Cardinality(R) + Cardinality(H)
    BY <1>6, <1>7, Zenon
  <1>9. Cardinality(InHands) \in Nat
    BY FS_CardinalityType
  <1> QED
    BY <1>1, <1>2, <1>3, <1>8, <1>9

LEMMA BalancedKeeps ==
  ASSUME TypeOK, TypeOK', PermitInv, NEW t \in Threads, Balanced(t)
  PROVE  PermitInv'
  <1>1. \A u \in Threads : u # t => call'[u] = call[u]
    BY DEF Balanced
  <1>2. /\ IsFiniteSet(InHands') /\ Cardinality(InHands) \in Nat
        /\ Cardinality(InHands') + call[t].got = Cardinality(InHands) + call'[t].got
    BY <1>1, HandsChange DEF PermitInv
  <1>3. Cardinality(InHands') \in Nat
    BY <1>2, FS_CardinalityType
  <1>4. MaxPermits(kind)' = MaxPermits(kind)
    BY DEF Balanced, MaxPermits
  <1>5. PermitsConserved'
    <2>1. /\ call[t].got \in Nat /\ call'[t].got \in Nat
          /\ value \in Nat /\ taken \in Nat /\ out \in Nat
          /\ value' \in Nat /\ taken' \in Nat /\ out' \in Nat
      BY DEF TypeOK
    <2>2. value + taken + out + Cardinality(InHands) = MaxPermits(kind)
      BY DEF PermitInv, PermitsConserved
    <2>3. value' + taken' + out' + call'[t].got = value + taken + out + call[t].got
      BY DEF Balanced
    <2>4. value' + taken' + out' + Cardinality(InHands') = MaxPermits(kind)
      <3>1. MaxPermits(kind) \in Nat
        BY AmountAssumption DEF MaxPermits
      <3> QED
        BY <2>1, <2>2, <2>3, <1>2, <1>3, <3>1
    <2> QED
      BY <2>4, <1>4 DEF PermitsConserved
  <1>6. HandsOK'
    <2>1. ASSUME NEW u \in Threads, u # t PROVE HandOK(u)'
      <3>1. /\ HandOK(u) /\ call'[u] = call[u] /\ kind' = kind
            /\ pc'[u] = pc[u] \/ (pc[u] = "asleep" /\ pc'[u] = "woken")
        BY <2>1 DEF Balanced, PermitInv, HandsOK
      <3> QED
        BY <3>1 DEF HandOK, AcquirePCs
    <2> QED
      BY <2>1 DEF HandsOK, Balanced
  <1> QED
    BY <1>2, <1>5, <1>6 DEF PermitInv
----------------------------------------------------------------------------
(* Each step only changes where the permits of one thread are.             *)
LEMMA MoveBalances ==
  ASSUME SemInv, NEW t \in Threads, NEW l, NEW r,
         pc' = [pc EXCEPT ![t] = l], call' = [call EXCEPT ![t] = r], kind' = kind,
         value' + taken' + out' + r.got = value + taken + out + call[t].got,
         r.got # 0 => l = "add" \/ (kind \in {"semaphore", "shared"} /\ l \in AcquirePCs),
         kind = "binary" /\ l \in AcquirePCs => r.want = 1,
         kind = "counter" => l \notin {"load", "cas", "exchange"},
         kind = "semaphore" => l # "exchange"
  PROVE  Balanced(t)
  <1>1. /\ \A u \in Threads : u # t => pc'[u] = pc[u] /\ call'[u] = call[u]
        /\ pc'[t] = l /\ call'[t] = r
    BY Before
  <1> QED
    BY <1>1 DEF Balanced, HandOK

LEMMA ReturnBalances ==
  ASSUME SemInv, NEW t \in Threads, Return(t), kind' = kind,
         value' + taken' + out' = value + taken + out + call[t].got
  PROVE  Balanced(t)
  <1>1. NoCall.got = 0
    BY DEF NoCall
  <1>2. value' + taken' + out' \in Nat
    BY Before DEF Locals
  <1>3. value' + taken' + out' + NoCall.got = value + taken + out + call[t].got
    BY <1>1, <1>2
  <1> QED
    BY <1>1, <1>3, MoveBalances, ReturnGoes DEF AcquirePCs

\* A call to acquire goes on, with the permits it had.
LEMMA GoOnBalances ==
  ASSUME SemInv, PermitInv, NEW t \in Threads, NEW l \in AcquirePCs, NEW r,
         pc[t] \in AcquirePCs, pc' = [pc EXCEPT ![t] = l], call' = [call EXCEPT ![t] = r],
         r.got = call[t].got, r.want = call[t].want,
         kind = "counter" => l \notin {"load", "cas", "exchange"},
         kind = "semaphore" => l # "exchange",
         UNCHANGED <<kind, value, taken, out>>
  PROVE  Balanced(t)
  <1>1. HandOK(t)
    BY DEF PermitInv, HandsOK
  <1>2. /\ r.got # 0 => kind \in {"semaphore", "shared"}
        /\ kind = "binary" => r.want = 1
    BY <1>1 DEF HandOK, AcquirePCs
  <1> QED
    BY <1>2, MoveBalances

LEMMA GiveUpBalances ==
  ASSUME SemInv, PermitInv, NEW t \in Threads, GiveUp(t), pc[t] \in AcquirePCs,
         UNCHANGED <<kind, value, taken, out>>
  PROVE  Balanced(t)
  <1>1. CASE call[t].got = 0
    <2>1. Return(t) /\ value + taken + out = value + taken + out + call[t].got
      BY <1>1, Before DEF GiveUp
    <2> QED
      BY <2>1, ReturnBalances
  <1>2. CASE call[t].got # 0
    <2> DEFINE r == [call[t] EXCEPT !.reg = 0]
    <2>1. pc' = [pc EXCEPT ![t] = "add"] /\ call' = [call EXCEPT ![t] = r]
      BY <1>2 DEF GiveUp, Goto
    <2>2. r.got = call[t].got
      BY Before DEF Locals
    <2> QED
      BY <2>1, <2>2, MoveBalances DEF AcquirePCs
  <1> QED
    BY <1>1, <1>2

LEMMA TakeOneBalances ==
  ASSUME SemInv, PermitInv, NEW t \in Threads, TakeOne(t), pc[t] \in {"cas", "exchange"},
         value > 0, value' = value - 1, UNCHANGED <<kind, taken>>
  PROVE  Balanced(t)
  <1>1. /\ call[t].got \in Nat /\ call[t].want \in Nat /\ HandOK(t)
        /\ value \in Nat /\ taken \in Nat /\ out \in Nat
    BY Before DEF PermitInv, HandsOK, Locals
  <1>2. CASE call[t].got + 1 = call[t].want
    <2>1. Return(t) /\ out' = out + call[t].want
      BY <1>2 DEF TakeOne
    <2> QED
      BY <1>1, <1>2, <2>1, ReturnBalances
  <1>3. CASE call[t].got + 1 # call[t].want
    <2> DEFINE r == [call[t] EXCEPT !.got = call[t].got + 1, !.reg = 0]
    <2>1. /\ call' = [call EXCEPT ![t] = r] /\ pc' = [pc EXCEPT ![t] = "load"]
          /\ out' = out
      BY <1>3 DEF TakeOne, Goto
    <2>2. r.got = call[t].got + 1 /\ r.want = call[t].want
      BY Before DEF Locals
    <2>3. kind \in {"semaphore", "shared"}
      <3>1. kind # "counter"
        BY <1>1 DEF HandOK
      <3>2. kind # "binary"
        BY <1>1, <1>3 DEF HandOK, AcquirePCs
      <3> QED
        BY <3>1, <3>2, Before DEF AllKinds
    <2>4. value' + taken' + out' + r.got = value + taken + out + call[t].got
      BY <1>1, <2>1, <2>2
    <2> HIDE DEF r
    <2> QED
      BY <2>1, <2>3, <2>4, MoveBalances DEF AcquirePCs
  <1> QED
    BY <1>2, <1>3

LEMMA ReleaseBalances ==
  ASSUME SemInv, PermitInv, NEW t \in Threads,
         \/ \E n \in ReleaseAmounts : ReleaseBegin(t, n)
         \/ ReleaseAdd(t) \/ ReadWaiters(t)
  PROVE  Balanced(t)
  <1> USE DEF HandOK
  <1>1. /\ call[t].got \in Nat /\ HandOK(t) /\ call[t] \in Locals
        /\ value \in Nat /\ taken \in Nat /\ out \in Nat
    BY Before DEF PermitInv, HandsOK, Locals
  <1>2. ASSUME NEW n \in ReleaseAmounts, ReleaseBegin(t, n) PROVE Balanced(t)
    <2> DEFINE r == [call[t] EXCEPT !.got = n]
    <2>1. /\ pc' = [pc EXCEPT ![t] = "add"] /\ call' = [call EXCEPT ![t] = r]
          /\ pc[t] = "idle" /\ UNCHANGED <<kind, shared, bulk>>
          /\ out' = out - n /\ n <= out /\ n \in Nat
      BY <1>2, Amounts DEF ReleaseBegin, Goto
    <2>2. r.got = n /\ call[t].got = 0
      BY <1>1, <2>1 DEF Locals, AcquirePCs
    <2> HIDE DEF r
    <2>3. value' + taken' + out' + r.got = value + taken + out + call[t].got
      BY <1>1, <2>1, <2>2 DEF shared
    <2> QED
      BY <2>1, <2>3, MoveBalances DEF AcquirePCs
  <1>3. CASE ReleaseAdd(t)
    <2> DEFINE r == [NoCall EXCEPT !.upd = call[t].got]
               l == IF kind = "shared" THEN "count" ELSE "notify"
    <2>1. /\ pc' = [pc EXCEPT ![t] = l] /\ call' = [call EXCEPT ![t] = r]
          /\ pc[t] = "add" /\ UNCHANGED <<kind, taken, out>>
          /\ value' = IF kind = "binary" THEN 1 ELSE value + call[t].got
      BY <1>3 DEF ReleaseAdd, Goto
    <2>2. r.got = 0
      BY DEF NoCall
    <2>3. l \notin AcquirePCs
      BY DEF AcquirePCs
    <2> HIDE DEF r, l
    <2>4. value' = value + call[t].got
      <3>1. CASE kind = "binary"
        <4>1. call[t].got >= 1
          BY <2>1, Before DEF Fine
        <4>2. value + taken + out + Cardinality(InHands) = 1
          BY <3>1 DEF PermitInv, PermitsConserved, MaxPermits
        <4>3. Cardinality(InHands \ Hand(t)) \in Nat
              /\ Cardinality(InHands) = Cardinality(InHands \ Hand(t)) + call[t].got
          BY HandsSplit DEF PermitInv, SemInv
        <4>4. value = 0 /\ call[t].got = 1
          BY <1>1, <4>1, <4>2, <4>3
        <4> QED
          BY <2>1, <3>1, <4>4
      <3> QED
        BY <2>1, <3>1
    <2>5. value' + taken' + out' + r.got = value + taken + out + call[t].got
      BY <1>1, <2>1, <2>2, <2>4
    <2> QED
      BY <2>1, <2>2, <2>3, <2>5, MoveBalances DEF AcquirePCs
  <1>4. CASE ReadWaiters(t)
    <2>1. /\ pc[t] = "count" /\ UNCHANGED <<kind, shared, out, bulk>>
          /\ call[t].got = 0
      BY <1>1, <1>4 DEF ReadWaiters, AcquirePCs
    <2>2. value' + taken' + out' = value + taken + out + call[t].got
      BY <1>1, <2>1 DEF shared
    <2>3. CASE Return(t)
      BY <2>1, <2>2, <2>3, ReturnBalances
    <2>4. CASE \E l \in {"all", "notify"} : Goto(t, l) /\ UNCHANGED call
      <3>1. PICK l \in {"all", "notify"} : Goto(t, l) /\ UNCHANGED call
        BY <2>4
      <3>2. pc' = [pc EXCEPT ![t] = l] /\ call' = [call EXCEPT ![t] = call[t]]
        BY <3>1, Before DEF Goto
      <3>3. value' + taken' + out' + call[t].got = value + taken + out + call[t].got
        BY <2>1 DEF shared
      <3> QED
        BY <2>1, <3>2, <3>3, MoveBalances DEF AcquirePCs
    <2> QED
      BY <1>4, <2>3, <2>4 DEF ReadWaiters
  <1> QED
    BY <1>2, <1>3, <1>4

LEMMA AcquireBalances ==
  ASSUME SemInv, PermitInv, NEW t \in Threads,
         NEW m \in {"block", "try", "timed"}, NEW n \in BlockAmounts \cup TryAmounts,
         AcquireBegin(t, m, n)
  PROVE  Balanced(t)
  <1> DEFINE r == [NoCall EXCEPT !.mode = m, !.want = n]
  <1>1. /\ pc' = [pc EXCEPT ![t] = Start] /\ call' = [call EXCEPT ![t] = r]
        /\ pc[t] = "idle" /\ t \in Acquirers /\ UNCHANGED <<kind, shared, out, bulk>>
        /\ kind = "binary" => n = 1
    BY DEF AcquireBegin, Goto
  <1>2. r.got = 0 /\ r.want = n
    BY DEF NoCall
  <1> HIDE DEF r
  <1>3. call[t].got = 0
    BY <1>1 DEF PermitInv, HandsOK, HandOK, AcquirePCs
  <1>4. value' + taken' + out' + r.got = value + taken + out + call[t].got
    BY <1>1, <1>2, <1>3 DEF shared
  <1>5. /\ kind = "counter" => Start \notin {"load", "cas", "exchange"}
        /\ kind = "semaphore" => Start # "exchange"
    BY StartLabels, Before
  <1> QED
    BY <1>1, <1>2, <1>4, <1>5, MoveBalances

\* A call to acquire goes to another label, with the locals it had or a new reg.
LEMMA ElsewhereBalances ==
  ASSUME SemInv, PermitInv, NEW t \in Threads, pc[t] \in AcquirePCs,
         NEW l \in AcquirePCs, Goto(t, l),
         UNCHANGED call \/ call' = [call EXCEPT ![t].reg = value],
         kind = "counter" => l \notin {"load", "cas", "exchange"},
         kind = "semaphore" => l # "exchange",
         UNCHANGED <<kind, value, taken, out>>
  PROVE  Balanced(t)
  <1>1. pc' = [pc EXCEPT ![t] = l]
    BY DEF Goto
  <1>2. CASE UNCHANGED call
    <2>1. call' = [call EXCEPT ![t] = call[t]]
      BY <1>2, Before
    <2> QED
      BY <1>1, <2>1, GoOnBalances
  <1>3. CASE call' = [call EXCEPT ![t].reg = value]
    <2> DEFINE r == [call[t] EXCEPT !.reg = value]
    <2>1. call' = [call EXCEPT ![t] = r] /\ r.got = call[t].got /\ r.want = call[t].want
      BY <1>3, Before DEF Locals
    <2> HIDE DEF r
    <2> QED
      BY <1>1, <2>1, GoOnBalances
  <1> QED
    BY <1>2, <1>3

LEMMA WaitLabels ==
  ASSUME NEW t
  PROVE  /\ WaitLabel(t) \in {"enter", "wait", "spin"}
         /\ WaitLabel(t) \in AcquirePCs
  BY DEF WaitLabel, AcquirePCs

LEMMA LookBalances ==
  ASSUME SemInv, PermitInv, NEW t \in Threads,
         Load(t) \/ CasTakes(t) \/ CasFails(t) \/ Exchange(t)
  PROVE  Balanced(t)
  <1>0. /\ HandOK(t) /\ value \in Nat /\ taken \in Nat /\ out \in Nat
        /\ Fine(t, pc[t], call[t])
    BY Before DEF PermitInv, HandsOK
  <1>1. CASE Load(t)
    <2>1. /\ pc[t] = "load" /\ UNCHANGED <<kind, value, taken, out>>
          /\ kind # "counter"
      BY <1>0, <1>1 DEF Load, shared, HandOK
    <2>2. CASE Goto(t, "cas") /\ call' = [call EXCEPT ![t].reg = value]
      BY <2>1, <2>2, ElsewhereBalances DEF AcquirePCs
    <2>3. CASE GiveUp(t)
      BY <2>1, <2>3, GiveUpBalances DEF AcquirePCs
    <2>4. CASE Goto(t, WaitLabel(t)) /\ UNCHANGED call
      BY <2>1, <2>4, ElsewhereBalances, WaitLabels DEF AcquirePCs
    <2> QED
      BY <1>1, <2>2, <2>3, <2>4 DEF Load
  <1>2. CASE CasTakes(t)
    <2>1. value > 0
      BY <1>0, <1>2 DEF CasTakes, Fine
    <2> QED
      BY <1>2, <2>1, TakeOneBalances DEF CasTakes
  <1>3. CASE CasFails(t)
    <2>1. /\ pc[t] = "cas" /\ UNCHANGED <<kind, value, taken, out>>
          /\ kind # "counter"
      BY <1>0, <1>3 DEF CasFails, shared, HandOK
    <2>2. CASE GiveUp(t)
      BY <2>1, <2>2, GiveUpBalances DEF AcquirePCs
    <2>3. CASE /\ Goto(t, IF value > 0 THEN "cas" ELSE WaitLabel(t))
               /\ call' = [call EXCEPT ![t].reg = value]
      <3>1. PICK l : l = IF value > 0 THEN "cas" ELSE WaitLabel(t)
        OBVIOUS
      <3>2. l \in AcquirePCs /\ Goto(t, l) /\ l \in {"cas", "enter", "wait", "spin"}
        BY <2>3, <3>1, WaitLabels DEF AcquirePCs
      <3> QED
        BY <2>1, <2>3, <3>2, ElsewhereBalances DEF AcquirePCs
    <2> QED
      BY <1>3, <2>2, <2>3 DEF CasFails
  <1>4. CASE Exchange(t)
    <2>1. /\ pc[t] = "exchange" /\ UNCHANGED <<kind, taken>> /\ value' = 0
          /\ kind # "counter" /\ kind # "shared"
      BY <1>0, <1>4 DEF Exchange, HandOK, Fine
    <2>2. CASE value = 1 /\ TakeOne(t)
      <3>1. value > 0 /\ value' = value - 1
        BY <2>1, <2>2
      <3> QED
        BY <2>1, <2>2, <3>1, TakeOneBalances
    <2>3. CASE value = 0 /\ Trying(t) /\ Return(t) /\ UNCHANGED out
      <3>1. HandOK(t) /\ (kind = "binary" => call[t].got = 0)
        BY <1>0, <2>1 DEF HandOK
      <3>2. kind = "binary"
        BY <1>0, <2>1, Before DEF HandOK, AllKinds
      <3> QED
        BY <1>0, <2>1, <2>3, <3>1, <3>2, ReturnBalances
    <2>4. CASE value = 0 /\ Goto(t, WaitLabel(t)) /\ UNCHANGED <<call, out>>
      BY <2>1, <2>4, ElsewhereBalances, WaitLabels DEF AcquirePCs
    <2> QED
      BY <1>4, <2>2, <2>3, <2>4 DEF Exchange
  <1> QED
    BY <1>1, <1>2, <1>3, <1>4

LEMMA ConsumeBalances ==
  ASSUME SemInv, PermitInv, NEW t \in Threads, Compare(t) \/ Update(t) \/ TakeAll(t)
  PROVE  Balanced(t)
  <1>0. /\ value \in Nat /\ taken \in Nat /\ out \in Nat /\ call[t] \in Locals
        /\ call[t].want \in Nat /\ call[t].got \in Nat
        /\ Fine(t, pc[t], call[t]) /\ HandOK(t)
    BY Before DEF Locals, PermitInv, HandsOK
  <1>1. kind = "counter" => pc[t] = "add" \/ call[t].got = 0
    BY <1>0 DEF HandOK
  <1>2. CASE Compare(t)
    <2>1. /\ pc[t] = "compare" /\ UNCHANGED <<kind, value>> /\ kind = "counter"
          /\ call[t].got = 0
      BY <1>0, <1>1, <1>2 DEF Compare, Fine
    <2>2. CASE taken >= call[t].want
      <3>1. Return(t) /\ taken' = taken - call[t].want /\ out' = out + call[t].want
        BY <1>2, <2>2 DEF Compare
      <3>2. value' + taken' + out' = value + taken + out + call[t].got
        BY <1>0, <2>1, <2>2, <3>1
      <3> QED
        BY <2>1, <3>1, <3>2, ReturnBalances
    <2>3. CASE ~ (taken >= call[t].want)
      <3>1. PICK l : l = IF Trying(t) THEN "update" ELSE WaitLabel(t)
        OBVIOUS
      <3>2. Goto(t, l) /\ UNCHANGED <<taken, call, out>>
        BY <1>2, <2>3, <3>1 DEF Compare
      <3>3. l \in AcquirePCs /\ l \in {"update", "enter", "wait", "spin"}
        BY <3>1, WaitLabels DEF AcquirePCs
      <3> QED
        BY <2>1, <3>2, <3>3, ElsewhereBalances DEF AcquirePCs
    <2> QED
      BY <2>2, <2>3
  <1>3. CASE Update(t)
    <2>1. /\ pc[t] = "update" /\ UNCHANGED kind /\ kind = "counter" /\ value' = 0
          /\ call[t].got = 0
      BY <1>0, <1>1, <1>3 DEF Update, Fine
    <2>2. CASE taken + value >= call[t].want
      <3>1. /\ Return(t) /\ taken' = taken + value - call[t].want
            /\ out' = out + call[t].want
        BY <1>0, <1>3, <2>2 DEF Update
      <3>2. value' + taken' + out' = value + taken + out + call[t].got
        BY <1>0, <2>1, <2>2, <3>1
      <3> QED
        BY <2>1, <3>1, <3>2, ReturnBalances
    <2>3. CASE ~ (taken + value >= call[t].want)
      <3>1. /\ taken' = taken + value /\ out' = out
            /\ (Goto(t, "wait") /\ UNCHANGED call) \/ Return(t)
        BY <1>3, <2>3 DEF Update
      <3>2. value' + taken' + out' = value + taken + out + call[t].got
        BY <1>0, <2>1, <3>1
      <3>3. CASE Return(t)
        BY <2>1, <3>2, <3>3, ReturnBalances
      <3>4. CASE Goto(t, "wait") /\ UNCHANGED call
        <4>1. pc' = [pc EXCEPT ![t] = "wait"] /\ call' = [call EXCEPT ![t] = call[t]]
          BY <3>4, Before DEF Goto
        <4>2. value' + taken' + out' + call[t].got = value + taken + out + call[t].got
          BY <1>0, <2>1, <3>2
        <4> QED
          BY <2>1, <4>1, <4>2, MoveBalances
      <3> QED
        BY <3>1, <3>3, <3>4
    <2> QED
      BY <2>2, <2>3
  <1>4. CASE TakeAll(t)
    <2>1. /\ value' = 0 /\ taken' = 0 /\ out' = out + taken + value
          /\ UNCHANGED <<kind, pc, call>>
      BY <1>4 DEF TakeAll
    <2>2. value' + taken' + out' + call[t].got = value + taken + out + call[t].got
      BY <1>0, <2>1
    <2> QED
      BY <1>0, <2>1, <2>2 DEF Balanced, HandOK
  <1> QED
    BY <1>2, <1>3, <1>4

LEMMA WaitBalances ==
  ASSUME SemInv, PermitInv, NEW t \in Threads,
         Enter(t) \/ Leave(t) \/ Sleep(t) \/ Awake(t) \/ Spin(t)
  PROVE  Balanced(t)
  <1>0. /\ HandOK(t) /\ Fine(t, pc[t], call[t]) /\ kind \in AllKinds
        /\ UNCHANGED <<kind, value, taken, out>>
        /\ pc[t] \in AcquirePCs
    BY Before DEF PermitInv, HandsOK, Enter, Leave, Sleep, Awake, Spin, shared, AcquirePCs
  <1>1. /\ Again \in AcquirePCs
        /\ kind = "counter" => Again \notin {"load", "cas", "exchange"}
        /\ kind = "semaphore" => Again # "exchange"
    BY <1>0, StartLabels DEF AcquirePCs
  <1>2. CASE GiveUp(t)
    BY <1>0, <1>2, GiveUpBalances
  <1>3. CASE UNCHANGED call /\ Goto(t, Again)
    BY <1>0, <1>1, <1>3, ElsewhereBalances
  <1>4. CASE UNCHANGED call /\ \E l \in {"wait", "spin", "asleep", "leave", "expired", "update"} :
                                  Goto(t, l)
    BY <1>0, <1>4, ElsewhereBalances DEF AcquirePCs
  <1>5. CASE UNCHANGED call /\ Goto(t, "load") /\ pc[t] = "leave"
    <2>1. kind # "counter"
      BY <1>0, <1>5 DEF Fine
    <2> QED
      BY <1>0, <1>5, <2>1, ElsewhereBalances DEF AcquirePCs
  <1>6. ASSUME Enter(t) \/ Awake(t)
        PROVE  UNCHANGED call /\ \E l \in {"wait", "spin", "leave"} : Goto(t, l)
    BY <1>6 DEF Enter, Awake
  <1>7. ASSUME Leave(t) PROVE GiveUp(t) \/ (UNCHANGED call /\ Goto(t, "load") /\ pc[t] = "leave")
    BY <1>7 DEF Leave
  <1>8. ASSUME Sleep(t) PROVE UNCHANGED call /\ (Goto(t, "asleep") \/ Goto(t, Again))
    BY <1>8 DEF Sleep
  <1>9. ASSUME Spin(t)
        PROVE  \/ GiveUp(t)
               \/ UNCHANGED call /\ (Goto(t, "expired") \/ Goto(t, "update") \/ Goto(t, Again))
    BY <1>9 DEF Spin
  <1> QED
    BY <1>2, <1>3, <1>4, <1>5, <1>6, <1>7, <1>8, <1>9

LEMMA WakeBalances ==
  ASSUME SemInv, PermitInv, NEW t \in Threads,
         NotifyOne(t) \/ NotifyAll(t) \/ NotifyEach(t)
  PROVE  Balanced(t)
  <1>0. /\ value \in Nat /\ taken \in Nat /\ out \in Nat /\ HandOK(t)
        /\ pc[t] \in {"notify", "all"} /\ UNCHANGED <<kind, value, taken, waiters, out, bulk>>
    BY Before DEF PermitInv, HandsOK, NotifyOne, NotifyAll, NotifyEach
  <1>1. call[t].got = 0
    BY <1>0 DEF HandOK, AcquirePCs
  <1>2. PICK n, l : Wake(t, n, l) /\ l \in {"idle", "notify"}
    BY DEF NotifyOne, NotifyAll, NotifyEach
  <1>3. /\ \A u \in Threads : u # t =>
             pc'[u] = pc[u] \/ (pc[u] = "asleep" /\ pc'[u] = "woken")
        /\ pc'[t] = l
    <2>1. \A i \in 1 .. n : i <= Len(sleepers) => pc[sleepers[i]] = "asleep"
      BY DEF SemInv, QueueFine, TypeOK
    <2> QED
      BY <1>2, <2>1 DEF Wake
  <1>4. /\ \A u \in Threads : u # t => call'[u] = call[u]
        /\ call'[t].got = 0
    <2>1. NoCall.got = 0 /\ [call[t] EXCEPT !.upd = call[t].upd - 1].got = 0
      BY <1>1, Before DEF NoCall, Locals
    <2> QED
      BY <2>1, Before DEF NotifyOne, NotifyAll, NotifyEach
  <1> QED
    BY <1>0, <1>1, <1>2, <1>3, <1>4 DEF Balanced, HandOK, AcquirePCs

LEMMA StepBalances ==
  ASSUME SemInv, PermitInv, NEW t \in Threads, Step(t) \/ Call(t)
  PROVE  Balanced(t)
  <1>1. CASE Call(t)
    BY <1>1, ReleaseBalances, AcquireBalances, ConsumeBalances DEF Call
  <1>2. CASE Step(t)
    <2>1. CASE ReleaseAdd(t) \/ ReadWaiters(t)
      BY <2>1, ReleaseBalances
    <2>2. CASE NotifyOne(t) \/ NotifyAll(t) \/ NotifyEach(t)
      BY <2>2, WakeBalances
    <2>3. CASE Load(t) \/ CasTakes(t) \/ CasFails(t) \/ Exchange(t)
      BY <2>3, LookBalances
    <2>4. CASE Compare(t) \/ Update(t)
      BY <2>4, ConsumeBalances
    <2>5. CASE Enter(t) \/ Leave(t) \/ Sleep(t) \/ Awake(t) \/ Spin(t)
      BY <2>5, WaitBalances
    <2> QED
      BY <1>2, <2>1, <2>2, <2>3, <2>4, <2>5 DEF Step
  <1> QED
    BY <1>1, <1>2

LEMMA PermitStep == SemInv /\ SemInv' /\ PermitInv /\ [Next]_vars => PermitInv'
  <1> SUFFICES ASSUME SemInv, SemInv', PermitInv, [Next]_vars PROVE PermitInv'
    OBVIOUS
  <1>1. CASE UNCHANGED vars
    <2>1. UNCHANGED <<kind, value, taken, pc, call, out>>
      BY <1>1 DEF vars, shared
    <2>2. InHands' = InHands
      BY <2>1 DEF InHands
    <2>3. PermitsConserved'
      BY <2>1, <2>2 DEF PermitInv, PermitsConserved, MaxPermits
    <2> QED
      BY <2>1, <2>2, <2>3 DEF PermitInv, HandsOK, HandOK
  <1>2. ASSUME NEW t \in Threads, Step(t) \/ Call(t) PROVE PermitInv'
    BY <1>2, StepBalances, BalancedKeeps DEF SemInv
  <1> QED
    BY <1>1, <1>2 DEF Next

LEMMA PermitInit == Init => PermitInv
  <1> SUFFICES ASSUME Init PROVE PermitInv
    OBVIOUS
  <1>1. \A t \in Threads : pc[t] = "idle" /\ call[t].got = 0
    BY DEF Init, NoCall
  <1>2. InHands = {}
    BY <1>1 DEF InHands
  <1>3. IsFiniteSet(InHands) /\ Cardinality(InHands) = 0
    BY <1>2, FS_EmptySet
  <1>4. MaxPermits(kind) \in Nat
    BY AmountAssumption DEF MaxPermits
  <1>5. value \in 0 .. MaxPermits(kind) /\ out = MaxPermits(kind) - value /\ taken = 0
    BY DEF Init
  <1>6. PermitsConserved
    BY <1>3, <1>4, <1>5 DEF PermitsConserved
  <1>7. HandsOK
    BY <1>1 DEF HandsOK, HandOK, AcquirePCs
  <1> QED
    BY <1>3, <1>6, <1>7 DEF PermitInv

(* Permits are neither lost nor made by any of the four primitives, for    *)
(* any number of threads and permits, whichever calls take several of them *)
(* or give up half-way (semaphore_t, shared_semaphore_t,                   *)
(* binary_semaphore_t and mpsc_counter_t).                                 *)
THEOREM PermitsConservedCorrect == Spec => []PermitsConserved
  <1>1. PermitInv => PermitsConserved
    BY DEF PermitInv
  <1> QED
    BY <1>1, PermitInit, PermitStep, SemCorrect, PTL DEF Spec
=============================================================================
