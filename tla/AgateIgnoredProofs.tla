------------------------- MODULE AgateIgnoredProofs -------------------------
(***************************************************************************)
(* Theorems about the spsc, spmc and mpsc mailboxes of Agate with one      *)
(* producer and one consumer, for every number of slots, as long as every  *)
(* result is ignored: then the consumer alone returns messages, to the end *)
(* of the free list, and no caller has a signal.                           *)
(***************************************************************************)
EXTENDS AgateMailboxProofs

Ignoring ==
  /\ Single
  /\ Kinds \cap {"mpmc"} = {}
  /\ \A f \in SendFlags : IGNORE \in f

\* The consumer has received a message and not yet let go of the one before.
PendingPCs == {"freeHold"} \cup DyingPCs
HandPCs    == {"freeHold", "handle"} \cup ReturnPCs

IgnoredUse ==
  /\ kind \in {"spsc", "spmc", "mpsc"}
  /\ \A p \in Producers :
       /\ pc[p] # "wild" /\ ret[p] # "keep"
       /\ pc[p] \in {"loadFree", "popRead", "popCas"} => kind = "mpsc"
  /\ \A c \in Consumers :
       /\ pc[c] \notin {"wild", "setReady"}
       /\ pc[c] \in {"returnStore", "returnCas"} => kind = "mpsc"
       /\ pc[c] \in ReturnPCs => ret[c] = "handle"
  /\ \A w \in Waiters : pc[w] = "idle"
  /\ \A s \in Slots : holders[s] = 0

\* The message that will be returned next, and the one that was appended, or
\* will be, last: the links at the two ends of the free list may be theirs.
Oldest(s) == \/ \E c \in Consumers : pc[c] \in PendingPCs /\ old[c] = s
             \/ s = previousReceived /\ \A c \in Consumers : pc[c] \notin PendingPCs
Newest(s) == \/ \E p \in Producers : pc[p] \in SendPCs /\ msg[p] = s
             \/ s = lastQueuedSlot /\ \A p \in Producers : pc[p] \notin SendPCs

Follows(q, i, s) == IF i < Len(q) THEN s = q[i + 1] ELSE Oldest(s)
Before(q, i, s)  == IF i = 0 THEN Newest(s) ELSE s = q[i]

\* The constructor's message is freed without being returned: it follows the
\* last of the free list, and lastFreeSlot does not tell.
EndOf(q, i, s, extra) ==
  \/ Before(q, i, s)
  \/ extra = 1 /\ i > 0 /\ q[i] = Dummy /\ Before(q, i - 1, s)
Untouched ==
  /\ phase[Dummy] = "answered" /\ flags[Dummy] = {}
  /\ \A c \in Consumers : pc[c] \notin DyingPCs

\* The permits that the constructor keeps back
Base == N - 1 - Permits(kind)
InUseCount == slotSemaphore + Cardinality(Popping) + Cardinality(Releasing) + Base

(* The links from nextFreeSlot lead through q, which is the free slots,    *)
(* and on to the message that will be returned next.                       *)
Ring(q, extra) ==
  /\ q \in Seq(Slots)
  /\ \A i, j \in 1 .. Len(q) : q[i] = q[j] => i = j
  /\ \A i \in 1 .. Len(q) : phase[q[i]] = "free"
  /\ \A s \in Slots : phase[s] = "free" =>
       (\E i \in 1 .. Len(q) : q[i] = s) \/ (s = Dummy /\ extra = 0)
  /\ Follows(q, 0, nextFreeSlot)
  /\ \A i \in 1 .. Len(q) : Follows(q, i, next[q[i]])
  /\ Len(q) = InUseCount + extra
\* lastFreeSlot is the end of q, but for what is not yet linked to it.
RingEnd(q, extra) ==
  /\ Untouched => extra = 0
  /\ (\A c \in Consumers : pc[c] # "returnLink") => EndOf(q, Len(q), lastFreeSlot, extra)
  /\ \A c \in Consumers : pc[c] = "returnLink" =>
       /\ lastFreeSlot = old[c] /\ Len(q) > 0 /\ q[Len(q)] = old[c]
       /\ EndOf(q, Len(q) - 1, reg[c], extra)
RingShape == \E q, extra : Ring(q, extra) /\ extra \in {0, 1} /\ RingEnd(q, extra)

(* What the consumer has in hand, and what the producer supplies.          *)
HandShape ==
  \A c \in Consumers :
    /\ pc[c] \in {"recvRead", "recvCas"} => reg[c] = previousReceived
    /\ pc[c] = "recvCas" => nxt[c] = next[previousReceived]
    /\ pc[c] \in HandPCs => msg[c] = previousReceived /\ phase[previousReceived] = "handling"
    /\ pc[c] \notin HandPCs => phase[previousReceived] = "answered"
    /\ pc[c] \in PendingPCs => phase[old[c]] = "answered" /\ next[old[c]] = previousReceived
    /\ pc[c] \in CleanPCs => flags[old[c]] = {}
    /\ pc[c] \in {"returnStore", "returnCas"} => reg[c] = lastFreeSlot
SupplyShape ==
  \A p \in Producers :
    /\ pc[p] \in {"popRead", "popCas"} => reg[p] = nextFreeSlot
    /\ pc[p] = "popCas" => nxt[p] = next[nextFreeSlot]
    /\ pc[p] \in SendPCs => phase[msg[p]] = "claimed"
    /\ pc[p] = "send" => flags[msg[p]] = {}
    /\ pc[p] \in {"sendLink", "sendCas"} =>
         reg[p] = lastQueuedSlot /\ {IGNORE, IN_USE} \subseteq flags[msg[p]]
    /\ pc[p] = "sendCas" => next[lastQueuedSlot] = msg[p]

\* Message s is or has been in the consumer's hands.
HadInHand(s) ==
  \/ s = previousReceived
  \/ \E c \in Consumers : pc[c] \in PendingPCs /\ old[c] = s
MarkShape(s) ==
  /\ phase[s] = "free" => flags[s] = {}
  /\ phase[s] \in {"queued", "handling"} => {IGNORE, IN_USE} \subseteq flags[s]
  /\ phase[s] = "answered" =>
       /\ HadInHand(s)
       /\ \/ {CONDEMNED, IN_USE} \subseteq flags[s]
          \/ s = Dummy /\ flags[s] = {}
          \/ \E c \in Consumers : pc[c] \in DyingPCs /\ old[c] = s
MarksShape ==
  /\ phase[previousReceived] \in {"handling", "answered"}
  /\ \A s \in Slots : MarkShape(s)

IgnoredInv ==
  IgnoredUse /\ QueueShape /\ RingShape /\ HandShape /\ SupplyShape /\ MarksShape
----------------------------------------------------------------------------
LEMMA PoppingIs ==
  ASSUME Single, NEW p \in Producers
  PROVE  /\ Cardinality(Popping) = IF pc[p] \in PopPCs THEN 1 ELSE 0
         /\ Cardinality(Popping)' = IF pc'[p] \in PopPCs THEN 1 ELSE 0
<1>2. Popping = IF pc[p] \in PopPCs THEN {p} ELSE {} BY DEF Single, Popping
<1>3. Popping' = IF pc'[p] \in PopPCs THEN {p} ELSE {} BY DEF Single, Popping
<1>4. Cardinality({p}) = 1 /\ Cardinality({}) = 0 BY FS_Singleton, FS_EmptySet
<1> QED BY <1>2, <1>3, <1>4

LEMMA ComingOf ==
  ASSUME Single, NEW p \in Producers
  PROVE  /\ Coming = IF pc[p] = "count" THEN 1 ELSE 0
         /\ Coming' = IF pc'[p] = "count" THEN 1 ELSE 0
BY DEF Single, Coming

LEMMA TakingOf ==
  ASSUME Single, NEW c \in Consumers
  PROVE  /\ Taking = IF pc[c] \in TakePCs THEN 1 ELSE 0
         /\ Taking' = IF pc'[c] \in TakePCs THEN 1 ELSE 0
BY DEF Single, Taking

\* The ends of the free list, in terms of the one producer and consumer.
LEMMA OldestIs ==
  ASSUME Single, NEW c \in Consumers, NEW s
  PROVE  /\ Oldest(s) <=> IF pc[c] \in PendingPCs THEN s = old[c] ELSE s = previousReceived
         /\ Oldest(s)' <=> IF pc'[c] \in PendingPCs THEN s = old'[c] ELSE s = previousReceived'
BY DEF Single, Oldest

LEMMA OldestOne ==
  ASSUME Single, NEW s, NEW u, Oldest(s), Oldest(u)
  PROVE  s = u
BY DEF Single, Oldest

LEMMA OldestSame ==
  ASSUME NEW t \in Producers, Alone(t), previousReceived' = previousReceived, NEW s
  PROVE  Oldest(s)' <=> Oldest(s)
<1>1. \A c \in Consumers : pc'[c] = pc[c] /\ old'[c] = old[c] BY Const DEF Alone
<1> QED BY <1>1 DEF Oldest

LEMMA NewestIs ==
  ASSUME Single, NEW p \in Producers, NEW s
  PROVE  /\ Newest(s) <=> IF pc[p] \in SendPCs THEN s = msg[p] ELSE s = lastQueuedSlot
         /\ Newest(s)' <=> IF pc'[p] \in SendPCs THEN s = msg'[p] ELSE s = lastQueuedSlot'
BY DEF Single, Newest

LEMMA NewestSame ==
  ASSUME NEW t \in Consumers, Alone(t), lastQueuedSlot' = lastQueuedSlot, NEW s
  PROVE  Newest(s)' <=> Newest(s)
<1>1. \A p \in Producers : pc'[p] = pc[p] /\ msg'[p] = msg[p] BY Const DEF Alone
<1> QED BY <1>1 DEF Newest

\* The last link of the queue is not that of a free slot.
LEMMA LastQueued ==
  ASSUME TypeOK, QueueShape, MarksShape
  PROVE  /\ phase[lastQueuedSlot] \in {"queued", "handling", "answered"}
         /\ lastQueuedSlot \in Slots /\ previousReceived \in Slots
         /\ phase[previousReceived] # "queued"
BY QueueEnd, TypeParts DEF MarksShape, EndsTyped

\* Neither is that of the newest message.
LEMMA NewestNotFree ==
  ASSUME TypeOK, IgnoredInv, NEW s, Newest(s)
  PROVE  s \in Slots /\ phase[s] # "free"
<1> USE DEF IgnoredInv
<1>1. CASE s = lastQueuedSlot BY <1>1, LastQueued
<1>2. ASSUME NEW p \in Producers, pc[p] \in SendPCs, msg[p] = s PROVE s \in Slots /\ phase[s] # "free"
  BY <1>2, Const, TypeParts DEF SupplyShape, LocalsTyped
<1> QED BY <1>1, <1>2 DEF Newest

LEMMA BaseIs ==
  ASSUME IgnoredUse
  PROVE  Base \in {0, 1} /\ (kind = "mpsc" => Base = 1)
BY Const DEF IgnoredUse, Base, Permits

LEMMA InUseNat ==
  ASSUME TypeOK, IgnoredUse
  PROVE  InUseCount \in Nat /\ InUseCount >= Cardinality(Popping) + Cardinality(Releasing) + Base
BY CountsNat, CountsTyped, BaseIs DEF InUseCount

----------------------------------------------------------------------------
\* The permits, given out or not, stay so many.
CountsKept == slotSemaphore' + Cardinality(Popping)' + Cardinality(Releasing)'
                = slotSemaphore + Cardinality(Popping) + Cardinality(Releasing)

LEMMA BaseSame == kind' = kind => Base' = Base
BY DEF Base, Permits

LEMMA RingStays ==
  ASSUME TypeOK, RingShape, TypeOK', IgnoredUse, kind' = kind, CountsKept,
         UNCHANGED <<nextFreeSlot, lastFreeSlot>>,
         \A s \in Slots : /\ phase'[s] = "free" <=> phase[s] = "free"
                          /\ phase[s] = "free" => next'[s] = next[s],
         \A s : Oldest(s) => Oldest(s)',
         \A s : Newest(s) => Newest(s)',
         Untouched' => Untouched,
         \A c \in Consumers :
           /\ pc'[c] = "returnLink" <=> pc[c] = "returnLink"
           /\ pc[c] = "returnLink" => old'[c] = old[c] /\ reg'[c] = reg[c]
  PROVE  RingShape'
<1>1. PICK q, extra : Ring(q, extra) /\ extra \in {0, 1} /\ RingEnd(q, extra)
  BY DEF RingShape
<1>2. q \in Seq(Slots) /\ Len(q) \in Nat /\ \A i \in 1 .. Len(q) : q[i] \in Slots BY <1>1 DEF Ring
<1>3. \A i, s : Follows(q, i, s) => Follows(q, i, s)' BY DEF Follows
<1>4. \A i, s : Before(q, i, s) => Before(q, i, s)' BY DEF Before
<1>5. \A i, s : EndOf(q, i, s, extra) => EndOf(q, i, s, extra)' BY <1>4 DEF EndOf
<1>6. InUseCount' = InUseCount
  <2>1. Base' = Base BY BaseSame
  <2> QED BY <2>1 DEF InUseCount, CountsKept
<1>7. Ring(q, extra)'
  <2>1. Follows(q, 0, nextFreeSlot)' BY <1>1, <1>3 DEF Ring
  <2>2. ASSUME NEW i \in 1 .. Len(q) PROVE Follows(q, i, next[q[i]])' /\ phase'[q[i]] = "free"
    <3>1. PICK x \in Slots : x = q[i] BY <1>2
    <3>2. PICK s : s = next[x] OBVIOUS
    <3>3. phase[x] = "free" BY <1>1, <3>1 DEF Ring
    <3>4. next'[x] = s /\ phase'[x] = "free" BY <3>2, <3>3
    <3>6. Follows(q, i, s) BY <1>1, <3>1, <3>2 DEF Ring
    <3>5. Follows(q, i, s)' BY <1>3, <3>6
    <3> QED BY <3>1, <3>4, <3>5
  <2> QED BY <1>1, <1>6, <2>1, <2>2 DEF Ring
<1>8. RingEnd(q, extra)'
  <2>1. (\A c \in Consumers : pc'[c] # "returnLink") => EndOf(q, Len(q), lastFreeSlot, extra)'
    BY <1>1, <1>5 DEF RingEnd
  <2>2. ASSUME NEW c \in Consumers, pc'[c] = "returnLink"
        PROVE  EndOf(q, Len(q) - 1, reg[c], extra)'
    <3>1. EndOf(q, Len(q) - 1, reg[c], extra) BY <1>1, <2>2 DEF RingEnd
    <3>2. PICK r : r = reg[c] OBVIOUS
    <3>3. EndOf(q, Len(q) - 1, r, extra)' /\ reg'[c] = r BY <1>5, <2>2, <3>1, <3>2
    <3> QED BY <3>3
  <2> QED BY <1>1, <2>1, <2>2 DEF RingEnd
<1> QED BY <1>1, <1>7, <1>8 DEF RingShape

(* The producer takes the first of the ring.                               *)
LEMMA RingHead ==
  ASSUME TypeOK, IgnoredInv, NEW q, NEW extra, Ring(q, extra), extra \in {0, 1},
         NEW p \in Producers, pc[p] \in PopPCs, Single
  PROVE  /\ Len(q) \in Nat /\ Len(q) >= 1 + extra + Cardinality(Releasing) + Base
         /\ nextFreeSlot = q[1] /\ q[1] \in Slots /\ phase[q[1]] = "free"
         /\ Cardinality(Releasing) \in Nat /\ Base \in {0, 1}
<1> USE DEF IgnoredInv
<1>1. q \in Seq(Slots) /\ Len(q) \in Nat BY DEF Ring
<1>2. Cardinality(Popping) = 1 BY PoppingIs
<1>3. Cardinality(Releasing) \in Nat /\ Base \in {0, 1} BY CountsTyped, BaseIs
<1>4. Len(q) >= 1 + extra + Cardinality(Releasing) + Base
  BY <1>1, <1>2, <1>3, InUseNat DEF Ring
<1>5. 1 \in 1 .. Len(q) /\ 0 < Len(q) BY <1>1, <1>3, <1>4
<1>6. nextFreeSlot = q[0 + 1] BY <1>5 DEF Ring, Follows
<1> QED BY <1>1, <1>3, <1>4, <1>5, <1>6 DEF Ring

LEMMA SomeReleasing ==
  ASSUME TypeOK, NEW t \in Threads, pc[t] \in {"returnLink", "release"}
  PROVE  Cardinality(Releasing) >= 1
<1>1. Releasing # {} BY DEF Releasing
<1>2. IsFiniteSet(Releasing) /\ Cardinality(Releasing) \in Nat BY CountsTyped
<1>3. Cardinality(Releasing) # 0 BY <1>1, <1>2, FS_EmptySet
<1> QED BY <1>2, <1>3

LEMMA RingPop ==
  ASSUME Single, TypeOK, IgnoredInv, NEW p \in Producers, Alone(p), pc[p] \in PopPCs,
         pc'[p] = "send", NEW s \in Slots, nextFreeSlot = s, nextFreeSlot' = next[s],
         next' = next, msg'[p] = s, phase' = [phase EXCEPT ![s] = "claimed"],
         UNCHANGED <<kind, flags, lastFreeSlot, previousReceived, slotSemaphore>>
  PROVE  RingShape'
<1> USE Const
<1>1. PICK q, extra : Ring(q, extra) /\ extra \in {0, 1} /\ RingEnd(q, extra)
  BY DEF RingShape, IgnoredInv
<1>2. /\ q \in Seq(Slots) /\ Len(q) \in Nat /\ q[1] = s
      /\ Len(q) >= 1 + extra + Cardinality(Releasing) + Base
      /\ Cardinality(Releasing) \in Nat /\ Base \in {0, 1} /\ extra \in Nat
  <2>1. Ring(q, extra) /\ extra \in {0, 1} BY <1>1
  <2>2. /\ Len(q) \in Nat /\ Len(q) >= 1 + extra + Cardinality(Releasing) + Base
        /\ nextFreeSlot = q[1] /\ Cardinality(Releasing) \in Nat /\ Base \in {0, 1}
    BY <2>1, RingHead
  <2> QED BY <2>1, <2>2 DEF Ring
<1> DEFINE r == Tail(q)
<1>3. /\ r \in Seq(Slots) /\ Len(r) \in Nat /\ Len(r) = Len(q) - 1 /\ Len(q) >= 1
      /\ \A i \in 1 .. Len(r) : r[i] = q[i + 1] /\ i + 1 \in 1 .. Len(q)
  <2>1. Len(q) >= 1 BY <1>2
  <2>2. q # <<>> BY <1>2, <2>1
  <2>3. r \in Seq(Slots) /\ Len(r) = Len(q) - 1 BY <1>2, <2>2
  <2>4. ASSUME NEW i \in 1 .. Len(r) PROVE r[i] = q[i + 1] /\ i + 1 \in 1 .. Len(q)
    BY <1>2, <2>2, <2>3
  <2> QED BY <2>1, <2>3, <2>4
<1> HIDE DEF r
<1>a. /\ Len(q) \in Nat /\ Len(r) \in Nat /\ Len(r) = Len(q) - 1
      /\ Cardinality(Releasing) \in Nat /\ Base \in Nat /\ extra \in Nat
      /\ Len(q) >= 1 + extra + Cardinality(Releasing) + Base
  BY <1>2, <1>3
<1>4. phase'[s] = "claimed" /\ \A x \in Slots : x # s => phase'[x] = phase[x]
  BY TypeParts DEF HistoryTyped
<1>5. \A c \in Consumers : pc'[c] = pc[c] /\ old'[c] = old[c] /\ reg'[c] = reg[c]
  BY DEF Alone
<1>6. \A x : Oldest(x) => Oldest(x)' BY OldestSame
<1>7. Newest(s)' BY NewestIs DEF SendPCs
<1>8. ASSUME NEW i \in 0 .. Len(r), NEW x, Follows(q, i + 1, x) PROVE Follows(r, i, x)'
  <2>1. CASE i < Len(r)
    <3>1. i + 1 < Len(q) /\ i + 1 \in 1 .. Len(r) BY <1>a, <2>1
    <3>2. x = q[(i + 1) + 1] BY <1>8, <3>1 DEF Follows
    <3>3. x = r[i + 1] BY <1>3, <3>1, <3>2
    <3> QED BY <2>1, <3>3 DEF Follows
  <2>2. CASE ~(i < Len(r))
    <3>1. ~(i + 1 < Len(q)) BY <1>2, <1>3, <2>2
    <3>2. Oldest(x) BY <1>8, <3>1 DEF Follows
    <3>3. Oldest(x)' BY <1>6, <3>2
    <3> QED BY <2>2, <3>3 DEF Follows
  <2> QED BY <2>1, <2>2
<1>9. ASSUME NEW k \in 1 .. Len(q), NEW x, Before(q, k, x) PROVE Before(r, k - 1, x)'
  <2>1. x = q[k] BY <1>9 DEF Before
  <2>2. CASE k = 1 BY <1>2, <1>7, <2>1, <2>2 DEF Before
  <2>3. CASE k # 1
    <3>1. PICK j \in 1 .. Len(r) : j = k - 1 BY <1>2, <1>3, <2>3
    <3>2. x = r[j] /\ j # 0 BY <1>3, <2>1, <3>1
    <3>3. Before(r, j, x)' BY <3>2 DEF Before
    <3> QED BY <3>1, <3>3
  <2> QED BY <2>2, <2>3
<1>10. ASSUME NEW k \in 1 .. Len(q), NEW x, EndOf(q, k, x, extra), extra = 1 => k > 1
       PROVE  EndOf(r, k - 1, x, extra)'
  <2>1. CASE Before(q, k, x) BY <1>9, <2>1 DEF EndOf
  <2>2. CASE extra = 1 /\ q[k] = Dummy /\ Before(q, k - 1, x)
    <3>1. PICK j \in 1 .. Len(r) : j = k - 1 BY <1>2, <1>3, <1>10, <2>2
    <3>2. j \in 1 .. Len(q) BY <1>2, <1>3
    <3>3. Before(r, j - 1, x)' BY <1>9, <2>2, <3>1, <3>2
    <3>4. r[j] = Dummy /\ j > 0 BY <1>3, <2>2, <3>1
    <3>5. EndOf(r, j, x, extra)' BY <2>2, <3>3, <3>4 DEF EndOf
    <3> QED BY <3>1, <3>5
  <2> QED BY <1>10, <2>1, <2>2 DEF EndOf
<1>11. Ring(r, extra)'
  <2>1. \A i, j \in 1 .. Len(r) : r[i] = r[j] => i = j
    <3> SUFFICES ASSUME NEW i \in 1 .. Len(r), NEW j \in 1 .. Len(r), r[i] = r[j] PROVE i = j
      OBVIOUS
    <3>1. i + 1 = j + 1 BY <1>1, <1>3 DEF Ring
    <3> QED BY <3>1
  <2>2. ASSUME NEW i \in 1 .. Len(r) PROVE phase'[r[i]] = "free" /\ r[i] # s
    <3>1. PICK j \in 1 .. Len(q) : j = i + 1 BY <1>3
    <3>2. r[i] = q[j] /\ q[j] \in Slots /\ phase[q[j]] = "free" BY <1>1, <1>2, <1>3, <3>1, SMTT(30) DEF Ring
    <3>3. q[j] # q[1]
      <4>1. 1 \in 1 .. Len(q) /\ j # 1 BY <1>2, <1>3, <3>1
      <4> QED BY <1>1, <4>1 DEF Ring
    <3> QED BY <1>2, <1>4, <3>2, <3>3
  <2>3. ASSUME NEW x \in Slots, phase'[x] = "free", ~(x = Dummy /\ extra = 0)
        PROVE  \E i \in 1 .. Len(r) : r[i] = x
    <3>1. x # s /\ phase[x] = "free" BY <1>4, <2>3
    <3>2. PICK i \in 1 .. Len(q) : q[i] = x BY <1>1, <2>3, <3>1 DEF Ring
    <3>3. i # 1 BY <1>2, <3>1, <3>2
    <3>4. i - 1 \in 1 .. Len(r) /\ r[i - 1] = q[(i - 1) + 1] /\ (i - 1) + 1 = i
      BY <1>2, <1>3, <3>3, SMTT(30)
    <3> QED BY <3>2, <3>4
  <2>4. Follows(r, 0, nextFreeSlot)'
    <3>1. PICK x : x = next[q[1]] OBVIOUS
    <3>2. 1 \in 1 .. Len(q) /\ 0 + 1 = 1 /\ 0 \in 0 .. Len(r) BY <1>2, <1>3
    <3>3. Follows(q, 0 + 1, x) BY <1>1, <3>1, <3>2 DEF Ring
    <3>4. Follows(r, 0, x)' BY <1>8, <3>2, <3>3
    <3> QED BY <1>2, <3>1, <3>4
  <2>5. ASSUME NEW i \in 1 .. Len(r) PROVE Follows(r, i, next[r[i]])'
    <3>1. PICK j \in 1 .. Len(q) : j = i + 1 BY <1>3
    <3>2. PICK x : x = next[q[j]] OBVIOUS
    <3>3. Follows(q, i + 1, x) BY <1>1, <3>1, <3>2 DEF Ring
    <3>4. i \in 0 .. Len(r) OBVIOUS
    <3>5. Follows(r, i, x)' BY <1>8, <3>3, <3>4
    <3>6. next'[r[i]] = x BY <1>3, <3>1, <3>2
    <3> QED BY <3>5, <3>6
  <2>6. Len(r) = InUseCount' + extra
    <3>1. Cardinality(Popping) = 1 /\ Cardinality(Popping)' = 0 BY PoppingIs DEF PopPCs
    <3>2. Releasing' = Releasing BY <1>5, ReleasingSame DEF PopPCs
    <3>3. Base' = Base BY BaseSame
    <3>4. slotSemaphore \in Nat BY CountsNat
    <3>5. PICK m, b, k : /\ m = slotSemaphore /\ b = Cardinality(Releasing) /\ k = Base
                         /\ m \in Nat /\ b \in Nat /\ k \in Nat
      BY <1>a, <3>4
    <3>6. InUseCount' = m + 0 + b + k BY <3>1, <3>2, <3>3, <3>5 DEF InUseCount
    <3>7. InUseCount = m + 1 + b + k BY <3>1, <3>5 DEF InUseCount
    <3>8. Len(q) = InUseCount + extra BY <1>1 DEF Ring
    <3>9. Len(q) = (m + 1 + b + k) + extra BY <3>7, <3>8
    <3>a. extra \in Nat BY <1>a
    <3>b. ((m + 1 + b + k) + extra) - 1 = (m + 0 + b + k) + extra BY <3>5, <3>a
    <3>c. Len(r) = Len(q) - 1 BY <1>a
    <3>10. Len(r) = (m + 0 + b + k) + extra BY <3>9, <3>b, <3>c
    <3> QED BY <3>6, <3>10
  <2> QED BY <1>3, <2>1, <2>2, <2>3, <2>4, <2>5, <2>6 DEF Ring
<1>12. RingEnd(r, extra)'
  <2>1. Untouched' => extra = 0
    <3>1. Untouched' => Untouched BY <1>4, <1>5 DEF Untouched
    <3> QED BY <1>1, <3>1 DEF RingEnd
  <2>2. ASSUME \A c \in Consumers : pc'[c] # "returnLink"
        PROVE  EndOf(r, Len(r), lastFreeSlot, extra)'
    <3>1. EndOf(q, Len(q), lastFreeSlot, extra) BY <1>1, <1>5, <2>2 DEF RingEnd
    <3>2. PICK x : x = lastFreeSlot OBVIOUS
    <3>3. PICK k \in 1 .. Len(q) : k = Len(q) BY <1>2, <1>3
    <3>4. extra = 1 => k > 1 BY <1>2, <3>3
    <3>5. EndOf(q, k, x, extra) BY <3>1, <3>2, <3>3
    <3>6. EndOf(r, k - 1, x, extra)' BY <1>10, <3>4, <3>5
    <3> QED BY <1>3, <3>2, <3>3, <3>6
  <2>3. ASSUME NEW c \in Consumers, pc'[c] = "returnLink"
        PROVE  /\ lastFreeSlot' = old'[c] /\ Len(r) > 0 /\ r[Len(r)] = old'[c]
               /\ EndOf(r, Len(r) - 1, reg[c], extra)'
    <3>1. /\ pc[c] = "returnLink" /\ old'[c] = old[c] /\ lastFreeSlot = old[c]
          /\ q[Len(q)] = old[c] /\ EndOf(q, Len(q) - 1, reg[c], extra)
      BY <1>1, <1>5, <2>3 DEF RingEnd
    <3>2. Cardinality(Releasing) >= 1 BY <3>1, SomeReleasing
    <3>3. Len(q) >= 2 + extra BY <1>a, <3>2
    <3>4. PICK x : x = reg[c] OBVIOUS
    <3>50. Len(q) \in Nat /\ extra \in Nat BY <1>a
    <3>51. Len(q) - 1 \in 1 .. Len(q) BY <3>50, <3>3
    <3>5. PICK k \in 1 .. Len(q) : k = Len(q) - 1 BY <3>51
    <3>6. extra = 1 => k > 1 BY <1>2, <3>3, <3>5
    <3>7. EndOf(q, k, x, extra) BY <3>1, <3>4, <3>5
    <3>8. EndOf(r, k - 1, x, extra)' BY <1>10, <3>6, <3>7
    <3>9. k = Len(r) /\ Len(r) \in 1 .. Len(r) /\ r[Len(r)] = q[Len(q)]
      <4>1. k = Len(r) /\ Len(r) \in 1 .. Len(r) /\ Len(r) + 1 = Len(q) BY <1>2, <1>3, <3>5
      <4> QED BY <1>3, <4>1
    <3>10. reg'[c] = x BY <1>5, <3>4
    <3>11. EndOf(r, Len(r) - 1, reg[c], extra)' BY <3>8, <3>9, <3>10
    <3> QED BY <3>1, <3>9, <3>11
  <2> QED BY <2>1, <2>2, <2>3 DEF RingEnd
<1> QED BY <1>1, <1>11, <1>12 DEF RingShape

(* Message s is added to the ring, at the end that already leads to it.    *)
Adding(q, extra, s, e, r) ==
  /\ Ring(q, extra) /\ e \in {0, 1} /\ s \in Slots /\ r = Append(q, s)
  /\ phase[s] = "answered" /\ Oldest(s) /\ next[s] = previousReceived
  /\ previousReceived' = previousReceived /\ Oldest(previousReceived)'
  /\ e = extra \/ s = Dummy
  /\ next' = next /\ nextFreeSlot' = nextFreeSlot /\ phase' = [phase EXCEPT ![s] = "free"]
  /\ Len(q) + 1 = InUseCount' + e
Longer(q, s, r) ==
  /\ r \in Seq(Slots) /\ Len(r) = Len(q) + 1 /\ Len(q) \in Nat
  /\ r[Len(q) + 1] = s /\ \A i \in 1 .. Len(q) : r[i] = q[i]

LEMMA RingAppend ==
  ASSUME Single, TypeOK, NEW q, NEW extra, NEW s, NEW e, NEW r, Adding(q, extra, s, e, r)
  PROVE  Ring(r, e)' /\ Longer(q, s, r)
<1> USE DEF Adding
<1>1. q \in Seq(Slots) /\ Len(q) \in Nat BY DEF Ring
<1>2. /\ r \in Seq(Slots) /\ Len(r) = Len(q) + 1 /\ r[Len(q) + 1] = s
      /\ \A i \in 1 .. Len(q) : r[i] = q[i]
  BY <1>1
<1>3. phase'[s] = "free" /\ \A x \in Slots : x # s => phase'[x] = phase[x]
  BY TypeParts DEF HistoryTyped
<1>4. \A i \in 1 .. Len(q) : q[i] \in Slots /\ phase[q[i]] = "free" /\ q[i] # s
  BY <1>1 DEF Ring
<1>5. \A i \in 1 .. Len(r) : i \in 1 .. Len(q) \/ i = Len(q) + 1 BY <1>1, <1>2
<1>6. \A i, j \in 1 .. Len(r) : r[i] = r[j] => i = j
  <2> SUFFICES ASSUME NEW i \in 1 .. Len(r), NEW j \in 1 .. Len(r), r[i] = r[j] PROVE i = j
    OBVIOUS
  <2>1. CASE i \in 1 .. Len(q) /\ j \in 1 .. Len(q) BY <1>2, <2>1 DEF Ring
  <2>2. CASE i = Len(q) + 1 \/ j = Len(q) + 1 BY <1>2, <1>4, <1>5, <2>2
  <2> QED BY <1>5, <2>1, <2>2
<1>7. \A i \in 1 .. Len(r) : phase'[r[i]] = "free" BY <1>2, <1>3, <1>4, <1>5
<1>8. ASSUME NEW x \in Slots, phase'[x] = "free", ~(x = Dummy /\ e = 0)
      PROVE  \E i \in 1 .. Len(r) : r[i] = x
  <2>1. Len(q) + 1 \in 1 .. Len(r) BY <1>1, <1>2
  <2>2. CASE x = s BY <1>2, <2>1, <2>2
  <2>3. CASE x # s
    <3>1. phase[x] = "free" BY <1>3, <1>8, <2>3
    <3>2. ~(x = Dummy /\ extra = 0) BY <1>8, <2>3
    <3>3. PICK i \in 1 .. Len(q) : q[i] = x BY <3>1, <3>2 DEF Ring
    <3>4. i \in 1 .. Len(r) /\ r[i] = x BY <1>1, <1>2, <3>3
    <3> QED BY <3>4
  <2> QED BY <2>2, <2>3
<1>9. ASSUME NEW i \in 0 .. Len(q), NEW x, Follows(q, i, x) PROVE Follows(r, i, x)'
  <2>1. i < Len(r) BY <1>1, <1>2
  <2>2. CASE i < Len(q)
    <3>1. i + 1 \in 1 .. Len(q) BY <1>1, <2>2
    <3>2. x = q[i + 1] BY <1>9, <2>2 DEF Follows
    <3>3. x = r[i + 1] BY <1>2, <3>1, <3>2
    <3> QED BY <2>1, <3>3 DEF Follows
  <2>3. CASE ~(i < Len(q))
    <3>1. i = Len(q) BY <1>1, <2>3
    <3>2. Oldest(x) BY <1>9, <2>3 DEF Follows
    <3>3. x = s BY <3>2, OldestOne
    <3>4. x = r[i + 1] BY <1>2, <3>1, <3>3
    <3> QED BY <2>1, <3>4 DEF Follows
  <2> QED BY <2>2, <2>3
<1>10. Follows(r, 0, nextFreeSlot)'
  <2>1. PICK x : x = nextFreeSlot OBVIOUS
  <2>2. Follows(q, 0, x) BY <2>1 DEF Ring
  <2>3. 0 \in 0 .. Len(q) BY <1>1
  <2>4. Follows(r, 0, x)' BY <1>9, <2>2, <2>3
  <2> QED BY <2>1, <2>4
<1>11. ASSUME NEW i \in 1 .. Len(r) PROVE Follows(r, i, next[r[i]])'
  <2>1. CASE i \in 1 .. Len(q)
    <3>1. PICK x : x = next[q[i]] OBVIOUS
    <3>2. Follows(q, i, x) BY <2>1, <3>1 DEF Ring
    <3>3. i \in 0 .. Len(q) BY <1>1, <2>1
    <3>4. Follows(r, i, x)' BY <1>9, <3>2, <3>3
    <3>5. next'[r[i]] = x BY <1>2, <2>1, <3>1
    <3> QED BY <3>4, <3>5
  <2>2. CASE i = Len(q) + 1
    <3>1. ~(i < Len(r)) BY <1>1, <1>2, <2>2
    <3>2. PICK x : x = previousReceived OBVIOUS
    <3>3. next'[r[i]] = x BY <1>2, <2>2, <3>2
    <3>4. Oldest(x)' BY <3>2
    <3> QED BY <3>1, <3>3, <3>4 DEF Follows
  <2> QED BY <1>5, <2>1, <2>2
<1>12. Ring(r, e)' BY <1>2, <1>6, <1>7, <1>8, <1>10, <1>11 DEF Ring
<1> QED BY <1>1, <1>2, <1>12 DEF Longer

(* The consumer returns the message it received before.                    *)
LEMMA RingReturn ==
  ASSUME Single, TypeOK, IgnoredInv, NEW c \in Consumers, Alone(c),
         pc[c] \in {"return", "returnCas"}, pc'[c] = "returnLink",
         NEW s \in Slots, old[c] = s, old'[c] = s, reg'[c] = lastFreeSlot, lastFreeSlot' = s,
         phase' = [phase EXCEPT ![s] = "free"],
         UNCHANGED <<kind, next, flags, nextFreeSlot, lastQueuedSlot, previousReceived,
                     slotSemaphore>>
  PROVE  RingShape'
<1> USE Const DEF IgnoredInv
<1>1. PICK q, extra : Ring(q, extra) /\ extra \in {0, 1} /\ RingEnd(q, extra) BY DEF RingShape
<1>2. \A d \in Consumers : d = c BY DEF Single
<1>3. pc[c] \in PendingPCs /\ pc[c] \in HandPCs /\ pc'[c] \notin PendingPCs
  BY DEF PendingPCs, HandPCs, DyingPCs, ReturnPCs
<1>4. phase[s] = "answered" /\ next[s] = previousReceived /\ phase[previousReceived] = "handling"
  BY <1>3 DEF HandShape
<1>5. Oldest(s) /\ Oldest(previousReceived)' BY <1>3, OldestIs
<1>6. Len(q) + 1 = InUseCount' + extra
  <2>1. Popping' = Popping BY PoppingSame
  <2>2. Cardinality(Releasing)' = Cardinality(Releasing) + 1 BY ReleasingUp
  <2>3. Base' = Base BY BaseSame
  <2>4. Base \in Nat /\ slotSemaphore \in Nat /\ Cardinality(Popping) \in Nat
        /\ Cardinality(Releasing) \in Nat
    BY BaseIs, CountsNat, CountsTyped
  <2>5. InUseCount' = InUseCount + 1 BY <2>1, <2>2, <2>3, <2>4 DEF InUseCount
  <2>6. InUseCount \in Nat BY InUseNat
  <2> QED BY <1>1, <2>5, <2>6 DEF Ring
<1>7. PICK r : r = Append(q, s) OBVIOUS
<1>8. /\ Ring(r, extra)' /\ r \in Seq(Slots) /\ Len(r) = Len(q) + 1 /\ Len(q) \in Nat
      /\ r[Len(q) + 1] = s /\ \A i \in 1 .. Len(q) : r[i] = q[i]
  <2>1. Adding(q, extra, s, extra, r) BY <1>1, <1>4, <1>5, <1>6, <1>7 DEF Adding
  <2>2. Ring(r, extra)' /\ Longer(q, s, r) BY <2>1, RingAppend
  <2> QED BY <2>2 DEF Longer
<1>9. ASSUME NEW k \in 0 .. Len(q), NEW x, Before(q, k, x) PROVE Before(r, k, x)'
  <2>1. CASE k = 0
    <3>1. Newest(x) BY <1>9, <2>1 DEF Before
    <3>2. Newest(x)' BY <3>1, NewestSame
    <3> QED BY <2>1, <3>2 DEF Before
  <2>2. CASE k # 0
    <3>1. k \in 1 .. Len(q) BY <1>8, <2>2
    <3> QED BY <1>8, <1>9, <2>2, <3>1 DEF Before
  <2> QED BY <2>1, <2>2
<1>10. EndOf(r, Len(q), reg[c], extra)'
  <2>1. PICK x : x = lastFreeSlot OBVIOUS
  <2>2. EndOf(q, Len(q), x, extra) BY <1>1, <1>2, <2>1 DEF RingEnd
  <2>3. PICK k \in 0 .. Len(q) : k = Len(q) BY <1>8
  <2>4. CASE Before(q, Len(q), x)
    <3>1. Before(r, k, x)' BY <1>9, <2>3, <2>4
    <3> QED BY <2>1, <2>3, <3>1 DEF EndOf
  <2>5. CASE extra = 1 /\ Len(q) > 0 /\ q[Len(q)] = Dummy /\ Before(q, Len(q) - 1, x)
    <3>1. PICK j \in 0 .. Len(q) : j = Len(q) - 1 BY <1>8, <2>5
    <3>2. Before(r, j, x)' BY <1>9, <2>5, <3>1
    <3>3. Len(q) \in 1 .. Len(q) BY <1>8, <2>5
    <3>4. r[Len(q)] = Dummy BY <1>8, <2>5, <3>3
    <3>5. EndOf(r, k, x, extra)' BY <2>3, <2>5, <3>1, <3>2, <3>4 DEF EndOf
    <3> QED BY <2>1, <2>3, <3>5
  <2> QED BY <2>2, <2>4, <2>5 DEF EndOf
<1>11. ~Untouched'
  <2> SUFFICES ASSUME phase'[Dummy] = "answered" PROVE FALSE BY DEF Untouched
  <2>1. Dummy # s /\ phase[Dummy] = "answered" BY TypeParts DEF HistoryTyped
  <2>2. HadInHand(Dummy) BY <2>1 DEF MarksShape, MarkShape
  <2> QED BY <1>2, <1>4, <2>1, <2>2 DEF HadInHand
<1>12. RingEnd(r, extra)'
  <2>1. Len(r) - 1 = Len(q) /\ Len(r) > 0 /\ r[Len(r)] = s BY <1>8
  <2>2. EndOf(r, Len(r) - 1, reg[c], extra)' BY <1>10, <2>1
  <2> QED BY <1>2, <1>11, <2>1, <2>2, SMTT(30) DEF RingEnd
<1> QED BY <1>1, <1>8, <1>12 DEF RingShape

(* The consumer lets go of the constructor's message, which is free then.  *)
LEMMA RingLetGo ==
  ASSUME Single, TypeOK, IgnoredInv, NEW c \in Consumers, Alone(c),
         pc[c] = "freeHold", pc'[c] = "handle", old[c] = Dummy, flags[Dummy] = {},
         phase' = [phase EXCEPT ![Dummy] = "free"],
         UNCHANGED <<kind, next, nextFreeSlot, lastFreeSlot, lastQueuedSlot, previousReceived,
                     slotSemaphore>>
  PROVE  RingShape'
<1> USE Const DEF IgnoredInv
<1>1. PICK q, extra : Ring(q, extra) /\ extra \in {0, 1} /\ RingEnd(q, extra) BY DEF RingShape
<1>2. \A d \in Consumers : d = c BY DEF Single
<1>3. pc[c] \in PendingPCs /\ pc'[c] \notin PendingPCs BY DEF PendingPCs, DyingPCs
<1>4. phase[Dummy] = "answered" /\ next[Dummy] = previousReceived BY <1>3 DEF HandShape
<1>5. Oldest(Dummy) /\ Oldest(previousReceived)' BY <1>3, OldestIs
<1>6. extra = 0
  <2>1. Untouched BY <1>2, <1>4 DEF Untouched, DyingPCs
  <2> QED BY <1>1, <2>1 DEF RingEnd
<1>7. Len(q) + 1 = InUseCount' + 1
  <2>1. Popping' = Popping /\ Releasing' = Releasing BY PoppingSame, ReleasingSame
  <2>2. Base' = Base BY BaseSame
  <2>3. InUseCount' = InUseCount BY <2>1, <2>2 DEF InUseCount
  <2>4. InUseCount \in Nat BY InUseNat
  <2> QED BY <1>1, <1>6, <2>3, <2>4 DEF Ring
<1>8. PICK r : r = Append(q, Dummy) OBVIOUS
<1>9. /\ Ring(r, 1)' /\ r \in Seq(Slots) /\ Len(r) = Len(q) + 1 /\ Len(q) \in Nat
      /\ r[Len(q) + 1] = Dummy /\ \A i \in 1 .. Len(q) : r[i] = q[i]
  <2>1. Adding(q, extra, Dummy, 1, r) BY <1>1, <1>4, <1>5, <1>7, <1>8 DEF Adding
  <2>2. Ring(r, 1)' /\ Longer(q, Dummy, r) BY <2>1, RingAppend
  <2> QED BY <2>2 DEF Longer
<1>10. Before(r, Len(q), lastFreeSlot)'
  <2>1. EndOf(q, Len(q), lastFreeSlot, 0) BY <1>1, <1>2, <1>6 DEF RingEnd
  <2>2. PICK x : x = lastFreeSlot OBVIOUS
  <2>3. Before(q, Len(q), x) BY <2>1, <2>2 DEF EndOf
  <2>4. CASE Len(q) = 0
    <3>1. Newest(x) BY <2>3, <2>4 DEF Before
    <3>2. Newest(x)' BY <3>1, NewestSame
    <3> QED BY <2>2, <2>4, <3>2 DEF Before
  <2>5. CASE Len(q) # 0
    <3>1. Len(q) \in 1 .. Len(q) BY <1>9, <2>5
    <3> QED BY <1>9, <2>2, <2>3, <2>5, <3>1 DEF Before
  <2> QED BY <2>4, <2>5
<1>11. RingEnd(r, 1)'
  <2>1. ~Untouched'
    <3>1. phase'[Dummy] = "free" BY TypeParts DEF HistoryTyped
    <3> QED BY <3>1 DEF Untouched
  <2>2. r[Len(r)] = Dummy /\ Len(r) > 0 /\ Len(r) - 1 = Len(q) BY <1>9
  <2>3. Before(r, Len(r) - 1, lastFreeSlot)' BY <1>10, <2>2
  <2>4. EndOf(r, Len(r), lastFreeSlot, 1)' BY <2>2, <2>3 DEF EndOf
  <2> QED BY <1>2, <2>1, <2>4 DEF RingEnd
<1> QED BY <1>9, <1>11 DEF RingShape

(* Message x, which the end of the free list, or nearly so, is taken to    *)
(* be, is linked to message m, which follows it.  The link is there        *)
(* already, or bypasses the constructor's message, which is lost then, or  *)
(* is written into the newest message, where sending it will overwrite it. *)
Linking(q, extra, k, x, m) ==
  /\ Ring(q, extra) /\ extra \in {0, 1} /\ k \in 0 .. Len(q)
  /\ EndOf(q, k, x, extra) /\ Follows(q, k, m)
  /\ x \in Slots /\ next' = [next EXCEPT ![x] = m]
  /\ phase' = phase /\ nextFreeSlot' = nextFreeSlot /\ InUseCount' = InUseCount
  /\ \A s : Oldest(s) => Oldest(s)'
\* The ring without its element k
Bypassed(q, k, x, r) ==
  /\ r \in Seq(Slots) /\ Len(q) \in Nat /\ Len(r) = Len(q) - 1
  /\ k \in 1 .. Len(q) /\ k > 1 /\ q[k] = Dummy /\ x = q[k - 1]
  /\ \A i \in 1 .. Len(r) : r[i] = IF i < k THEN q[i] ELSE q[i + 1]

LEMMA RingLink ==
  ASSUME Single, TypeOK, IgnoredInv, NEW q, NEW extra, NEW k, NEW x, NEW m,
         Linking(q, extra, k, x, m)
  PROVE  \/ Ring(q, extra)'
         \/ \E r : Ring(r, 0)' /\ Bypassed(q, k, x, r)
<1> USE DEF Linking
<1>1. q \in Seq(Slots) /\ Len(q) \in Nat /\ \A i \in 1 .. Len(q) : q[i] \in Slots BY DEF Ring
<1>2. next \in [Slots -> 0 .. N] BY TypeParts DEF FieldsTyped
<1>3. \A i, s : Follows(q, i, s) => Follows(q, i, s)' BY DEF Follows
<1>4. ASSUME \A i \in 1 .. Len(q) : next'[q[i]] = next[q[i]]
      PROVE  Ring(q, extra)'
  <2>1. Follows(q, 0, nextFreeSlot)'
    <3>1. PICK y : y = nextFreeSlot OBVIOUS
    <3>2. Follows(q, 0, y) BY <3>1 DEF Ring
    <3>3. Follows(q, 0, y)' BY <1>3, <3>2
    <3> QED BY <3>1, <3>3
  <2>2. ASSUME NEW i \in 1 .. Len(q) PROVE Follows(q, i, next[q[i]])'
    <3>1. PICK y : y = next[q[i]] OBVIOUS
    <3>2. Follows(q, i, y) BY <3>1 DEF Ring
    <3>3. Follows(q, i, y)' BY <1>3, <3>2
    <3>4. next'[q[i]] = y BY <1>4, <3>1
    <3> QED BY <3>3, <3>4
  <2> QED BY <1>1, <2>1, <2>2 DEF Ring
<1>5. CASE Before(q, k, x) /\ k = 0
  <2>1. Newest(x) BY <1>5 DEF Before
  <2>2. phase[x] # "free" BY <2>1, NewestNotFree
  <2>3. \A i \in 1 .. Len(q) : q[i] # x BY <2>2 DEF Ring
  <2> QED BY <1>1, <1>2, <1>4, <2>3
<1>6. CASE Before(q, k, x) /\ k # 0
  <2>1. k \in 1 .. Len(q) /\ x = q[k] BY <1>1, <1>6 DEF Before
  <2>2. Follows(q, k, next[x]) BY <2>1 DEF Ring
  <2>3. next[x] = m BY <2>2, OldestOne DEF Follows
  <2>4. next' = next BY <1>2, <2>3
  <2> QED BY <1>4, <2>4
<1>7. CASE extra = 1 /\ k = 1 /\ q[k] = Dummy /\ Before(q, k - 1, x)
  <2>1. Newest(x) BY <1>7 DEF Before
  <2>2. phase[x] # "free" BY <2>1, NewestNotFree
  <2>3. \A i \in 1 .. Len(q) : q[i] # x BY <2>2 DEF Ring
  <2> QED BY <1>1, <1>2, <1>4, <2>3
<1>8. CASE extra = 1 /\ k > 1 /\ q[k] = Dummy /\ Before(q, k - 1, x)
  <2>1. k \in 1 .. Len(q) /\ x = q[k - 1] BY <1>1, <1>8 DEF Before
  <2> DEFINE r == [i \in 1 .. Len(q) - 1 |-> IF i < k THEN q[i] ELSE q[i + 1]]
  <2>2. \A i \in 1 .. Len(q) - 1 : (IF i < k THEN q[i] ELSE q[i + 1]) \in Slots BY <1>1
  <2>3. r \in Seq(Slots) /\ Len(r) = Len(q) - 1
    <3>1. Len(q) - 1 \in Nat BY <1>1, <2>1
    <3> QED BY <2>2, <3>1
  <2>4. \A i \in 1 .. Len(r) : r[i] = IF i < k THEN q[i] ELSE q[i + 1] BY <2>3
  <2> HIDE DEF r
  <2>5. Bypassed(q, k, x, r) BY <1>1, <1>8, <2>1, <2>3, <2>4 DEF Bypassed
  \* Where element i of r is in q
  <2> DEFINE at(i) == IF i < k THEN i ELSE i + 1
  <2>6. \A i \in 1 .. Len(r) : at(i) \in 1 .. Len(q) /\ at(i) # k /\ r[i] = q[at(i)]
    BY <1>1, <2>1, <2>3, <2>4
  <2>7. \A i, j \in 1 .. Len(r) : at(i) = at(j) => i = j BY <1>1, <2>1, <2>3
  <2>8. \A j \in 1 .. Len(q) : j # k => \E i \in 1 .. Len(r) : at(i) = j
    <3> SUFFICES ASSUME NEW j \in 1 .. Len(q), j # k PROVE \E i \in 1 .. Len(r) : at(i) = j
      OBVIOUS
    <3>1. CASE j < k
      <4>1. j \in 1 .. Len(r) /\ at(j) = j BY <1>1, <2>1, <2>3, <3>1
      <4> QED BY <4>1
    <3>2. CASE j > k
      <4>1. j - 1 \in 1 .. Len(r) /\ at(j - 1) = j BY <1>1, <2>1, <2>3, <3>2
      <4> QED BY <4>1
    <3> QED BY <1>1, <2>1, <3>1, <3>2
  <2>9. ASSUME NEW i \in 1 .. Len(r), i # k - 1, NEW y, Follows(q, at(i), y)
        PROVE  Follows(r, i, y)
    <3>1. CASE i < Len(r)
      <4>1. at(i) < Len(q) /\ at(i) + 1 = at(i + 1) /\ i + 1 \in 1 .. Len(r)
        BY <1>1, <2>1, <2>3, <2>9, <3>1
      <4>2. y = q[at(i + 1)] BY <2>9, <4>1 DEF Follows
      <4>3. y = r[i + 1] BY <2>6, <4>1, <4>2
      <4> QED BY <3>1, <4>3 DEF Follows
    <3>2. CASE ~(i < Len(r))
      <4>1. ~(at(i) < Len(q)) BY <1>1, <2>1, <2>3, <2>9, <3>2
      <4> QED BY <2>9, <3>2, <4>1 DEF Follows
    <3> QED BY <3>1, <3>2
  <2>10. \A i, y : Follows(r, i, y) => Follows(r, i, y)' BY DEF Follows
  <2>11. Follows(r, 0, nextFreeSlot)'
    <3>1. PICK y : y = nextFreeSlot OBVIOUS
    <3>2. Follows(q, 0, y) BY <3>1 DEF Ring
    <3>3. 0 < Len(q) /\ 0 < Len(r) /\ 1 \in 1 .. Len(r) /\ at(1) = 1 BY <1>1, <2>1, <2>3, <1>8
    <3>4. y = q[0 + 1] BY <3>2, <3>3 DEF Follows
    <3>5. y = r[0 + 1] BY <2>6, <3>3, <3>4
    <3>6. Follows(r, 0, y) BY <3>3, <3>5 DEF Follows
    <3>7. Follows(r, 0, y)' BY <2>10, <3>6
    <3> QED BY <3>1, <3>7
  <2>12. ASSUME NEW i \in 1 .. Len(r) PROVE Follows(r, i, next[r[i]])'
    <3>1. CASE i = k - 1
      <4>1. r[i] = x /\ next'[x] = m BY <1>1, <1>2, <2>1, <2>4, <3>1
      <4>2. Follows(r, i, m)
        <5>1. CASE k < Len(q)
          <6>1. i < Len(r) /\ i + 1 = k /\ k \in 1 .. Len(r) /\ at(k) = k + 1
            BY <1>1, <2>1, <2>3, <3>1, <5>1
          <6>2. m = q[k + 1] BY <5>1 DEF Follows
          <6>3. m = r[i + 1] BY <2>6, <6>1, <6>2
          <6> QED BY <6>1, <6>3 DEF Follows
        <5>2. CASE ~(k < Len(q))
          <6>1. ~(i < Len(r)) BY <1>1, <2>1, <2>3, <3>1, <5>2
          <6>2. Oldest(m) BY <5>2 DEF Follows
          <6> QED BY <6>1, <6>2 DEF Follows
        <5> QED BY <5>1, <5>2
      <4>3. Follows(r, i, m)' BY <2>10, <4>2
      <4> QED BY <4>1, <4>3
    <3>2. CASE i # k - 1
      <4>1. PICK j \in 1 .. Len(q) : j = at(i) /\ r[i] = q[j] BY <2>6
      <4>2. j # k - 1 /\ k - 1 \in 1 .. Len(q) BY <1>1, <1>8, <2>1, <3>2, <4>1
      <4>3. q[j] # x BY <2>1, <4>2 DEF Ring
      <4>4. PICK y : y = next[q[j]] OBVIOUS
      <4>5. Follows(q, at(i), y) BY <4>1, <4>4 DEF Ring
      <4>6. Follows(r, i, y) BY <2>9, <3>2, <4>5
      <4>7. Follows(r, i, y)' BY <2>10, <4>6
      <4>8. next'[q[j]] = y BY <1>1, <1>2, <4>3, <4>4
      <4> QED BY <4>1, <4>7, <4>8
    <3> QED BY <3>1, <3>2
  <2>13. \A i, j \in 1 .. Len(r) : r[i] = r[j] => i = j
    <3> SUFFICES ASSUME NEW i \in 1 .. Len(r), NEW j \in 1 .. Len(r), r[i] = r[j] PROVE i = j
      OBVIOUS
    <3>1. at(i) = at(j) BY <2>6 DEF Ring
    <3> QED BY <2>7, <3>1
  <2>14. \A i \in 1 .. Len(r) : phase'[r[i]] = "free" BY <2>6 DEF Ring
  <2>15. ASSUME NEW s \in Slots, phase'[s] = "free", ~(s = Dummy /\ 0 = 0)
         PROVE  \E i \in 1 .. Len(r) : r[i] = s
    <3>1. PICK j \in 1 .. Len(q) : q[j] = s BY <2>15 DEF Ring
    <3>2. j # k BY <1>8, <2>15, <3>1
    <3>3. PICK i \in 1 .. Len(r) : at(i) = j BY <2>8, <3>2
    <3> QED BY <2>6, <3>1, <3>3
  <2>16. Len(r) = InUseCount' + 0
    <3>1. Len(q) = InUseCount' + 1 BY <1>8 DEF Ring
    <3>2. InUseCount' \in Nat BY InUseNat DEF IgnoredInv
    <3> QED BY <2>3, <3>1, <3>2
  <2>17. Ring(r, 0)' BY <2>3, <2>11, <2>12, <2>13, <2>14, <2>15, <2>16 DEF Ring
  <2> QED BY <2>5, <2>17
<1>9. k = 0 \/ k = 1 \/ k > 1 BY <1>1
<1> QED BY <1>5, <1>6, <1>7, <1>8, <1>9 DEF EndOf

\* Writing the link of message x disturbs neither the queue nor a send.
Harmless(x) ==
  /\ x \in Slots
  /\ \/ phase[x] \in {"free", "claimed"}
     \/ x = lastQueuedSlot /\ \A p \in Producers : pc[p] \notin SendPCs

LEMMA EndHarmless ==
  ASSUME TypeOK, IgnoredInv, NEW q, NEW extra, Ring(q, extra), NEW k \in 0 .. Len(q), NEW x,
         EndOf(q, k, x, extra)
  PROVE  Harmless(x)
<1>1. q \in Seq(Slots) /\ Len(q) \in Nat /\ \A i \in 1 .. Len(q) : q[i] \in Slots BY DEF Ring
<1>2. ASSUME NEW j \in 0 .. Len(q), Before(q, j, x) PROVE Harmless(x)
  <2>1. CASE j = 0
    <3>1. Newest(x) /\ x \in Slots BY <1>2, <2>1, NewestNotFree DEF Before
    <3>2. \A p \in Producers : pc[p] \in SendPCs => phase[msg[p]] = "claimed"
      BY DEF IgnoredInv, SupplyShape
    <3> QED BY <3>1, <3>2 DEF Newest, Harmless
  <2>2. CASE j # 0
    <3>1. j \in 1 .. Len(q) BY <1>1, <2>2
    <3>2. x \in Slots /\ phase[x] = "free" BY <1>1, <1>2, <2>2, <3>1 DEF Before, Ring
    <3> QED BY <3>2 DEF Harmless
  <2> QED BY <2>1, <2>2
<1>3. CASE Before(q, k, x) BY <1>2, <1>3
<1>4. CASE k > 0 /\ Before(q, k - 1, x)
  <2>1. k - 1 \in 0 .. Len(q) BY <1>1, <1>4
  <2> QED BY <1>2, <1>4, <2>1
<1> QED BY <1>3, <1>4 DEF EndOf

\* Neither does it change what follows the head of the ring.
LEMMA LinkedBehind ==
  ASSUME Single, TypeOK, IgnoredInv, NEW q, NEW extra, NEW k, NEW x, NEW m,
         Linking(q, extra, k, x, m), NEW p \in Producers, pc[p] = "popCas", extra = 1 => k > 2
  PROVE  next'[nextFreeSlot] = next[nextFreeSlot]
<1> USE DEF Linking
<1>1. nextFreeSlot = q[1] /\ q[1] \in Slots /\ phase[q[1]] = "free" /\ Len(q) >= 1
      /\ Len(q) \in Nat
  <2>1. pc[p] \in PopPCs BY DEF PopPCs
  <2>2. Ring(q, extra) /\ extra \in {0, 1} BY DEF Linking
  <2>3. /\ Len(q) \in Nat /\ Len(q) >= 1 + extra + Cardinality(Releasing) + Base
        /\ nextFreeSlot = q[1] /\ q[1] \in Slots /\ phase[q[1]] = "free"
        /\ Cardinality(Releasing) \in Nat /\ Base \in {0, 1}
    BY <2>1, <2>2, RingHead
  <2>4. Len(q) >= 1 BY <2>2, <2>3
  <2> QED BY <2>3, <2>4
<1>2. next \in [Slots -> 0 .. N] BY TypeParts DEF FieldsTyped
<1>3. CASE x # q[1] BY <1>1, <1>2, <1>3
<1>4. CASE x = q[1]
  <2>1. 1 \in 1 .. Len(q) BY <1>1
  <2>2. ~Newest(x) BY <1>1, <1>4, NewestNotFree
  <2>3. \A j \in 1 .. Len(q) : x = q[j] => j = 1 BY <1>4, <2>1 DEF Ring
  <2>4. k = 1
    <3>1. CASE Before(q, k, x)
      <4>1. k # 0 BY <2>2, <3>1 DEF Before
      <4>2. k \in 1 .. Len(q) /\ x = q[k] BY <1>1, <3>1, <4>1 DEF Before
      <4> QED BY <2>3, <4>2
    <3>2. CASE extra = 1 /\ k > 0 /\ Before(q, k - 1, x)
      <4>1. k > 2 /\ k - 1 \in 1 .. Len(q) /\ k - 1 # 0 BY <1>1, <3>2
      <4>2. x = q[k - 1] BY <3>2, <4>1 DEF Before
      <4>3. k - 1 = 1 BY <2>3, <4>1, <4>2
      <4> QED BY <4>1, <4>3
    <3> QED BY <3>1, <3>2 DEF EndOf
  <2>5. Follows(q, k, next[x]) BY <1>4, <2>1, <2>4 DEF Ring
  <2>6. next[x] = m BY <2>5, OldestOne DEF Follows
  <2> QED BY <1>1, <1>2, <2>6
<1> QED BY <1>3, <1>4

(* The compare-exchange loop links the end of the free list beforehand.    *)
LEMMA RingStore ==
  ASSUME Single, TypeOK, IgnoredInv, NEW c \in Consumers, Alone(c),
         pc[c] = "returnStore", pc'[c] = "returnCas", old'[c] = old[c],
         NEW x, x = lastFreeSlot, NEW m, m = old[c], next' = [next EXCEPT ![x] = m],
         UNCHANGED <<kind, flags, nextFreeSlot, lastFreeSlot, lastQueuedSlot, previousReceived,
                     slotSemaphore, phase>>
  PROVE  /\ RingShape' /\ Harmless(x)
         /\ \A p \in Producers : pc[p] = "popCas" => next'[nextFreeSlot] = next[nextFreeSlot]
<1> USE Const DEF IgnoredInv
<1>1. PICK q, extra : Ring(q, extra) /\ extra \in {0, 1} /\ RingEnd(q, extra) BY DEF RingShape
<1>2. \A d \in Consumers : d = c BY DEF Single
<1>3. q \in Seq(Slots) /\ Len(q) \in Nat BY <1>1 DEF Ring
<1>4. pc[c] \in PendingPCs /\ pc'[c] \in PendingPCs BY DEF PendingPCs, DyingPCs
<1>5. \A s : Oldest(s) => Oldest(s)' BY <1>4, OldestIs
<1>6. \A s : Newest(s) => Newest(s)' BY NewestSame
<1>7. EndOf(q, Len(q), x, extra) BY <1>1, <1>2 DEF RingEnd
<1>8. Linking(q, extra, Len(q), x, m)
  <2>1. Oldest(m) BY <1>4, OldestIs
  <2>2. Follows(q, Len(q), m) BY <1>3, <2>1 DEF Follows
  <2>3. InUseCount' = InUseCount
    <3>1. Popping' = Popping /\ Releasing' = Releasing BY PoppingSame, ReleasingSame
    <3>2. Base' = Base BY BaseSame
    <3> QED BY <3>1, <3>2 DEF InUseCount
  <2>4. x \in Slots BY TypeParts DEF EndsTyped
  <2> QED BY <1>1, <1>3, <1>5, <1>7, <2>2, <2>3, <2>4 DEF Linking
<1>9. Untouched' => Untouched BY <1>2 DEF Untouched, DyingPCs
<1>10. ASSUME Ring(q, extra)' PROVE RingShape'
  <2>1. \A i, s : Before(q, i, s) => Before(q, i, s)' BY <1>6 DEF Before
  <2>2. EndOf(q, Len(q), x, extra)' BY <1>7, <2>1 DEF EndOf
  <2>3. EndOf(q, Len(q), lastFreeSlot, extra)' BY <2>2
  <2>4. RingEnd(q, extra)' BY <1>1, <1>2, <1>9, <2>3 DEF RingEnd
  <2> QED BY <1>1, <1>10, <2>4 DEF RingShape
<1>11. ASSUME NEW r, Ring(r, 0)', Bypassed(q, Len(q), x, r) PROVE RingShape'
  <2>1. Len(r) # 0 /\ r[Len(r)] = x BY <1>3, <1>11 DEF Bypassed
  <2>2. Before(r, Len(r), lastFreeSlot)' BY <2>1 DEF Before
  <2>3. EndOf(r, Len(r), lastFreeSlot, 0)' BY <2>2 DEF EndOf
  <2>4. RingEnd(r, 0)' BY <1>2, <2>3 DEF RingEnd
  <2> QED BY <1>11, <2>4 DEF RingShape
<1>12. RingShape' BY <1>8, <1>10, <1>11, RingLink
<1>13. Harmless(x)
  <2>1. PICK k \in 0 .. Len(q) : k = Len(q) BY <1>3
  <2> QED BY <1>1, <1>7, <2>1, EndHarmless
<1>14. ASSUME NEW p \in Producers, pc[p] = "popCas"
       PROVE  next'[nextFreeSlot] = next[nextFreeSlot]
  <2>1. pc[p] \in PopPCs /\ Ring(q, extra) /\ extra \in {0, 1} BY <1>1, <1>14 DEF PopPCs
  <2>2. Len(q) >= 1 + extra + Cardinality(Releasing) + Base /\ Cardinality(Releasing) \in Nat
    BY <2>1, RingHead
  <2>3. Base = 1 BY <1>14, BaseIs DEF IgnoredUse
  <2>4. extra = 1 => Len(q) > 2 BY <1>3, <2>2, <2>3
  <2> QED BY <1>8, <1>14, <2>4, LinkedBehind
<1> QED BY <1>12, <1>13, <1>14

(* The message returned is linked behind the end that it replaced.         *)
LEMMA RingClose ==
  ASSUME Single, TypeOK, IgnoredInv, NEW c \in Consumers, Alone(c),
         pc[c] = "returnLink", pc'[c] = "release",
         NEW x, x = reg[c], NEW m, m = old[c], next' = [next EXCEPT ![x] = m],
         UNCHANGED <<kind, flags, nextFreeSlot, lastFreeSlot, lastQueuedSlot, previousReceived,
                     slotSemaphore, phase>>
  PROVE  /\ RingShape' /\ Harmless(x)
         /\ \A p \in Producers : pc[p] = "popCas" => next'[nextFreeSlot] = next[nextFreeSlot]
<1> USE Const DEF IgnoredInv
<1>1. PICK q, extra : Ring(q, extra) /\ extra \in {0, 1} /\ RingEnd(q, extra) BY DEF RingShape
<1>2. \A d \in Consumers : d = c BY DEF Single
<1>3. q \in Seq(Slots) /\ Len(q) \in Nat BY <1>1 DEF Ring
<1>4. pc[c] \notin PendingPCs /\ pc'[c] \notin PendingPCs BY DEF PendingPCs, DyingPCs
<1>5. \A s : Oldest(s) => Oldest(s)' BY <1>4, OldestIs
<1>7. lastFreeSlot = m /\ Len(q) > 0 /\ q[Len(q)] = m /\ EndOf(q, Len(q) - 1, x, extra)
  BY <1>1 DEF RingEnd
<1>8. PICK k \in 0 .. Len(q) : k = Len(q) - 1 BY <1>3, <1>7
<1>9. Harmless(x) /\ x \in Slots BY <1>1, <1>7, <1>8, EndHarmless DEF Harmless
<1>10. Linking(q, extra, k, x, m)
  <2>1. Follows(q, k, m)
    <3>1. k < Len(q) /\ k + 1 = Len(q) BY <1>3, <1>8
    <3> QED BY <1>7, <3>1 DEF Follows
  <2>2. InUseCount' = InUseCount
    <3>1. Popping' = Popping /\ Releasing' = Releasing BY PoppingSame, ReleasingSame
    <3>2. Base' = Base BY BaseSame
    <3> QED BY <3>1, <3>2 DEF InUseCount
  <2> QED BY <1>1, <1>5, <1>7, <1>8, <1>9, <2>1, <2>2 DEF Linking
<1>11. Untouched' => Untouched BY <1>2 DEF Untouched, DyingPCs
<1>12. ASSUME Ring(q, extra)' PROVE RingShape'
  <2>1. Len(q) # 0 /\ q[Len(q)] = lastFreeSlot' BY <1>7, <1>3
  <2>2. Before(q, Len(q), lastFreeSlot)' BY <2>1 DEF Before
  <2>3. EndOf(q, Len(q), lastFreeSlot, extra)' BY <2>2 DEF EndOf
  <2>4. RingEnd(q, extra)' BY <1>1, <1>2, <1>11, <2>3 DEF RingEnd
  <2> QED BY <1>1, <1>12, <2>4 DEF RingShape
<1>13. ASSUME NEW r, Ring(r, 0)', Bypassed(q, k, x, r) PROVE RingShape'
  <2>1. Len(r) # 0 /\ r[Len(r)] = lastFreeSlot'
    <3>1. Len(r) = k /\ k \in 1 .. Len(r) /\ k + 1 = Len(q) BY <1>3, <1>8, <1>13 DEF Bypassed
    <3>2. r[k] = q[k + 1] BY <1>13, <3>1 DEF Bypassed
    <3> QED BY <1>7, <3>1, <3>2
  <2>2. Before(r, Len(r), lastFreeSlot)' BY <2>1 DEF Before
  <2>3. EndOf(r, Len(r), lastFreeSlot, 0)' BY <2>2 DEF EndOf
  <2>4. RingEnd(r, 0)' BY <1>2, <2>3 DEF RingEnd
  <2> QED BY <1>13, <2>4 DEF RingShape
<1>14. RingShape' BY <1>10, <1>12, <1>13, RingLink
<1>15. ASSUME NEW p \in Producers, pc[p] = "popCas"
       PROVE  next'[nextFreeSlot] = next[nextFreeSlot]
  <2>1. pc[p] \in PopPCs /\ Ring(q, extra) /\ extra \in {0, 1} BY <1>1, <1>15 DEF PopPCs
  <2>2. Len(q) >= 1 + extra + Cardinality(Releasing) + Base /\ Cardinality(Releasing) \in Nat
    BY <2>1, RingHead
  <2>3. Base = 1 BY <1>15, BaseIs DEF IgnoredUse
  <2>4. Cardinality(Releasing) >= 1 BY SomeReleasing
  <2>5. extra = 1 => k > 2 BY <1>3, <1>8, <2>2, <2>3, <2>4
  <2> QED BY <1>10, <1>15, <2>5, LinkedBehind
<1> QED BY <1>9, <1>14, <1>15

----------------------------------------------------------------------------
\* What the queue hangs together by: all links but that of the last message.
LEMMA QueueQuiet ==
  ASSUME TypeOK, QueueShape, phase[previousReceived] # "queued",
         UNCHANGED <<fifo, lastQueuedSlot, previousReceived>>,
         queuedMessages' + Coming' + Taking' = queuedMessages + Coming + Taking,
         \A s \in Slots : phase'[s] = "queued" <=> phase[s] = "queued",
         \A s \in Slots : (phase[s] = "queued" \/ s = previousReceived) /\ s # lastQueuedSlot
                            => next'[s] = next[s]
  PROVE  QueueShape'
<1>0. fifo \in Seq(Slots) /\ Len(fifo) \in Nat /\ previousReceived \in Slots
  BY TypeParts DEF EndsTyped, HistoryTyped
<1>1. \A i \in 0 .. Len(fifo) : ChainAt(i)' = ChainAt(i) BY DEF ChainAt
<1>2. ASSUME NEW i \in 1 .. Len(fifo) PROVE next'[ChainAt(i - 1)'] = fifo'[i]
  <2>1. next[ChainAt(i - 1)] = fifo[i] BY DEF QueueShape
  <2>2. PICK j \in 0 .. Len(fifo) : j = i - 1 /\ j < Len(fifo) BY <1>0
  <2>3. ChainAt(j)' = ChainAt(j) BY <1>1
  <2>4. ChainAt(j) \in Slots /\ ChainAt(j) # lastQueuedSlot BY <2>2, ChainBefore
  <2>5. ChainAt(j) = previousReceived \/ \E k \in 1 .. Len(fifo) : ChainAt(j) = fifo[k]
    BY <1>0 DEF ChainAt
  <2>6. phase[ChainAt(j)] = "queued" \/ ChainAt(j) = previousReceived
    BY <2>5 DEF QueueShape
  <2>7. next'[ChainAt(j)] = next[ChainAt(j)] BY <2>4, <2>6
  <2> QED BY <2>1, <2>2, <2>3, <2>7
<1>3. lastQueuedSlot' = ChainAt(Len(fifo))' BY <1>0 DEF QueueShape, ChainAt
<1>4. \A i \in 1 .. Len(fifo) : phase'[fifo[i]] = "queued" BY <1>0 DEF QueueShape
<1>5. \A s \in Slots : phase'[s] = "queued" => \E i \in 1 .. Len(fifo) : fifo[i] = s
  BY DEF QueueShape
<1> QED BY <1>2, <1>3, <1>4, <1>5 DEF QueueShape

\* A thread that takes a message finds one in the queue, whose end is not
\* the message received last.
LEMMA TakerFinds ==
  ASSUME Single, TypeOK, QueueShape, NEW c \in Consumers, pc[c] \in TakePCs
  PROVE  /\ fifo # <<>> /\ 1 \in 1 .. Len(fifo) /\ fifo[1] \in Slots
         /\ phase[fifo[1]] = "queued" /\ fifo[1] = next[previousReceived]
         /\ phase[lastQueuedSlot] = "queued"
<1>1. fifo \in Seq(Slots) /\ Len(fifo) \in Nat BY QueueEnd
<1>2. Taking = 1 BY TakingOf
<1>3. Len(fifo) >= 1 BY <1>1, <1>2, CountsNat DEF QueueShape
<1>4. 1 \in 1 .. Len(fifo) /\ fifo # <<>> BY <1>1, <1>3
<1>5. next[ChainAt(1 - 1)] = fifo[1] BY <1>4 DEF QueueShape
<1>6. ChainAt(1 - 1) = previousReceived BY DEF ChainAt
<1> QED BY <1>1, <1>4, <1>5, <1>6, QueueEnd DEF QueueShape

\* What a step of the producer leaves alone
Supplies(p) ==
  /\ Alone(p) /\ UNCHANGED <<kind, lastFreeSlot, previousReceived, holders>>
  /\ pc'[p] # "wild" /\ ret'[p] # "keep"
  /\ pc'[p] \in {"loadFree", "popRead", "popCas"} => kind = "mpsc"
  /\ \A s \in Slots : s # lastQueuedSlot => next'[s] = next[s]
  /\ \A s \in Slots :
       \/ phase'[s] = phase[s] /\ (flags'[s] = flags[s] \/ phase[s] = "claimed")
       \/ phase[s] = "free" /\ phase'[s] = "claimed"
       \/ phase[s] = "claimed" /\ phase'[s] = "queued" /\ {IGNORE, IN_USE} \subseteq flags'[s]

LEMMA SuppliesUse ==
  ASSUME IgnoredUse, NEW p \in Producers, Supplies(p)
  PROVE  IgnoredUse'
<1> USE Const DEF Supplies
<1>1. \A q \in Producers : q # p => pc'[q] = pc[q] /\ ret'[q] = ret[q] BY DEF Alone
<1>2. \A c \in Consumers : pc'[c] = pc[c] /\ ret'[c] = ret[c] BY DEF Alone
<1>3. \A w \in Waiters : pc'[w] = pc[w] BY DEF Alone
<1> QED BY <1>1, <1>2, <1>3 DEF IgnoredUse

LEMMA SuppliesHand ==
  ASSUME Single, TypeOK, IgnoredInv, NEW p \in Producers, Supplies(p)
  PROVE  HandShape'
<1> USE Const DEF Supplies, IgnoredInv
<1> SUFFICES ASSUME NEW c \in Consumers
    PROVE /\ pc'[c] \in {"recvRead", "recvCas"} => reg'[c] = previousReceived'
          /\ pc'[c] = "recvCas" => nxt'[c] = next'[previousReceived']
          /\ pc'[c] \in HandPCs =>
               msg'[c] = previousReceived' /\ phase'[previousReceived'] = "handling"
          /\ pc'[c] \notin HandPCs => phase'[previousReceived'] = "answered"
          /\ pc'[c] \in PendingPCs =>
               phase'[old'[c]] = "answered" /\ next'[old'[c]] = previousReceived'
          /\ pc'[c] \in CleanPCs => flags'[old'[c]] = {}
          /\ pc'[c] \in {"returnStore", "returnCas"} => reg'[c] = lastFreeSlot'
  BY DEF HandShape
<1>1. /\ pc'[c] = pc[c] /\ reg'[c] = reg[c] /\ nxt'[c] = nxt[c] /\ msg'[c] = msg[c]
      /\ old'[c] = old[c]
  BY DEF Alone
<1>2. previousReceived \in Slots /\ old[c] \in Slots BY TypeParts DEF EndsTyped, LocalsTyped
<1>3. \A s \in Slots : phase[s] \in {"handling", "answered"} =>
        phase'[s] = phase[s] /\ flags'[s] = flags[s]
  OBVIOUS
<1>4. pc[c] = "recvCas" => next'[previousReceived] = next[previousReceived]
  BY <1>2, TakerFinds, LastQueued DEF TakePCs
<1>5. ASSUME pc[c] \in PendingPCs
      PROVE  next'[old[c]] = next[old[c]] /\ flags'[old[c]] = flags[old[c]]
  <2>1. phase[old[c]] = "answered" /\ phase[previousReceived] = "handling"
    BY <1>5 DEF HandShape, PendingPCs, HandPCs, DyingPCs, ReturnPCs
  <2>2. lastQueuedSlot = previousReceived \/ phase[lastQueuedSlot] = "queued" BY QueueEnd
  <2> QED BY <1>2, <1>3, <2>1, <2>2
<1>6. pc[c] \in CleanPCs => pc[c] \in PendingPCs BY DEF CleanPCs, PendingPCs, DyingPCs
<1>7. phase'[previousReceived] = phase[previousReceived] BY <1>2, <1>3 DEF MarksShape
<1>8. pc[c] \in PendingPCs => phase'[old[c]] = phase[old[c]] BY <1>2, <1>3 DEF HandShape
<1> QED BY <1>1, <1>4, <1>5, <1>6, <1>7, <1>8 DEF HandShape

LEMMA SuppliesMarks ==
  ASSUME TypeOK, IgnoredInv, NEW p \in Producers, Supplies(p)
  PROVE  MarksShape'
<1> USE Const DEF Supplies, IgnoredInv, MarksShape
<1>1. \A c \in Consumers : pc'[c] = pc[c] /\ old'[c] = old[c] BY DEF Alone
<1>2. \A s : HadInHand(s) => HadInHand(s)' BY <1>1 DEF HadInHand
<1>3. phase'[previousReceived'] \in {"handling", "answered"} BY TypeParts DEF EndsTyped
<1>4. ASSUME NEW s \in Slots PROVE MarkShape(s)'
  <2>1. MarkShape(s) OBVIOUS
  <2>2. CASE phase'[s] = phase[s] /\ flags'[s] = flags[s]
    BY <1>1, <1>2, <2>1, <2>2 DEF MarkShape
  <2>3. CASE phase'[s] = "claimed" BY <2>3 DEF MarkShape
  <2>4. CASE phase'[s] = "queued" /\ {IGNORE, IN_USE} \subseteq flags'[s]
    BY <2>4 DEF MarkShape
  <2>5. \/ phase'[s] = phase[s] /\ (flags'[s] = flags[s] \/ phase[s] = "claimed")
        \/ phase[s] = "free" /\ phase'[s] = "claimed"
        \/ phase[s] = "claimed" /\ phase'[s] = "queued" /\ {IGNORE, IN_USE} \subseteq flags'[s]
    OBVIOUS
  <2> QED BY <2>2, <2>3, <2>4, <2>5
<1> QED BY <1>3, <1>4

LEMMA SuppliesRing ==
  ASSUME TypeOK, TypeOK', IgnoredInv, NEW p \in Producers, Supplies(p),
         CountsKept, nextFreeSlot' = nextFreeSlot,
         \A s \in Slots : phase'[s] = "free" <=> phase[s] = "free",
         \A s : Newest(s) => Newest(s)'
  PROVE  RingShape'
<1> USE Const DEF Supplies, IgnoredInv
<1>1. \A c \in Consumers : pc'[c] = pc[c] /\ old'[c] = old[c] /\ reg'[c] = reg[c] BY DEF Alone
<1>2. \A s : Oldest(s) => Oldest(s)' BY OldestSame
<1>3. Untouched' => Untouched
  <2>1. phase'[Dummy] = "answered" => phase[Dummy] = "answered" /\ flags'[Dummy] = flags[Dummy]
    BY Zenon
  <2> QED BY <1>1, <2>1 DEF Untouched
<1>4. phase[lastQueuedSlot] # "free" BY LastQueued
<1>5. \A s \in Slots : phase[s] = "free" => next'[s] = next[s] BY <1>4
<1>6. UNCHANGED <<nextFreeSlot, lastFreeSlot>> OBVIOUS
<1>7. kind' = kind OBVIOUS
<1> QED BY <1>1, <1>2, <1>3, <1>5, <1>6, <1>7, RingStays

LEMMA SuppliesQueue ==
  ASSUME TypeOK, IgnoredInv, NEW p \in Producers, Supplies(p),
         UNCHANGED <<fifo, lastQueuedSlot>>,
         queuedMessages' + Coming' + Taking' = queuedMessages + Coming + Taking,
         \A s \in Slots : phase'[s] = "queued" <=> phase[s] = "queued"
  PROVE  QueueShape'
<1> USE DEF IgnoredInv
<1>1. phase[previousReceived] # "queued" BY LastQueued
<1>2. previousReceived' = previousReceived BY DEF Supplies
<1>3. \A s \in Slots : s # lastQueuedSlot => next'[s] = next[s] BY DEF Supplies
<1> QED BY <1>1, <1>2, <1>3, QueueQuiet

\* A step of the producer that neither takes nor appends a message
LEMMA SuppliesQuiet ==
  ASSUME Single, TypeOK, TypeOK', IgnoredInv, NEW p \in Producers, Supplies(p),
         CountsKept, UNCHANGED <<nextFreeSlot, phase, fifo, lastQueuedSlot>>,
         queuedMessages' + Coming' + Taking' = queuedMessages + Coming + Taking,
         \A s : Newest(s) => Newest(s)', SupplyShape'
  PROVE  IgnoredInv'
<1>1. \A s \in Slots : /\ phase'[s] = "free" <=> phase[s] = "free"
                       /\ phase'[s] = "queued" <=> phase[s] = "queued"
  OBVIOUS
<1>2. RingShape' BY <1>1, SuppliesRing
<1>3. QueueShape' BY <1>1, SuppliesQueue
<1>4. IgnoredUse' BY SuppliesUse DEF IgnoredInv
<1>5. HandShape' BY SuppliesHand
<1>6. MarksShape' BY SuppliesMarks
<1> QED BY <1>2, <1>3, <1>4, <1>5, <1>6 DEF IgnoredInv

LEMMA IgnoredAcquire ==
  ASSUME Single, TypeOK, IgnoredInv, NEW p \in Producers, AcquireSlot(p)
  PROVE  TypeOK' /\ IgnoredInv'
<1> USE Const
<1>0. PICK l : Goto(p, l) /\ l \in {"pop", "loadFree"} /\ (l = "loadFree" => kind = "mpsc")
  <2>1. kind \in {"spsc", "spmc", "mpsc"} BY DEF IgnoredInv, IgnoredUse
  <2> QED BY <2>1 DEF AcquireSlot, SingleProducer
<1>1. /\ pc[p] = "idle" /\ slotSemaphore' = slotSemaphore - 1 /\ slotSemaphore > 0
      /\ UNCHANGED <<kind, msgVars, ends, queuedMessages, locals, holders, hist>>
  BY DEF AcquireSlot, PermitFree
<1>2. PcTyped' /\ pc'[p] = l /\ Alone(p)
  <2>1. l \in ProducerPCs BY <1>0 DEF ProducerPCs, PopPCs
  <2>2. PcTyped' /\ pc'[p] = l /\ \A u \in Threads \ {p} : pc'[u] = pc[u]
    BY <1>0, <2>1, PcMoves
  <2> QED BY <1>1, <2>2 DEF Alone, locals
<1>3. TypeOK'
  <2>1. FieldsTyped' /\ LocalsTyped' /\ HistoryTyped'
    BY <1>1, TypeParts DEF FieldsTyped, LocalsTyped, HistoryTyped, msgVars, locals, hist
  <2>2. EndsTyped' BY <1>1, TypeParts DEF EndsTyped, ends
  <2> QED BY <1>2, <2>1, <2>2, TypeNext
<1>4. Supplies(p)
  <2>1. ret[p] # "keep" BY DEF IgnoredInv, IgnoredUse
  <2> QED BY <1>0, <1>1, <1>2, <2>1 DEF Supplies, msgVars, ends, locals, hist
<1>5. CountsKept
  <2>1. Cardinality(Popping) = 0 /\ Cardinality(Popping)' = 1
    BY <1>0, <1>1, <1>2, PoppingIs DEF PopPCs
  <2>2. Releasing' = Releasing
    <3>1. pc'[p] \notin {"returnLink", "release"} /\ pc[p] \notin {"returnLink", "release"}
      BY <1>0, <1>1, <1>2
    <3> QED BY <1>2, <3>1, ReleasingSame
  <2>3. slotSemaphore \in Nat /\ Cardinality(Releasing) \in Nat BY CountsNat, CountsTyped
  <2> QED BY <1>1, <2>1, <2>2, <2>3 DEF CountsKept
<1>6. queuedMessages' + Coming' + Taking' = queuedMessages + Coming + Taking
  BY <1>0, <1>1, <1>2, CountsStay
<1>7. \A s : Newest(s) => Newest(s)'
  BY <1>0, <1>1, <1>2, NewestIs DEF SendPCs, ends
<1>8. SupplyShape'
  <2>1. \A q \in Producers : q = p BY DEF Single
  <2> QED BY <1>0, <1>2, <2>1 DEF SupplyShape, SendPCs
<1>9. UNCHANGED <<nextFreeSlot, phase, fifo, lastQueuedSlot>> BY <1>1 DEF ends, hist
<1> QED BY <1>3, <1>4, <1>5, <1>6, <1>7, <1>8, <1>9, SuppliesQuiet

(* The producer looks at the head of the ring. *)
LEMMA SuppliesLook ==
  ASSUME Single, TypeOK, TypeOK', IgnoredInv, NEW p \in Producers, Alone(p), SupplyShape',
         UNCHANGED <<kind, msgVars, ends, counters, holders, hist>>, ret'[p] = ret[p],
         pc[p] \in {"loadFree", "popRead", "popCas"}, pc'[p] \in {"popRead", "popCas"}
  PROVE  IgnoredInv'
<1> USE Const
<1>1. Supplies(p)
  <2>1. ret[p] # "keep" /\ kind = "mpsc" BY DEF IgnoredInv, IgnoredUse
  <2> QED BY <2>1 DEF Supplies, msgVars, ends, hist
<1>2. CountsKept
  <2>1. Popping' = Popping BY PoppingSame DEF PopPCs
  <2>2. Releasing' = Releasing BY ReleasingSame
  <2> QED BY <2>1, <2>2 DEF CountsKept, counters
<1>3. queuedMessages' + Coming' + Taking' = queuedMessages + Coming + Taking
  BY CountsStay DEF counters
<1>4. \A s : Newest(s) => Newest(s)' BY NewestIs DEF SendPCs, ends
<1>5. UNCHANGED <<nextFreeSlot, phase, fifo, lastQueuedSlot>> BY DEF ends, hist
<1> QED BY <1>1, <1>2, <1>3, <1>4, <1>5, SuppliesQuiet

LEMMA PopFinds ==
  ASSUME Single, TypeOK, IgnoredInv, NEW p \in Producers, pc[p] \in PopPCs
  PROVE  nextFreeSlot \in Slots /\ phase[nextFreeSlot] = "free" /\ flags[nextFreeSlot] = {}
<1>1. PICK q, extra : Ring(q, extra) /\ extra \in {0, 1} BY DEF IgnoredInv, RingShape
<1>2. nextFreeSlot = q[1] /\ q[1] \in Slots /\ phase[q[1]] = "free" BY <1>1, RingHead
<1> QED BY <1>2 DEF IgnoredInv, MarksShape, MarkShape

LEMMA IgnoredLoadFree ==
  ASSUME Single, TypeOK, IgnoredInv, NEW p \in Producers, LoadFree(p)
  PROVE  TypeOK' /\ IgnoredInv'
<1> USE Const
<1>1. /\ pc[p] = "loadFree" /\ Goto(p, "popRead") /\ reg' = [reg EXCEPT ![p] = nextFreeSlot]
      /\ UNCHANGED <<kind, msgVars, ends, counters, msg, old, nxt, ret, holders, hist>>
  BY DEF LoadFree
<1>2. PcTyped' /\ pc'[p] = "popRead" /\ Alone(p)
  BY <1>1, PcMoves, TypeParts DEF ProducerPCs, PopPCs, Alone, LocalsTyped
<1>3. TypeOK'
  <2>1. FieldsTyped' /\ HistoryTyped'
    BY <1>1, TypeParts DEF FieldsTyped, HistoryTyped, msgVars, hist
  <2>2. LocalsTyped' BY <1>1, TypeParts DEF EndsTyped, LocalsTyped
  <2>3. EndsTyped' BY <1>1, TypeParts DEF EndsTyped, ends, counters
  <2> QED BY <1>2, <2>1, <2>2, <2>3, TypeNext
<1>4. SupplyShape'
  <2>1. \A q \in Producers : q = p BY DEF Single
  <2>2. reg'[p] = nextFreeSlot' BY <1>1, TypeParts DEF LocalsTyped, ends
  <2> QED BY <1>2, <2>1, <2>2 DEF SupplyShape, SendPCs
<1> QED BY <1>1, <1>2, <1>3, <1>4, SuppliesLook

LEMMA IgnoredPopRead ==
  ASSUME Single, TypeOK, IgnoredInv, NEW p \in Producers, PopRead(p)
  PROVE  TypeOK' /\ IgnoredInv'
<1> USE Const
<1>0. pc[p] = "popRead" /\ reg[p] = nextFreeSlot /\ nextFreeSlot \in Slots
  <2>1. pc[p] = "popRead" BY DEF PopRead
  <2> QED BY <2>1, PopFinds DEF IgnoredInv, SupplyShape, PopPCs
<1>1. /\ Goto(p, "popCas") /\ nxt' = [nxt EXCEPT ![p] = next[nextFreeSlot]]
      /\ UNCHANGED <<kind, msgVars, ends, counters, msg, old, reg, ret, holders, hist>>
  BY <1>0 DEF PopRead, Reach
<1>2. PcTyped' /\ pc'[p] = "popCas" /\ Alone(p)
  BY <1>0, <1>1, PcMoves, TypeParts DEF ProducerPCs, PopPCs, Alone, LocalsTyped
<1>3. TypeOK'
  <2>1. FieldsTyped' /\ HistoryTyped'
    BY <1>1, TypeParts DEF FieldsTyped, HistoryTyped, msgVars, hist
  <2>2. LocalsTyped' BY <1>0, <1>1, TypeParts DEF FieldsTyped, LocalsTyped
  <2>3. EndsTyped' BY <1>1, TypeParts DEF EndsTyped, ends, counters
  <2> QED BY <1>2, <2>1, <2>2, <2>3, TypeNext
<1>4. SupplyShape'
  <2>1. \A q \in Producers : q = p BY DEF Single
  <2>2. reg'[p] = nextFreeSlot' /\ nxt'[p] = next'[nextFreeSlot']
    BY <1>0, <1>1, TypeParts DEF LocalsTyped, ends, msgVars
  <2> QED BY <1>2, <2>1, <2>2 DEF SupplyShape, SendPCs
<1>5. UNCHANGED <<kind, msgVars, ends, counters, holders, hist>> /\ ret'[p] = ret[p] BY <1>1
<1> QED BY <1>0, <1>2, <1>3, <1>4, <1>5, SuppliesLook

(* The producer takes the slot at the head of the ring. *)
LEMMA SuppliesPop ==
  ASSUME Single, TypeOK, IgnoredInv, NEW p \in Producers, pc[p] \in PopPCs,
         NEW s \in Slots, s = nextFreeSlot, Goto(p, "send"), nextFreeSlot' = next[s],
         msg' = [msg EXCEPT ![p] = s], phase' = [phase EXCEPT ![s] = "claimed"],
         LocalsTyped', Alone(p), ret'[p] = ret[p], answer' = [answer EXCEPT ![s] = "NOT_SET"],
         UNCHANGED <<kind, msgVars, lastFreeSlot, lastQueuedSlot, previousReceived, counters,
                     holders, fifo>>
  PROVE  TypeOK' /\ IgnoredInv'
<1> USE Const
<1>0. phase[s] = "free" /\ flags[s] = {} BY PopFinds
<1>1. PcTyped' /\ pc'[p] = "send" BY PcMoves DEF ProducerPCs
<1>2. /\ phase'[s] = "claimed" /\ \A x \in Slots : x # s => phase'[x] = phase[x]
      /\ msg'[p] = s
  BY TypeParts DEF HistoryTyped, LocalsTyped
<1>3. TypeOK'
  <2>1. FieldsTyped' BY TypeParts DEF FieldsTyped, msgVars
  <2>2. HistoryTyped' BY TypeParts DEF HistoryTyped, Statuses
  <2>3. EndsTyped' BY TypeParts DEF EndsTyped, FieldsTyped, counters
  <2> QED BY <1>1, <2>1, <2>2, <2>3, TypeNext
<1>4. Supplies(p)
  <2>1. ret[p] # "keep" BY DEF IgnoredInv, IgnoredUse
  <2> QED BY <1>0, <1>1, <1>2, <2>1 DEF Supplies, msgVars
<1>5. RingShape'
  <2>1. next' = next /\ UNCHANGED <<kind, flags, lastFreeSlot, previousReceived, slotSemaphore>>
    BY DEF msgVars, counters
  <2> QED BY <1>1, <1>2, <2>1, RingPop
<1>6. QueueShape'
  <2>1. Coming' = Coming /\ Taking' = Taking BY <1>1, CountsStay DEF PopPCs
  <2>2. queuedMessages' + Coming' + Taking' = queuedMessages + Coming + Taking
    BY <2>1 DEF counters
  <2>3. \A x \in Slots : phase'[x] = "queued" <=> phase[x] = "queued" BY <1>0, <1>2
  <2> QED BY <1>4, <2>2, <2>3, SuppliesQueue
<1>7. SupplyShape'
  <2>1. \A q \in Producers : q = p BY DEF Single
  <2>2. flags'[s] = {} BY <1>0 DEF msgVars
  <2> QED BY <1>1, <1>2, <2>1, <2>2 DEF SupplyShape, SendPCs
<1>8. IgnoredUse' BY <1>4, SuppliesUse DEF IgnoredInv
<1>9. HandShape' BY <1>4, SuppliesHand
<1>10. MarksShape' BY <1>4, SuppliesMarks
<1> QED BY <1>3, <1>5, <1>6, <1>7, <1>8, <1>9, <1>10 DEF IgnoredInv

LEMMA IgnoredPopSingle ==
  ASSUME Single, TypeOK, IgnoredInv, NEW p \in Producers, PopSingle(p)
  PROVE  TypeOK' /\ IgnoredInv'
<1> USE Const
<1>0. pc[p] = "pop" /\ pc[p] \in PopPCs BY DEF PopSingle, PopPCs
<1>s. PICK s \in Slots : s = nextFreeSlot BY <1>0, PopFinds
<1>1. /\ Goto(p, "send") /\ nextFreeSlot' = next[s] /\ msg' = [msg EXCEPT ![p] = s]
      /\ phase' = [phase EXCEPT ![s] = "claimed"]
      /\ answer' = [answer EXCEPT ![s] = "NOT_SET"]
      /\ UNCHANGED <<kind, msgVars, lastFreeSlot, lastQueuedSlot, previousReceived, counters,
                     old, reg, nxt, ret, holders, fifo>>
  BY <1>s DEF PopSingle, Reach, Claim, Become
<1>2. Alone(p) BY <1>1, PcMoves, TypeParts DEF ProducerPCs, Alone, LocalsTyped
<1>3. LocalsTyped' BY <1>1, TypeParts DEF LocalsTyped
<1>4. /\ ret'[p] = ret[p]
      /\ UNCHANGED <<kind, msgVars, lastFreeSlot, lastQueuedSlot, previousReceived, counters,
                     holders, fifo>>
  BY <1>1
<1> QED BY <1>0, <1>1, <1>2, <1>3, <1>4, <1>s, SuppliesPop

LEMMA IgnoredPopCas ==
  ASSUME Single, TypeOK, IgnoredInv, NEW p \in Producers, PopCas(p)
  PROVE  TypeOK' /\ IgnoredInv'
<1> USE Const
<1>0. pc[p] = "popCas" /\ pc[p] \in PopPCs BY DEF PopCas, PopPCs
<1>s. PICK s \in Slots : s = nextFreeSlot BY <1>0, PopFinds
<1>a. reg[p] = s /\ nxt[p] = next[s] BY <1>0, <1>s DEF IgnoredInv, SupplyShape
<1>1. /\ Goto(p, "send") /\ nextFreeSlot' = next[s] /\ msg' = [msg EXCEPT ![p] = s]
      /\ phase' = [phase EXCEPT ![s] = "claimed"]
      /\ reg' = [reg EXCEPT ![p] = Dummy] /\ nxt' = [nxt EXCEPT ![p] = Dummy]
      /\ answer' = [answer EXCEPT ![s] = "NOT_SET"]
      /\ UNCHANGED <<kind, msgVars, lastFreeSlot, lastQueuedSlot, previousReceived, counters,
                     old, ret, holders, fifo>>
  BY <1>s, <1>a DEF PopCas, Forget, Claim, Become
<1>2. Alone(p) BY <1>1, PcMoves, TypeParts DEF ProducerPCs, Alone, LocalsTyped
<1>3. LocalsTyped' BY <1>1, TypeParts DEF LocalsTyped
<1>4. /\ ret'[p] = ret[p]
      /\ UNCHANGED <<kind, msgVars, lastFreeSlot, lastQueuedSlot, previousReceived, counters,
                     holders, fifo>>
  BY <1>1
<1> QED BY <1>0, <1>1, <1>2, <1>3, <1>4, <1>s, SuppliesPop

LEMMA IgnoredSendLoad ==
  ASSUME Single, TypeOK, IgnoredInv, NEW p \in Producers, NEW f \in SendFlags, IGNORE \in f,
         SendLoad(p, f)
  PROVE  TypeOK' /\ IgnoredInv'
<1> USE Const
<1>s. PICK s \in Slots : s = msg[p] BY TypeParts DEF LocalsTyped
<1>1. /\ pc[p] = "send" /\ Goto(p, "sendLink") /\ reg' = [reg EXCEPT ![p] = lastQueuedSlot]
      /\ flags' = [flags EXCEPT ![s] = @ \cup f \cup {IN_USE}]
      /\ ret' = [ret EXCEPT ![p] = "ignore"]
      /\ UNCHANGED <<kind, next, isReady, openHandles, status, ends, counters, msg, old, nxt,
                     holders, hist>>
  BY <1>s DEF SendLoad, Flagged, Signal
<1>2. PcTyped' /\ pc'[p] = "sendLink" /\ Alone(p)
  BY <1>1, PcMoves, TypeParts DEF ProducerPCs, PopPCs, Alone, LocalsTyped
<1>3. /\ f \in SUBSET {IGNORE, FAST} /\ {IGNORE, IN_USE} \subseteq flags'[s]
      /\ \A x \in Slots : x # s => flags'[x] = flags[x]
  BY <1>1, FlagAssumption, TypeParts DEF FieldsTyped
<1>4. TypeOK'
  <2>1. FieldsTyped' BY <1>1, <1>3, TypeParts DEF FieldsTyped, AllFlags
  <2>2. LocalsTyped' BY <1>1, TypeParts DEF EndsTyped, LocalsTyped
  <2>3. EndsTyped' BY <1>1, TypeParts DEF EndsTyped, ends, counters
  <2>4. HistoryTyped' BY <1>1, TypeParts DEF HistoryTyped, hist
  <2> QED BY <1>2, <2>1, <2>2, <2>3, <2>4, TypeNext
<1>5. phase[s] = "claimed" BY <1>1, <1>s DEF IgnoredInv, SupplyShape, SendPCs
<1>6. Supplies(p)
  <2>1. ret'[p] = "ignore" BY <1>1, TypeParts DEF LocalsTyped
  <2> QED BY <1>1, <1>2, <1>3, <1>5, <2>1 DEF Supplies, ends, hist
<1>7. CountsKept
  <2>1. Popping' = Popping BY <1>1, <1>2, PoppingSame DEF PopPCs
  <2>2. Releasing' = Releasing BY <1>1, <1>2, ReleasingSame
  <2> QED BY <1>1, <2>1, <2>2 DEF CountsKept, counters
<1>8. queuedMessages' + Coming' + Taking' = queuedMessages + Coming + Taking
  BY <1>1, <1>2, CountsStay DEF counters
<1>9. \A x : Newest(x) => Newest(x)' BY <1>1, <1>2, NewestIs DEF SendPCs, ends
<1>10. SupplyShape'
  <2>1. \A q \in Producers : q = p BY DEF Single
  <2>2. reg'[p] = lastQueuedSlot' /\ msg'[p] = s /\ phase'[s] = "claimed"
    BY <1>1, <1>5, <1>s, TypeParts DEF LocalsTyped, ends, hist
  <2> QED BY <1>2, <1>3, <2>1, <2>2 DEF SupplyShape, SendPCs
<1>11. UNCHANGED <<nextFreeSlot, phase, fifo, lastQueuedSlot>> BY <1>1 DEF ends, hist
<1> QED BY <1>4, <1>6, <1>7, <1>8, <1>9, <1>10, <1>11, SuppliesQuiet

LEMMA IgnoredSendLink ==
  ASSUME Single, TypeOK, IgnoredInv, NEW p \in Producers, SendLink(p)
  PROVE  TypeOK' /\ IgnoredInv'
<1> USE Const
<1>s. PICK s \in Slots : s = msg[p] BY TypeParts DEF LocalsTyped
<1>0. /\ pc[p] = "sendLink" /\ reg[p] = lastQueuedSlot /\ phase[s] = "claimed"
      /\ {IGNORE, IN_USE} \subseteq flags[s]
  <2>1. pc[p] = "sendLink" BY DEF SendLink
  <2> QED BY <1>s, <2>1 DEF IgnoredInv, SupplyShape, SendPCs
<1>1. /\ Goto(p, "sendCas") /\ next' = [next EXCEPT ![lastQueuedSlot] = s]
      /\ UNCHANGED <<kind, flags, isReady, openHandles, status, ends, counters, locals,
                     holders, hist>>
  BY <1>s, <1>0 DEF SendLink, Linked
<1>2. PcTyped' /\ pc'[p] = "sendCas" /\ Alone(p)
  BY <1>1, PcMoves, TypeParts DEF ProducerPCs, PopPCs, Alone, locals
<1>3. /\ next'[lastQueuedSlot] = s
      /\ \A x \in Slots : x # lastQueuedSlot => next'[x] = next[x]
  BY <1>1, TypeParts DEF FieldsTyped, EndsTyped
<1>4. TypeOK'
  <2>1. FieldsTyped' BY <1>1, TypeParts DEF FieldsTyped
  <2>2. LocalsTyped' BY <1>1, TypeParts DEF LocalsTyped, locals
  <2>3. EndsTyped' BY <1>1, TypeParts DEF EndsTyped, ends, counters
  <2>4. HistoryTyped' BY <1>1, TypeParts DEF HistoryTyped, hist
  <2> QED BY <1>2, <2>1, <2>2, <2>3, <2>4, TypeNext
<1>6. Supplies(p)
  <2>1. ret[p] # "keep" BY DEF IgnoredInv, IgnoredUse
  <2> QED BY <1>1, <1>2, <1>3, <2>1 DEF Supplies, ends, hist, locals
<1>7. CountsKept
  <2>1. Popping' = Popping BY <1>0, <1>2, PoppingSame DEF PopPCs
  <2>2. Releasing' = Releasing BY <1>0, <1>2, ReleasingSame
  <2> QED BY <1>1, <2>1, <2>2 DEF CountsKept, counters
<1>8. queuedMessages' + Coming' + Taking' = queuedMessages + Coming + Taking
  BY <1>0, <1>1, <1>2, CountsStay DEF counters
<1>9. \A x : Newest(x) => Newest(x)' BY <1>0, <1>1, <1>2, NewestIs DEF SendPCs, ends, locals
<1>10. SupplyShape'
  <2>1. \A q \in Producers : q = p BY DEF Single
  <2>2. reg'[p] = lastQueuedSlot' /\ msg'[p] = s /\ phase'[s] = "claimed"
        /\ next'[lastQueuedSlot'] = s /\ {IGNORE, IN_USE} \subseteq flags'[s]
    BY <1>0, <1>1, <1>3, <1>s DEF ends, hist, locals
  <2> QED BY <1>2, <2>1, <2>2 DEF SupplyShape, SendPCs
<1>11. UNCHANGED <<nextFreeSlot, phase, fifo, lastQueuedSlot>> BY <1>1 DEF ends, hist
<1> QED BY <1>4, <1>6, <1>7, <1>8, <1>9, <1>10, <1>11, SuppliesQuiet

(* The message is appended, and linked by now.                             *)
LEMMA SuppliesAppend ==
  ASSUME Single, TypeOK, TypeOK', IgnoredInv, NEW p \in Producers, pc[p] \in SendPCs,
         pc'[p] = "count", Alone(p), ret'[p] # "keep",
         NEW s \in Slots, s = msg[p], next'[lastQueuedSlot] = s,
         \A x \in Slots : x # lastQueuedSlot => next'[x] = next[x],
         lastQueuedSlot' = s, fifo' = Append(fifo, s), phase' = [phase EXCEPT ![s] = "queued"],
         {IGNORE, IN_USE} \subseteq flags'[s], \A x \in Slots : x # s => flags'[x] = flags[x],
         UNCHANGED <<kind, nextFreeSlot, lastFreeSlot, previousReceived, counters, holders>>
  PROVE  IgnoredInv'
<1> USE Const
<1>1. phase[s] = "claimed" BY DEF IgnoredInv, SupplyShape
<1>2. phase'[s] = "queued" /\ \A x \in Slots : x # s => phase'[x] = phase[x]
  BY TypeParts DEF HistoryTyped
<1>3. Supplies(p) BY <1>1, <1>2 DEF Supplies
<1>4. RingShape'
  <2>1. CountsKept
    <3>1. Popping' = Popping BY PoppingSame DEF PopPCs, SendPCs
    <3>2. Releasing' = Releasing BY ReleasingSame DEF SendPCs
    <3> QED BY <3>1, <3>2 DEF CountsKept, counters
  <2>2. \A x \in Slots : phase'[x] = "free" <=> phase[x] = "free" BY <1>1, <1>2
  <2>3. \A x : Newest(x) => Newest(x)' BY NewestIs DEF SendPCs
  <2> QED BY <1>3, <2>1, <2>2, <2>3, SuppliesRing
<1>5. QueueShape'
  <2>1. Coming = 0 /\ Coming' = 1 BY ComingOf DEF SendPCs
  <2>2. Taking' = Taking BY Const, SMTT(30) DEF Taking, Alone
  <2>3. queuedMessages' + Coming' + Taking' = queuedMessages + Coming + Taking + 1
    BY <2>1, <2>2, CountsNat DEF counters
  <2>4. QueueShape /\ phase[previousReceived] # "queued" BY LastQueued DEF IgnoredInv
  <2>5. phase[s] \notin {"queued", "free"} BY <1>1
  <2>6. previousReceived' = previousReceived OBVIOUS
  <2> QED BY <2>3, <2>4, <2>5, <2>6, QueueAppend
<1>6. SupplyShape'
  <2>1. \A q \in Producers : q = p BY DEF Single
  <2> QED BY <2>1 DEF SupplyShape, SendPCs
<1>7. IgnoredUse' BY <1>3, SuppliesUse DEF IgnoredInv
<1>8. HandShape' BY <1>3, SuppliesHand
<1>9. MarksShape' BY <1>3, SuppliesMarks
<1> QED BY <1>4, <1>5, <1>6, <1>7, <1>8, <1>9 DEF IgnoredInv

LEMMA IgnoredSendSingle ==
  ASSUME Single, TypeOK, IgnoredInv, NEW p \in Producers, NEW f \in SendFlags, IGNORE \in f,
         SendSingle(p, f)
  PROVE  TypeOK' /\ IgnoredInv'
<1> USE Const
<1>s. PICK s \in Slots : s = msg[p] BY TypeParts DEF LocalsTyped
<1>1. /\ pc[p] = "send" /\ Goto(p, "count")
      /\ flags' = [flags EXCEPT ![s] = @ \cup f \cup {IN_USE}]
      /\ next' = [next EXCEPT ![lastQueuedSlot] = s] /\ lastQueuedSlot' = s
      /\ fifo' = Append(fifo, s) /\ phase' = [phase EXCEPT ![s] = "queued"]
      /\ ret' = [ret EXCEPT ![p] = "ignore"]
      /\ UNCHANGED <<kind, isReady, openHandles, status, nextFreeSlot, lastFreeSlot,
                     previousReceived, counters, msg, old, reg, nxt, holders, answer>>
  BY <1>s DEF SendSingle, Flagged, Signal, Linked, Become
<1>2. PcTyped' /\ pc'[p] = "count" /\ Alone(p)
  BY <1>1, PcMoves, TypeParts DEF ProducerPCs, PopPCs, Alone, LocalsTyped
<1>3. /\ f \in SUBSET {IGNORE, FAST} /\ {IGNORE, IN_USE} \subseteq flags'[s]
      /\ \A x \in Slots : x # s => flags'[x] = flags[x]
  BY <1>1, FlagAssumption, TypeParts DEF FieldsTyped
<1>4. /\ next'[lastQueuedSlot] = s
      /\ \A x \in Slots : x # lastQueuedSlot => next'[x] = next[x]
  BY <1>1, TypeParts DEF FieldsTyped, EndsTyped
<1>5. TypeOK'
  <2>1. FieldsTyped' BY <1>1, <1>3, TypeParts DEF FieldsTyped, AllFlags
  <2>2. LocalsTyped' BY <1>1, TypeParts DEF LocalsTyped
  <2>3. EndsTyped' BY <1>1, TypeParts DEF EndsTyped, counters
  <2>4. HistoryTyped' BY <1>1, TypeParts DEF HistoryTyped
  <2> QED BY <1>2, <2>1, <2>2, <2>3, <2>4, TypeNext
<1>6. ret'[p] # "keep" /\ pc[p] \in SendPCs BY <1>1, TypeParts DEF LocalsTyped, SendPCs
<1>7. UNCHANGED <<kind, nextFreeSlot, lastFreeSlot, previousReceived, counters, holders>>
  BY <1>1
<1> QED BY <1>1, <1>2, <1>3, <1>4, <1>5, <1>6, <1>7, <1>s, SuppliesAppend, ZenonT(60)

LEMMA IgnoredSendCas ==
  ASSUME Single, TypeOK, IgnoredInv, NEW p \in Producers, SendCas(p)
  PROVE  TypeOK' /\ IgnoredInv'
<1> USE Const
<1>s. PICK s \in Slots : s = msg[p] BY TypeParts DEF LocalsTyped
<1>0. /\ pc[p] = "sendCas" /\ reg[p] = lastQueuedSlot /\ next[lastQueuedSlot] = s
      /\ {IGNORE, IN_USE} \subseteq flags[s]
  <2>1. pc[p] = "sendCas" BY DEF SendCas
  <2> QED BY <1>s, <2>1 DEF IgnoredInv, SupplyShape, SendPCs
<1>1. /\ Goto(p, "count") /\ lastQueuedSlot' = s /\ reg' = [reg EXCEPT ![p] = Dummy]
      /\ fifo' = Append(fifo, s) /\ phase' = [phase EXCEPT ![s] = "queued"]
      /\ UNCHANGED <<kind, msgVars, nextFreeSlot, lastFreeSlot, previousReceived, counters, msg,
                     old, nxt, ret, holders, answer>>
  BY <1>s, <1>0 DEF SendCas, Forget, Become
<1>2. PcTyped' /\ pc'[p] = "count" /\ Alone(p)
  BY <1>1, PcMoves, TypeParts DEF ProducerPCs, PopPCs, Alone, LocalsTyped
<1>5. TypeOK'
  <2>1. FieldsTyped' BY <1>1, TypeParts, SMTT(30) DEF FieldsTyped, msgVars
  <2>2. LocalsTyped' BY <1>1, TypeParts, SMTT(30) DEF LocalsTyped
  <2>3. EndsTyped' BY <1>1, TypeParts DEF EndsTyped, counters
  <2>4. HistoryTyped' BY <1>1, TypeParts DEF HistoryTyped
  <2> QED BY <1>2, <2>1, <2>2, <2>3, <2>4, TypeNext
<1>6. pc[p] \in SendPCs /\ ret'[p] # "keep" BY <1>0, <1>1 DEF SendPCs, IgnoredInv, IgnoredUse
<1>7. /\ next'[lastQueuedSlot] = s /\ {IGNORE, IN_USE} \subseteq flags'[s]
      /\ \A x \in Slots : x # lastQueuedSlot => next'[x] = next[x]
      /\ \A x \in Slots : x # s => flags'[x] = flags[x]
      /\ UNCHANGED <<kind, nextFreeSlot, lastFreeSlot, previousReceived, counters, holders>>
  BY <1>0, <1>1 DEF msgVars
<1> QED BY <1>1, <1>2, <1>5, <1>6, <1>7, <1>s, SuppliesAppend, ZenonT(60)

LEMMA IgnoredCount ==
  ASSUME Single, TypeOK, IgnoredInv, NEW p \in Producers, Count(p)
  PROVE  TypeOK' /\ IgnoredInv'
<1> USE Const
<1>0. pc[p] = "count" /\ ret[p] # "keep" BY DEF Count, IgnoredInv, IgnoredUse
<1>1. /\ Goto(p, "idle") /\ queuedMessages' = queuedMessages + 1
      /\ ret' = [ret EXCEPT ![p] = "idle"] /\ msg' = [msg EXCEPT ![p] = Dummy]
      /\ UNCHANGED <<kind, msgVars, ends, slotSemaphore, old, reg, nxt, hist, holders>>
  BY <1>0 DEF Count, Forget
<1>2. PcTyped' /\ pc'[p] = "idle" /\ Alone(p)
  BY <1>1, PcMoves, TypeParts DEF ProducerPCs, PopPCs, Alone, LocalsTyped
<1>3. TypeOK'
  <2>1. FieldsTyped' BY <1>1, TypeParts DEF FieldsTyped, msgVars
  <2>2. LocalsTyped' BY <1>1, TypeParts DEF LocalsTyped
  <2>3. EndsTyped' BY <1>1, TypeParts DEF EndsTyped, ends
  <2>4. HistoryTyped' BY <1>1, TypeParts DEF HistoryTyped, hist
  <2> QED BY <1>2, <2>1, <2>2, <2>3, <2>4, TypeNext
<1>4. Supplies(p)
  <2>1. ret'[p] = "idle" BY <1>1, TypeParts DEF LocalsTyped
  <2> QED BY <1>1, <1>2, <2>1 DEF Supplies, msgVars, ends, hist
<1>5. CountsKept
  <2>1. Popping' = Popping BY <1>0, <1>2, PoppingSame DEF PopPCs
  <2>2. Releasing' = Releasing BY <1>0, <1>2, ReleasingSame
  <2> QED BY <1>1, <2>1, <2>2 DEF CountsKept
<1>6. queuedMessages' + Coming' + Taking' = queuedMessages + Coming + Taking
  <2>1. Coming = 1 /\ Coming' = 0 BY <1>0, <1>2, ComingOf
  <2>2. Taking' = Taking BY <1>2 DEF Taking, Alone
  <2> QED BY <1>1, <2>1, <2>2, CountsNat
<1>7. \A s : Newest(s) => Newest(s)' BY <1>0, <1>1, <1>2, NewestIs DEF SendPCs, ends
<1>8. SupplyShape'
  <2>1. \A q \in Producers : q = p BY DEF Single
  <2> QED BY <1>2, <2>1 DEF SupplyShape, SendPCs
<1>9. UNCHANGED <<nextFreeSlot, phase, fifo, lastQueuedSlot>> BY <1>1 DEF ends, hist
<1> QED BY <1>3, <1>4, <1>5, <1>6, <1>7, <1>8, <1>9, SuppliesQuiet

----------------------------------------------------------------------------
\* What a step of the consumer leaves alone
Handles(c) ==
  /\ Alone(c) /\ UNCHANGED <<kind, lastQueuedSlot, nextFreeSlot, holders>>
  /\ pc'[c] \notin {"wild", "setReady"}
  /\ pc'[c] \in {"returnStore", "returnCas"} => kind = "mpsc"
  /\ pc'[c] \in ReturnPCs => ret'[c] = "handle"
  /\ \A s \in Slots : phase[s] \in {"free", "claimed"} => phase'[s] = phase[s] /\ flags'[s] = flags[s]
  /\ \A p \in Producers : pc[p] = "popCas" => next'[nextFreeSlot] = next[nextFreeSlot]
  /\ \A s \in Slots : next'[s] = next[s] \/ Harmless(s)

LEMMA HandlesUse ==
  ASSUME Single, IgnoredUse, NEW c \in Consumers, Handles(c)
  PROVE  IgnoredUse'
<1> USE Const DEF Handles
<1>1. \A p \in Producers : pc'[p] = pc[p] /\ ret'[p] = ret[p] BY DEF Alone
<1>2. \A d \in Consumers : d = c BY DEF Single
<1>3. \A w \in Waiters : pc'[w] = pc[w] BY DEF Alone
<1> QED BY <1>1, <1>2, <1>3 DEF IgnoredUse

LEMMA HandlesSupply ==
  ASSUME Single, TypeOK, IgnoredInv, NEW c \in Consumers, Handles(c)
  PROVE  SupplyShape'
<1> USE Const DEF Handles, IgnoredInv
<1> SUFFICES ASSUME NEW p \in Producers
    PROVE /\ pc'[p] \in {"popRead", "popCas"} => reg'[p] = nextFreeSlot'
          /\ pc'[p] = "popCas" => nxt'[p] = next'[nextFreeSlot']
          /\ pc'[p] \in SendPCs => phase'[msg'[p]] = "claimed"
          /\ pc'[p] = "send" => flags'[msg'[p]] = {}
          /\ pc'[p] \in {"sendLink", "sendCas"} =>
               reg'[p] = lastQueuedSlot' /\ {IGNORE, IN_USE} \subseteq flags'[msg'[p]]
          /\ pc'[p] = "sendCas" => next'[lastQueuedSlot'] = msg'[p]
  BY DEF SupplyShape
<1>1. /\ pc'[p] = pc[p] /\ reg'[p] = reg[p] /\ nxt'[p] = nxt[p] /\ msg'[p] = msg[p]
  BY DEF Alone
<1>2. msg[p] \in Slots BY TypeParts DEF LocalsTyped
<1>3. pc[p] \in SendPCs =>
        phase[msg[p]] = "claimed" /\ phase'[msg[p]] = "claimed" /\ flags'[msg[p]] = flags[msg[p]]
  BY <1>2 DEF SupplyShape
<1>4. pc[p] = "sendCas" => next'[lastQueuedSlot] = next[lastQueuedSlot]
  BY LastQueued DEF Harmless, SendPCs
<1> QED BY <1>1, <1>3, <1>4 DEF SupplyShape, SendPCs

LEMMA HandlesQueue ==
  ASSUME TypeOK, IgnoredInv, NEW c \in Consumers, Handles(c),
         UNCHANGED <<fifo, previousReceived>>,
         queuedMessages' + Coming' + Taking' = queuedMessages + Coming + Taking,
         \A s \in Slots : phase'[s] = "queued" <=> phase[s] = "queued"
  PROVE  QueueShape'
<1> USE DEF IgnoredInv
<1>1. phase[previousReceived] \in {"handling", "answered"} BY DEF MarksShape
<1>2. lastQueuedSlot' = lastQueuedSlot BY DEF Handles
<1>3. ASSUME NEW s \in Slots, phase[s] = "queued" \/ s = previousReceived, s # lastQueuedSlot
      PROVE  next'[s] = next[s]
  <2>1. ~Harmless(s) BY <1>1, <1>3 DEF Harmless
  <2> QED BY <2>1 DEF Handles
<1> QED BY <1>1, <1>2, <1>3, QueueQuiet

LEMMA MarkStays ==
  ASSUME NEW s, MarkShape(s), phase'[s] = phase[s], flags'[s] = flags[s],
         HadInHand(s) => HadInHand(s)',
         \A c \in Consumers : pc[c] \in DyingPCs /\ old[c] = s => pc'[c] \in DyingPCs /\ old'[c] = s
  PROVE  MarkShape(s)'
BY DEF MarkShape

\* A step of the consumer that neither receives nor returns a message
LEMMA HandlesQuiet ==
  ASSUME Single, TypeOK, TypeOK', IgnoredInv, NEW c \in Consumers, Handles(c), CountsKept,
         UNCHANGED <<next, lastFreeSlot, fifo, previousReceived>>,
         queuedMessages' + Coming' + Taking' = queuedMessages + Coming + Taking,
         \A s \in Slots : /\ phase'[s] = "queued" <=> phase[s] = "queued"
                          /\ phase'[s] = "free" <=> phase[s] = "free",
         \A s : Oldest(s) => Oldest(s)', Untouched' => Untouched,
         pc[c] # "returnLink" /\ pc'[c] # "returnLink", HandShape', MarksShape'
  PROVE  IgnoredInv'
<1> USE DEF IgnoredInv
<1>1. Alone(c) /\ kind' = kind /\ nextFreeSlot' = nextFreeSlot /\ lastQueuedSlot' = lastQueuedSlot
  BY DEF Handles
<1>2. \A s : Newest(s) => Newest(s)' BY <1>1, NewestSame
<1>3. \A d \in Consumers : d = c BY DEF Single
<1>4. RingShape'
  <2>1. UNCHANGED <<nextFreeSlot, lastFreeSlot>> /\ next' = next BY <1>1
  <2> QED BY <1>1, <1>2, <1>3, <2>1, RingStays
<1>5. IgnoredUse' BY HandlesUse
<1>6. SupplyShape' BY HandlesSupply
<1>7. QueueShape' BY HandlesQueue
<1> QED BY <1>4, <1>5, <1>6, <1>7

LEMMA IgnoredTake ==
  ASSUME Single, TypeOK, IgnoredInv, NEW c \in Consumers, TakeQueued(c)
  PROVE  TypeOK' /\ IgnoredInv'
<1> USE Const
<1>0. PICK l : Goto(c, l) /\ l \in {"fetch", "recvLoad"} BY DEF TakeQueued
<1>1. /\ pc[c] = "idle" /\ queuedMessages > 0 /\ queuedMessages' = queuedMessages - 1
      /\ UNCHANGED <<kind, msgVars, ends, slotSemaphore, locals, holders, hist>>
  BY DEF TakeQueued
<1>2. PcTyped' /\ pc'[c] = l /\ Alone(c)
  <2>1. l \in ConsumerPCs BY <1>0 DEF ConsumerPCs
  <2>2. PcTyped' /\ pc'[c] = l /\ \A u \in Threads \ {c} : pc'[u] = pc[u]
    BY <1>0, <2>1, PcMoves
  <2> QED BY <1>1, <2>2 DEF Alone, locals
<1>3. TypeOK'
  <2>1. FieldsTyped' BY <1>1, TypeParts DEF FieldsTyped, msgVars
  <2>2. LocalsTyped' BY <1>1, TypeParts DEF LocalsTyped, locals
  <2>3. EndsTyped' BY <1>1, TypeParts DEF EndsTyped, ends
  <2>4. HistoryTyped' BY <1>1, TypeParts DEF HistoryTyped, hist
  <2> QED BY <1>2, <2>1, <2>2, <2>3, <2>4, TypeNext
<1>d. \A d \in Consumers : d = c BY DEF Single
<1>e. /\ pc[c] \notin PendingPCs \cup HandPCs \cup CleanPCs \cup DyingPCs \cup TakePCs
      /\ l \notin PendingPCs \cup HandPCs \cup CleanPCs \cup DyingPCs
      /\ l \notin {"returnLink", "release"} /\ l \in TakePCs
  BY <1>0, <1>1 DEF PendingPCs, HandPCs, CleanPCs, DyingPCs, ReturnPCs, TakePCs
<1>4. Handles(c) BY <1>0, <1>1, <1>2 DEF Handles, msgVars, ends, hist, ReturnPCs
<1>5. CountsKept
  <2>1. Popping' = Popping BY <1>2, PoppingSame
  <2>2. Releasing' = Releasing BY <1>1, <1>2, <1>e, ReleasingSame
  <2> QED BY <1>1, <2>1, <2>2 DEF CountsKept
<1>6. queuedMessages' + Coming' + Taking' = queuedMessages + Coming + Taking
  <2>1. Taking = 0 /\ Taking' = 1 BY <1>2, <1>e, TakingOf
  <2>2. Coming' = Coming BY <1>2 DEF Coming, Alone
  <2> QED BY <1>1, <2>1, <2>2, CountsNat
<1>7. \A s : Oldest(s) => Oldest(s)' BY <1>1, <1>2, <1>e, OldestIs DEF ends
<1>8. Untouched' => Untouched BY <1>1, <1>d, <1>e DEF Untouched, msgVars, hist
<1>9. HandShape'
  <2>1. phase[previousReceived] = "answered" BY <1>e DEF IgnoredInv, HandShape
  <2>2. l \notin {"recvRead", "recvCas", "returnStore", "returnCas"} BY <1>0
  <2> QED BY <1>1, <1>2, <1>d, <1>e, <2>1, <2>2 DEF HandShape, ends, hist
<1>10. MarksShape'
  <2>1. phase' = phase /\ flags' = flags /\ previousReceived' = previousReceived
    BY <1>1 DEF msgVars, ends, hist
  <2>2. \A s : HadInHand(s) => HadInHand(s)' BY <1>d, <1>e, <2>1 DEF HadInHand
  <2>3. \A s \in Slots : MarkShape(s)'
    BY <1>d, <1>e, <2>1, <2>2, MarkStays DEF IgnoredInv, MarksShape
  <2> QED BY <2>1, <2>3 DEF IgnoredInv, MarksShape
<1>11. /\ UNCHANGED <<next, lastFreeSlot, fifo, previousReceived>> /\ phase' = phase
       /\ pc[c] # "returnLink" /\ pc'[c] # "returnLink"
  BY <1>1, <1>2, <1>e DEF msgVars, ends, hist
<1> QED BY <1>3, <1>4, <1>5, <1>6, <1>7, <1>8, <1>9, <1>10, <1>11, HandlesQuiet

LEMMA MarksQuiet ==
  ASSUME Single, MarksShape, NEW c \in Consumers, UNCHANGED <<phase, flags, previousReceived>>,
         pc[c] \in PendingPCs => pc'[c] \in PendingPCs /\ old'[c] = old[c],
         pc[c] \in DyingPCs => pc'[c] \in DyingPCs /\ old'[c] = old[c]
  PROVE  MarksShape'
<1>1. \A d \in Consumers : d = c BY DEF Single
<1>2. \A s : HadInHand(s) => HadInHand(s)' BY <1>1 DEF HadInHand
<1>3. \A s \in Slots : MarkShape(s)' BY <1>1, <1>2, MarkStays DEF MarksShape
<1> QED BY <1>3 DEF MarksShape

(* The consumer reads where the next message is. *)
LEMMA HandlesPeek ==
  ASSUME Single, TypeOK, TypeOK', IgnoredInv, NEW c \in Consumers, Alone(c), HandShape',
         UNCHANGED <<kind, msgVars, ends, counters, holders, hist>>,
         pc[c] \in TakePCs, pc'[c] \in TakePCs
  PROVE  IgnoredInv'
<1> USE Const
<1>d. \A d \in Consumers : d = c BY DEF Single
<1>e. \A l \in TakePCs : /\ l \notin PendingPCs \cup DyingPCs \cup ReturnPCs
                         /\ l \notin {"returnLink", "release", "wild", "setReady"}
  BY DEF PendingPCs, HandPCs, CleanPCs, DyingPCs, ReturnPCs, TakePCs
<1>4. Handles(c) BY <1>e DEF Handles, msgVars, ends, hist, ReturnPCs
<1>5. CountsKept
  <2>1. Popping' = Popping BY PoppingSame
  <2>2. Releasing' = Releasing BY <1>e, ReleasingSame
  <2> QED BY <2>1, <2>2 DEF CountsKept, counters
<1>6. queuedMessages' + Coming' + Taking' = queuedMessages + Coming + Taking
  BY CountsStay DEF counters
<1>7. \A s : Oldest(s) => Oldest(s)' BY <1>e, OldestIs DEF ends
<1>8. Untouched' => Untouched BY <1>d, <1>e DEF Untouched, msgVars, hist
<1>11. /\ UNCHANGED <<next, lastFreeSlot, fifo, previousReceived>> /\ phase' = phase
       /\ flags' = flags /\ pc[c] # "returnLink" /\ pc'[c] # "returnLink"
  BY <1>e DEF msgVars, ends, hist
<1>10. MarksShape' BY <1>11, <1>e, MarksQuiet DEF IgnoredInv
<1> QED BY <1>4, <1>5, <1>6, <1>7, <1>8, <1>10, <1>11, HandlesQuiet

LEMMA IgnoredRecvLoad ==
  ASSUME Single, TypeOK, IgnoredInv, NEW c \in Consumers, RecvLoad(c)
  PROVE  TypeOK' /\ IgnoredInv'
<1> USE Const
<1>1. /\ pc[c] = "recvLoad" /\ Goto(c, "recvRead") /\ reg' = [reg EXCEPT ![c] = previousReceived]
      /\ UNCHANGED <<kind, msgVars, ends, counters, msg, old, nxt, ret, holders, hist>>
  BY DEF RecvLoad
<1>2. PcTyped' /\ pc'[c] = "recvRead" /\ Alone(c)
  BY <1>1, PcMoves, TypeParts DEF ConsumerPCs, Alone, LocalsTyped
<1>3. TypeOK'
  <2>1. FieldsTyped' BY <1>1, TypeParts DEF FieldsTyped, msgVars
  <2>2. LocalsTyped' BY <1>1, TypeParts DEF EndsTyped, LocalsTyped
  <2>3. EndsTyped' BY <1>1, TypeParts DEF EndsTyped, ends, counters
  <2>4. HistoryTyped' BY <1>1, TypeParts DEF HistoryTyped, hist
  <2> QED BY <1>2, <2>1, <2>2, <2>3, <2>4, TypeNext
<1>4. HandShape'
  <2>1. \A d \in Consumers : d = c BY DEF Single
  <2>2. reg'[c] = previousReceived' BY <1>1, TypeParts DEF LocalsTyped, ends
  <2>3. phase'[previousReceived'] = "answered"
    BY <1>1 DEF IgnoredInv, HandShape, HandPCs, ReturnPCs, ends, hist
  <2> QED BY <1>2, <2>1, <2>2, <2>3
      DEF HandShape, HandPCs, ReturnPCs, PendingPCs, DyingPCs, CleanPCs
<1>5. pc[c] \in TakePCs /\ pc'[c] \in TakePCs BY <1>1, <1>2 DEF TakePCs
<1> QED BY <1>1, <1>2, <1>3, <1>4, <1>5, HandlesPeek

LEMMA IgnoredRecvRead ==
  ASSUME Single, TypeOK, IgnoredInv, NEW c \in Consumers, RecvRead(c)
  PROVE  TypeOK' /\ IgnoredInv'
<1> USE Const
<1>0. /\ pc[c] = "recvRead" /\ pc[c] \in TakePCs /\ reg[c] = previousReceived
      /\ next[previousReceived] \in Slots
  <2>1. pc[c] = "recvRead" /\ pc[c] \in TakePCs BY DEF RecvRead, TakePCs
  <2>2. QueueShape BY DEF IgnoredInv
  <2>3. next[previousReceived] \in Slots BY <2>1, <2>2, TakerFinds
  <2> QED BY <2>1, <2>3 DEF IgnoredInv, HandShape
<1>1. /\ Goto(c, "recvCas") /\ nxt' = [nxt EXCEPT ![c] = next[previousReceived]]
      /\ UNCHANGED <<kind, msgVars, ends, counters, msg, old, reg, ret, holders, hist>>
  BY <1>0 DEF RecvRead, Reach
<1>2. PcTyped' /\ pc'[c] = "recvCas" /\ Alone(c)
  BY <1>0, <1>1, PcMoves, TypeParts DEF ConsumerPCs, Alone, LocalsTyped
<1>3. TypeOK'
  <2>1. FieldsTyped' BY <1>1, TypeParts DEF FieldsTyped, msgVars
  <2>2. LocalsTyped' BY <1>0, <1>1, TypeParts DEF EndsTyped, LocalsTyped
  <2>3. EndsTyped' BY <1>1, TypeParts DEF EndsTyped, ends, counters
  <2>4. HistoryTyped' BY <1>1, TypeParts DEF HistoryTyped, hist
  <2> QED BY <1>2, <2>1, <2>2, <2>3, <2>4, TypeNext
<1>4. HandShape'
  <2>1. \A d \in Consumers : d = c BY DEF Single
  <2>2. reg'[c] = previousReceived' /\ nxt'[c] = next'[previousReceived']
    BY <1>0, <1>1, TypeParts DEF LocalsTyped, ends, msgVars
  <2>3. phase'[previousReceived'] = "answered"
    BY <1>0, <1>1 DEF IgnoredInv, HandShape, HandPCs, ReturnPCs, ends, hist
  <2> QED BY <1>2, <2>1, <2>2, <2>3
      DEF HandShape, HandPCs, ReturnPCs, PendingPCs, DyingPCs, CleanPCs
<1>5. pc[c] \in TakePCs /\ pc'[c] \in TakePCs BY <1>0, <1>2 DEF TakePCs
<1> QED BY <1>1, <1>2, <1>3, <1>4, <1>5, HandlesPeek

(* The oldest message is received, and the one before is let go of next.   *)
LEMMA HandlesReceive ==
  ASSUME Single, TypeOK, IgnoredInv, NEW c \in Consumers, pc[c] \in {"fetch", "recvCas"},
         NEW s \in Slots, s = previousReceived, NEW m \in Slots, m = next[s], Receive(c, s, m),
         reg' \in [Threads -> 0 .. N], nxt' \in [Threads -> 0 .. N], Alone(c),
         UNCHANGED <<kind, msgVars, nextFreeSlot, lastFreeSlot, lastQueuedSlot, counters, ret,
                     holders, answer>>
  PROVE  TypeOK' /\ IgnoredInv'
<1> USE Const
<1>d. \A d \in Consumers : d = c BY DEF Single
<1>0. pc[c] \in TakePCs /\ QueueShape BY DEF TakePCs, IgnoredInv
<1>1. /\ fifo # <<>> /\ fifo[1] = m /\ phase[m] = "queued"
  <2>1. fifo # <<>> /\ phase[fifo[1]] = "queued" /\ fifo[1] = next[previousReceived]
    BY <1>0, TakerFinds
  <2> QED BY <2>1
<1>2. /\ previousReceived' = m /\ msg' = [msg EXCEPT ![c] = m] /\ old' = [old EXCEPT ![c] = s]
      /\ fifo' = Rest(fifo) /\ phase' = [phase EXCEPT ![m] = "handling"] /\ Goto(c, "freeHold")
  BY DEF Receive, Become
<1>3. PcTyped' /\ pc'[c] = "freeHold" BY <1>2, PcMoves DEF ConsumerPCs
<1>4. /\ msg'[c] = m /\ old'[c] = s /\ phase'[m] = "handling"
      /\ \A x \in Slots : x # m => phase'[x] = phase[x]
  BY <1>2, TypeParts DEF LocalsTyped, HistoryTyped
<1>5. TypeOK'
  <2>1. FieldsTyped' BY TypeParts DEF FieldsTyped, msgVars
  <2>2. LocalsTyped' BY <1>2, TypeParts DEF LocalsTyped
  <2>3. EndsTyped' BY <1>2, TypeParts DEF EndsTyped, counters
  <2>4. HistoryTyped'
    <3>1. fifo \in Seq(Slots) BY TypeParts DEF HistoryTyped
    <3>2. fifo' \in Seq(Slots) BY <1>1, <1>2, <3>1 DEF Rest
    <3> QED BY <1>2, <3>2, TypeParts DEF HistoryTyped
  <2> QED BY <1>3, <2>1, <2>2, <2>3, <2>4, TypeNext
<1>6. phase[s] = "answered"
  BY DEF IgnoredInv, HandShape, HandPCs, ReturnPCs
<1>7. Handles(c) BY <1>1, <1>3, <1>4 DEF Handles, msgVars, ReturnPCs
<1>e. /\ pc[c] \notin PendingPCs \cup DyingPCs \cup {"returnLink", "release"}
      /\ pc'[c] \in PendingPCs /\ pc'[c] \notin DyingPCs \cup {"returnLink", "release"} \cup TakePCs
  BY <1>3 DEF PendingPCs, DyingPCs, TakePCs
<1>8. RingShape'
  <2>1. CountsKept
    <3>1. Popping' = Popping BY PoppingSame
    <3>2. Releasing' = Releasing BY <1>e, ReleasingSame
    <3> QED BY <3>1, <3>2 DEF CountsKept, counters
  <2>2. \A x : Oldest(x) => Oldest(x)' BY <1>e, <1>4, OldestIs
  <2>3. \A x : Newest(x) => Newest(x)' BY NewestSame
  <2>4. Untouched' => Untouched
    BY <1>4, <1>d, <1>e DEF Untouched, msgVars
  <2>5. \A x \in Slots : /\ phase'[x] = "free" <=> phase[x] = "free"
                         /\ phase[x] = "free" => next'[x] = next[x]
    BY <1>1, <1>4 DEF msgVars
  <2>6. \A d \in Consumers : pc'[d] # "returnLink" /\ pc[d] # "returnLink" BY <1>d, <1>e
  <2>7. UNCHANGED <<nextFreeSlot, lastFreeSlot>> /\ kind' = kind OBVIOUS
  <2> QED BY <1>5, <2>1, <2>2, <2>3, <2>4, <2>5, <2>6, <2>7, RingStays DEF IgnoredInv
<1>9. QueueShape'
  <2>1. Taking = 1 /\ Taking' = 0 BY <1>0, <1>e, TakingOf
  <2>2. Coming' = Coming BY DEF Coming, Alone
  <2>3. queuedMessages' + Coming' + Taking' + 1 = queuedMessages + Coming + Taking
    BY <2>1, <2>2, CountsNat DEF counters
  <2>4. queuedMessages' \in Nat /\ next' = next /\ UNCHANGED lastQueuedSlot
    BY CountsNat DEF counters, msgVars
  <2> QED BY <1>0, <1>1, <1>2, <2>3, <2>4, QueuePop
<1>10. HandShape'
  <2>1. next'[s] = m /\ s # m BY <1>1, <1>6 DEF msgVars
  <2>2. phase'[s] = "answered" BY <1>4, <1>6, <2>1
  <2> QED BY <1>2, <1>3, <1>4, <1>d, <2>1, <2>2 DEF HandShape, HandPCs, PendingPCs, DyingPCs,
          CleanPCs
<1>11. MarksShape'
  <2>1. \A x : HadInHand(x) => HadInHand(x)' BY <1>d, <1>e, <1>4 DEF HadInHand
  <2>2. ASSUME NEW x \in Slots PROVE MarkShape(x)'
    <3>1. MarkShape(x) BY DEF IgnoredInv, MarksShape
    <3>2. CASE x = m
      <4>1. {IGNORE, IN_USE} \subseteq flags'[m] BY <1>1, <3>1, <3>2 DEF MarkShape, msgVars
      <4> QED BY <1>4, <3>2, <4>1 DEF MarkShape
    <3>3. CASE x # m
      <4>1. phase'[x] = phase[x] /\ flags'[x] = flags[x] BY <1>4, <3>3 DEF msgVars
      <4> QED BY <1>d, <1>e, <2>1, <3>1, <4>1, MarkStays
    <3> QED BY <3>2, <3>3
  <2> QED BY <1>2, <1>4, <2>2 DEF MarksShape
<1>12. IgnoredUse' BY <1>7, HandlesUse DEF IgnoredInv
<1>13. SupplyShape' BY <1>7, HandlesSupply
<1> QED BY <1>5, <1>8, <1>9, <1>10, <1>11, <1>12, <1>13 DEF IgnoredInv

LEMMA IgnoredFetch ==
  ASSUME Single, TypeOK, IgnoredInv, NEW c \in Consumers, Fetch(c)
  PROVE  TypeOK' /\ IgnoredInv'
<1> USE Const
<1>0. pc[c] = "fetch" /\ pc[c] \in TakePCs /\ QueueShape BY DEF Fetch, TakePCs, IgnoredInv
<1>s. PICK s \in Slots : s = previousReceived BY TypeParts DEF EndsTyped
<1>m. PICK m \in Slots : m = next[s] BY <1>0, <1>s, TakerFinds
<1>1. /\ Receive(c, s, m)
      /\ UNCHANGED <<kind, msgVars, nextFreeSlot, lastFreeSlot, lastQueuedSlot, counters, reg,
                     nxt, ret, holders, answer>>
  BY <1>s, <1>m DEF Fetch
<1>2. Alone(c) BY <1>1, PcMoves, TypeParts DEF ConsumerPCs, Alone, LocalsTyped, Receive
<1>3. reg' \in [Threads -> 0 .. N] /\ nxt' \in [Threads -> 0 .. N]
  BY <1>1, TypeParts DEF LocalsTyped
<1>4. UNCHANGED <<kind, msgVars, nextFreeSlot, lastFreeSlot, lastQueuedSlot, counters, ret,
                  holders, answer>>
  BY <1>1
<1> QED BY <1>0, <1>1, <1>2, <1>3, <1>4, <1>s, <1>m, HandlesReceive

LEMMA IgnoredRecvCas ==
  ASSUME Single, TypeOK, IgnoredInv, NEW c \in Consumers, RecvCas(c)
  PROVE  TypeOK' /\ IgnoredInv'
<1> USE Const
<1>0. pc[c] = "recvCas" /\ pc[c] \in TakePCs /\ QueueShape BY DEF RecvCas, TakePCs, IgnoredInv
<1>s. PICK s \in Slots : s = previousReceived BY TypeParts DEF EndsTyped
<1>m. PICK m \in Slots : m = next[s] BY <1>0, <1>s, TakerFinds
<1>a. reg[c] = s /\ nxt[c] = m BY <1>0, <1>s, <1>m DEF IgnoredInv, HandShape
<1>1. /\ Receive(c, s, m) /\ reg' = [reg EXCEPT ![c] = Dummy] /\ nxt' = [nxt EXCEPT ![c] = Dummy]
      /\ UNCHANGED <<kind, msgVars, nextFreeSlot, lastFreeSlot, lastQueuedSlot, counters, ret,
                     holders, answer>>
  BY <1>s, <1>a DEF RecvCas, Forget
<1>2. Alone(c) BY <1>1, PcMoves, TypeParts DEF ConsumerPCs, Alone, LocalsTyped, Receive
<1>3. reg' \in [Threads -> 0 .. N] /\ nxt' \in [Threads -> 0 .. N]
  BY <1>1, TypeParts DEF LocalsTyped
<1>4. UNCHANGED <<kind, msgVars, nextFreeSlot, lastFreeSlot, lastQueuedSlot, counters, ret,
                  holders, answer>>
  BY <1>1
<1> QED BY <1>0, <1>1, <1>2, <1>3, <1>4, <1>s, <1>m, HandlesReceive

LEMMA IgnoredFreeHold ==
  ASSUME Single, TypeOK, IgnoredInv, NEW c \in Consumers, FreeHold(c)
  PROVE  TypeOK' /\ IgnoredInv'
<1> USE Const
<1>d. \A d \in Consumers : d = c BY DEF Single
<1>s. PICK s \in Slots : s = old[c] BY TypeParts DEF LocalsTyped
<1>0. pc[c] = "freeHold" /\ pc[c] \in PendingPCs /\ pc[c] \in HandPCs /\ pc[c] \notin DyingPCs
  BY DEF FreeHold, PendingPCs, HandPCs, DyingPCs
<1>1. /\ flags' = [flags EXCEPT ![s] = @ \ {IN_USE}]
      /\ UNCHANGED <<kind, next, isReady, openHandles, status, ends, counters, msg, reg, nxt,
                     holders, fifo, answer>>
  BY <1>s DEF FreeHold
<1>2. /\ phase[s] = "answered" /\ next[s] = previousReceived /\ msg[c] = previousReceived
      /\ phase[previousReceived] = "handling"
  BY <1>0, <1>s DEF IgnoredInv, HandShape
<1>3. {CONDEMNED, IN_USE} \subseteq flags[s] \/ (s = Dummy /\ flags[s] = {})
  <2>1. MarkShape(s) BY DEF IgnoredInv, MarksShape
  <2> QED BY <1>0, <1>2, <1>d, <2>1 DEF MarkShape
<1>4. flags'[s] = flags[s] \ {IN_USE} /\ \A x \in Slots : x # s => flags'[x] = flags[x]
  BY <1>1, TypeParts DEF FieldsTyped
<1>5. FieldsTyped' /\ EndsTyped'
  BY <1>1, TypeParts DEF FieldsTyped, EndsTyped, ends, counters
<1>6. CASE CONDEMNED \in flags[s]
  <2>1. /\ Goto(c, "cleanup") /\ ret' = [ret EXCEPT ![c] = "handle"] /\ UNCHANGED <<old, phase>>
    BY <1>6, <1>s DEF FreeHold, Unwanted, Destroy
  <2>2. PcTyped' /\ pc'[c] = "cleanup" /\ Alone(c)
    BY <1>1, <2>1, PcMoves, TypeParts DEF ConsumerPCs, ReturnPCs, Alone, LocalsTyped
  <2>3. TypeOK'
    <3>1. LocalsTyped' /\ HistoryTyped'
      BY <1>1, <2>1, TypeParts DEF LocalsTyped, HistoryTyped
    <3> QED BY <1>5, <2>2, <3>1, TypeNext
  <2>e. /\ pc'[c] \in PendingPCs /\ pc'[c] \in HandPCs /\ pc'[c] \in DyingPCs
        /\ pc'[c] \notin CleanPCs
    BY <2>2 DEF PendingPCs, HandPCs, DyingPCs, CleanPCs, ReturnPCs
  <2>4. Handles(c)
    <3>1. ret'[c] = "handle" BY <2>1, TypeParts DEF LocalsTyped
    <3> QED BY <1>1, <1>2, <1>4, <2>1, <2>2, <3>1 DEF Handles, ends
  <2>5. CountsKept
    <3>1. Popping' = Popping BY <2>2, PoppingSame
    <3>2. Releasing' = Releasing BY <1>0, <2>2, ReleasingSame
    <3> QED BY <1>1, <3>1, <3>2 DEF CountsKept, counters
  <2>6. queuedMessages' + Coming' + Taking' = queuedMessages + Coming + Taking
    BY <1>0, <1>1, <2>2, CountsStay DEF counters, TakePCs
  <2>7. \A x : Oldest(x) => Oldest(x)' BY <1>0, <2>1, <2>e, OldestIs
  <2>8. Untouched' => Untouched BY <2>e DEF Untouched
  <2>9. HandShape'
    BY <1>1, <1>2, <1>d, <1>s, <2>1, <2>2, <2>e DEF HandShape, ends
  <2>10. MarksShape'
    <3>1. \A x : HadInHand(x) => HadInHand(x)'
      BY <1>1, <1>0, <1>d, <2>1, <2>e DEF HadInHand, ends
    <3>2. ASSUME NEW x \in Slots PROVE MarkShape(x)'
      <4>1. MarkShape(x) BY DEF IgnoredInv, MarksShape
      <4>2. CASE x = s
        <5>1. HadInHand(s) BY <1>0, <1>s DEF HadInHand
        <5>2. HadInHand(s)' BY <3>1, <5>1
        <5>3. pc'[c] \in DyingPCs /\ old'[c] = s /\ phase'[s] = "answered"
          BY <1>2, <1>s, <2>1, <2>e
        <5> QED BY <4>2, <5>2, <5>3 DEF MarkShape
      <4>3. CASE x # s BY <1>0, <1>4, <1>d, <2>1, <3>1, <4>1, <4>3, MarkStays
      <4> QED BY <4>2, <4>3
    <3> QED BY <1>1, <1>2, <2>1, <3>2 DEF MarksShape, ends
  <2>11. /\ UNCHANGED <<next, lastFreeSlot, fifo, previousReceived>> /\ phase' = phase
         /\ pc[c] # "returnLink" /\ pc'[c] # "returnLink"
    BY <1>0, <1>1, <2>1, <2>2 DEF ends
  <2> QED BY <2>3, <2>4, <2>5, <2>6, <2>7, <2>8, <2>9, <2>10, <2>11, HandlesQuiet
<1>7. CASE CONDEMNED \notin flags[s]
  <2>0. s = Dummy /\ flags[s] = {} BY <1>3, <1>7
  <2>1. /\ Goto(c, "handle") /\ old' = [old EXCEPT ![c] = Dummy] /\ ret' = ret
        /\ phase' = [phase EXCEPT ![Dummy] = "free"]
    BY <1>s, <2>0 DEF FreeHold, Unwanted, Forget
  <2>2. PcTyped' /\ pc'[c] = "handle" /\ Alone(c)
    BY <1>1, <2>1, PcMoves, TypeParts DEF ConsumerPCs, ReturnPCs, Alone, LocalsTyped
  <2>3. TypeOK'
    <3>1. LocalsTyped' /\ HistoryTyped'
      BY <1>1, <2>1, TypeParts DEF LocalsTyped, HistoryTyped
    <3> QED BY <1>5, <2>2, <3>1, TypeNext
  <2>4. /\ phase'[Dummy] = "free" /\ \A x \in Slots : x # Dummy => phase'[x] = phase[x]
        /\ flags'[Dummy] = {}
    BY <1>4, <2>0, <2>1, TypeParts DEF HistoryTyped
  <2>e. /\ pc'[c] \notin PendingPCs /\ pc'[c] \in HandPCs /\ pc'[c] \notin DyingPCs
        /\ pc'[c] \notin CleanPCs
    BY <2>2 DEF PendingPCs, HandPCs, DyingPCs, CleanPCs, ReturnPCs
  <2>5. Handles(c) BY <1>1, <1>2, <1>4, <2>0, <2>2, <2>4 DEF Handles, ends, ReturnPCs
  <2>6. RingShape'
    <3>1. UNCHANGED <<kind, next, nextFreeSlot, lastFreeSlot, lastQueuedSlot, previousReceived,
                      slotSemaphore>>
      BY <1>1 DEF ends, counters
    <3>2. old[c] = Dummy /\ flags[Dummy] = {} BY <1>s, <2>0
    <3> QED BY <1>0, <2>1, <2>2, <3>1, <3>2, RingLetGo
  <2>7. QueueShape'
    <3>1. queuedMessages' + Coming' + Taking' = queuedMessages + Coming + Taking
      BY <1>0, <1>1, <2>2, CountsStay DEF counters, TakePCs
    <3>2. \A x \in Slots : phase'[x] = "queued" <=> phase[x] = "queued" BY <1>2, <2>0, <2>4
    <3> QED BY <1>1, <2>5, <3>1, <3>2, HandlesQueue DEF ends
  <2>8. previousReceived \in Slots /\ previousReceived # Dummy
        /\ phase'[previousReceived] = "handling" /\ previousReceived' = previousReceived
    BY <1>1, <1>2, <2>0, <2>4, TypeParts DEF EndsTyped, ends
  <2>9. HandShape' BY <1>1, <1>2, <1>d, <2>2, <2>e, <2>8 DEF HandShape
  <2>10. MarksShape'
    <3>1. ASSUME NEW x \in Slots PROVE MarkShape(x)'
      <4>1. MarkShape(x) BY DEF IgnoredInv, MarksShape
      <4>2. CASE x = Dummy BY <2>4, <4>2 DEF MarkShape
      <4>3. CASE x # Dummy
        <5>1. HadInHand(x) => HadInHand(x)' BY <1>d, <1>s, <2>0, <2>8, <4>3 DEF HadInHand
        <5> QED BY <1>0, <1>4, <1>d, <2>0, <2>4, <4>1, <4>3, <5>1, MarkStays
      <4> QED BY <4>2, <4>3
    <3> QED BY <2>8, <3>1 DEF MarksShape
  <2>11. IgnoredUse' BY <2>5, HandlesUse DEF IgnoredInv
  <2>12. SupplyShape' BY <2>5, HandlesSupply
  <2> QED BY <2>3, <2>6, <2>7, <2>9, <2>10, <2>11, <2>12 DEF IgnoredInv
<1> QED BY <1>6, <1>7

\* The message that the consumer has in hand is to be ignored, and in use.
LEMMA InHandMarked ==
  ASSUME TypeOK, IgnoredInv, NEW c \in Consumers, pc[c] = "handle"
  PROVE  /\ msg[c] = previousReceived /\ previousReceived \in Slots
         /\ phase[previousReceived] = "handling"
         /\ {IGNORE, IN_USE} \subseteq flags[previousReceived]
<1>1. previousReceived \in Slots BY TypeParts DEF EndsTyped
<1>2. msg[c] = previousReceived /\ phase[previousReceived] = "handling"
  BY DEF IgnoredInv, HandShape, HandPCs
<1>3. MarkShape(previousReceived) BY <1>1 DEF IgnoredInv, MarksShape
<1> QED BY <1>1, <1>2, <1>3 DEF MarkShape

LEMMA IgnoredReply ==
  ASSUME Single, TypeOK, IgnoredInv, NEW c \in Consumers, ReplyIgnored(c)
  PROVE  TypeOK' /\ IgnoredInv'
<1> USE Const
<1>d. \A d \in Consumers : d = c BY DEF Single
<1>0. pc[c] = "handle" /\ pc[c] \notin PendingPCs /\ pc[c] \notin DyingPCs
  BY DEF ReplyIgnored, PendingPCs, DyingPCs
<1>s. PICK s \in Slots : /\ s = msg[c] /\ s = previousReceived /\ phase[s] = "handling"
                         /\ {IGNORE, IN_USE} \subseteq flags[s]
  BY <1>0, InHandMarked
<1>1. /\ Goto(c, "idle") /\ flags' = [flags EXCEPT ![s] = @ \cup {CONDEMNED}]
      /\ old' = [old EXCEPT ![c] = Dummy] /\ phase' = [phase EXCEPT ![s] = "answered"]
      /\ msg' = [msg EXCEPT ![c] = Dummy]
      /\ UNCHANGED <<kind, next, isReady, openHandles, status, ends, counters, reg, nxt, ret,
                     holders, fifo, answer>>
  BY <1>s DEF ReplyIgnored, CondemnBy, InUse, Forget, Become
<1>2. PcTyped' /\ pc'[c] = "idle" /\ Alone(c)
  BY <1>1, PcMoves, TypeParts DEF ConsumerPCs, Alone, LocalsTyped
<1>3. TypeOK'
  <2>1. FieldsTyped' BY <1>1, TypeParts DEF FieldsTyped, AllFlags
  <2>2. LocalsTyped' BY <1>1, TypeParts DEF LocalsTyped
  <2>3. EndsTyped' BY <1>1, TypeParts DEF EndsTyped, ends, counters
  <2>4. HistoryTyped' BY <1>1, TypeParts DEF HistoryTyped
  <2> QED BY <1>2, <2>1, <2>2, <2>3, <2>4, TypeNext
<1>4. /\ phase'[s] = "answered" /\ \A x \in Slots : x # s => phase'[x] = phase[x]
      /\ {CONDEMNED, IN_USE} \subseteq flags'[s]
      /\ \A x \in Slots : x # s => flags'[x] = flags[x]
  BY <1>1, <1>s, TypeParts DEF HistoryTyped, FieldsTyped
<1>e. /\ pc'[c] \notin PendingPCs /\ pc'[c] \notin HandPCs /\ pc'[c] \notin DyingPCs
      /\ pc'[c] \notin CleanPCs /\ pc'[c] \notin ReturnPCs
  BY <1>2 DEF PendingPCs, HandPCs, DyingPCs, CleanPCs, ReturnPCs
<1>5. Handles(c) BY <1>1, <1>2, <1>4, <1>e, <1>s DEF Handles, ends
<1>6. CountsKept
  <2>1. Popping' = Popping BY <1>2, PoppingSame
  <2>2. Releasing' = Releasing BY <1>0, <1>2, ReleasingSame
  <2> QED BY <1>1, <2>1, <2>2 DEF CountsKept, counters
<1>7. queuedMessages' + Coming' + Taking' = queuedMessages + Coming + Taking
  BY <1>0, <1>1, <1>2, CountsStay DEF counters, TakePCs
<1>8. \A x : Oldest(x) => Oldest(x)' BY <1>0, <1>1, <1>e, OldestIs DEF ends
<1>9. Untouched' => Untouched
  <2>1. flags'[s] # {} BY <1>4
  <2> QED BY <1>0, <1>4, <1>d, <2>1 DEF Untouched
<1>10. HandShape'
  <2>1. phase'[previousReceived'] = "answered" BY <1>1, <1>4, <1>s DEF ends
  <2> QED BY <1>2, <1>d, <1>e, <2>1 DEF HandShape
<1>11. MarksShape'
  <2>0. previousReceived' = s BY <1>1, <1>s DEF ends
  <2>1. ASSUME NEW x \in Slots PROVE MarkShape(x)'
    <3>1. MarkShape(x) BY DEF IgnoredInv, MarksShape
    <3>2. CASE x = s BY <1>4, <2>0, <3>2 DEF MarkShape, HadInHand
    <3>3. CASE x # s
      <4>1. HadInHand(x) => HadInHand(x)' BY <1>0, <1>d, <1>s, <3>3 DEF HadInHand
      <4> QED BY <1>0, <1>4, <1>d, <3>1, <3>3, <4>1, MarkStays
    <3> QED BY <3>2, <3>3
  <2> QED BY <1>4, <2>0, <2>1 DEF MarksShape
<1>12. \A x \in Slots : /\ phase'[x] = "queued" <=> phase[x] = "queued"
                        /\ phase'[x] = "free" <=> phase[x] = "free"
  BY <1>4, <1>s
<1>13. /\ UNCHANGED <<next, lastFreeSlot, fifo, previousReceived>>
       /\ pc[c] # "returnLink" /\ pc'[c] # "returnLink"
  BY <1>0, <1>1, <1>2 DEF ends
<1> QED BY <1>3, <1>5, <1>6, <1>7, <1>8, <1>9, <1>10, <1>11, <1>12, <1>13, HandlesQuiet

\* Every message is ignored.
LEMMA NoStatus ==
  ASSUME TypeOK, IgnoredInv, NEW c \in Consumers
  PROVE  ~SetReady(c) /\ \A result : ~ReplyStatus(c, result)
<1>1. ~SetReady(c) BY DEF SetReady, IgnoredInv, IgnoredUse
<1>2. ASSUME NEW result, ReplyStatus(c, result) PROVE FALSE
  <2>1. pc[c] = "handle" /\ IGNORE \notin flags[msg[c]] BY <1>2 DEF ReplyStatus
  <2> QED BY <2>1, InHandMarked
<1> QED BY <1>1, <1>2

\* The consumer goes on with the message that it returns.
LEMMA HandlesDying ==
  ASSUME Single, TypeOK, TypeOK', IgnoredInv, NEW c \in Consumers, Alone(c),
         pc[c] \in {"cleanup", "return"}, pc'[c] \in {"return", "returnStore"},
         pc'[c] = "returnStore" => kind = "mpsc" /\ reg'[c] = lastFreeSlot,
         NEW s \in Slots, s = old[c], old'[c] = s, msg'[c] = msg[c], ret'[c] = ret[c],
         flags'[s] = {}, \A x \in Slots : x # s => flags'[x] = flags[x],
         UNCHANGED <<kind, next, ends, counters, holders, phase, fifo>>
  PROVE  IgnoredInv'
<1> USE Const
<1>d. \A d \in Consumers : d = c BY DEF Single
<1>e. /\ pc[c] \in PendingPCs /\ pc[c] \in HandPCs /\ pc[c] \in DyingPCs
      /\ pc[c] \in ReturnPCs
      /\ pc'[c] \in PendingPCs /\ pc'[c] \in HandPCs /\ pc'[c] \in DyingPCs
      /\ pc'[c] \notin {"wild", "setReady", "recvRead", "recvCas", "returnLink", "release"}
      /\ pc[c] \notin {"returnLink", "release"} \cup TakePCs /\ pc'[c] \notin TakePCs
  BY DEF PendingPCs, HandPCs, DyingPCs, ReturnPCs, TakePCs
<1>1. /\ phase[s] = "answered" /\ next[s] = previousReceived /\ msg[c] = previousReceived
      /\ phase[previousReceived] = "handling"
  BY <1>e DEF IgnoredInv, HandShape
<1>2. Handles(c)
  <2>1. ret[c] = "handle" BY <1>e DEF IgnoredInv, IgnoredUse
  <2>2. pc'[c] # "returnCas" OBVIOUS
  <2> QED BY <1>1, <1>e, <2>1, <2>2 DEF Handles, ends
<1>3. CountsKept
  <2>1. Popping' = Popping BY PoppingSame
  <2>2. Releasing' = Releasing BY <1>e, ReleasingSame
  <2> QED BY <2>1, <2>2 DEF CountsKept, counters
<1>4. queuedMessages' + Coming' + Taking' = queuedMessages + Coming + Taking
  BY <1>e, CountsStay DEF counters
<1>5. \A x : Oldest(x) => Oldest(x)' BY <1>e, OldestIs
<1>6. Untouched' => Untouched BY <1>e DEF Untouched
<1>7. HandShape'
  <2>1. previousReceived' = previousReceived /\ lastFreeSlot' = lastFreeSlot BY DEF ends
  <2>2. pc'[c] # "returnCas" OBVIOUS
  <2> QED BY <1>1, <1>d, <1>e, <2>1, <2>2 DEF HandShape
<1>8. MarksShape'
  <2>1. \A x : HadInHand(x) => HadInHand(x)' BY <1>e, <1>d DEF HadInHand, ends
  <2>2. ASSUME NEW x \in Slots PROVE MarkShape(x)'
    <3>1. MarkShape(x) BY DEF IgnoredInv, MarksShape
    <3>2. CASE x = s
      <4>1. HadInHand(s) BY <1>e DEF HadInHand
      <4>2. HadInHand(s)' BY <2>1, <4>1
      <4> QED BY <1>1, <1>e, <3>2, <4>2 DEF MarkShape
    <3>3. CASE x # s BY <1>d, <2>1, <3>1, <3>3, MarkStays
    <3> QED BY <3>2, <3>3
  <2> QED BY <1>1, <2>2 DEF MarksShape, ends
<1>9. UNCHANGED <<next, lastFreeSlot, fifo, previousReceived>> /\ phase' = phase BY DEF ends
<1> QED BY <1>2, <1>3, <1>4, <1>5, <1>6, <1>7, <1>8, <1>9, <1>e, HandlesQuiet

LEMMA IgnoredCleanup ==
  ASSUME Single, TypeOK, IgnoredInv, NEW c \in Consumers, Cleanup(c)
  PROVE  TypeOK' /\ IgnoredInv'
<1> USE Const
<1>s. PICK s \in Slots : s = old[c] BY TypeParts DEF LocalsTyped
<1>1. /\ pc[c] = "cleanup" /\ Goto(c, "return") /\ isReady' = [isReady EXCEPT ![s] = FALSE]
      /\ openHandles' = [openHandles EXCEPT ![s] = 1] /\ flags' = [flags EXCEPT ![s] = {}]
      /\ status' = IF FAST \in flags[s] THEN status ELSE [status EXCEPT ![s] = "NOT_SET"]
      /\ UNCHANGED <<kind, next, ends, counters, locals, holders, hist>>
  BY <1>s DEF Cleanup, NotReady, OneHandle
<1>2. PcTyped' /\ pc'[c] = "return" /\ Alone(c)
  BY <1>1, PcMoves, TypeParts DEF ConsumerPCs, ReturnPCs, Alone, locals
<1>3. TypeOK'
  <2>1. FieldsTyped'
    <3>1. status' \in [Slots -> Statuses]
      BY <1>1, TypeParts DEF FieldsTyped, Statuses
    <3> QED BY <1>1, <3>1, TypeParts DEF FieldsTyped
  <2>2. LocalsTyped' BY <1>1, TypeParts DEF LocalsTyped, locals
  <2>3. EndsTyped' BY <1>1, TypeParts DEF EndsTyped, ends, counters
  <2>4. HistoryTyped' BY <1>1, TypeParts DEF HistoryTyped, hist
  <2> QED BY <1>2, <2>1, <2>2, <2>3, <2>4, TypeNext
<1>4. flags'[s] = {} /\ \A x \in Slots : x # s => flags'[x] = flags[x]
  BY <1>1, TypeParts DEF FieldsTyped
<1>5. /\ old'[c] = s /\ msg'[c] = msg[c] /\ ret'[c] = ret[c]
      /\ UNCHANGED <<kind, next, ends, counters, holders, phase, fifo>>
  BY <1>1, <1>s DEF locals, hist
<1> QED BY <1>1, <1>2, <1>3, <1>4, <1>5, <1>s, HandlesDying

LEMMA IgnoredReturnLoad ==
  ASSUME Single, TypeOK, IgnoredInv, NEW c \in Consumers, ReturnLoad(c)
  PROVE  TypeOK' /\ IgnoredInv'
<1> USE Const
<1>s. PICK s \in Slots : s = old[c] BY TypeParts DEF LocalsTyped
<1>0. kind = "mpsc" BY DEF IgnoredInv, IgnoredUse, ReturnLoad, SingleProducer
<1>1. /\ pc[c] = "return" /\ Goto(c, "returnStore") /\ reg' = [reg EXCEPT ![c] = lastFreeSlot]
      /\ UNCHANGED <<kind, msgVars, ends, counters, msg, old, nxt, ret, holders, hist>>
  BY <1>0 DEF ReturnLoad, FreeEnd, AtEnd
<1>2. PcTyped' /\ pc'[c] = "returnStore" /\ Alone(c)
  BY <1>1, PcMoves, TypeParts DEF ConsumerPCs, ReturnPCs, Alone, LocalsTyped
<1>3. TypeOK'
  <2>1. FieldsTyped' BY <1>1, TypeParts DEF FieldsTyped, msgVars
  <2>2. LocalsTyped' BY <1>1, TypeParts DEF LocalsTyped, EndsTyped
  <2>3. EndsTyped' BY <1>1, TypeParts DEF EndsTyped, ends, counters
  <2>4. HistoryTyped' BY <1>1, TypeParts DEF HistoryTyped, hist
  <2> QED BY <1>2, <2>1, <2>2, <2>3, <2>4, TypeNext
<1>4. flags[s] = {} BY <1>1, <1>s DEF IgnoredInv, HandShape, CleanPCs
<1>5. /\ old'[c] = s /\ msg'[c] = msg[c] /\ ret'[c] = ret[c] /\ reg'[c] = lastFreeSlot
      /\ flags'[s] = {} /\ flags' = flags
      /\ UNCHANGED <<kind, next, ends, counters, holders, phase, fifo>>
  BY <1>1, <1>4, <1>s, TypeParts DEF msgVars, hist, LocalsTyped
<1> QED BY <1>0, <1>1, <1>2, <1>3, <1>5, <1>s, HandlesDying

(* The message is free, and the end of the free list. *)
LEMMA HandlesReturn ==
  ASSUME Single, TypeOK, IgnoredInv, NEW c \in Consumers, Alone(c),
         pc[c] \in {"return", "returnCas"}, Goto(c, "returnLink"),
         NEW s \in Slots, s = old[c], old'[c] = s, reg'[c] = lastFreeSlot, lastFreeSlot' = s,
         phase' = [phase EXCEPT ![s] = "free"], msg'[c] = msg[c], ret'[c] = ret[c],
         LocalsTyped',
         UNCHANGED <<kind, msgVars, nextFreeSlot, lastQueuedSlot, previousReceived, counters,
                     holders, fifo, answer>>
  PROVE  TypeOK' /\ IgnoredInv'
<1> USE Const
<1>d. \A d \in Consumers : d = c BY DEF Single
<1>0. PcTyped' /\ pc'[c] = "returnLink" BY PcMoves DEF ConsumerPCs, ReturnPCs
<1>e. /\ pc[c] \in PendingPCs /\ pc[c] \in HandPCs /\ pc[c] \in CleanPCs /\ pc[c] \in ReturnPCs
      /\ pc'[c] \notin PendingPCs /\ pc'[c] \in HandPCs /\ pc'[c] \notin DyingPCs
      /\ pc'[c] \notin CleanPCs /\ pc'[c] \notin TakePCs /\ pc[c] \notin TakePCs
  BY <1>0 DEF PendingPCs, HandPCs, DyingPCs, ReturnPCs, TakePCs, CleanPCs
<1>1. /\ phase[s] = "answered" /\ flags[s] = {} /\ msg[c] = previousReceived
      /\ phase[previousReceived] = "handling" /\ s # previousReceived
  BY <1>e DEF IgnoredInv, HandShape
<1>2. phase'[s] = "free" /\ \A x \in Slots : x # s => phase'[x] = phase[x]
  BY TypeParts DEF HistoryTyped
<1>3. TypeOK'
  <2>1. FieldsTyped' BY TypeParts DEF FieldsTyped, msgVars
  <2>3. EndsTyped' BY TypeParts DEF EndsTyped, counters
  <2>4. HistoryTyped' BY TypeParts DEF HistoryTyped
  <2> QED BY <1>0, <2>1, <2>3, <2>4, TypeNext
<1>4. Handles(c)
  <2>1. ret[c] = "handle" BY <1>e DEF IgnoredInv, IgnoredUse
  <2> QED BY <1>0, <1>1, <1>2, <2>1 DEF Handles, msgVars
<1>5. RingShape'
  <2>1. UNCHANGED <<kind, next, flags, nextFreeSlot, lastQueuedSlot, previousReceived,
                    slotSemaphore>>
    BY DEF msgVars, counters
  <2> QED BY <1>0, <2>1, RingReturn
<1>6. QueueShape'
  <2>1. queuedMessages' + Coming' + Taking' = queuedMessages + Coming + Taking
    BY <1>e, CountsStay DEF counters
  <2>2. \A x \in Slots : phase'[x] = "queued" <=> phase[x] = "queued" BY <1>1, <1>2
  <2>3. UNCHANGED <<fifo, previousReceived>> OBVIOUS
  <2> QED BY <1>4, <2>1, <2>2, <2>3, HandlesQueue
<1>7. previousReceived \in Slots /\ phase'[previousReceived] = "handling"
  BY <1>1, <1>2, TypeParts DEF EndsTyped
<1>8. HandShape' BY <1>0, <1>1, <1>7, <1>d, <1>e DEF HandShape
<1>9. MarksShape'
  <2>1. ASSUME NEW x \in Slots PROVE MarkShape(x)'
    <3>1. MarkShape(x) BY DEF IgnoredInv, MarksShape
    <3>2. CASE x = s BY <1>1, <1>2, <3>2 DEF MarkShape, msgVars
    <3>3. CASE x # s
      <4>1. HadInHand(x) => HadInHand(x)' BY <1>d, <3>3 DEF HadInHand
      <4>2. \A d \in Consumers : ~(old[d] = x) BY <1>d, <3>3
      <4>3. phase'[x] = phase[x] /\ flags'[x] = flags[x] BY <1>2, <3>3 DEF msgVars
      <4> QED BY <3>1, <4>1, <4>2, <4>3, MarkStays
    <3> QED BY <3>2, <3>3
  <2> QED BY <1>7, <2>1 DEF MarksShape
<1>10. IgnoredUse' BY <1>4, HandlesUse DEF IgnoredInv
<1>11. SupplyShape' BY <1>4, HandlesSupply
<1> QED BY <1>3, <1>5, <1>6, <1>8, <1>9, <1>10, <1>11 DEF IgnoredInv

LEMMA IgnoredReturnSwap ==
  ASSUME Single, TypeOK, IgnoredInv, NEW c \in Consumers, ReturnSwap(c)
  PROVE  TypeOK' /\ IgnoredInv'
<1> USE Const
<1>s. PICK s \in Slots : s = old[c] BY TypeParts DEF LocalsTyped
<1>1. /\ pc[c] = "return" /\ Goto(c, "returnLink") /\ reg' = [reg EXCEPT ![c] = lastFreeSlot]
      /\ lastFreeSlot' = s /\ phase' = [phase EXCEPT ![s] = "free"]
      /\ UNCHANGED <<kind, msgVars, nextFreeSlot, lastQueuedSlot, previousReceived, counters,
                     msg, old, nxt, ret, holders, fifo, answer>>
  BY <1>s DEF ReturnSwap, Become
<1>2. Alone(c) BY <1>1, PcMoves, TypeParts DEF ConsumerPCs, ReturnPCs, Alone, LocalsTyped
<1>3. LocalsTyped' /\ reg'[c] = lastFreeSlot
  BY <1>1, TypeParts DEF LocalsTyped, EndsTyped
<1>4. /\ old'[c] = s /\ msg'[c] = msg[c] /\ ret'[c] = ret[c]
      /\ UNCHANGED <<kind, msgVars, nextFreeSlot, lastQueuedSlot, previousReceived, counters,
                     holders, fifo, answer>>
  BY <1>1, <1>s
<1> QED BY <1>1, <1>2, <1>3, <1>4, <1>s, HandlesReturn

LEMMA IgnoredReturnCas ==
  ASSUME Single, TypeOK, IgnoredInv, NEW c \in Consumers, ReturnCas(c)
  PROVE  TypeOK' /\ IgnoredInv'
<1> USE Const
<1>s. PICK s \in Slots : s = old[c] BY TypeParts DEF LocalsTyped
<1>0. pc[c] = "returnCas" /\ kind = "mpsc" /\ reg[c] = lastFreeSlot
  <2>1. pc[c] = "returnCas" BY DEF ReturnCas
  <2> QED BY <2>1 DEF IgnoredInv, IgnoredUse, HandShape
<1>1. /\ Goto(c, "returnLink") /\ reg' = reg
      /\ lastFreeSlot' = s /\ phase' = [phase EXCEPT ![s] = "free"]
      /\ UNCHANGED <<kind, msgVars, nextFreeSlot, lastQueuedSlot, previousReceived, counters,
                     msg, old, nxt, ret, holders, fifo, answer>>
  BY <1>0, <1>s DEF ReturnCas, Become, FreeEnd, AtEnd
<1>2. Alone(c) BY <1>1, PcMoves, TypeParts DEF ConsumerPCs, ReturnPCs, Alone, LocalsTyped
<1>3. LocalsTyped' /\ reg'[c] = lastFreeSlot
  BY <1>0, <1>1, TypeParts DEF LocalsTyped, EndsTyped
<1>4. /\ old'[c] = s /\ msg'[c] = msg[c] /\ ret'[c] = ret[c]
      /\ UNCHANGED <<kind, msgVars, nextFreeSlot, lastQueuedSlot, previousReceived, counters,
                     holders, fifo, answer>>
  BY <1>1, <1>s
<1> QED BY <1>0, <1>1, <1>2, <1>3, <1>4, <1>s, HandlesReturn

(* A link of the free list is written. *)
LEMMA HandlesLink ==
  ASSUME Single, TypeOK, TypeOK', IgnoredInv, NEW c \in Consumers, Alone(c), RingShape',
         \/ pc[c] = "returnStore" /\ pc'[c] = "returnCas" /\ reg'[c] = reg[c]
         \/ pc[c] = "returnLink" /\ pc'[c] = "release",
         NEW x, NEW m, next' = [next EXCEPT ![x] = m], Harmless(x),
         \A p \in Producers : pc[p] = "popCas" => next'[nextFreeSlot] = next[nextFreeSlot],
         old'[c] = old[c], msg'[c] = msg[c], ret'[c] = ret[c],
         UNCHANGED <<kind, flags, ends, counters, holders, phase, fifo>>
  PROVE  IgnoredInv'
<1> USE Const
<1>d. \A d \in Consumers : d = c BY DEF Single
<1>e. /\ pc[c] \in HandPCs /\ pc'[c] \in HandPCs /\ pc[c] \in ReturnPCs
      /\ pc'[c] \in PendingPCs <=> pc[c] \in PendingPCs
      /\ pc'[c] \in DyingPCs <=> pc[c] \in DyingPCs
      /\ pc'[c] \in CleanPCs <=> pc[c] \in CleanPCs
      /\ pc[c] \notin TakePCs /\ pc'[c] \notin TakePCs
      /\ pc'[c] \notin {"wild", "setReady", "returnStore", "recvRead", "recvCas"}
  BY DEF PendingPCs, HandPCs, DyingPCs, ReturnPCs, TakePCs, CleanPCs
<1>0. \A y \in Slots : y # x => next'[y] = next[y] BY TypeParts DEF FieldsTyped
<1>1. phase[previousReceived] = "handling" /\ msg[c] = previousReceived
  BY <1>e DEF IgnoredInv, HandShape
<1>2. Handles(c)
  <2>1. ret[c] = "handle" BY <1>e DEF IgnoredInv, IgnoredUse
  <2>2. pc'[c] = "returnCas" => kind = "mpsc" BY DEF IgnoredInv, IgnoredUse
  <2>3. \A y \in Slots : next'[y] = next[y] \/ Harmless(y) BY <1>0
  <2> QED BY <1>e, <2>1, <2>2, <2>3 DEF Handles, ends
<1>3. QueueShape'
  <2>1. queuedMessages' + Coming' + Taking' = queuedMessages + Coming + Taking
    BY <1>e, CountsStay DEF counters
  <2>2. UNCHANGED <<fifo, previousReceived>> /\ phase' = phase BY DEF ends
  <2> QED BY <1>2, <2>1, <2>2, HandlesQueue
<1>4. HandShape'
  <2>1. ASSUME pc[c] \in PendingPCs
        PROVE  phase[old[c]] = "answered" /\ next'[old[c]] = previousReceived
    <3>1. phase[old[c]] = "answered" /\ next[old[c]] = previousReceived
      BY <2>1 DEF IgnoredInv, HandShape
    <3>2. QueueShape BY DEF IgnoredInv
    <3>3. lastQueuedSlot = previousReceived \/ phase[lastQueuedSlot] = "queued"
      BY <3>2, QueueEnd
    <3>4. old[c] # x BY <1>1, <3>1, <3>3 DEF Harmless
    <3>5. old[c] \in Slots BY TypeParts DEF LocalsTyped
    <3> QED BY <1>0, <3>1, <3>4, <3>5
  <2>2. /\ previousReceived' = previousReceived /\ lastFreeSlot' = lastFreeSlot
        /\ pc'[c] = "returnCas" => reg'[c] = lastFreeSlot
        /\ pc[c] \in CleanPCs => flags[old[c]] = {}
    BY DEF IgnoredInv, HandShape, ends
  <2> QED BY <1>1, <1>d, <1>e, <2>1, <2>2 DEF HandShape
<1>5. MarksShape'
  <2>1. UNCHANGED <<phase, flags, previousReceived>> BY DEF ends
  <2> QED BY <1>e, <2>1, MarksQuiet DEF IgnoredInv
<1>6. IgnoredUse' BY <1>2, HandlesUse DEF IgnoredInv
<1>7. SupplyShape' BY <1>2, HandlesSupply
<1> QED BY <1>3, <1>4, <1>5, <1>6, <1>7 DEF IgnoredInv

LEMMA IgnoredReturnStore ==
  ASSUME Single, TypeOK, IgnoredInv, NEW c \in Consumers, ReturnStore(c)
  PROVE  TypeOK' /\ IgnoredInv'
<1> USE Const
<1>m. PICK m \in Slots : m = old[c] BY TypeParts DEF LocalsTyped
<1>x. PICK x \in Slots : x = lastFreeSlot BY TypeParts DEF EndsTyped
<1>0. pc[c] = "returnStore" /\ kind = "mpsc" /\ reg[c] = x
  <2>1. pc[c] = "returnStore" BY DEF ReturnStore
  <2> QED BY <1>x, <2>1 DEF IgnoredInv, IgnoredUse, HandShape
<1>1. /\ Goto(c, "returnCas") /\ next' = [next EXCEPT ![x] = m]
      /\ UNCHANGED <<kind, flags, isReady, openHandles, status, ends, counters, locals,
                     holders, hist>>
  BY <1>0, <1>m DEF ReturnStore, AtEnd, Linked
<1>2. PcTyped' /\ pc'[c] = "returnCas" /\ Alone(c)
  BY <1>1, PcMoves, TypeParts DEF ConsumerPCs, ReturnPCs, Alone, locals
<1>3. TypeOK'
  <2>1. FieldsTyped' BY <1>1, TypeParts DEF FieldsTyped
  <2>2. LocalsTyped' BY <1>1, TypeParts DEF LocalsTyped, locals
  <2>3. EndsTyped' BY <1>1, TypeParts DEF EndsTyped, ends, counters
  <2>4. HistoryTyped' BY <1>1, TypeParts DEF HistoryTyped, hist
  <2> QED BY <1>2, <2>1, <2>2, <2>3, <2>4, TypeNext
<1>4. /\ old'[c] = old[c] /\ msg'[c] = msg[c] /\ ret'[c] = ret[c] /\ reg'[c] = reg[c]
      /\ UNCHANGED <<kind, flags, ends, counters, holders, phase, fifo>>
      /\ UNCHANGED <<kind, flags, nextFreeSlot, lastFreeSlot, lastQueuedSlot, previousReceived,
                     slotSemaphore, phase>>
  BY <1>1 DEF locals, hist, ends, counters
<1>5. /\ RingShape' /\ Harmless(x)
      /\ \A p \in Producers : pc[p] = "popCas" => next'[nextFreeSlot] = next[nextFreeSlot]
  BY <1>0, <1>1, <1>2, <1>4, <1>m, <1>x, RingStore
<1> QED BY <1>0, <1>1, <1>2, <1>3, <1>4, <1>5, HandlesLink

LEMMA IgnoredReturnLink ==
  ASSUME Single, TypeOK, IgnoredInv, NEW c \in Consumers, ReturnLink(c)
  PROVE  TypeOK' /\ IgnoredInv'
<1> USE Const
<1>m. PICK m \in Slots : m = old[c] BY TypeParts DEF LocalsTyped
<1>x. PICK x : x = reg[c] OBVIOUS
<1>1. /\ pc[c] = "returnLink" /\ Goto(c, "release") /\ next' = [next EXCEPT ![x] = m]
      /\ reg' = [reg EXCEPT ![c] = Dummy]
      /\ UNCHANGED <<kind, flags, isReady, openHandles, status, ends, counters, msg, old, nxt,
                     ret, holders, hist>>
  BY <1>m, <1>x DEF ReturnLink, Linked, Forget
<1>2. PcTyped' /\ pc'[c] = "release" /\ Alone(c)
  BY <1>1, PcMoves, TypeParts DEF ConsumerPCs, ReturnPCs, Alone, LocalsTyped
<1>3. TypeOK'
  <2>1. FieldsTyped' BY <1>1, TypeParts DEF FieldsTyped
  <2>2. LocalsTyped' BY <1>1, TypeParts DEF LocalsTyped
  <2>3. EndsTyped' BY <1>1, TypeParts DEF EndsTyped, ends, counters
  <2>4. HistoryTyped' BY <1>1, TypeParts DEF HistoryTyped, hist
  <2> QED BY <1>2, <2>1, <2>2, <2>3, <2>4, TypeNext
<1>4. /\ old'[c] = old[c] /\ msg'[c] = msg[c] /\ ret'[c] = ret[c]
      /\ UNCHANGED <<kind, flags, ends, counters, holders, phase, fifo>>
      /\ UNCHANGED <<kind, flags, nextFreeSlot, lastFreeSlot, lastQueuedSlot, previousReceived,
                     slotSemaphore, phase>>
  BY <1>1 DEF hist, ends, counters
<1>5. /\ RingShape' /\ Harmless(x)
      /\ \A p \in Producers : pc[p] = "popCas" => next'[nextFreeSlot] = next[nextFreeSlot]
  BY <1>1, <1>2, <1>4, <1>m, <1>x, RingClose
<1> QED BY <1>1, <1>2, <1>3, <1>4, <1>5, HandlesLink

LEMMA IgnoredRelease ==
  ASSUME Single, TypeOK, IgnoredInv, NEW c \in Consumers, Release(c)
  PROVE  TypeOK' /\ IgnoredInv'
<1> USE Const
<1>d. \A d \in Consumers : d = c BY DEF Single
<1>0. pc[c] = "release" /\ ret[c] = "handle"
  <2>1. pc[c] = "release" BY DEF Release
  <2> QED BY <2>1 DEF IgnoredInv, IgnoredUse, ReturnPCs
<1>1. /\ Goto(c, "handle") /\ slotSemaphore' = slotSemaphore + 1
      /\ old' = [old EXCEPT ![c] = Dummy] /\ ret' = [ret EXCEPT ![c] = "idle"]
      /\ UNCHANGED <<kind, msgVars, ends, queuedMessages, msg, reg, nxt, holders, hist>>
  BY <1>0 DEF Release, Forget
<1>2. PcTyped' /\ pc'[c] = "handle" /\ Alone(c)
  BY <1>1, PcMoves, TypeParts DEF ConsumerPCs, Alone, LocalsTyped
<1>3. TypeOK'
  <2>1. FieldsTyped' BY <1>1, TypeParts DEF FieldsTyped, msgVars
  <2>2. LocalsTyped' BY <1>1, TypeParts DEF LocalsTyped
  <2>3. EndsTyped' BY <1>1, TypeParts DEF EndsTyped, ends
  <2>4. HistoryTyped' BY <1>1, TypeParts DEF HistoryTyped, hist
  <2> QED BY <1>2, <2>1, <2>2, <2>3, <2>4, TypeNext
<1>e. /\ pc[c] \in HandPCs /\ pc'[c] \in HandPCs
      /\ pc[c] \notin PendingPCs \cup DyingPCs \cup TakePCs
      /\ pc'[c] \notin PendingPCs \cup DyingPCs \cup TakePCs \cup CleanPCs \cup ReturnPCs
  BY <1>0, <1>2 DEF PendingPCs, HandPCs, DyingPCs, ReturnPCs, TakePCs, CleanPCs
<1>4. Handles(c) BY <1>1, <1>2, <1>e DEF Handles, msgVars, ends, hist
<1>5. CountsKept
  <2>1. Popping' = Popping BY <1>2, PoppingSame
  <2>2. Cardinality(Releasing)' = Cardinality(Releasing) - 1 BY <1>0, <1>2, ReleasingDown
  <2> QED BY <1>1, <2>1, <2>2, CountsNat, CountsTyped DEF CountsKept
<1>6. queuedMessages' + Coming' + Taking' = queuedMessages + Coming + Taking
  BY <1>1, <1>2, <1>e, CountsStay
<1>7. \A x : Oldest(x) => Oldest(x)' BY <1>1, <1>e, OldestIs DEF ends
<1>8. Untouched' => Untouched BY <1>1, <1>d, <1>e DEF Untouched, msgVars, hist
<1>9. HandShape'
  <2>1. msg'[c] = previousReceived' /\ phase'[previousReceived'] = "handling"
    BY <1>1, <1>e DEF IgnoredInv, HandShape, ends, hist
  <2> QED BY <1>2, <1>d, <1>e, <2>1 DEF HandShape
<1>10. UNCHANGED <<phase, flags, next, lastFreeSlot, fifo, previousReceived>>
  BY <1>1 DEF msgVars, ends, hist
<1>11. MarksShape' BY <1>10, <1>e, MarksQuiet DEF IgnoredInv
<1>12. /\ UNCHANGED <<next, lastFreeSlot, fifo, previousReceived>> /\ phase' = phase
       /\ pc[c] # "returnLink" /\ pc'[c] # "returnLink"
  BY <1>0, <1>2, <1>10
<1> QED BY <1>3, <1>4, <1>5, <1>6, <1>7, <1>8, <1>9, <1>11, <1>12, HandlesQuiet
----------------------------------------------------------------------------
LEMMA IgnoredProducerStep ==
  ASSUME Ignoring, TypeOK, IgnoredInv, NEW p \in Producers, Produce(p)
  PROVE  TypeOK' /\ IgnoredInv'
<1>0. Single /\ \A f \in SendFlags : IGNORE \in f BY DEF Ignoring
<1>1. CASE AcquireSlot(p) BY <1>0, <1>1, IgnoredAcquire
<1>2. CASE PopSingle(p) BY <1>0, <1>2, IgnoredPopSingle
<1>3. CASE LoadFree(p) BY <1>0, <1>3, IgnoredLoadFree
<1>4. CASE PopRead(p) BY <1>0, <1>4, IgnoredPopRead
<1>5. CASE PopCas(p) BY <1>0, <1>5, IgnoredPopCas
<1>6. ASSUME NEW f \in SendFlags, SendSingle(p, f) PROVE TypeOK' /\ IgnoredInv'
  BY <1>0, <1>6, IgnoredSendSingle
<1>7. ASSUME NEW f \in SendFlags, SendLoad(p, f) PROVE TypeOK' /\ IgnoredInv'
  BY <1>0, <1>7, IgnoredSendLoad
<1>8. CASE SendLink(p) BY <1>0, <1>8, IgnoredSendLink
<1>9. CASE SendCas(p) BY <1>0, <1>9, IgnoredSendCas
<1>10. CASE Count(p) BY <1>0, <1>10, IgnoredCount
<1> QED BY <1>1, <1>2, <1>3, <1>4, <1>5, <1>6, <1>7, <1>8, <1>9, <1>10 DEF Produce

LEMMA IgnoredConsumerStep ==
  ASSUME Ignoring, TypeOK, IgnoredInv, NEW c \in Consumers, Consume(c)
  PROVE  TypeOK' /\ IgnoredInv'
<1>0. Single BY DEF Ignoring
<1>1. CASE TakeQueued(c) BY <1>0, <1>1, IgnoredTake
<1>2. CASE Fetch(c) BY <1>0, <1>2, IgnoredFetch
<1>3. CASE RecvLoad(c) BY <1>0, <1>3, IgnoredRecvLoad
<1>4. CASE RecvRead(c) BY <1>0, <1>4, IgnoredRecvRead
<1>5. CASE RecvCas(c) BY <1>0, <1>5, IgnoredRecvCas
<1>6. CASE FreeHold(c) BY <1>0, <1>6, IgnoredFreeHold
<1>7. CASE ReplyIgnored(c) BY <1>0, <1>7, IgnoredReply
<1>8. CASE Return(c)
  <2>1. CASE Cleanup(c) BY <1>0, <2>1, IgnoredCleanup
  <2>2. CASE ReturnSwap(c) BY <1>0, <2>2, IgnoredReturnSwap
  <2>3. CASE ReturnLoad(c) BY <1>0, <2>3, IgnoredReturnLoad
  <2>4. CASE ReturnStore(c) BY <1>0, <2>4, IgnoredReturnStore
  <2>5. CASE ReturnCas(c) BY <1>0, <2>5, IgnoredReturnCas
  <2>6. CASE ReturnLink(c) BY <1>0, <2>6, IgnoredReturnLink
  <2>7. CASE Release(c) BY <1>0, <2>7, IgnoredRelease
  <2> QED BY <1>8, <2>1, <2>2, <2>3, <2>4, <2>5, <2>6, <2>7 DEF Return
<1>9. ~SetReady(c) /\ \A result \in Results : ~ReplyStatus(c, result) BY NoStatus
<1> QED BY <1>1, <1>2, <1>3, <1>4, <1>5, <1>6, <1>7, <1>8, <1>9 DEF Consume

\* Nobody has a signal.
LEMMA NoWaiter ==
  ASSUME TypeOK, IgnoredInv, NEW w \in Waiters
  PROVE  ~Await(w) /\ ~Finish(w)
<1>1. pc[w] = "idle" /\ \A s \in Slots : holders[s] = 0 BY DEF IgnoredInv, IgnoredUse
<1>2. \A s \in Slots : ~(holders[s] > 0) /\ holders[s] \notin 1 .. MaxHandles - 1
  BY <1>1, HandleAssumption
<1>3. ~Await(w) BY <1>2 DEF Await, Copy, WaitReady, Discard, UseHandle
<1>4. ~Finish(w)
  BY <1>1 DEF Finish, Collect, DropHandle, Condemn, Return, Cleanup, ReturnSwap, ReturnLoad,
              ReturnStore, ReturnCas, ReturnLink, Release
<1> QED BY <1>3, <1>4

LEMMA IgnoredIdle ==
  ASSUME TypeOK, IgnoredInv, UNCHANGED vars
  PROVE  TypeOK' /\ IgnoredInv'
<1> USE DEF vars, msgVars, ends, counters, locals, hist
<1>1. TypeOK' BY DEF TypeOK
<1>2. Popping' = Popping /\ Releasing' = Releasing /\ Coming' = Coming /\ Taking' = Taking
  BY DEF Popping, Releasing, Coming, Taking
<1>3. IgnoredUse' BY DEF IgnoredInv, IgnoredUse
<1>4. QueueShape' BY <1>2, QueueStays DEF IgnoredInv
<1>5. HandShape' /\ SupplyShape' BY DEF IgnoredInv, HandShape, SupplyShape
<1>6. MarksShape' BY DEF IgnoredInv, MarksShape, MarkShape, HadInHand
<1>7. RingShape'
  <2>1. \A s : (Oldest(s)' <=> Oldest(s)) /\ (Newest(s)' <=> Newest(s)) BY DEF Oldest, Newest
  <2>2. CountsKept BY <1>2 DEF CountsKept
  <2>3. Untouched' <=> Untouched BY DEF Untouched
  <2>4. IgnoredUse /\ RingShape BY DEF IgnoredInv
  <2>5. UNCHANGED <<nextFreeSlot, lastFreeSlot>> /\ next' = next /\ phase' = phase
        /\ kind' = kind /\ pc' = pc /\ old' = old /\ reg' = reg
    OBVIOUS
  <2> QED BY <1>1, <2>1, <2>2, <2>3, <2>4, <2>5, RingStays
<1> QED BY <1>1, <1>3, <1>4, <1>5, <1>6, <1>7 DEF IgnoredInv

LEMMA IgnoredStep ==
  ASSUME Ignoring, TypeOK, IgnoredInv, [Next]_vars
  PROVE  TypeOK' /\ IgnoredInv'
<1>1. CASE UNCHANGED vars BY <1>1, IgnoredIdle
<1>2. ASSUME NEW p \in Producers, Produce(p) PROVE TypeOK' /\ IgnoredInv'
  BY <1>2, IgnoredProducerStep
<1>3. ASSUME NEW c \in Consumers, Consume(c) PROVE TypeOK' /\ IgnoredInv'
  BY <1>3, IgnoredConsumerStep
<1>4. \A w \in Waiters : ~Await(w) /\ ~Finish(w) BY NoWaiter
<1> QED BY <1>1, <1>2, <1>3, <1>4 DEF Next

LEMMA IgnoredStarts == ASSUME Ignoring, Init PROVE TypeOK /\ IgnoredInv
<1> USE Const
<1>1. /\ kind \in {"spsc", "spmc", "mpsc"} /\ slotSemaphore = Permits(kind)
      /\ Permits(kind) \in {N - 1, N - 2}
  BY KindAssumption DEF Init, Ignoring, AllKinds, Permits
<1>2. TypeOK
  <2>1. FieldsTyped
    <3>1. \A s \in Slots : s + 1 \in 0 .. N BY DEF Slots
    <3> QED BY <3>1 DEF Init, FieldsTyped, Statuses
  <2>2. EndsTyped
    <3>1. 0 \in 0 .. N /\ N - 2 \in Slots /\ N - 1 \in Nat /\ N - 2 \in Nat BY DEF Slots
    <3> QED BY <1>1, <3>1 DEF Init, EndsTyped
  <2>3. PcTyped BY DEF Init, PcTyped, AllPCs, ProducerPCs, ConsumerPCs, WaiterPCs
  <2>4. LocalsTyped /\ HistoryTyped BY DEF Init, LocalsTyped, HistoryTyped, Statuses
  <2> QED BY <2>1, <2>2, <2>3, <2>4, TypeParts
<1>3. /\ \A t \in Threads : pc[t] = "idle" /\ ret[t] = "idle"
      /\ \A s \in Slots : /\ flags[s] = {} /\ next[s] = s + 1 /\ holders[s] = 0
                          /\ phase[s] = IF s = Dummy THEN "answered" ELSE "free"
      /\ fifo = <<>> /\ queuedMessages = 0 /\ previousReceived = Dummy
      /\ lastQueuedSlot = Dummy /\ nextFreeSlot = 0 /\ lastFreeSlot = N - 2
  BY DEF Init
<1>4. IgnoredUse BY <1>1, <1>3 DEF IgnoredUse, ReturnPCs
<1>5. \A c \in Consumers : pc[c] \notin PendingPCs \cup HandPCs \cup CleanPCs \cup DyingPCs
  BY <1>3 DEF PendingPCs, HandPCs, CleanPCs, DyingPCs, ReturnPCs
<1>6. RingShape
  <2> DEFINE q == [i \in 1 .. N - 1 |-> i - 1]
  <2>1. q \in Seq(Slots) /\ Len(q) = N - 1
    <3>1. N - 1 \in Nat /\ \A i \in 1 .. N - 1 : i - 1 \in Slots BY DEF Slots
    <3> QED BY <3>1
  <2>2. \A i \in 1 .. N - 1 : q[i] = i - 1 /\ q[i] \in Slots /\ q[i] # Dummy
    BY DEF Slots, Dummy
  <2>3. InUseCount = N - 1
    <3>1. Popping = {} /\ Releasing = {} BY <1>3 DEF Popping, Releasing, PopPCs
    <3>2. Cardinality(Popping) = 0 /\ Cardinality(Releasing) = 0 BY <3>1, FS_EmptySet
    <3>3. Permits(kind) \in Nat /\ Permits(kind) + 0 + 0 + (N - 1 - Permits(kind)) = N - 1
      BY <1>1
    <3> QED BY <1>1, <3>2, <3>3 DEF InUseCount, Base
  <2> HIDE DEF q
  <2>4. \A i, j \in 1 .. Len(q) : q[i] = q[j] => i = j BY <2>1, <2>2
  <2>5. \A i \in 1 .. Len(q) : phase[q[i]] = "free" BY <1>3, <2>1, <2>2
  <2>6. ASSUME NEW s \in Slots, s # Dummy PROVE \E i \in 1 .. Len(q) : q[i] = s
    <3>1. s + 1 \in 1 .. N - 1 /\ (s + 1) - 1 = s BY <2>6 DEF Slots, Dummy
    <3> QED BY <2>1, <2>2, <3>1
  <2>7. Follows(q, 0, nextFreeSlot)
    <3>1. 1 \in 1 .. N - 1 /\ 0 < Len(q) /\ 0 + 1 = 1 BY <2>1
    <3> QED BY <1>3, <2>2, <3>1 DEF Follows
  <2>8. ASSUME NEW i \in 1 .. Len(q) PROVE Follows(q, i, next[q[i]])
    <3>1. next[q[i]] = i BY <1>3, <2>1, <2>2
    <3>2. CASE i < Len(q)
      <4>1. i + 1 \in 1 .. N - 1 /\ (i + 1) - 1 = i BY <2>1, <3>2
      <4>2. q[i + 1] = i BY <2>2, <4>1
      <4> QED BY <3>1, <3>2, <4>2 DEF Follows
    <3>3. CASE ~(i < Len(q))
      <4>1. i = Dummy BY <2>1, <3>3 DEF Dummy
      <4>2. Oldest(Dummy) BY <1>3, <1>5 DEF Oldest
      <4> QED BY <3>1, <3>3, <4>1, <4>2 DEF Follows
    <3> QED BY <3>2, <3>3
  <2>9. Ring(q, 0)
    <3>1. Len(q) = InUseCount + 0 BY <2>1, <2>3
    <3>2. \A s \in Slots : phase[s] = "free" => \E i \in 1 .. Len(q) : q[i] = s BY <1>3, <2>6
    <3> QED BY <2>1, <2>4, <2>5, <2>7, <2>8, <3>1, <3>2 DEF Ring
  <2>10. RingEnd(q, 0)
    <3>1. Len(q) # 0 /\ Len(q) \in 1 .. N - 1 /\ (N - 1) - 1 = N - 2 BY <2>1
    <3>2. lastFreeSlot = q[Len(q)] BY <1>3, <2>1, <2>2, <3>1
    <3>3. Before(q, Len(q), lastFreeSlot) BY <3>1, <3>2 DEF Before
    <3>4. EndOf(q, Len(q), lastFreeSlot, 0) BY <3>3 DEF EndOf
    <3>5. \A c \in Consumers : pc[c] # "returnLink" BY <1>3
    <3> QED BY <3>4, <3>5 DEF RingEnd
  <2> QED BY <2>9, <2>10 DEF RingShape
<1>7. QueueShape
  <2>1. Coming = 0 /\ Taking = 0 BY <1>3 DEF Coming, Taking, TakePCs
  <2>2. Len(fifo) = 0 /\ ChainAt(Len(fifo)) = Dummy BY <1>3 DEF ChainAt
  <2>3. \A s \in Slots : phase[s] # "queued" BY <1>3
  <2> QED BY <1>3, <2>1, <2>2, <2>3 DEF QueueShape
<1>8. HandShape BY <1>3, <1>5 DEF HandShape
<1>9. SupplyShape BY <1>3 DEF SupplyShape, SendPCs
<1>10. MarksShape
  <2>1. \A s \in Slots : MarkShape(s) BY <1>3 DEF MarkShape, HadInHand
  <2> QED BY <1>3, <2>1 DEF MarksShape
<1> QED BY <1>2, <1>4, <1>6, <1>7, <1>8, <1>9, <1>10 DEF IgnoredInv

LEMMA IgnoredAlways == ASSUME Ignoring PROVE Spec => [](TypeOK /\ IgnoredInv)
<1>1. Init => TypeOK /\ IgnoredInv BY IgnoredStarts
<1>2. TypeOK /\ IgnoredInv /\ [Next]_vars => (TypeOK /\ IgnoredInv)' BY IgnoredStep
<1> QED BY <1>1, <1>2, PTL DEF Spec

----------------------------------------------------------------------------
\* The ring is the free slots, but for the constructor's that is not in it.
LEMMA RingSize ==
  ASSUME TypeOK, NEW q, NEW extra, Ring(q, extra), extra \in {0, 1}
  PROVE  \E unlinked \in {0, 1 - extra} : Cardinality(Free) = Len(q) + unlinked
<1> DEFINE S == {s \in Slots : \E i \in 1 .. Len(q) : q[i] = s}
<1>1. q \in Seq(Slots) /\ Len(q) \in Nat /\ \A i \in 1 .. Len(q) : q[i] \in Slots
  BY DEF Ring
<1>2. \A i \in 1 .. Len(q) : q[i] \in S BY <1>1
<1>3. \A x \in S : \E i \in 1 .. Len(q) : q[i] = x OBVIOUS
<1>4. S \subseteq Free /\ \A s \in Free : s \in S \/ (s = Dummy /\ extra = 0)
  BY DEF Ring, Free
<1> HIDE DEF S
<1> DEFINE f == [i \in 1 .. Len(q) |-> q[i]]
<1>5. f \in [1 .. Len(q) -> S] BY <1>2
<1>6. \A i, j \in 1 .. Len(q) : f[i] = f[j] => i = j BY DEF Ring
<1>7. \A x \in S : \E i \in 1 .. Len(q) : f[i] = x BY <1>3
<1>8. DOMAIN f = 1 .. Len(q) OBVIOUS
<1> HIDE DEF f
<1>9. f \in Bijection(1 .. Len(q), S)
  BY <1>5, <1>6, <1>7, <1>8 DEF Bijection, Injection, Surjection, IsInjective
<1>10. ExistsBijection(1 .. Len(q), S) BY <1>9 DEF ExistsBijection
<1>11. Cardinality(S) = Len(q) BY <1>1, <1>10, FS_CountingElements
<1>12. IsFiniteSet(S) BY <1>1, <1>10, FS_NatBijection
<1>13. CASE Free = S
  <2>1. Cardinality(Free) = Len(q) + 0 BY <1>1, <1>11, <1>13
  <2> QED BY <2>1
<1>14. CASE Free # S
  <2>1. Free = S \cup {Dummy} /\ Dummy \notin S /\ extra = 0 BY <1>4, <1>14
  <2>2. Cardinality(S \cup {Dummy}) = Cardinality(S) + 1 BY <1>12, <2>1, FS_AddElement
  <2>3. Cardinality(Free) = Len(q) + (1 - extra) BY <1>11, <2>1, <2>2
  <2> QED BY <2>3
<1> QED BY <1>13, <1>14

(* As long as every result is ignored, so that only the consumer returns   *)
(* messages, the other three kinds keep every variable in its type too: no *)
(* thread follows a link out of the slots.                                 *)
THEOREM IgnoredTypeCorrect == ASSUME Ignoring PROVE Spec => []TypeOK
BY IgnoredAlways, PTL

\* The free slots are as many as the permits and what the constructor keeps.
LEMMA IgnoredFree ==
  ASSUME TypeOK, IgnoredInv
  PROVE  \E spare \in N - 1 - Permits(kind) .. N - Permits(kind) :
           Cardinality(Free) = slotSemaphore + Cardinality(Popping)
                                 + Cardinality(Releasing) + spare
<1> USE Const
<1>1. PICK q, extra : Ring(q, extra) /\ extra \in {0, 1} BY DEF IgnoredInv, RingShape
<1>2. PICK unlinked \in {0, 1 - extra} : Cardinality(Free) = Len(q) + unlinked
  BY <1>1, RingSize
<1>3. PICK a, b, c : /\ a = slotSemaphore /\ b = Cardinality(Popping)
                     /\ c = Cardinality(Releasing)
                     /\ a \in Nat /\ b \in Nat /\ c \in Nat
  BY CountsNat, CountsTyped
<1>4. PICK d \in {0, 1} : d = Base BY BaseIs DEF IgnoredInv
<1>5. Len(q) = a + b + c + d + extra BY <1>1, <1>3, <1>4 DEF Ring, InUseCount
<1>6. PICK spare : spare = d + extra + unlinked OBVIOUS
<1>7. spare \in d .. d + 1
  <2>1. CASE extra = 0 BY <1>2, <1>6, <2>1
  <2>2. CASE extra = 1 BY <1>2, <1>6, <2>2
  <2> QED BY <1>1, <2>1, <2>2
<1>8. N - 1 - Permits(kind) = d /\ N - Permits(kind) = d + 1
  <2>1. Permits(kind) \in {N - 1, N - 2} BY DEF IgnoredInv, IgnoredUse, Permits
  <2> QED BY <1>4, <2>1 DEF Base
<1>9. Cardinality(Free) = a + b + c + spare
  <2>1. extra \in Nat /\ unlinked \in Int /\ d \in Nat BY <1>1
  <2>2. (a + b + c + d + extra) + unlinked = a + b + c + (d + extra + unlinked)
    BY <1>3, <2>1
  <2>3. Cardinality(Free) = Len(q) + unlinked BY <1>2
  <2> QED BY <1>5, <1>6, <2>2, <2>3
<1> QED BY <1>3, <1>7, <1>8, <1>9

(* Nobody keeps a message: the consumer returns it after free_hold.        *)
LEMMA IgnoredAnswered ==
  ASSUME Single, TypeOK, IgnoredInv, NEW s \in Slots, phase[s] = "answered"
  PROVE  IF Kept(s) \/ Held(s) THEN Returners(s) = {}
         ELSE \E t \in Threads : Returners(s) = {t}
<1> USE Const DEF IgnoredInv
<1>1. ~Kept(s) BY DEF IgnoredUse, Kept
<1>2. ASSUME NEW t \in Threads, pc[t] \in DyingPCs PROVE t \in Consumers
  <2>1. pc[t] \in ReturnPCs BY <1>2 DEF DyingPCs, ReturnPCs
  <2> QED BY <1>2, <2>1, Returner DEF IgnoredUse, DyingPCs
<1>3. Returners(s) = {c \in Consumers : old[c] = s /\ pc[c] \in DyingPCs}
  BY <1>2 DEF Returners, DyingPCs
<1>4. Held(s) => Returners(s) = {}
  <2>1. ASSUME s = previousReceived, NEW c \in Consumers, pc[c] \in DyingPCs PROVE FALSE
    <3>1. pc[c] \in HandPCs BY <2>1 DEF HandPCs, DyingPCs, ReturnPCs
    <3> QED BY <2>1, <3>1 DEF HandShape
  <2>2. ASSUME NEW c \in Consumers, pc[c] = "freeHold", NEW d \in Consumers, pc[d] \in DyingPCs
        PROVE  FALSE
    <3>1. c = d BY DEF Single
    <3> QED BY <2>2, <3>1 DEF DyingPCs
  <2> QED BY <1>3, <2>1, <2>2 DEF Held
<1>5. ~Held(s) => \E t \in Threads : Returners(s) = {t}
  <2> SUFFICES ASSUME ~Held(s) PROVE \E c \in Consumers : Returners(s) = {c}
    OBVIOUS
  <2>1. HadInHand(s) BY DEF MarksShape, MarkShape
  <2>2. PICK c \in Consumers : pc[c] \in DyingPCs /\ old[c] = s
    BY <2>1 DEF HadInHand, Held, PendingPCs
  <2>3. \A d \in Consumers : d = c BY DEF Single
  <2>4. Returners(s) = {c} BY <1>3, <2>2, <2>3
  <2> QED BY <2>4
<1> QED BY <1>1, <1>4, <1>5

LEMMA IgnoredPlaced ==
  ASSUME Ignoring PROVE Spec => [](TypeOK /\ IgnoredInv /\ Placed)
<1>1. Init => TypeOK /\ IgnoredInv /\ Placed BY IgnoredStarts, PlacedStarts
<1>2. TypeOK /\ IgnoredInv /\ Placed /\ [Next]_vars => (TypeOK /\ IgnoredInv /\ Placed)'
  BY IgnoredStep, PlacedStep
<1> QED BY <1>1, <1>2, PTL DEF Spec

(* spsc, spmc and mpsc, results ignored: no slot is lost and none returned *)
(* twice.  spmc and mpsc keep one free slot back, and once the             *)
(* constructor's message has been let go of there is one more; a message   *)
(* that was answered is returned as soon as a later one was received.      *)
THEOREM IgnoredSlotsConserved == ASSUME Ignoring PROVE Spec => []SlotsConserved
<1>1. ASSUME TypeOK, IgnoredInv, Placed PROVE SlotsConserved
  <2> USE <1>1
  <2>1. ASSUME NEW s \in Slots
        PROVE  /\ phase[s] = "claimed" =>
                    \E p \in Producers : msg[p] = s /\ pc[p] \in {"send", "sendLink", "sendCas"}
               /\ phase[s] = "queued" => \E i \in DOMAIN fifo : fifo[i] = s
               /\ phase[s] = "handling" => \E c \in Consumers : msg[c] = s /\ InHand(c)
    <3>1. DOMAIN fifo = 1 .. Len(fifo) BY QueueEnd DEF IgnoredInv
    <3>2. phase[s] = "queued" => \E i \in DOMAIN fifo : fifo[i] = s
      BY <3>1 DEF IgnoredInv, QueueShape
    <3> QED BY <3>2 DEF Placed, Fills, Serves, SendPCs
  <2> QED BY <2>1, IgnoredFree, IgnoredAnswered DEF SlotsConserved, Ignoring
<1> QED BY <1>1, IgnoredPlaced, PTL

(* spsc, spmc and mpsc, results ignored: a producer with a permit finds a  *)
(* slot.  The consumer appends at the other end of the list, and links the *)
(* message there before it gives back the permit.                          *)
THEOREM IgnoredPermitsBacked == ASSUME Ignoring PROVE Spec => []PermitsBacked
<1>1. ASSUME TypeOK, IgnoredInv PROVE PermitsBacked
  <2> USE <1>1, Const
  <2> DEFINE permits == slotSemaphore + Cardinality(Popping)
  <2>1. PICK q, extra : Ring(q, extra) /\ extra \in {0, 1} BY DEF IgnoredInv, RingShape
  <2>2. permits \in Nat /\ Len(q) \in Nat /\ permits <= Len(q) /\ q \in Seq(Slots)
    <3>1. slotSemaphore \in Nat /\ Cardinality(Popping) \in Nat
          /\ Cardinality(Releasing) \in Nat /\ Base \in {0, 1}
      BY CountsNat, CountsTyped, BaseIs DEF IgnoredInv
    <3>2. Len(q) = slotSemaphore + Cardinality(Popping) + Cardinality(Releasing) + Base + extra
          /\ q \in Seq(Slots)
      BY <2>1 DEF Ring, InUseCount
    <3>3. permits \in Nat BY <3>1
    <3>4. PICK b, d, e : /\ b = Cardinality(Releasing) /\ d = Base /\ e = extra
                         /\ b \in Nat /\ d \in Nat /\ e \in Nat
      BY <2>1, <3>1
    <3>5. Len(q) = permits + b + d + e BY <3>2, <3>4
    <3> HIDE DEF permits
    <3>6. permits + b + d + e \in Nat /\ permits <= permits + b + d + e BY <3>3, <3>4
    <3> QED BY <3>2, <3>3, <3>5, <3>6
  <2> DEFINE list == [i \in 1 .. permits |-> q[i]]
  <2> HIDE DEF permits
  <2>3. \A i \in 1 .. permits : i \in 1 .. Len(q) /\ q[i] \in Free
    <3>1. \A i \in 1 .. permits : i \in 1 .. Len(q) BY <2>2
    <3>2. \A i \in 1 .. Len(q) : q[i] \in Slots /\ phase[q[i]] = "free" BY <2>1, <2>2 DEF Ring
    <3> QED BY <3>1, <3>2 DEF Free
  <2>4. list \in [1 .. permits -> Free] BY <2>3
  <2>5. Distinct(list) BY <2>1, <2>3 DEF Distinct, Ring
  <2>6. permits > 0 => list[1] = nextFreeSlot
    <3>1. permits > 0 => 1 \in 1 .. permits /\ 0 < Len(q) /\ 0 + 1 = 1 BY <2>2
    <3> QED BY <2>1, <3>1 DEF Ring, Follows
  <2>7. ASSUME NEW i \in 1 .. permits - 1 PROVE list[i + 1] = next[list[i]]
    <3>1. i \in 1 .. permits /\ i + 1 \in 1 .. permits /\ i < Len(q) BY <2>2
    <3>2. Follows(q, i, next[q[i]]) BY <2>1, <2>3, <3>1 DEF Ring
    <3>3. next[q[i]] = q[i + 1] BY <3>1, <3>2 DEF Follows
    <3> QED BY <3>1, <3>3
  <2> HIDE DEF list
  <2>8. \E l \in [1 .. permits -> Free] :
          /\ Distinct(l)
          /\ permits > 0 => l[1] = nextFreeSlot
          /\ \A i \in 1 .. permits - 1 : l[i + 1] = next[l[i]]
    BY <2>4, <2>5, <2>6, <2>7
  <2> QED BY <2>8 DEF PermitsBacked, permits
<1> QED BY <1>1, IgnoredAlways, PTL

(* spsc, spmc and mpsc, results ignored: a receive that follows next finds *)
(* the messages in the order in which they were appended, and each counted *)
(* message is there.                                                       *)
THEOREM IgnoredQueueLinked == ASSUME Ignoring PROVE Spec => []QueueLinked
<1>1. TypeOK /\ IgnoredInv => QueueLinked BY QueueFollows DEF IgnoredInv
<1> QED BY <1>1, IgnoredAlways, PTL

----------------------------------------------------------------------------
(* RequestService again: nobody asks for an answer.                        *)

LEMMA NoneSignalled ==
  ASSUME IgnoredUse, IgnoredUse'
  PROVE  Signalled = {} /\ Signalled' = {}
<1>1. /\ \A s \in Slots : ~(holders[s] > 0) /\ ~(holders'[s] > 0)
      /\ \A w \in Waiters : pc[w] = "idle" /\ pc'[w] = "idle"
      /\ \A p \in Producers : ret[p] # "keep" /\ ret'[p] # "keep"
  BY DEF IgnoredUse
<1> QED BY <1>1 DEF Signalled

LEMMA IgnoredUnseen ==
  ASSUME IgnoredUse, IgnoredUse', UNCHANGED <<phase, fifo, previousReceived>>
  PROVE  ServiceStep
<1>1. Signalled' = Signalled BY NoneSignalled
<1> QED BY <1>1 DEF ServiceStep, Service!vars

LEMMA IgnoredMoves ==
  ASSUME IgnoredUse, IgnoredUse', NEW s \in Slots, NEW new,
         phase' = [phase EXCEPT ![s] = new], UNCHANGED <<fifo, previousReceived>>,
         \/ phase[s] = "free" /\ new = "claimed"
         \/ phase[s] = "handling" /\ new = "answered"
         \/ phase[s] = "answered" /\ new = "free" /\ s # previousReceived
  PROVE  ServiceStep
<1>1. Signalled' = Signalled /\ s \notin Signalled BY NoneSignalled
<1>2. Service!Claim(s) \/ Service!Answer(s) \/ Service!Recycle(s)
  BY <1>1 DEF Service!Claim, Service!Answer, Service!Recycle, Service!Become
<1> QED BY <1>2, NextOf

LEMMA IgnoredClaims ==
  ASSUME Single, TypeOK, IgnoredInv, IgnoredUse', NEW p \in Producers, PopSingle(p) \/ PopCas(p)
  PROVE  ServiceStep
<1> USE Const
<1>0. pc[p] \in PopPCs BY DEF PopSingle, PopCas, PopPCs
<1>s. PICK s \in Slots : s = nextFreeSlot /\ phase[s] = "free" BY <1>0, PopFinds
<1>1. phase' = [phase EXCEPT ![s] = "claimed"] /\ UNCHANGED <<fifo, previousReceived>>
  <2>1. CASE PopSingle(p) BY <1>s, <2>1 DEF PopSingle, Claim, Become
  <2>2. CASE PopCas(p)
    <3>1. reg[p] = nextFreeSlot BY <2>2 DEF IgnoredInv, SupplyShape, PopCas
    <3> QED BY <1>s, <2>2, <3>1 DEF PopCas, Claim, Become
  <2> QED BY <2>1, <2>2
<1> QED BY <1>s, <1>1, IgnoredMoves DEF IgnoredInv

LEMMA IgnoredSubmits ==
  ASSUME Single, TypeOK, IgnoredInv, IgnoredUse', NEW p \in Producers,
         SendCas(p) \/ \E f \in SendFlags : SendSingle(p, f)
  PROVE  ServiceStep
<1> USE Const
<1>s. PICK s \in Slots : s = msg[p] BY TypeParts DEF LocalsTyped
<1>0. phase[s] = "claimed"
  <2>1. pc[p] \in SendPCs BY DEF SendCas, SendSingle, SendPCs
  <2> QED BY <1>s, <2>1 DEF IgnoredInv, SupplyShape
<1>1. phase' = [phase EXCEPT ![s] = "queued"] /\ fifo' = Append(fifo, s)
      /\ UNCHANGED previousReceived
  <2>1. ASSUME NEW f \in SendFlags, SendSingle(p, f)
        PROVE  phase' = [phase EXCEPT ![s] = "queued"] /\ fifo' = Append(fifo, s)
               /\ UNCHANGED previousReceived
    BY <1>s, <2>1 DEF SendSingle, Become
  <2>2. CASE SendCas(p)
    <3>1. reg[p] = lastQueuedSlot BY <2>2 DEF IgnoredInv, SupplyShape, SendCas
    <3> QED BY <1>s, <2>2, <3>1 DEF SendCas, Become
  <2> QED BY <2>1, <2>2
<1>2. Signalled' = Signalled BY NoneSignalled DEF IgnoredInv
<1>3. Service!Submit(s) BY <1>0, <1>1, <1>2 DEF Service!Submit, Service!Become
<1> QED BY <1>3, NextOf

LEMMA IgnoredTakes ==
  ASSUME Single, TypeOK, IgnoredInv, IgnoredUse', NEW c \in Consumers, Fetch(c) \/ RecvCas(c)
  PROVE  /\ ServiceStep
         /\ fifo # <<>> /\ previousReceived' = Head(fifo)
<1> USE Const
<1>0. pc[c] \in TakePCs BY DEF Fetch, RecvCas, TakePCs
<1>m. PICK m \in Slots : m = fifo[1] /\ phase[m] = "queued" /\ m = next[previousReceived]
  BY <1>0, TakerFinds DEF IgnoredInv
<1>f. fifo # <<>> /\ m = Head(fifo)
  <2>1. fifo # <<>> BY <1>0, TakerFinds DEF IgnoredInv
  <2>2. fifo \in Seq(Slots) BY TypeParts DEF HistoryTyped
  <2>3. Head(fifo) = fifo[1] BY <2>1, <2>2
  <2> QED BY <1>m, <2>1, <2>3
<1>1. /\ previousReceived' = m /\ fifo' = Tail(fifo)
      /\ phase' = [phase EXCEPT ![m] = "handling"]
  <2>1. CASE Fetch(c)
    <3>1. Receive(c, previousReceived, m) BY <1>m, <2>1 DEF Fetch
    <3> QED BY <1>f, <3>1 DEF Receive, Rest, Become
  <2>2. CASE RecvCas(c)
    <3>1. reg[c] = previousReceived /\ nxt[c] = m
      BY <1>m, <2>2 DEF IgnoredInv, HandShape, RecvCas
    <3>2. Receive(c, reg[c], nxt[c]) BY <2>2, <3>1 DEF RecvCas
    <3> QED BY <1>f, <3>1, <3>2 DEF Receive, Rest, Become
  <2> QED BY <2>1, <2>2
<1>2. Signalled' = Signalled BY NoneSignalled DEF IgnoredInv
<1>3. Service!Take(m) BY <1>m, <1>f, <1>1, <1>2 DEF Service!Take, Service!Become
<1> QED BY <1>f, <1>1, <1>3, NextOf

LEMMA IgnoredAnswers ==
  ASSUME Single, TypeOK, IgnoredInv, IgnoredUse', NEW c \in Consumers, ReplyIgnored(c)
  PROVE  ServiceStep
<1> USE Const
<1>s. PICK s \in Slots : s = msg[c] BY TypeParts DEF LocalsTyped
<1>0. phase[s] = "handling"
  BY <1>s DEF IgnoredInv, HandShape, HandPCs, ReplyIgnored
<1>1. phase' = [phase EXCEPT ![s] = "answered"] /\ UNCHANGED <<fifo, previousReceived>>
  BY <1>s DEF ReplyIgnored, Become, ends
<1> QED BY <1>0, <1>1, IgnoredMoves DEF IgnoredInv

(* The consumer recycles the message that it received before the last one. *)
LEMMA IgnoredRecycles ==
  ASSUME Single, TypeOK, IgnoredInv, IgnoredUse', NEW c \in Consumers, FreeHold(c) \/ Return(c)
  PROVE  ServiceStep
<1> USE Const
<1>s. PICK s \in Slots : s = old[c] BY TypeParts DEF LocalsTyped
<1>1. /\ UNCHANGED <<fifo, previousReceived>>
      /\ phase' = phase \/ (pc[c] \in PendingPCs /\ phase' = [phase EXCEPT ![s] = "free"])
  <2>1. CASE FreeHold(c) BY <1>s, <2>1 DEF FreeHold, PendingPCs, ends
  <2>2. CASE Return(c)
    BY <1>s, <2>2 DEF Return, Cleanup, ReturnSwap, ReturnLoad, ReturnStore, ReturnCas,
       ReturnLink, Release, Become, PendingPCs, DyingPCs, ends, hist
  <2> QED BY <2>1, <2>2
<1>2. CASE phase' = phase BY <1>1, <1>2, IgnoredUnseen DEF IgnoredInv
<1>3. CASE pc[c] \in PendingPCs /\ phase' = [phase EXCEPT ![s] = "free"]
  <2>1. phase[s] = "answered" BY <1>3, <1>s DEF IgnoredInv, HandShape
  <2>2. phase[previousReceived] = "handling"
    <3>1. pc[c] \in HandPCs BY <1>3 DEF PendingPCs, DyingPCs, HandPCs, ReturnPCs
    <3> QED BY <3>1 DEF IgnoredInv, HandShape
  <2> QED BY <1>1, <1>3, <2>1, <2>2, IgnoredMoves DEF IgnoredInv
<1> QED BY <1>1, <1>2, <1>3

LEMMA IgnoredImplements ==
  ASSUME Ignoring, TypeOK, IgnoredInv, [Next]_vars
  PROVE  ServiceStep
<1>0. Single /\ IgnoredUse /\ IgnoredUse' BY IgnoredStep DEF IgnoredInv, Ignoring
<1>1. CASE UNCHANGED vars BY <1>0, <1>1, IgnoredUnseen DEF vars, ends, hist
<1>2. ASSUME NEW p \in Producers, Produce(p) PROVE ServiceStep
  <2>1. CASE PopSingle(p) \/ PopCas(p) BY <1>0, <2>1, IgnoredClaims
  <2>2. CASE SendCas(p) \/ \E f \in SendFlags : SendSingle(p, f) BY <1>0, <2>2, IgnoredSubmits
  <2>3. CASE \/ AcquireSlot(p) \/ LoadFree(p) \/ PopRead(p) \/ SendLink(p) \/ Count(p)
             \/ \E f \in SendFlags : SendLoad(p, f)
    <3>1. UNCHANGED <<phase, fifo, previousReceived>>
      BY <2>3 DEF AcquireSlot, LoadFree, PopRead, SendLink, Count, SendLoad, ends, hist
    <3> QED BY <1>0, <3>1, IgnoredUnseen
  <2> QED BY <1>2, <2>1, <2>2, <2>3 DEF Produce
<1>3. ASSUME NEW c \in Consumers, Consume(c) PROVE ServiceStep
  <2>1. CASE Fetch(c) \/ RecvCas(c) BY <1>0, <2>1, IgnoredTakes
  <2>2. CASE ReplyIgnored(c) BY <1>0, <2>2, IgnoredAnswers
  <2>3. CASE FreeHold(c) \/ Return(c) BY <1>0, <2>3, IgnoredRecycles
  <2>4. CASE TakeQueued(c) \/ RecvLoad(c) \/ RecvRead(c)
    <3>1. UNCHANGED <<phase, fifo, previousReceived>>
      BY <2>4 DEF TakeQueued, RecvLoad, RecvRead, ends, hist
    <3> QED BY <1>0, <3>1, IgnoredUnseen
  <2>5. ~SetReady(c) /\ \A result \in Results : ~ReplyStatus(c, result) BY NoStatus
  <2> QED BY <1>3, <2>1, <2>2, <2>3, <2>4, <2>5 DEF Consume
<1>4. \A w \in Waiters : ~Await(w) /\ ~Finish(w) BY NoWaiter
<1> QED BY <1>1, <1>2, <1>3, <1>4 DEF Next

(* spsc, spmc and mpsc, results ignored: these mailboxes implement         *)
(* RequestService as well: messages are received in the order sent, each   *)
(* is replied to once, and its slot is recycled once, after the reply and  *)
(* after a later message has been received.                                *)
THEOREM IgnoredService == ASSUME Ignoring PROVE Spec => ImplementsService
<1>1. Init => Service!Init BY InitImplements
<1>2. TypeOK /\ IgnoredInv /\ [Next]_vars => [Service!Next]_(Service!vars)
  BY IgnoredImplements DEF ServiceStep
<1> QED BY <1>1, <1>2, IgnoredAlways, PTL DEF Spec, ImplementsService, Service!Spec

(* Each receive of spsc, spmc and mpsc, results ignored, yields the oldest *)
(* message not yet received.                                               *)
THEOREM IgnoredInOrder == ASSUME Ignoring PROVE Spec => ReceivedInOrder
<1> DEFINE InOrder ==
      \A c \in Consumers :
        Receiving(c) => fifo # <<>> /\ previousReceived' = Head(fifo)
<1>1. ASSUME TypeOK, IgnoredInv, [Next]_vars PROVE InOrder
  <2> SUFFICES ASSUME NEW c \in Consumers, Receiving(c)
               PROVE  fifo # <<>> /\ previousReceived' = Head(fifo)
    OBVIOUS
  <2> USE <1>1, Const
  <2>0. Single /\ IgnoredUse' BY IgnoredStep DEF IgnoredInv, Ignoring
  <2>1. pc[c] \in {"fetch", "recvCas"} /\ pc'[c] = "freeHold"
    BY <2>0 DEF IgnoredUse, Receiving
  <2>2. pc' # pc BY <2>1
  <2>3. ASSUME NEW p \in Producers, Produce(p) PROVE FALSE
    <3>1. PICK l : Goto(p, l) BY <2>3, ProducerWalks
    <3>2. p \in Threads /\ p # c /\ pc \in [Threads -> AllPCs] BY TypeParts DEF PcTyped
    <3> QED BY <2>1, <3>1, <3>2 DEF Goto
  <2>4. \A w \in Waiters : ~Await(w) /\ ~Finish(w) BY NoWaiter
  <2>5. ~UNCHANGED vars /\ Next BY <2>2 DEF vars
  <2>6. PICK d \in Consumers : Consume(d) BY <2>3, <2>4, <2>5 DEF Next
  <2>7. d = c BY <2>0 DEF Single
  <2>8. Fetch(c) \/ RecvCas(c)
    BY <2>1, <2>6, <2>7 DEF Consume, TakeQueued, RecvLoad, RecvRead, FreeHold,
       ReplyIgnored, SetReady, Return, ReplyStatus, Cleanup, ReturnSwap, ReturnLoad,
       ReturnStore, ReturnCas, ReturnLink, Release
  <2> QED BY <2>0, <2>8, IgnoredTakes
<1>2. TypeOK /\ IgnoredInv /\ [Next]_vars => [InOrder]_vars BY <1>1
<1> QED BY <1>2, IgnoredAlways, PTL DEF Spec, ReceivedInOrder
=============================================================================
