------------------------- MODULE AgateMailboxProofs -------------------------
(***************************************************************************)
(* Theorems about the mpmc mailbox of Agate with one producer and one      *)
(* consumer, for every number of slots, signal holders, statuses, flags    *)
(* and handles.                                                            *)
(***************************************************************************)
EXTENDS MCAgateMailbox, FiniteSetTheorems, TLAPS

OneEach ==
  /\ \A p, q \in Producers : p = q
  /\ \A c, d \in Consumers : c = d
  /\ Kinds = {"mpmc"}

Single ==
  /\ \A p, q \in Producers : p = q
  /\ \A c, d \in Consumers : c = d

FreeAt(q, i) == IF i > Len(q) THEN Dummy ELSE q[i]
ChainAt(i)   == IF i = 0 THEN previousReceived ELSE fifo[i]

TakePCs  == {"fetch", "recvLoad", "recvRead", "recvCas"}
DyingPCs == {"cleanup", "return", "returnStore", "returnCas"}
CleanPCs == {"return", "returnStore", "returnCas"}
UserPCs  == {"collect", "drop"}

Coming == IF \E p \in Producers : pc[p] = "count" THEN 1 ELSE 0
Taking == IF \E c \in Consumers : pc[c] \in TakePCs THEN 1 ELSE 0

Dying(s) == \E t \in Threads : pc[t] \in DyingPCs /\ old[t] = s
\* A producer is about to hand out the signal of message s.
Owed(s)  == \E p \in Producers : pc[p] = "count" /\ ret[p] = "keep" /\ msg[p] = s
Users(s) == {w \in Waiters : msg[w] = s /\ pc[w] \in UserPCs}
Open(s)  == holders[s] + Cardinality(Users(s))

(* What a thread may do next: it is nowhere that only other kinds of       *)
(* mailbox, or undefined behaviour, lead to.                               *)
Proper ==
  /\ kind = "mpmc"
  /\ \A t \in Threads : pc[t] \notin {"wild", "pop", "fetch", "returnLink"}
  /\ \A p \in Producers : ret[p] \in {"idle", "keep", "ignore"}
  /\ \A c \in Consumers : ret[c] \in {"idle", "handle"}
  /\ \A w \in Waiters : ret[w] = "idle"

(* The links from nextFreeSlot lead through q, which is the free slots but *)
(* the constructor's, and those are as many as the permits.                *)
Pool(q) ==
  /\ q \in Seq(Slots)
  /\ \A i, j \in 1 .. Len(q) : q[i] = q[j] => i = j
  /\ \A i \in 1 .. Len(q) : q[i] # Dummy /\ phase[q[i]] = "free"
  /\ \A s \in Slots \ {Dummy} : phase[s] = "free" => \E i \in 1 .. Len(q) : q[i] = s
  /\ nextFreeSlot = FreeAt(q, 1)
  /\ \A i \in 1 .. Len(q) : next[q[i]] = FreeAt(q, i + 1)
  /\ Len(q) = slotSemaphore + Cardinality(Popping) + Cardinality(Releasing)
PoolShape == \E q \in Seq(Slots) : Pool(q)

(* What the producer has read is still so: nobody else pops or appends.    *)
PopShape ==
  \A p \in Producers :
    /\ pc[p] \in {"popRead", "popCas"} =>
         reg[p] \in Slots \ {Dummy} /\ phase[reg[p]] = "free"
    /\ pc[p] = "popCas" => nxt[p] = next[reg[p]] /\ nxt[p] \in Slots
SendShape ==
  \A p \in Producers :
    /\ pc[p] \in {"send", "sendLink", "sendCas"} =>
         phase[msg[p]] = "claimed" /\ msg[p] # Dummy
    /\ pc[p] \in {"sendLink", "sendCas"} =>
         /\ reg[p] = lastQueuedSlot
         /\ IN_USE \in flags[msg[p]]
    /\ pc[p] = "sendCas" => next[lastQueuedSlot] = msg[p]
    /\ pc[p] \in {"sendLink", "sendCas", "count"} =>
         /\ ret[p] = IF IGNORE \in flags[msg[p]] THEN "ignore" ELSE "keep"
         /\ CONDEMNED \notin flags[msg[p]]
    /\ pc[p] = "count" => fifo # <<>> /\ msg[p] = lastQueuedSlot

QueueShape ==
  /\ \A i, j \in 1 .. Len(fifo) : fifo[i] = fifo[j] => i = j
  /\ \A i \in 1 .. Len(fifo) : phase[fifo[i]] = "queued"
  /\ \A s \in Slots : phase[s] = "queued" => \E i \in 1 .. Len(fifo) : fifo[i] = s
  /\ \A i \in 1 .. Len(fifo) : next[ChainAt(i - 1)] = fifo[i]
  /\ lastQueuedSlot = ChainAt(Len(fifo))
  /\ Len(fifo) = queuedMessages + Coming + Taking

(* What the consumer has in hand.                                          *)
RecvShape ==
  \A c \in Consumers :
    /\ pc[c] \in {"recvRead", "recvCas"} => reg[c] = previousReceived
    /\ pc[c] = "recvCas" => nxt[c] = next[previousReceived] /\ nxt[c] \in Slots
    /\ InHand(c) => msg[c] = previousReceived /\ phase[msg[c]] = "handling"
    /\ ~InHand(c) => phase[previousReceived] = "answered"
    /\ pc[c] = "setReady" =>
         status[msg[c]] = answer[msg[c]] /\ answer[msg[c]] # "NOT_SET"
    /\ pc[c] = "freeHold" =>
         /\ old[c] # previousReceived /\ phase[old[c]] = "answered"
         /\ IF old[c] = Dummy THEN flags[old[c]] = {} ELSE IN_USE \in flags[old[c]]

(* What the phase of a slot says about its fields.                         *)
Blank(s) == flags[s] = {} /\ openHandles[s] = 1 /\ ~isReady[s]
SlotShape(s) ==
  /\ phase[s] = "free" \/ s = Dummy => Blank(s)
  /\ s = Dummy => phase[s] \in {"free", "answered"}
  /\ isReady[s] =>
       phase[s] = "answered" /\ status[s] = answer[s] /\ answer[s] # "NOT_SET"
  /\ phase[s] \in {"queued", "handling"} => IN_USE \in flags[s]
  /\ s = previousReceived =>
       /\ phase[s] \in {"handling", "answered"}
       /\ s # Dummy => IN_USE \in flags[s]
FieldShape ==
  /\ \A s \in Slots : SlotShape(s)
  /\ \A p \in Producers : pc[p] = "send" => Blank(msg[p])

(* A message that is being returned is in nobody else's hands.             *)
DyingShape ==
  \A t \in Threads :
    pc[t] \in DyingPCs =>
      /\ old[t] # Dummy /\ old[t] # previousReceived /\ phase[old[t]] = "answered"
      /\ pc[t] = "cleanup" => IN_USE \notin flags[old[t]] /\ CONDEMNED \in flags[old[t]]
      /\ pc[t] \in CleanPCs => Blank(old[t])
      /\ pc[t] = "returnCas" => next[old[t]] = reg[t]
      /\ \A u \in Threads : pc[u] \in DyingPCs /\ old[u] = old[t] => u = t

(* A signal has as many handles as are counted, and one of its holders at  *)
(* most comes to condemn the message.                                      *)
Signalable(s) ==
  /\ phase[s] \in {"queued", "handling", "answered"}
  /\ s # Dummy /\ flags[s] \cap {IGNORE, CONDEMNED} = {}
  /\ ~Owed(s) /\ ~Dying(s)
HandleShape ==
  /\ \A s \in Slots : Open(s) > 0 => openHandles[s] = Open(s) /\ Signalable(s)
  /\ \A w \in Waiters : pc[w] = "condemn" =>
       /\ Open(msg[w]) = 0 /\ Signalable(msg[w])
       /\ \A u \in Waiters : pc[u] = "condemn" /\ msg[u] = msg[w] => u = w
  /\ \A s \in Slots : phase[s] = "claimed" \/ Owed(s) => openHandles[s] = 1
  /\ \A w \in Waiters : pc[w] = "collect" => isReady[msg[w]]

AgateInv ==
  /\ Proper /\ PoolShape /\ PopShape /\ SendShape /\ QueueShape /\ RecvShape
  /\ FieldShape /\ DyingShape /\ HandleShape
----------------------------------------------------------------------------
(* Types                                                                   *)

LEMMA Const ==
  /\ N \in Nat /\ N >= 3 /\ Dummy \in Slots /\ Slots \subseteq Nat /\ Slots \subseteq 0 .. N
  /\ Producers \subseteq Threads /\ Consumers \subseteq Threads /\ Waiters \subseteq Threads
  /\ Producers \cap Consumers = {} /\ Waiters \cap (Producers \cup Consumers) = {}
  /\ Threads = Producers \cup Consumers \cup Waiters
BY SlotAssumption, ThreadAssumption DEF Slots, Dummy, Threads

AllPCs == ProducerPCs \cup ConsumerPCs \cup WaiterPCs
AllFlags == {IGNORE, FAST, IN_USE, CONDEMNED}
Statuses == Results \cup {"NOT_SET"}

(* TypeOK in parts.                                                        *)
FieldsTyped ==
  /\ next        \in [Slots -> 0 .. N]
  /\ flags       \in [Slots -> SUBSET AllFlags]
  /\ isReady     \in [Slots -> BOOLEAN]
  /\ openHandles \in [Slots -> Nat]
  /\ status      \in [Slots -> Statuses]
EndsTyped ==
  /\ kind \in Kinds
  /\ nextFreeSlot \in 0 .. N
  /\ lastFreeSlot \in Slots /\ lastQueuedSlot \in Slots /\ previousReceived \in Slots
  /\ slotSemaphore \in Nat /\ queuedMessages \in Nat
PcTyped ==
  /\ pc \in [Threads -> AllPCs]
  /\ \A p \in Producers : pc[p] \in ProducerPCs
  /\ \A c \in Consumers : pc[c] \in ConsumerPCs
  /\ \A w \in Waiters   : pc[w] \in WaiterPCs
LocalsTyped ==
  /\ msg \in [Threads -> Slots] /\ old \in [Threads -> Slots]
  /\ reg \in [Threads -> 0 .. N] /\ nxt \in [Threads -> 0 .. N]
  /\ ret \in [Threads -> {"idle", "handle", "keep", "ignore"}]
HistoryTyped ==
  /\ holders \in [Slots -> Nat]
  /\ phase  \in [Slots -> {"free", "claimed", "queued", "handling", "answered"}]
  /\ fifo   \in Seq(Slots)
  /\ answer \in [Slots -> Statuses]

LEMMA TypeParts ==
  TypeOK <=> FieldsTyped /\ EndsTyped /\ PcTyped /\ LocalsTyped /\ HistoryTyped
<1>1. TypeOK => FieldsTyped /\ EndsTyped /\ PcTyped /\ LocalsTyped /\ HistoryTyped
  BY DEF TypeOK, FieldsTyped, EndsTyped, PcTyped, LocalsTyped, HistoryTyped, AllFlags,
         Statuses, AllPCs
<1>2. FieldsTyped /\ EndsTyped /\ PcTyped /\ LocalsTyped /\ HistoryTyped => TypeOK
  BY DEF TypeOK, FieldsTyped, EndsTyped, PcTyped, LocalsTyped, HistoryTyped, AllFlags,
         Statuses, AllPCs
<1> QED BY <1>1, <1>2

LEMMA TypeNext ==
  ASSUME FieldsTyped', EndsTyped', PcTyped', LocalsTyped', HistoryTyped'
  PROVE  TypeOK'
BY DEF TypeOK, FieldsTyped, EndsTyped, PcTyped, LocalsTyped, HistoryTyped, AllFlags,
       Statuses, AllPCs

----------------------------------------------------------------------------
(* What the other threads know stays so.                                   *)

\* Only thread t moves.
Alone(t) ==
  \A u \in Threads \ {t} :
    /\ pc'[u] = pc[u] /\ msg'[u] = msg[u] /\ old'[u] = old[u]
    /\ reg'[u] = reg[u] /\ nxt'[u] = nxt[u] /\ ret'[u] = ret[u]

SendPCs == {"send", "sendLink", "sendCas"}

LEMMA ProperStays ==
  ASSUME Proper, NEW t \in Threads, Alone(t), kind' = kind,
         pc'[t] \notin {"wild", "pop", "fetch", "returnLink"},
         \/ ret'[t] = ret[t] \/ ret'[t] = "idle"
         \/ t \in Producers /\ ret'[t] \in {"keep", "ignore"}
         \/ t \in Consumers /\ ret'[t] = "handle"
  PROVE  Proper'
<1> USE Const
<1>1. \A u \in Threads : pc'[u] \notin {"wild", "pop", "fetch", "returnLink"}
  BY DEF Proper, Alone
<1>2. \A p \in Producers : ret'[p] \in {"idle", "keep", "ignore"}
  BY DEF Proper, Alone
<1>3. \A c \in Consumers : ret'[c] \in {"idle", "handle"}
  BY DEF Proper, Alone
<1>4. \A w \in Waiters : ret'[w] = "idle"
  BY DEF Proper, Alone
<1> QED BY <1>1, <1>2, <1>3, <1>4 DEF Proper

LEMMA PopStays ==
  ASSUME PopShape, NEW t \in Threads, Alone(t),
         t \in Producers => pc'[t] \notin {"popRead", "popCas"},
         \A s \in Slots \ {Dummy} :
            phase[s] = "free" => phase'[s] = "free" /\ next'[s] = next[s]
  PROVE  PopShape'
<1> SUFFICES ASSUME NEW p \in Producers, p # t
             PROVE  /\ pc'[p] \in {"popRead", "popCas"} =>
                         reg'[p] \in Slots \ {Dummy} /\ phase'[reg'[p]] = "free"
                    /\ pc'[p] = "popCas" => nxt'[p] = next'[reg'[p]] /\ nxt'[p] \in Slots
  BY DEF PopShape
<1>1. pc'[p] = pc[p] /\ reg'[p] = reg[p] /\ nxt'[p] = nxt[p]
  BY Const DEF Alone
<1> QED BY <1>1 DEF PopShape

LEMMA SendStays ==
  ASSUME SendShape, NEW t \in Threads, Alone(t),
         t \in Producers => pc'[t] \notin SendPCs \cup {"count"},
         lastQueuedSlot' = lastQueuedSlot,
         next'[lastQueuedSlot] = next[lastQueuedSlot],
         \A p \in Producers \ {t} :
            /\ pc[p] \in SendPCs => /\ phase'[msg[p]] = phase[msg[p]]
                                    /\ flags'[msg[p]] = flags[msg[p]]
            /\ pc[p] = "count" => flags'[msg[p]] = flags[msg[p]] /\ fifo' # <<>>
  PROVE  SendShape'
<1> SUFFICES ASSUME NEW p \in Producers, p # t
             PROVE  /\ pc'[p] \in {"send", "sendLink", "sendCas"} =>
                         phase'[msg'[p]] = "claimed" /\ msg'[p] # Dummy
                    /\ pc'[p] \in {"sendLink", "sendCas"} =>
                         /\ reg'[p] = lastQueuedSlot'
                         /\ IN_USE \in flags'[msg'[p]]
                    /\ pc'[p] = "sendCas" => next'[lastQueuedSlot'] = msg'[p]
                    /\ pc'[p] \in {"sendLink", "sendCas", "count"} =>
                         /\ ret'[p] = IF IGNORE \in flags'[msg'[p]] THEN "ignore" ELSE "keep"
                         /\ CONDEMNED \notin flags'[msg'[p]]
                    /\ pc'[p] = "count" => fifo' # <<>> /\ msg'[p] = lastQueuedSlot'
  BY DEF SendShape, SendPCs
<1>1. pc'[p] = pc[p] /\ reg'[p] = reg[p] /\ msg'[p] = msg[p] /\ ret'[p] = ret[p]
  BY Const DEF Alone
<1> QED BY <1>1 DEF SendShape, SendPCs

LEMMA QueueSame ==
  ASSUME TypeOK, QueueShape, UNCHANGED <<fifo, lastQueuedSlot, previousReceived>>,
         queuedMessages' + Coming' + Taking' = queuedMessages + Coming + Taking,
         \A s \in Slots : phase'[s] = "queued" <=> phase[s] = "queued",
         \A s \in Slots : phase[s] = "queued" \/ s = previousReceived => next'[s] = next[s]
  PROVE  QueueShape'
<1>0. fifo \in Seq(Slots) /\ Len(fifo) \in Nat /\ previousReceived \in Slots
  BY TypeParts DEF EndsTyped, HistoryTyped
<1>1. \A i \in 0 .. Len(fifo) : ChainAt(i)' = ChainAt(i)
  BY DEF ChainAt
<1>2. ASSUME NEW i \in 1 .. Len(fifo) PROVE next'[ChainAt(i - 1)'] = fifo'[i]
  <2>1. next[ChainAt(i - 1)] = fifo[i] BY DEF QueueShape
  <2>2. PICK j \in 0 .. Len(fifo) : j = i - 1 BY <1>0
  <2>3. ChainAt(j)' = ChainAt(j) BY <1>1
  <2>4. ChainAt(j) = previousReceived \/ \E k \in 1 .. Len(fifo) : ChainAt(j) = fifo[k]
    BY <1>0 DEF ChainAt
  <2>5. next'[ChainAt(j)] = next[ChainAt(j)]
    <3>1. CASE ChainAt(j) = previousReceived BY <1>0, <3>1
    <3>2. ASSUME NEW k \in 1 .. Len(fifo), ChainAt(j) = fifo[k]
          PROVE  next'[ChainAt(j)] = next[ChainAt(j)]
      <4>1. fifo[k] \in Slots /\ phase[fifo[k]] = "queued" BY <1>0 DEF QueueShape
      <4> QED BY <3>2, <4>1
    <3> QED BY <2>4, <3>1, <3>2
  <2> QED BY <2>1, <2>2, <2>3, <2>5
<1>3. lastQueuedSlot' = ChainAt(Len(fifo))' BY <1>0 DEF QueueShape, ChainAt
<1>4. \A i \in 1 .. Len(fifo) : phase'[fifo[i]] = "queued" BY <1>0 DEF QueueShape
<1>5. \A s \in Slots : phase'[s] = "queued" => \E i \in 1 .. Len(fifo) : fifo[i] = s
  BY DEF QueueShape
<1> QED BY <1>2, <1>3, <1>4, <1>5 DEF QueueShape

LEMMA QueueStays ==
  ASSUME TypeOK, QueueShape,
         UNCHANGED <<fifo, lastQueuedSlot, previousReceived, queuedMessages, Coming, Taking>>,
         \A s \in Slots : phase'[s] = "queued" <=> phase[s] = "queued",
         \A s \in Slots : phase[s] = "queued" \/ s = previousReceived => next'[s] = next[s]
  PROVE  QueueShape'
<1>1. queuedMessages' + Coming' + Taking' = queuedMessages + Coming + Taking OBVIOUS
<1> QED BY <1>1, QueueSame

\* A move between two labels that Coming and Taking do not tell apart.
LEMMA CountsStay ==
  ASSUME NEW t \in Threads, Alone(t),
         t \in Producers => (pc'[t] = "count" <=> pc[t] = "count"),
         t \in Consumers => (pc'[t] \in TakePCs <=> pc[t] \in TakePCs)
  PROVE  Coming' = Coming /\ Taking' = Taking
<1> USE Const
<1>1. (\E p \in Producers : pc'[p] = "count") <=> \E p \in Producers : pc[p] = "count"
  BY DEF Alone
<1>2. (\E c \in Consumers : pc'[c] \in TakePCs) <=> \E c \in Consumers : pc[c] \in TakePCs
  BY DEF Alone
<1> QED BY <1>1, <1>2 DEF Coming, Taking

LEMMA RecvStays ==
  ASSUME TypeOK, RecvShape, NEW t \in Threads, Alone(t), t \notin Consumers,
         UNCHANGED <<previousReceived, status>>,
         answer'[previousReceived] = answer[previousReceived],
         phase'[previousReceived] = phase[previousReceived],
         \A c \in Consumers :
            /\ pc[c] = "recvCas" => next'[previousReceived] = next[previousReceived]
            /\ pc[c] = "freeHold" => /\ phase'[old[c]] = phase[old[c]]
                                     /\ IF old[c] = Dummy THEN flags'[old[c]] = flags[old[c]]
                                        ELSE IN_USE \in flags'[old[c]]
  PROVE  RecvShape'
<1> SUFFICES ASSUME NEW c \in Consumers
             PROVE  /\ pc'[c] \in {"recvRead", "recvCas"} => reg'[c] = previousReceived'
                    /\ pc'[c] = "recvCas" =>
                         nxt'[c] = next'[previousReceived'] /\ nxt'[c] \in Slots
                    /\ InHand(c)' =>
                         msg'[c] = previousReceived' /\ phase'[msg'[c]] = "handling"
                    /\ ~InHand(c)' => phase'[previousReceived'] = "answered"
                    /\ pc'[c] = "setReady" =>
                         status'[msg'[c]] = answer'[msg'[c]] /\ answer'[msg'[c]] # "NOT_SET"
                    /\ pc'[c] = "freeHold" =>
                         /\ old'[c] # previousReceived' /\ phase'[old'[c]] = "answered"
                         /\ IF old'[c] = Dummy THEN flags'[old'[c]] = {}
                            ELSE IN_USE \in flags'[old'[c]]
  BY DEF RecvShape
<1>1. /\ pc'[c] = pc[c] /\ reg'[c] = reg[c] /\ msg'[c] = msg[c] /\ ret'[c] = ret[c]
      /\ nxt'[c] = nxt[c] /\ old'[c] = old[c]
  BY Const DEF Alone
<1>2. InHand(c)' <=> InHand(c) BY <1>1 DEF InHand
<1>3. ASSUME pc'[c] = "setReady"
      PROVE  status'[msg'[c]] = answer'[msg'[c]] /\ answer'[msg'[c]] # "NOT_SET"
  <2>1. InHand(c) /\ msg'[c] = previousReceived BY <1>1, <1>3 DEF InHand, RecvShape
  <2> QED BY <1>1, <1>3, <2>1 DEF RecvShape
<1> QED BY <1>1, <1>2, <1>3 DEF RecvShape

\* What DyingShape says of the message of a thread t that returns it
DyingSlot(t, s) ==
  /\ s # Dummy /\ s # previousReceived /\ phase[s] = "answered"
  /\ pc[t] = "cleanup" => IN_USE \notin flags[s] /\ CONDEMNED \in flags[s]
  /\ pc[t] \in CleanPCs => Blank(s)
  /\ pc[t] = "returnCas" => next[s] = reg[t]

LEMMA DyingStays ==
  ASSUME DyingShape, NEW t \in Threads, Alone(t),
         \/ pc'[t] \notin DyingPCs
         \/ pc[t] \in DyingPCs /\ old'[t] = old[t] /\ DyingSlot(t, old[t])'
         \/ DyingSlot(t, old[t])' /\ ~Dying(old'[t]),
         \A u \in Threads \ {t} :
            pc[u] \in DyingPCs =>
              /\ old[u] # previousReceived'
              /\ flags'[old[u]] = flags[old[u]] /\ isReady'[old[u]] = isReady[old[u]]
              /\ openHandles'[old[u]] = openHandles[old[u]]
              /\ phase'[old[u]] = phase[old[u]] /\ next'[old[u]] = next[old[u]]
  PROVE  DyingShape'
<1>1. ASSUME NEW u \in Threads, u # t, pc'[u] \in DyingPCs PROVE DyingSlot(u, old[u])'
  <2>1. pc'[u] = pc[u] /\ old'[u] = old[u] /\ reg'[u] = reg[u] BY <1>1 DEF Alone
  <2>2. DyingSlot(u, old[u]) BY <1>1, <2>1 DEF DyingShape, DyingSlot
  <2> QED BY <1>1, <2>1, <2>2 DEF DyingSlot, Blank
<1>2. ASSUME pc'[t] \in DyingPCs PROVE DyingSlot(t, old[t])'
  BY <1>2
<1>3. ASSUME NEW u \in Threads, NEW v \in Threads, u # v,
             pc'[u] \in DyingPCs, pc'[v] \in DyingPCs, old'[u] = old'[v]
      PROVE  FALSE
  <2>1. \A x \in Threads : x # t => pc'[x] = pc[x] /\ old'[x] = old[x] BY DEF Alone
  <2>2. CASE u # t /\ v # t BY <1>3, <2>1, <2>2 DEF DyingShape
  <2>3. ASSUME NEW x \in Threads, x # t, pc'[x] \in DyingPCs, pc'[t] \in DyingPCs,
               old'[x] = old'[t]
        PROVE  FALSE
    <3>1. pc[x] \in DyingPCs /\ old[x] = old'[t] BY <2>1, <2>3
    <3>2. CASE pc[t] \in DyingPCs /\ old'[t] = old[t] BY <2>3, <3>1, <3>2 DEF DyingShape
    <3>3. CASE ~Dying(old'[t]) BY <3>1, <3>3 DEF Dying
    <3> QED BY <2>3, <3>2, <3>3
  <2> QED BY <1>3, <2>2, <2>3
<1>4. \A u \in Threads : pc'[u] \in DyingPCs => DyingSlot(u, old[u])'
  BY <1>1, <1>2
<1> QED BY <1>3, <1>4 DEF DyingShape, DyingSlot

\* The threads that return, and what they return, are as before.
LEMMA DyingSame ==
  ASSUME NEW t \in Threads, Alone(t),
         \/ pc[t] \notin DyingPCs /\ pc'[t] \notin DyingPCs
         \/ pc[t] \in DyingPCs /\ pc'[t] \in DyingPCs /\ old'[t] = old[t],
         NEW s
  PROVE  Dying(s)' <=> Dying(s)
<1>1. \A u \in Threads : pc'[u] \in DyingPCs /\ old'[u] = s <=> pc[u] \in DyingPCs /\ old[u] = s
  BY DEF Alone
<1> QED BY <1>1 DEF Dying

LEMMA OwedSame ==
  ASSUME NEW t \in Threads, Alone(t),
         t \in Producers => (pc[t] # "count" /\ pc'[t] # "count"), NEW s
  PROVE  Owed(s)' <=> Owed(s)
<1>1. \A p \in Producers : /\ pc'[p] = "count" <=> pc[p] = "count"
                           /\ pc[p] = "count" => ret'[p] = ret[p] /\ msg'[p] = msg[p]
  BY Const DEF Alone
<1> QED BY <1>1 DEF Owed

LEMMA UsersSame ==
  ASSUME NEW t \in Threads, Alone(t),
         t \in Waiters => \/ pc[t] \notin UserPCs /\ pc'[t] \notin UserPCs
                          \/ pc[t] \in UserPCs /\ pc'[t] \in UserPCs /\ msg'[t] = msg[t],
         NEW s
  PROVE  Users(s)' = Users(s)
<1>1. \A w \in Waiters : msg'[w] = s /\ pc'[w] \in UserPCs <=> msg[w] = s /\ pc[w] \in UserPCs
  BY Const DEF Alone
<1> QED BY <1>1 DEF Users

LEMMA OpenSame ==
  ASSUME NEW s, Users(s)' = Users(s), holders'[s] = holders[s]
  PROVE  Open(s)' = Open(s)
BY DEF Open

LEMMA OpenTyped ==
  ASSUME TypeOK, NEW s \in Slots
  PROVE  /\ IsFiniteSet(Users(s)) /\ Cardinality(Users(s)) \in Nat /\ Open(s) \in Nat
         /\ Open(s) = 0 => Users(s) = {} /\ holders[s] = 0
         /\ Users(s) # {} \/ holders[s] > 0 => Open(s) > 0
<1>1. Users(s) \in SUBSET Waiters BY DEF Users
<1>2. IsFiniteSet(Users(s)) BY <1>1, ThreadAssumption, FS_Subset
<1>3. Cardinality(Users(s)) \in Nat BY <1>2, FS_CardinalityType
<1>4. Cardinality(Users(s)) = 0 <=> Users(s) = {} BY <1>2, FS_EmptySet
<1>5. holders[s] \in Nat BY TypeParts DEF HistoryTyped
<1> QED BY <1>2, <1>3, <1>4, <1>5 DEF Open

\* A step after which the signals of all messages are held as before
LEMMA HandleStays ==
  ASSUME TypeOK, HandleShape, NEW t \in Threads, Alone(t),
         t \in Waiters => /\ pc[t] # "condemn" /\ pc'[t] # "condemn"
                          /\ pc'[t] = "collect" => isReady'[msg'[t]],
         \A s \in Slots : Open(s)' = Open(s),
         \A s \in Slots : Signalable(s) =>
            Signalable(s)' /\ openHandles'[s] = openHandles[s] /\ (isReady[s] => isReady'[s]),
         \A s \in Slots : phase'[s] = "claimed" \/ Owed(s)' => openHandles'[s] = 1
  PROVE  HandleShape'
<1>1. \A w \in Waiters \ {t} : pc'[w] = pc[w] /\ msg'[w] = msg[w]
  BY Const DEF Alone
<1>2. \A s \in Slots : Open(s)' > 0 => openHandles'[s] = Open(s)' /\ Signalable(s)'
  BY DEF HandleShape
<1>3. msg \in [Threads -> Slots] BY TypeParts DEF LocalsTyped
<1>4. ASSUME NEW w \in Waiters, pc'[w] = "condemn"
      PROVE  /\ Open(msg[w])' = 0 /\ Signalable(msg[w])' /\ msg'[w] = msg[w]
             /\ \A u \in Waiters : pc'[u] = "condemn" /\ msg'[u] = msg'[w] => u = w
  <2>1. w # t /\ pc[w] = "condemn" BY <1>1, <1>4
  <2>2. msg[w] \in Slots BY <1>3, Const
  <2> QED BY <1>1, <2>1, <2>2 DEF HandleShape
<1>5. ASSUME NEW w \in Waiters, pc'[w] = "collect" PROVE isReady'[msg'[w]]
  <2>1. CASE w = t BY <1>5, <2>1
  <2>2. CASE w # t
    <3>1. pc[w] = "collect" /\ msg'[w] = msg[w] /\ isReady[msg[w]] /\ msg[w] \in Slots
      BY <1>1, <1>3, <1>5, <2>2, Const DEF HandleShape
    <3>2. w \in Users(msg[w]) BY <3>1 DEF Users, UserPCs
    <3>3. Signalable(msg[w]) BY <3>1, <3>2, OpenTyped DEF HandleShape
    <3> QED BY <3>1, <3>3
  <2> QED BY <2>1, <2>2
<1> QED BY <1>2, <1>4, <1>5 DEF HandleShape

\* A step after which the signals of all messages but s are held as before
LEMMA HandleMoves ==
  ASSUME TypeOK, HandleShape, NEW t \in Threads, Alone(t), NEW s \in Slots,
         \A x \in Slots \ {s} : Open(x)' = Open(x),
         Open(s)' > 0 => openHandles'[s] = Open(s)' /\ Signalable(s)',
         \A x \in Slots \ {s} : Signalable(x) =>
            Signalable(x)' /\ openHandles'[x] = openHandles[x] /\ (isReady[x] => isReady'[x]),
         \A w \in Waiters \ {t} : pc[w] = "condemn" => msg[w] # s,
         \A w \in Waiters \ {t} : pc[w] = "collect" /\ msg[w] = s => isReady'[s],
         t \in Waiters =>
           /\ pc'[t] = "condemn" => msg'[t] = s /\ Open(s)' = 0 /\ Signalable(s)'
           /\ pc'[t] # "collect",
         \A x \in Slots : phase'[x] = "claimed" \/ Owed(x)' => openHandles'[x] = 1
  PROVE  HandleShape'
<1>1. \A w \in Waiters \ {t} : pc'[w] = pc[w] /\ msg'[w] = msg[w] /\ msg[w] \in Slots
  BY Const, TypeParts DEF Alone, LocalsTyped
<1>2. ASSUME NEW x \in Slots, Open(x)' > 0
      PROVE  openHandles'[x] = Open(x)' /\ Signalable(x)'
  <2>1. CASE x = s BY <1>2, <2>1
  <2>2. CASE x # s
    <3>1. Open(x) > 0 /\ Open(x)' = Open(x) BY <1>2, <2>2
    <3> QED BY <2>2, <3>1 DEF HandleShape
  <2> QED BY <2>1, <2>2
<1>3. ASSUME NEW w \in Waiters \ {t}, pc'[w] = "condemn"
      PROVE  /\ Open(msg[w])' = 0 /\ Signalable(msg[w])' /\ msg[w] # s
             /\ \A u \in Waiters \ {t} : pc[u] = "condemn" /\ msg[u] = msg[w] => u = w
  <2>1. PICK x \in Slots : x = msg[w] /\ x # s BY <1>1, <1>3
  <2>2. pc[w] = "condemn" /\ msg'[w] = x BY <1>1, <1>3, <2>1
  <2>3. Open(x) = 0 /\ Signalable(x) BY <2>1, <2>2 DEF HandleShape
  <2>4. Open(x)' = 0 /\ Signalable(x)' BY <2>1, <2>3
  <2>5. \A u \in Waiters : pc[u] = "condemn" /\ msg[u] = msg[w] => u = w
    BY <2>2 DEF HandleShape
  <2> QED BY <2>1, <2>2, <2>4, <2>5
<1>4. ASSUME NEW w \in Waiters, pc'[w] = "condemn"
      PROVE  /\ Open(msg[w])' = 0 /\ Signalable(msg[w])'
             /\ \A u \in Waiters : pc'[u] = "condemn" /\ msg'[u] = msg'[w] => u = w
  <2>1. CASE w = t BY <1>1, <1>3, <1>4, <2>1
  <2>2. CASE w # t BY <1>1, <1>3, <1>4, <2>2
  <2> QED BY <2>1, <2>2
<1>5. ASSUME NEW w \in Waiters, pc'[w] = "collect" PROVE isReady'[msg'[w]]
  <2>1. w # t BY <1>5
  <2>2. pc[w] = "collect" /\ msg'[w] = msg[w] /\ isReady[msg[w]] /\ msg[w] \in Slots
    BY <1>1, <1>5, <2>1 DEF HandleShape
  <2>3. CASE msg[w] = s BY <2>1, <2>2, <2>3
  <2>4. CASE msg[w] # s
    <3>1. w \in Users(msg[w]) BY <2>2 DEF Users, UserPCs
    <3>2. Signalable(msg[w]) BY <2>2, <3>1, OpenTyped DEF HandleShape
    <3> QED BY <2>2, <2>4, <3>2
  <2> QED BY <2>3, <2>4
<1> QED BY <1>2, <1>4, <1>5 DEF HandleShape

FieldsSame(s) ==
  /\ phase'[s] = phase[s] /\ flags'[s] = flags[s] /\ isReady'[s] = isReady[s]
  /\ openHandles'[s] = openHandles[s]
  /\ status'[s] = status[s] /\ answer'[s] = answer[s]

LEMMA FieldStays ==
  ASSUME FieldShape, TypeOK, NEW t \in Threads, Alone(t),
         \A s \in Slots : FieldsSame(s) \/ SlotShape(s)',
         previousReceived' = previousReceived \/ SlotShape(previousReceived)',
         \A p \in Producers \ {t} : pc[p] = "send" => FieldsSame(msg[p]),
         t \in Producers => (pc'[t] = "send" => Blank(msg[t])')
  PROVE  FieldShape'
<1>1. ASSUME NEW s \in Slots PROVE SlotShape(s)'
  <2>1. CASE SlotShape(s)' BY <2>1
  <2>2. CASE s = previousReceived' /\ SlotShape(previousReceived)'
    BY <2>2 DEF SlotShape, Blank
  <2>3. CASE FieldsSame(s) /\ (s = previousReceived' => s = previousReceived)
    <3>1. SlotShape(s) BY DEF FieldShape
    <3> QED BY <2>3, <3>1 DEF SlotShape, Blank, FieldsSame
  <2> QED BY <2>1, <2>2, <2>3
<1>2. ASSUME NEW p \in Producers, pc'[p] = "send" PROVE Blank(msg[p])'
  <2>1. CASE p = t BY <1>2, <2>1
  <2>2. CASE p # t
    <3>1. pc[p] = "send" /\ msg'[p] = msg[p] BY <1>2, <2>2, Const DEF Alone
    <3>2. FieldsSame(msg[p]) /\ Blank(msg[p]) BY <2>2, <3>1 DEF FieldShape
    <3> QED BY <3>1, <3>2 DEF FieldsSame, Blank
  <2> QED BY <2>1, <2>2
<1> QED BY <1>1, <1>2 DEF FieldShape

----------------------------------------------------------------------------
(* Counting                                                                *)

LEMMA CountsTyped ==
  ASSUME TypeOK
  PROVE  /\ IsFiniteSet(Popping) /\ IsFiniteSet(Releasing)
         /\ Cardinality(Popping) \in Nat /\ Cardinality(Releasing) \in Nat
<1>1. Popping \in SUBSET Producers /\ Releasing \in SUBSET Threads
  BY DEF Popping, Releasing
<1>2. IsFiniteSet(Producers) /\ IsFiniteSet(Threads)
  BY ThreadAssumption, FS_Union DEF Threads
<1>3. IsFiniteSet(Popping) /\ IsFiniteSet(Releasing) BY <1>1, <1>2, FS_Subset
<1> QED BY <1>3, FS_CardinalityType

LEMMA PoppingSame ==
  ASSUME NEW t \in Threads, Alone(t),
         t \in Producers => (pc'[t] \in PopPCs <=> pc[t] \in PopPCs)
  PROVE  Popping' = Popping
BY Const DEF Popping, Alone

LEMMA ReleasingSame ==
  ASSUME NEW t \in Threads, Alone(t),
         pc'[t] \in {"returnLink", "release"} <=> pc[t] \in {"returnLink", "release"}
  PROVE  Releasing' = Releasing
BY Const DEF Releasing, Alone

LEMMA ReleasingUp ==
  ASSUME TypeOK, NEW t \in Threads, Alone(t),
         pc'[t] \in {"returnLink", "release"}, pc[t] \notin {"returnLink", "release"}
  PROVE  Cardinality(Releasing)' = Cardinality(Releasing) + 1
<1>1. Releasing' = Releasing \cup {t} /\ t \notin Releasing
  BY Const DEF Releasing, Alone
<1> QED BY <1>1, CountsTyped, FS_AddElement

LEMMA ReleasingDown ==
  ASSUME TypeOK, NEW t \in Threads, Alone(t),
         pc[t] = "release", pc'[t] \notin {"returnLink", "release"}
  PROVE  Cardinality(Releasing)' = Cardinality(Releasing) - 1
<1>1. Releasing' = Releasing \ {t} /\ t \in Releasing
  BY Const DEF Releasing, Alone
<1> QED BY <1>1, CountsTyped, FS_RemoveElement

LEMMA PoppingOne ==
  ASSUME OneEach, TypeOK, NEW p \in Producers
  PROVE  Cardinality(Popping) = IF pc[p] \in PopPCs THEN 1 ELSE 0
<1>1. CASE pc[p] \in PopPCs
  <2>1. Popping = {p} BY <1>1 DEF OneEach, Popping
  <2> QED BY <1>1, <2>1, FS_Singleton
<1>2. CASE pc[p] \notin PopPCs
  <2>1. Popping = {} BY <1>2 DEF OneEach, Popping
  <2> QED BY <1>2, <2>1, FS_EmptySet
<1> QED BY <1>1, <1>2

LEMMA PoppingNext ==
  ASSUME OneEach, NEW p \in Producers
  PROVE  Cardinality(Popping)' = IF pc'[p] \in PopPCs THEN 1 ELSE 0
<1>1. CASE pc'[p] \in PopPCs
  <2>1. Popping' = {p} BY <1>1 DEF OneEach, Popping
  <2> QED BY <1>1, <2>1, FS_Singleton
<1>2. CASE pc'[p] \notin PopPCs
  <2>1. Popping' = {} BY <1>2 DEF OneEach, Popping
  <2> QED BY <1>2, <2>1, FS_EmptySet
<1> QED BY <1>1, <1>2

LEMMA PoolStays ==
  ASSUME TypeOK, PoolShape,
         UNCHANGED <<nextFreeSlot, slotSemaphore, Popping, Releasing>>,
         \A s \in Slots \ {Dummy} :
            /\ phase'[s] = "free" <=> phase[s] = "free"
            /\ phase[s] = "free" => next'[s] = next[s]
  PROVE  PoolShape'
<1>1. PICK q \in Seq(Slots) : Pool(q) BY DEF PoolShape
<1>2. \A i \in 1 .. Len(q) : q[i] \in Slots OBVIOUS
<1>3. \A i \in 1 .. Len(q) : next'[q[i]] = FreeAt(q, i + 1) /\ phase'[q[i]] = "free"
  BY <1>1, <1>2 DEF Pool
<1> QED BY <1>1, <1>3 DEF Pool, PoolShape, FreeAt

----------------------------------------------------------------------------
(* The producer                                                            *)

LEMMA PcMoves ==
  ASSUME TypeOK, NEW t \in Threads, NEW l, Goto(t, l),
         t \in Producers => l \in ProducerPCs,
         t \in Consumers => l \in ConsumerPCs,
         t \in Waiters => l \in WaiterPCs
  PROVE  PcTyped' /\ pc'[t] = l /\ \A u \in Threads \ {t} : pc'[u] = pc[u]
<1>1. l \in AllPCs BY Const DEF AllPCs
<1>2. pc \in [Threads -> AllPCs] /\ PcTyped BY TypeParts DEF PcTyped
<1>3. /\ pc' \in [Threads -> AllPCs] /\ pc'[t] = l
      /\ \A u \in Threads \ {t} : pc'[u] = pc[u]
  BY <1>1, <1>2 DEF Goto
<1> QED BY <1>2, <1>3, Const DEF PcTyped

LEMMA Goes ==
  ASSUME TypeOK, NEW t \in Threads, NEW l, Goto(t, l),
         \A u \in Threads \ {t} :
            /\ msg'[u] = msg[u] /\ old'[u] = old[u]
            /\ reg'[u] = reg[u] /\ nxt'[u] = nxt[u] /\ ret'[u] = ret[u]
  PROVE  Alone(t) /\ pc'[t] = l
BY TypeParts DEF PcTyped, Goto, Alone

\* A label of the producer that no other kind of mailbox has
Plain == {"idle", "send", "sendLink", "sendCas", "count", "loadFree", "popRead", "popCas"}

LEMMA ProducerFrames ==
  ASSUME OneEach, TypeOK, AgateInv, NEW p \in Producers, Alone(p),
         pc'[p] \in Plain, kind' = kind,
         ret'[p] \in {"idle", "keep", "ignore"}
  PROVE  /\ Proper' /\ Releasing' = Releasing
         /\ \A s : Users(s)' = Users(s) /\ (Dying(s)' <=> Dying(s))
         /\ \A q \in Producers : q = p
<1> USE Const
<1>1. p \in Threads /\ \A q \in Producers : q = p BY DEF OneEach
<1>2. pc[p] \in ProducerPCs BY TypeParts DEF PcTyped
<1>3. /\ pc[p] \notin DyingPCs \cup {"returnLink", "release"}
      /\ pc'[p] \notin DyingPCs \cup {"returnLink", "release"}
  BY <1>2 DEF ProducerPCs, PopPCs, DyingPCs, Plain
<1>4. Proper'
  BY <1>1, ProperStays DEF AgateInv, Proper, Plain
<1>5. Releasing' = Releasing BY <1>1, <1>3, ReleasingSame
<1>6. \A s : Users(s)' = Users(s) BY <1>1, UsersSame
<1>7. \A s : Dying(s)' <=> Dying(s) BY <1>1, <1>3, DyingSame
<1> QED BY <1>1, <1>4, <1>5, <1>6, <1>7

LEMMA AcquireKeeps ==
  ASSUME OneEach, TypeOK, AgateInv, NEW p \in Producers, AcquireSlot(p)
  PROVE  TypeOK' /\ AgateInv'
<1> USE Const DEF AgateInv
<1>1. /\ pc[p] = "idle" /\ Goto(p, "loadFree") /\ slotSemaphore' = slotSemaphore - 1
      /\ slotSemaphore > 0
      /\ UNCHANGED <<kind, msgVars, ends, queuedMessages, locals, holders, hist>>
  BY DEF AcquireSlot, Proper, SingleProducer, PermitFree
<1>2. PcTyped' /\ pc'[p] = "loadFree" /\ Alone(p)
  BY <1>1, PcMoves DEF ProducerPCs, PopPCs, Alone, locals
<1>3. TypeOK'
  <2>1. FieldsTyped' /\ LocalsTyped' /\ HistoryTyped'
    BY <1>1, TypeParts DEF FieldsTyped, LocalsTyped, HistoryTyped, msgVars, locals, hist
  <2>2. EndsTyped' BY <1>1, TypeParts DEF EndsTyped, ends
  <2> QED BY <1>2, <2>1, <2>2, TypeNext
<1>4. /\ Proper' /\ Releasing' = Releasing
      /\ \A s : Users(s)' = Users(s) /\ (Dying(s)' <=> Dying(s))
      /\ \A q \in Producers : q = p
  BY <1>1, <1>2, ProducerFrames DEF Plain, Proper, locals
<1>5. \A s \in Slots : /\ FieldsSame(s) /\ Open(s)' = Open(s) /\ (Owed(s)' <=> Owed(s))
                       /\ next'[s] = next[s]
  BY <1>1, <1>2, <1>4, OwedSame, OpenSame DEF FieldsSame, msgVars, hist
<1>6. PoolShape'
  <2>1. PICK q \in Seq(Slots) : Pool(q) BY DEF PoolShape
  <2>2. Cardinality(Popping) = 0 /\ Cardinality(Popping)' = 1
    BY <1>1, <1>2, PoppingOne, PoppingNext DEF PopPCs
  <2>3. slotSemaphore \in Nat /\ Cardinality(Releasing) \in Nat
    BY TypeParts, CountsTyped DEF EndsTyped
  <2>4. Len(q) = slotSemaphore' + Cardinality(Popping)' + Cardinality(Releasing)'
    BY <1>1, <1>4, <2>1, <2>2, <2>3 DEF Pool
  <2> QED BY <1>1, <2>1, <2>4 DEF Pool, PoolShape, FreeAt, msgVars, ends, hist
<1>7. PopShape' BY <1>2, <1>5, PopStays DEF FieldsSame
<1>8. SendShape' BY <1>1, <1>2, <1>4, SendStays DEF SendPCs, ends, msgVars, hist
<1>9. QueueShape' BY <1>1, <1>2, CountsStay, QueueStays DEF ends, msgVars, hist
<1>10. RecvShape'
  BY <1>1, <1>2, RecvStays DEF ends, msgVars, hist, RecvShape
<1>11. FieldShape' BY <1>1, <1>2, <1>4, <1>5, FieldStays DEF ends
<1>12. DyingShape' BY <1>1, <1>2, DyingStays DEF DyingPCs, ends, msgVars, hist, DyingShape
<1>13. HandleShape'
  <2>1. \A s \in Slots : Signalable(s) => Signalable(s)'
    BY <1>4, <1>5 DEF Signalable, FieldsSame
  <2>2. \A s \in Slots : phase'[s] = "claimed" \/ Owed(s)' => openHandles'[s] = 1
    BY <1>5 DEF FieldsSame, HandleShape
  <2> QED BY <1>2, <1>5, <2>1, <2>2, HandleStays DEF FieldsSame
<1> QED BY <1>3, <1>4, <1>6, <1>7, <1>8, <1>9, <1>10, <1>11, <1>12, <1>13

LEMMA LookKeeps ==
  ASSUME OneEach, TypeOK, AgateInv, TypeOK', NEW p \in Producers, Alone(p), PopShape',
         UNCHANGED <<kind, msgVars, ends, counters, holders, hist>>,
         pc[p] \in {"loadFree", "popRead", "popCas"},
         pc'[p] \in {"loadFree", "popRead", "popCas"}, ret'[p] = ret[p]
  PROVE  AgateInv'
<1> USE Const DEF AgateInv
<1>4. /\ Proper' /\ Releasing' = Releasing
      /\ \A s : Users(s)' = Users(s) /\ (Dying(s)' <=> Dying(s))
      /\ \A q \in Producers : q = p
  BY ProducerFrames DEF Plain, Proper
<1>5. \A s \in Slots : /\ FieldsSame(s) /\ Open(s)' = Open(s) /\ (Owed(s)' <=> Owed(s))
                       /\ next'[s] = next[s]
  BY <1>4, OwedSame, OpenSame DEF FieldsSame, msgVars, hist
<1>6. PoolShape'
  <2>1. Popping' = Popping BY PoppingSame DEF PopPCs
  <2> QED BY <1>4, <1>5, <2>1, PoolStays DEF ends, counters, FieldsSame
<1>8. SendShape' BY <1>4, SendStays DEF SendPCs, ends, msgVars, hist
<1>9. QueueShape' BY CountsStay, QueueStays DEF ends, msgVars, hist, counters
<1>10. RecvShape'
  BY RecvStays DEF ends, msgVars, hist, RecvShape
<1>11. FieldShape' BY <1>4, <1>5, FieldStays DEF ends
<1>12. DyingShape' BY DyingStays DEF DyingPCs, ends, msgVars, hist, DyingShape
<1>13. HandleShape'
  <2>1. \A s \in Slots : Signalable(s) => Signalable(s)'
    BY <1>4, <1>5 DEF Signalable, FieldsSame
  <2>2. \A s \in Slots : phase'[s] = "claimed" \/ Owed(s)' => openHandles'[s] = 1
    BY <1>5 DEF FieldsSame, HandleShape
  <2> QED BY <1>5, <2>1, <2>2, HandleStays DEF FieldsSame
<1> QED BY <1>4, <1>6, <1>8, <1>9, <1>10, <1>11, <1>12, <1>13

(* A thread that pops finds the head of the pool free.                     *)
LEMMA HeadFree ==
  ASSUME OneEach, TypeOK, PoolShape, NEW p \in Producers, pc[p] \in PopPCs
  PROVE  nextFreeSlot \in Slots \ {Dummy} /\ phase[nextFreeSlot] = "free"
<1>1. PICK q \in Seq(Slots) : Pool(q) BY DEF PoolShape
<1>2. Cardinality(Popping) = 1 BY PoppingOne
<1>3. slotSemaphore \in Nat /\ Cardinality(Releasing) \in Nat
  BY TypeParts, CountsTyped DEF EndsTyped
<1>4. Len(q) >= 1 /\ 1 \in 1 .. Len(q) BY <1>1, <1>2, <1>3 DEF Pool
<1>5. nextFreeSlot = q[1] BY <1>1, <1>4 DEF Pool, FreeAt
<1> QED BY <1>1, <1>4, <1>5 DEF Pool

(* The links of free slots lead to slots.                                  *)
LEMMA FreeLinks ==
  ASSUME TypeOK, PoolShape, NEW s \in Slots \ {Dummy}, phase[s] = "free"
  PROVE  next[s] \in Slots
<1>1. PICK q \in Seq(Slots) : Pool(q) BY DEF PoolShape
<1>2. PICK i \in 1 .. Len(q) : q[i] = s BY <1>1 DEF Pool
<1>3. next[s] = FreeAt(q, i + 1) BY <1>1, <1>2 DEF Pool
<1>4. i + 1 \in 1 .. Len(q) \/ i + 1 > Len(q) BY <1>2
<1> QED BY <1>3, <1>4, Const DEF FreeAt

LEMMA LoadKeeps ==
  ASSUME OneEach, TypeOK, AgateInv, NEW p \in Producers, LoadFree(p)
  PROVE  TypeOK' /\ AgateInv'
<1> USE Const DEF AgateInv
<1>1. /\ pc[p] = "loadFree" /\ Goto(p, "popRead") /\ reg' = [reg EXCEPT ![p] = nextFreeSlot]
      /\ UNCHANGED <<kind, msgVars, ends, counters, msg, old, nxt, ret, holders, hist>>
  BY DEF LoadFree
<1>2. PcTyped' /\ pc'[p] = "popRead" /\ Alone(p)
  BY <1>1, PcMoves, TypeParts DEF ProducerPCs, PopPCs, Alone, LocalsTyped
<1>3. TypeOK'
  <2>1. FieldsTyped' /\ EndsTyped' /\ HistoryTyped'
    BY <1>1, TypeParts DEF FieldsTyped, EndsTyped, HistoryTyped, msgVars, hist, ends, counters
  <2>2. LocalsTyped' BY <1>1, TypeParts DEF LocalsTyped, EndsTyped
  <2> QED BY <1>2, <2>1, <2>2, TypeNext
<1>4. PopShape'
  <2>1. nextFreeSlot \in Slots \ {Dummy} /\ phase[nextFreeSlot] = "free"
    BY <1>1, HeadFree DEF PopPCs
  <2>2. reg'[p] = nextFreeSlot BY <1>1, TypeParts DEF LocalsTyped
  <2> QED BY <1>1, <1>2, <2>1, <2>2 DEF PopShape, OneEach, hist
<1> QED BY <1>1, <1>2, <1>3, <1>4, LookKeeps

LEMMA ReadKeeps ==
  ASSUME OneEach, TypeOK, AgateInv, NEW p \in Producers, PopRead(p)
  PROVE  TypeOK' /\ AgateInv'
<1> USE Const DEF AgateInv
<1>0. pc[p] = "popRead" /\ reg[p] \in Slots \ {Dummy} /\ phase[reg[p]] = "free"
  BY DEF PopRead, PopShape
<1>1. /\ Goto(p, "popCas") /\ nxt' = [nxt EXCEPT ![p] = next[reg[p]]]
      /\ UNCHANGED <<kind, msgVars, ends, counters, msg, old, reg, ret, holders, hist>>
  BY <1>0 DEF PopRead, Reach
<1>2. PcTyped' /\ pc'[p] = "popCas" /\ Alone(p)
  BY <1>1, PcMoves, TypeParts DEF ProducerPCs, PopPCs, Alone, LocalsTyped
<1>5. next[reg[p]] \in Slots BY <1>0, FreeLinks
<1>3. TypeOK'
  <2>1. FieldsTyped' /\ EndsTyped' /\ HistoryTyped'
    BY <1>1, TypeParts DEF FieldsTyped, EndsTyped, HistoryTyped, msgVars, hist, ends, counters
  <2>2. LocalsTyped' BY <1>1, <1>5, TypeParts DEF LocalsTyped
  <2> QED BY <1>2, <2>1, <2>2, TypeNext
<1>4. PopShape'
  <2>2. nxt'[p] = next[reg[p]] BY <1>1, TypeParts DEF LocalsTyped
  <2> QED BY <1>0, <1>1, <1>2, <1>5, <2>2 DEF PopShape, OneEach, hist, msgVars
<1> QED BY <1>0, <1>1, <1>2, <1>3, <1>4, LookKeeps

LEMMA PoolPop ==
  ASSUME TypeOK, NEW q \in Seq(Slots), Pool(q), NEW s \in Slots \ {Dummy}, phase[s] = "free",
         nextFreeSlot = s, nextFreeSlot' = next[s], next' = next,
         phase' = [phase EXCEPT ![s] = "claimed"],
         Len(q) - 1 = slotSemaphore' + Cardinality(Popping)' + Cardinality(Releasing)'
  PROVE  PoolShape'
<1> USE Const
<1> DEFINE r == Tail(q)
<1>1. Len(q) >= 1 /\ q[1] = s
  <2>1. PICK i \in 1 .. Len(q) : q[i] = s BY DEF Pool
  <2> QED BY <2>1 DEF Pool, FreeAt
<1>2. /\ r \in Seq(Slots) /\ Len(r) = Len(q) - 1
      /\ \A i \in 1 .. Len(r) : r[i] = q[i + 1] /\ i + 1 \in 1 .. Len(q)
  BY <1>1
<1> HIDE DEF r
<1>3. \A i, j \in 1 .. Len(r) : r[i] = r[j] => i = j
  <2> SUFFICES ASSUME NEW i \in 1 .. Len(r), NEW j \in 1 .. Len(r), r[i] = r[j] PROVE i = j
    OBVIOUS
  <2>1. i + 1 = j + 1 BY <1>2 DEF Pool
  <2> QED BY <2>1
<1>4. \A i \in 1 .. Len(r) : r[i] # s
  <2> SUFFICES ASSUME NEW i \in 1 .. Len(r), r[i] = s PROVE FALSE OBVIOUS
  <2>1. i + 1 = 1 BY <1>1, <1>2 DEF Pool
  <2> QED BY <2>1
<1>5. phase'[s] = "claimed" /\ \A x \in Slots : x # s => phase'[x] = phase[x]
  BY TypeParts DEF HistoryTyped
<1>6. \A i \in 1 .. Len(r) : r[i] # Dummy /\ phase'[r[i]] = "free"
  BY <1>2, <1>4, <1>5 DEF Pool
<1>7. ASSUME NEW x \in Slots \ {Dummy}, phase'[x] = "free"
      PROVE  \E i \in 1 .. Len(r) : r[i] = x
  <2>1. x # s /\ phase[x] = "free" BY <1>5, <1>7
  <2>2. PICK i \in 1 .. Len(q) : q[i] = x BY <2>1 DEF Pool
  <2>3. i # 1 BY <1>1, <2>1, <2>2
  <2>4. i - 1 \in 1 .. Len(r) /\ r[i - 1] = q[(i - 1) + 1] /\ (i - 1) + 1 = i
    BY <1>2, <2>3
  <2> QED BY <2>2, <2>4
<1>8. ASSUME NEW i \in 1 .. Len(q) PROVE FreeAt(q, i + 1) = FreeAt(r, i)
  BY <1>2 DEF FreeAt
<1>9. nextFreeSlot' = FreeAt(r, 1)
  <2>1. next[q[1]] = FreeAt(q, 1 + 1) BY <1>1 DEF Pool
  <2> QED BY <1>1, <1>8, <2>1
<1>10. ASSUME NEW i \in 1 .. Len(r) PROVE next'[r[i]] = FreeAt(r, i + 1)
  <2>1. PICK j \in 1 .. Len(q) : j = i + 1 BY <1>2
  <2>2. next[q[j]] = FreeAt(q, j + 1) BY DEF Pool
  <2> QED BY <1>2, <1>8, <2>1, <2>2
<1>11. Pool(r)' BY <1>2, <1>3, <1>6, <1>7, <1>9, <1>10 DEF Pool, FreeAt
<1> QED BY <1>2, <1>11 DEF PoolShape

LEMMA PopKeeps ==
  ASSUME OneEach, TypeOK, AgateInv, NEW p \in Producers, PopCas(p), nextFreeSlot = reg[p]
  PROVE  TypeOK' /\ AgateInv'
<1> USE Const DEF AgateInv
<1>s. PICK s \in Slots : s = reg[p] BY DEF PopCas, PopShape
<1>0. /\ pc[p] = "popCas" /\ s \in Slots \ {Dummy} /\ phase[s] = "free"
      /\ nxt[p] = next[s] /\ nxt[p] \in Slots
  BY <1>s DEF PopCas, PopShape
<1>1. /\ Goto(p, "send") /\ nextFreeSlot' = nxt[p] /\ msg' = [msg EXCEPT ![p] = s]
      /\ reg' = [reg EXCEPT ![p] = Dummy] /\ nxt' = [nxt EXCEPT ![p] = Dummy]
      /\ phase' = [phase EXCEPT ![s] = "claimed"]
      /\ answer' = [answer EXCEPT ![s] = "NOT_SET"]
      /\ UNCHANGED <<kind, msgVars, lastFreeSlot, lastQueuedSlot, previousReceived,
                     counters, old, ret, holders, fifo>>
  BY <1>s, <1>0 DEF PopCas, Claim, Become, Forget
<1>2. PcTyped' /\ pc'[p] = "send" /\ Alone(p)
  BY <1>1, PcMoves, TypeParts DEF ProducerPCs, PopPCs, Alone, LocalsTyped
<1>3. TypeOK'
  <2>1. FieldsTyped' BY <1>1, TypeParts DEF FieldsTyped, msgVars
  <2>2. EndsTyped' BY <1>0, <1>1, TypeParts DEF EndsTyped, counters
  <2>3. LocalsTyped' BY <1>0, <1>1, TypeParts DEF LocalsTyped
  <2>4. HistoryTyped' BY <1>1, TypeParts DEF HistoryTyped, Statuses
  <2> QED BY <1>2, <2>1, <2>2, <2>3, <2>4, TypeNext
<1>4. /\ Proper' /\ Releasing' = Releasing
      /\ \A x : Users(x)' = Users(x) /\ (Dying(x)' <=> Dying(x))
      /\ \A q \in Producers : q = p
  BY <1>1, <1>2, ProducerFrames DEF Plain, Proper
<1>5. /\ phase'[s] = "claimed" /\ msg'[p] = s
      /\ \A x \in Slots \ {s} : FieldsSame(x)
      /\ \A x \in Slots : Open(x)' = Open(x) /\ (Owed(x)' <=> Owed(x)) /\ next'[x] = next[x]
  <2>1. \A x \in Slots : Owed(x)' <=> Owed(x) BY <1>0, <1>2, OwedSame
  <2>2. \A x \in Slots : Open(x)' = Open(x) BY <1>1, <1>4, OpenSame
  <2> QED BY <1>0, <1>1, <2>1, <2>2, TypeParts DEF FieldsSame, msgVars, HistoryTyped, LocalsTyped
<1>6. Blank(s) /\ ~isReady[s] /\ Blank(s)' BY <1>0, <1>1 DEF FieldShape, SlotShape, Blank, msgVars
<1>7. PoolShape'
  <2>1. PICK q \in Seq(Slots) : Pool(q) BY DEF PoolShape
  <2>2. Cardinality(Popping) = 1 /\ Cardinality(Popping)' = 0
    BY <1>0, <1>2, PoppingOne, PoppingNext DEF PopPCs
  <2>3. slotSemaphore \in Nat /\ Cardinality(Releasing) \in Nat
    BY TypeParts, CountsTyped DEF EndsTyped
  <2>4. Len(q) - 1 = slotSemaphore' + Cardinality(Popping)' + Cardinality(Releasing)'
    BY <1>1, <1>4, <2>1, <2>2, <2>3 DEF Pool, counters
  <2>5. nextFreeSlot = s /\ nextFreeSlot' = next[s] /\ next' = next
    BY <1>s, <1>0, <1>1 DEF msgVars
  <2> QED BY <1>0, <1>1, <2>1, <2>4, <2>5, PoolPop
<1>8. PopShape' BY <1>2, <1>4 DEF PopShape
<1>9. SendShape' BY <1>0, <1>2, <1>4, <1>5 DEF SendShape
<1>10. QueueShape'
  <2>1. \A x \in Slots : phase'[x] = "queued" <=> phase[x] = "queued"
    BY <1>0, <1>5 DEF FieldsSame
  <2> QED BY <1>0, <1>1, <1>2, <1>5, <2>1, CountsStay, QueueStays DEF counters
<1>11. s # previousReceived /\ \A c \in Consumers : pc[c] = "freeHold" => old[c] # s
  BY <1>0 DEF FieldShape, SlotShape, RecvShape
<1>12. RecvShape'
  <2>1. /\ phase'[previousReceived] = phase[previousReceived]
        /\ answer'[previousReceived] = answer[previousReceived]
    BY <1>5, <1>11, TypeParts DEF FieldsSame, EndsTyped
  <2>2. \A c \in Consumers : pc[c] = "freeHold" => phase'[old[c]] = phase[old[c]]
    BY <1>5, <1>11, TypeParts DEF FieldsSame, LocalsTyped
  <2>3. UNCHANGED <<previousReceived, status>> /\ next' = next /\ flags' = flags
    BY <1>1 DEF msgVars
  <2>4. \A c \in Consumers :
          /\ pc[c] = "recvCas" => next'[previousReceived] = next[previousReceived]
          /\ pc[c] = "freeHold" => /\ phase'[old[c]] = phase[old[c]]
                                   /\ IF old[c] = Dummy THEN flags'[old[c]] = flags[old[c]]
                                      ELSE IN_USE \in flags'[old[c]]
    BY <2>2, <2>3 DEF RecvShape
  <2> QED BY <1>2, <1>4, <2>1, <2>3, <2>4, RecvStays
<1>13. FieldShape'
  <2>1. SlotShape(s)'
    BY <1>0, <1>1, <1>5, <1>6, <1>11 DEF SlotShape, msgVars, Blank
  <2> QED BY <1>1, <1>2, <1>4, <1>5, <1>6, <2>1, FieldStays DEF Blank
<1>14. DyingShape'
  <2>1. \A u \in Threads : pc[u] \in DyingPCs => old[u] # s
    BY <1>0 DEF DyingShape
  <2>2. \A u \in Threads : pc[u] \in DyingPCs => phase'[old[u]] = phase[old[u]]
    BY <2>1, <1>5, TypeParts DEF LocalsTyped, FieldsSame
  <2> QED BY <1>1, <1>2, <2>2, DyingStays DEF DyingPCs, msgVars, DyingShape
<1>15. HandleShape'
  <2>1. \A x \in Slots : Signalable(x) => Signalable(x)'
    BY <1>0, <1>4, <1>5 DEF Signalable, FieldsSame
  <2>2. \A x \in Slots : phase'[x] = "claimed" \/ Owed(x)' => openHandles'[x] = 1
    BY <1>5, <1>6 DEF FieldsSame, HandleShape, Blank
  <2> QED BY <1>1, <1>2, <1>5, <2>1, <2>2, HandleStays DEF FieldsSame, msgVars
<1> QED BY <1>3, <1>4, <1>7, <1>8, <1>9, <1>10, <1>12, <1>13, <1>14, <1>15

LEMMA PopAgainKeeps ==
  ASSUME OneEach, TypeOK, AgateInv, NEW p \in Producers, PopCas(p), nextFreeSlot # reg[p]
  PROVE  TypeOK' /\ AgateInv'
<1> USE Const DEF AgateInv
<1>1. /\ pc[p] = "popCas" /\ Goto(p, "popRead") /\ reg' = [reg EXCEPT ![p] = nextFreeSlot]
      /\ nxt' = [nxt EXCEPT ![p] = Dummy]
      /\ UNCHANGED <<kind, msgVars, ends, counters, msg, old, ret, holders, hist>>
  BY DEF PopCas, Forget, ends, hist
<1>2. PcTyped' /\ pc'[p] = "popRead" /\ Alone(p)
  BY <1>1, PcMoves, TypeParts DEF ProducerPCs, PopPCs, Alone, LocalsTyped
<1>3. TypeOK'
  <2>1. FieldsTyped' /\ EndsTyped' /\ HistoryTyped'
    BY <1>1, TypeParts DEF FieldsTyped, EndsTyped, HistoryTyped, msgVars, hist, ends, counters
  <2>2. LocalsTyped' BY <1>1, TypeParts DEF LocalsTyped, EndsTyped
  <2> QED BY <1>2, <2>1, <2>2, TypeNext
<1>4. PopShape'
  <2>1. nextFreeSlot \in Slots \ {Dummy} /\ phase[nextFreeSlot] = "free"
    BY <1>1, HeadFree DEF PopPCs
  <2>2. reg'[p] = nextFreeSlot BY <1>1, TypeParts DEF LocalsTyped
  <2> QED BY <1>1, <1>2, <2>1, <2>2 DEF PopShape, OneEach, hist
<1> QED BY <1>1, <1>2, <1>3, <1>4, LookKeeps

LEMMA SendLoadKeeps ==
  ASSUME OneEach, TypeOK, AgateInv, NEW p \in Producers, NEW f \in SendFlags, SendLoad(p, f)
  PROVE  TypeOK' /\ AgateInv'
<1> USE Const DEF AgateInv
<1>s. PICK s \in Slots : s = msg[p] BY TypeParts DEF LocalsTyped
<1>0. /\ pc[p] = "send" /\ s # Dummy /\ phase[s] = "claimed" /\ Blank(s)
      /\ f \subseteq {IGNORE, FAST}
  BY <1>s, FlagAssumption DEF SendLoad, SendShape, FieldShape
<1>1. /\ Goto(p, "sendLink") /\ flags' = [flags EXCEPT ![s] = @ \cup f \cup {IN_USE}]
      /\ reg' = [reg EXCEPT ![p] = lastQueuedSlot]
      /\ ret' = [ret EXCEPT ![p] = Signal(f)]
      /\ UNCHANGED <<kind, next, isReady, openHandles, status, ends, counters, msg, old, nxt,
                     holders, hist>>
  BY <1>s DEF SendLoad, Flagged
<1>a. Signal(f) = (IF IGNORE \in f THEN "ignore" ELSE "keep") /\ Signal(f) \in {"ignore", "keep"}
  BY DEF Signal
<1>2. PcTyped' /\ pc'[p] = "sendLink" /\ Alone(p)
  BY <1>1, PcMoves, TypeParts DEF ProducerPCs, PopPCs, Alone, LocalsTyped
<1>3. TypeOK'
  <2>1. FieldsTyped'
    <3>1. flags[s] \cup f \cup {IN_USE} \in SUBSET AllFlags
      BY <1>0, TypeParts DEF FieldsTyped, AllFlags
    <3> QED BY <1>1, <3>1, TypeParts DEF FieldsTyped
  <2>2. EndsTyped' /\ HistoryTyped'
    BY <1>1, TypeParts DEF EndsTyped, HistoryTyped, hist, ends, counters
  <2>3. LocalsTyped' BY <1>1, <1>a, TypeParts DEF LocalsTyped, EndsTyped
  <2> QED BY <1>2, <2>1, <2>2, <2>3, TypeNext
<1>5. /\ flags'[s] = f \cup {IN_USE} /\ reg'[p] = lastQueuedSlot /\ ret'[p] = Signal(f)
      /\ \A x \in Slots \ {s} : FieldsSame(x)
      /\ \A x \in Slots : phase'[x] = phase[x] /\ next'[x] = next[x]
                          /\ openHandles'[x] = openHandles[x] /\ isReady'[x] = isReady[x]
  BY <1>0, <1>1, TypeParts DEF Blank, FieldsTyped, LocalsTyped, FieldsSame, hist
<1>4. /\ Proper' /\ Releasing' = Releasing
      /\ \A x : Users(x)' = Users(x) /\ (Dying(x)' <=> Dying(x))
      /\ \A q \in Producers : q = p
  BY <1>1, <1>2, <1>5, <1>a, ProducerFrames DEF Plain, Proper
<1>6. \A x \in Slots : Open(x)' = Open(x) /\ (Owed(x)' <=> Owed(x))
  BY <1>0, <1>1, <1>2, <1>4, OwedSame, OpenSame
<1>7. PoolShape'
  <2>1. Popping' = Popping BY <1>0, <1>2, PoppingSame DEF PopPCs
  <2> QED BY <1>1, <1>4, <1>5, <2>1, PoolStays DEF ends, counters
<1>8. PopShape' BY <1>2, <1>4 DEF PopShape
<1>9. SendShape'
  <2>1. msg'[p] = s BY <1>s, <1>1
  <2>2. IGNORE \in flags'[s] <=> IGNORE \in f BY <1>5 DEF IGNORE, IN_USE
  <2>3. IN_USE \in flags'[s] /\ CONDEMNED \notin flags'[s]
    BY <1>0, <1>5 DEF IGNORE, IN_USE, FAST, CONDEMNED
  <2>4. ret'[p] = IF IGNORE \in flags'[s] THEN "ignore" ELSE "keep"
    <3>1. CASE IGNORE \in f BY <1>5, <1>a, <2>2, <3>1
    <3>2. CASE IGNORE \notin f BY <1>5, <1>a, <2>2, <3>2
    <3> QED BY <3>1, <3>2
  <2>5. phase'[s] = "claimed" /\ reg'[p] = lastQueuedSlot' BY <1>0, <1>1, <1>5 DEF ends
  <2> QED BY <1>0, <1>2, <1>4, <2>1, <2>3, <2>4, <2>5 DEF SendShape
<1>10. QueueShape'
  BY <1>0, <1>1, <1>2, <1>5, CountsStay, QueueStays DEF ends, counters, hist
<1>11. s # previousReceived /\ \A c \in Consumers : pc[c] = "freeHold" => old[c] # s
  BY <1>0 DEF FieldShape, SlotShape, RecvShape
<1>12. RecvShape'
  <2>2. \A c \in Consumers : pc[c] = "freeHold" => flags'[old[c]] = flags[old[c]]
    BY <1>5, <1>11, TypeParts DEF FieldsSame, LocalsTyped
  <2> QED BY <1>1, <1>2, <2>2, RecvStays DEF ends, hist, RecvShape
<1>13. FieldShape'
  <2>1. SlotShape(s)'
    BY <1>0, <1>1, <1>5, <1>11 DEF SlotShape, Blank, ends, FieldShape
  <2> QED BY <1>1, <1>2, <1>4, <1>5, <2>1, FieldStays DEF ends
<1>14. DyingShape'
  <2>1. \A u \in Threads : pc[u] \in DyingPCs => old[u] # s
    BY <1>0 DEF DyingShape
  <2>2. \A u \in Threads : pc[u] \in DyingPCs => flags'[old[u]] = flags[old[u]]
    BY <2>1, <1>5, TypeParts DEF LocalsTyped, FieldsSame
  <2>3. \A u \in Threads \ {p} : pc[u] \in DyingPCs =>
          /\ old[u] \in Slots /\ old[u] # previousReceived'
          /\ flags'[old[u]] = flags[old[u]] /\ phase'[old[u]] = phase[old[u]]
    BY <1>1, <1>5, <2>2, TypeParts DEF LocalsTyped, ends, DyingShape
  <2> QED BY <1>1, <1>2, <2>3, DyingStays DEF DyingPCs
<1>15. HandleShape'
  <2>1. \A x \in Slots : Signalable(x) => Signalable(x)'
    BY <1>0, <1>4, <1>5, <1>6 DEF Signalable, FieldsSame
  <2>2. \A x \in Slots : phase'[x] = "claimed" \/ Owed(x)' => openHandles'[x] = 1
    BY <1>5, <1>6 DEF HandleShape
  <2> QED BY <1>1, <1>2, <1>5, <1>6, <2>1, <2>2, HandleStays DEF FieldsSame
<1> QED BY <1>3, <1>4, <1>7, <1>8, <1>9, <1>10, <1>12, <1>13, <1>14, <1>15

\* The end of the queue is the message sent last, or else the one received last.
LEMMA QueueEnd ==
  ASSUME TypeOK, QueueShape
  PROVE  /\ fifo = <<>> => lastQueuedSlot = previousReceived
         /\ fifo # <<>> => /\ Len(fifo) \in 1 .. Len(fifo) /\ lastQueuedSlot = fifo[Len(fifo)]
                           /\ phase[lastQueuedSlot] = "queued"
         /\ fifo \in Seq(Slots) /\ Len(fifo) \in Nat
<1>1. fifo \in Seq(Slots) BY TypeParts DEF HistoryTyped
<1>2. lastQueuedSlot = ChainAt(Len(fifo)) BY DEF QueueShape
<1>3. CASE fifo = <<>> BY <1>1, <1>2, <1>3 DEF ChainAt
<1>4. CASE fifo # <<>>
  <2>1. Len(fifo) \in 1 .. Len(fifo) /\ Len(fifo) # 0 BY <1>1, <1>4
  <2>2. lastQueuedSlot = fifo[Len(fifo)] BY <1>2, <2>1 DEF ChainAt
  <2> QED BY <1>1, <1>4, <2>1, <2>2 DEF QueueShape
<1> QED BY <1>1, <1>3, <1>4

LEMMA SendLinkKeeps ==
  ASSUME OneEach, TypeOK, AgateInv, NEW p \in Producers, SendLink(p)
  PROVE  TypeOK' /\ AgateInv'
<1> USE Const DEF AgateInv
<1>s. PICK s \in Slots : s = msg[p] BY TypeParts DEF LocalsTyped
<1>e. PICK e \in Slots : e = lastQueuedSlot BY TypeParts DEF EndsTyped
<1>0. /\ pc[p] = "sendLink" /\ s # Dummy /\ phase[s] = "claimed" /\ reg[p] = e
  BY <1>s, <1>e DEF SendLink, SendShape
<1>1. /\ Goto(p, "sendCas") /\ next' = [next EXCEPT ![e] = s]
      /\ UNCHANGED <<kind, flags, isReady, openHandles, status, ends, counters, locals, holders,
                     hist>>
  BY <1>s, <1>0 DEF SendLink, Linked
<1>2. PcTyped' /\ pc'[p] = "sendCas" /\ Alone(p)
  BY <1>1, PcMoves, TypeParts DEF ProducerPCs, PopPCs, Alone, LocalsTyped, locals
<1>3. TypeOK'
  <2>1. FieldsTyped' BY <1>1, TypeParts DEF FieldsTyped
  <2>2. EndsTyped' /\ HistoryTyped' /\ LocalsTyped'
    BY <1>1, TypeParts DEF EndsTyped, HistoryTyped, LocalsTyped, hist, ends, counters, locals
  <2> QED BY <1>2, <2>1, <2>2, TypeNext
<1>5. /\ next'[e] = s /\ \A x \in Slots \ {e} : next'[x] = next[x]
      /\ \A x \in Slots : FieldsSame(x)
  BY <1>1, TypeParts DEF FieldsTyped, FieldsSame, hist
<1>4. /\ Proper' /\ Releasing' = Releasing
      /\ \A x : Users(x)' = Users(x) /\ (Dying(x)' <=> Dying(x))
      /\ \A q \in Producers : q = p
  BY <1>1, <1>2, ProducerFrames DEF Plain, Proper, locals
<1>6. \A x \in Slots : Open(x)' = Open(x) /\ (Owed(x)' <=> Owed(x))
  BY <1>0, <1>1, <1>2, <1>4, OwedSame, OpenSame
<1>e1. phase[e] = "queued" \/ (e = previousReceived /\ fifo = <<>>)
  BY <1>e, QueueEnd
<1>e2. phase[previousReceived] \in {"handling", "answered"}
  <2>1. previousReceived \in Slots BY TypeParts DEF EndsTyped
  <2>2. SlotShape(previousReceived) BY <2>1 DEF FieldShape
  <2> QED BY <2>2 DEF SlotShape
<1>7. PoolShape'
  <2>1. Popping' = Popping BY <1>0, <1>2, PoppingSame DEF PopPCs
  <2>2. \A x \in Slots : phase[x] = "free" => next'[x] = next[x] BY <1>5, <1>e1, <1>e2
  <2> QED BY <1>1, <1>4, <2>1, <2>2, PoolStays DEF ends, counters, hist
<1>8. PopShape' BY <1>2, <1>4 DEF PopShape
<1>9. SendShape'
  <2>1. msg'[p] = s /\ reg'[p] = e /\ ret'[p] = ret[p] BY <1>s, <1>0, <1>1 DEF locals
  <2>2. phase' = phase /\ flags' = flags /\ lastQueuedSlot' = e BY <1>e, <1>1 DEF ends, hist
  <2>3. next'[e] = s BY <1>5
  <2> QED BY <1>s, <1>0, <1>2, <1>4, <2>1, <2>2, <2>3 DEF SendShape
<1>10. QueueShape'
  <2>0. fifo \in Seq(Slots) /\ Len(fifo) \in Nat BY QueueEnd
  <2>1. \A i \in 0 .. Len(fifo) : ChainAt(i)' = ChainAt(i)
    BY <1>1 DEF ChainAt, ends, hist
  <2>2. ASSUME NEW i \in 1 .. Len(fifo) PROVE next'[ChainAt(i - 1)'] = fifo'[i]
    <3>1. next[ChainAt(i - 1)] = fifo[i] /\ fifo' = fifo BY <1>1 DEF QueueShape, hist
    <3>2. PICK j \in 0 .. Len(fifo) : j = i - 1 BY <2>0
    <3>3. fifo # <<>> /\ e = fifo[Len(fifo)] /\ Len(fifo) \in 1 .. Len(fifo)
      BY <1>e, <2>0, QueueEnd
    <3>4. j < Len(fifo) /\ (j = 0 \/ j \in 1 .. Len(fifo)) BY <2>0, <3>2
    <3>5. ChainAt(j) \in Slots /\ ChainAt(j) # e
      <4>1. CASE j = 0
        <5>1. ChainAt(j) = previousReceived BY <4>1 DEF ChainAt
        <5> QED BY <1>e1, <1>e2, <3>3, <5>1, TypeParts DEF EndsTyped
      <4>2. CASE j \in 1 .. Len(fifo)
        <5>1. ChainAt(j) = fifo[j] BY <4>2 DEF ChainAt
        <5> QED BY <2>0, <3>3, <3>4, <4>2, <5>1 DEF QueueShape
      <4> QED BY <3>4, <4>1, <4>2
    <3>6. next'[ChainAt(j)] = next[ChainAt(j)] BY <1>5, <3>5
    <3> QED BY <2>1, <3>1, <3>2, <3>6
  <2>3. lastQueuedSlot' = ChainAt(Len(fifo))' BY <1>1, <2>0 DEF QueueShape, ChainAt, ends, hist
  <2>4. Coming' = Coming /\ Taking' = Taking BY <1>0, <1>2, CountsStay
  <2> QED BY <1>1, <2>2, <2>3, <2>4 DEF QueueShape, hist, counters
<1>11. RecvShape'
  <2>1. ASSUME NEW c \in Consumers, pc[c] = "recvCas"
        PROVE  next'[previousReceived] = next[previousReceived]
    <3>1. Taking = 1 BY <2>1 DEF Taking, TakePCs
    <3>2. Coming \in Nat /\ queuedMessages \in Nat BY TypeParts DEF Coming, EndsTyped
    <3>3. Len(fifo) # 0 BY <3>1, <3>2 DEF QueueShape
    <3>4. e # previousReceived BY <3>3, <1>e1, <1>e2
    <3> QED BY <1>5, <3>4, TypeParts DEF EndsTyped
  <2> QED BY <1>1, <1>2, <2>1, RecvStays DEF ends, hist, RecvShape
<1>13. FieldShape' BY <1>0, <1>1, <1>2, <1>4, <1>5, FieldStays DEF ends
<1>14. DyingShape'
  <2>1. \A u \in Threads : pc[u] \in DyingPCs => old[u] # e
    BY <1>e1 DEF DyingShape
  <2>2. \A u \in Threads : pc[u] \in DyingPCs => next'[old[u]] = next[old[u]]
    BY <2>1, <1>5, TypeParts DEF LocalsTyped
  <2> QED BY <1>1, <1>2, <2>2, DyingStays DEF DyingPCs, ends, hist, DyingShape
<1>15. HandleShape'
  <2>1. \A x \in Slots : Signalable(x) => Signalable(x)'
    BY <1>4, <1>5, <1>6 DEF Signalable, FieldsSame
  <2>2. \A x \in Slots : phase'[x] = "claimed" \/ Owed(x)' => openHandles'[x] = 1
    BY <1>5, <1>6 DEF HandleShape, FieldsSame
  <2> QED BY <1>1, <1>2, <1>5, <1>6, <2>1, <2>2, HandleStays DEF FieldsSame
<1> QED BY <1>3, <1>4, <1>7, <1>8, <1>9, <1>10, <1>11, <1>13, <1>14, <1>15

\* The message behind which the next one is appended is the only one of the
\* chain without a link.
LEMMA ChainBefore ==
  ASSUME TypeOK, QueueShape, phase[previousReceived] # "queued",
         NEW j \in 0 .. Len(fifo), j < Len(fifo)
  PROVE  ChainAt(j) \in Slots /\ ChainAt(j) # lastQueuedSlot
<1>0. fifo \in Seq(Slots) /\ Len(fifo) \in Nat BY QueueEnd
<1>1. /\ fifo # <<>> /\ Len(fifo) \in 1 .. Len(fifo) /\ lastQueuedSlot = fifo[Len(fifo)]
      /\ phase[lastQueuedSlot] = "queued"
  <2>1. fifo # <<>> BY <1>0
  <2> QED BY <2>1, QueueEnd
<1>2. CASE j = 0
  <2>1. ChainAt(j) = previousReceived BY <1>2 DEF ChainAt
  <2> QED BY <1>1, <2>1, TypeParts DEF EndsTyped
<1>3. CASE j # 0
  <2>1. j \in 1 .. Len(fifo) BY <1>0, <1>3
  <2>2. ChainAt(j) = fifo[j] BY <1>3 DEF ChainAt
  <2> QED BY <1>0, <1>1, <2>1, <2>2 DEF QueueShape
<1> QED BY <1>2, <1>3

LEMMA QueueAppend ==
  ASSUME TypeOK, QueueShape, NEW s \in Slots, phase[s] \notin {"queued", "free"},
         phase[previousReceived] # "queued", next'[lastQueuedSlot] = s,
         \A x \in Slots : x # lastQueuedSlot => next'[x] = next[x],
         previousReceived' = previousReceived,
         fifo' = Append(fifo, s), phase' = [phase EXCEPT ![s] = "queued"],
         lastQueuedSlot' = s,
         queuedMessages' + Coming' + Taking' = queuedMessages + Coming + Taking + 1
  PROVE  QueueShape'
<1>0. fifo \in Seq(Slots) /\ Len(fifo) \in Nat BY QueueEnd
<1>1. /\ fifo' \in Seq(Slots) /\ Len(fifo') = Len(fifo) + 1 /\ fifo'[Len(fifo) + 1] = s
      /\ \A i \in 1 .. Len(fifo) : fifo'[i] = fifo[i]
  BY <1>0
<1>2. phase'[s] = "queued" /\ \A x \in Slots : x # s => phase'[x] = phase[x]
  BY TypeParts DEF HistoryTyped
<1>3. \A i \in 1 .. Len(fifo) : fifo[i] \in Slots /\ fifo[i] # s
  BY <1>0 DEF QueueShape
<1>4. \A i \in 1 .. Len(fifo') : i \in 1 .. Len(fifo) \/ i = Len(fifo) + 1
  BY <1>0, <1>1
<1>5. \A i, j \in 1 .. Len(fifo') : fifo'[i] = fifo'[j] => i = j
  <2> SUFFICES ASSUME NEW i \in 1 .. Len(fifo'), NEW j \in 1 .. Len(fifo'), fifo'[i] = fifo'[j]
               PROVE  i = j
    OBVIOUS
  <2>1. CASE i \in 1 .. Len(fifo) /\ j \in 1 .. Len(fifo)
    BY <1>1, <2>1 DEF QueueShape
  <2>2. CASE i = Len(fifo) + 1 \/ j = Len(fifo) + 1
    BY <1>1, <1>3, <1>4, <2>2
  <2> QED BY <1>4, <2>1, <2>2
<1>6. \A i \in 1 .. Len(fifo') : phase'[fifo'[i]] = "queued"
  BY <1>1, <1>2, <1>3, <1>4 DEF QueueShape
<1>7. ASSUME NEW x \in Slots, phase'[x] = "queued"
      PROVE  \E i \in 1 .. Len(fifo') : fifo'[i] = x
  <2>1. CASE x = s BY <1>0, <1>1, <2>1
  <2>2. CASE x # s
    <3>1. PICK i \in 1 .. Len(fifo) : fifo[i] = x BY <1>2, <1>7, <2>2 DEF QueueShape
    <3>2. i \in 1 .. Len(fifo') BY <1>0, <1>1
    <3> QED BY <1>1, <3>1, <3>2
  <2> QED BY <2>1, <2>2
<1>8. \A i \in 0 .. Len(fifo) : ChainAt(i)' = ChainAt(i)
  BY <1>0, <1>1 DEF ChainAt
<1>9. ASSUME NEW i \in 1 .. Len(fifo') PROVE next'[ChainAt(i - 1)'] = fifo'[i]
  <2>1. PICK j \in 0 .. Len(fifo) : j = i - 1 BY <1>0, <1>1
  <2>2. ChainAt(j)' = ChainAt(j) BY <1>8
  <2>3. CASE i \in 1 .. Len(fifo)
    <3>1. j < Len(fifo) BY <1>0, <2>1, <2>3
    <3>2. ChainAt(j) \in Slots /\ ChainAt(j) # lastQueuedSlot BY <3>1, ChainBefore
    <3>3. next'[ChainAt(j)] = next[ChainAt(j)] BY <3>2
    <3>4. next[ChainAt(i - 1)] = fifo[i] BY <2>3 DEF QueueShape
    <3> QED BY <1>1, <2>1, <2>2, <2>3, <3>3, <3>4
  <2>4. CASE i = Len(fifo) + 1
    <3>1. j = Len(fifo) BY <1>0, <2>1, <2>4
    <3>2. ChainAt(j) = lastQueuedSlot BY <3>1 DEF QueueShape
    <3> QED BY <1>1, <2>1, <2>2, <2>4, <3>2
  <2> QED BY <1>4, <2>3, <2>4
<1>10. lastQueuedSlot' = ChainAt(Len(fifo))'
  <2>1. Len(fifo') # 0 BY <1>0, <1>1
  <2> QED BY <1>1, <2>1 DEF ChainAt
<1>11. Len(fifo)' = queuedMessages' + Coming' + Taking'
  BY <1>1 DEF QueueShape
<1> QED BY <1>5, <1>6, <1>7, <1>9, <1>10, <1>11 DEF QueueShape

LEMMA QueuePush ==
  ASSUME TypeOK, QueueShape, NEW s \in Slots, phase[s] \notin {"queued", "free"},
         phase[previousReceived] # "queued",
         next[lastQueuedSlot] = s, next' = next, previousReceived' = previousReceived,
         fifo' = Append(fifo, s), phase' = [phase EXCEPT ![s] = "queued"],
         lastQueuedSlot' = s,
         queuedMessages' + Coming' + Taking' = queuedMessages + Coming + Taking + 1
  PROVE  QueueShape'
<1>1. next'[lastQueuedSlot] = s /\ \A x \in Slots : x # lastQueuedSlot => next'[x] = next[x]
  OBVIOUS
<1> QED BY <1>1, QueueAppend

LEMMA ComingIs ==
  ASSUME OneEach, NEW p \in Producers
  PROVE  /\ Coming = IF pc[p] = "count" THEN 1 ELSE 0
         /\ Coming' = IF pc'[p] = "count" THEN 1 ELSE 0
BY DEF OneEach, Coming

LEMMA TakingIs ==
  ASSUME OneEach, NEW c \in Consumers
  PROVE  /\ Taking = IF pc[c] \in TakePCs THEN 1 ELSE 0
         /\ Taking' = IF pc'[c] \in TakePCs THEN 1 ELSE 0
BY DEF OneEach, Taking

LEMMA CountsNat ==
  ASSUME TypeOK
  PROVE  /\ queuedMessages \in Nat /\ slotSemaphore \in Nat
         /\ Coming \in {0, 1} /\ Taking \in {0, 1}
BY TypeParts DEF EndsTyped, Coming, Taking

LEMMA SendCasKeeps ==
  ASSUME OneEach, TypeOK, AgateInv, NEW p \in Producers, SendCas(p)
  PROVE  TypeOK' /\ AgateInv'
<1> USE Const DEF AgateInv
<1>s. PICK s \in Slots : s = msg[p] BY TypeParts DEF LocalsTyped
<1>0. /\ pc[p] = "sendCas" /\ s # Dummy /\ phase[s] = "claimed"
      /\ reg[p] = lastQueuedSlot /\ IN_USE \in flags[s] /\ next[lastQueuedSlot] = s
  BY <1>s DEF SendCas, SendShape
<1>1. /\ Goto(p, "count") /\ lastQueuedSlot' = s /\ reg' = [reg EXCEPT ![p] = Dummy]
      /\ fifo' = Append(fifo, s) /\ phase' = [phase EXCEPT ![s] = "queued"]
      /\ UNCHANGED <<kind, msgVars, nextFreeSlot, lastFreeSlot, previousReceived,
                     counters, msg, old, nxt, ret, holders, answer>>
  BY <1>s, <1>0 DEF SendCas, Become, Forget
<1>2. PcTyped' /\ pc'[p] = "count" /\ Alone(p)
  BY <1>1, PcMoves, TypeParts DEF ProducerPCs, PopPCs, Alone, LocalsTyped
<1>f. fifo \in Seq(Slots) /\ fifo' # <<>> /\ fifo' \in Seq(Slots)
  BY <1>1, TypeParts DEF HistoryTyped
<1>3. TypeOK'
  <2>1. FieldsTyped' BY <1>1, TypeParts DEF FieldsTyped, msgVars
  <2>2. EndsTyped' BY <1>1, TypeParts DEF EndsTyped, counters
  <2>3. LocalsTyped' BY <1>1, TypeParts DEF LocalsTyped
  <2>4. HistoryTyped' BY <1>1, <1>f, TypeParts DEF HistoryTyped
  <2> QED BY <1>2, <2>1, <2>2, <2>3, <2>4, TypeNext
<1>4. /\ Proper' /\ Releasing' = Releasing
      /\ \A x : Users(x)' = Users(x) /\ (Dying(x)' <=> Dying(x))
      /\ \A q \in Producers : q = p
  BY <1>1, <1>2, ProducerFrames DEF Plain, Proper
<1>5. /\ phase'[s] = "queued" /\ msg'[p] = s
      /\ \A x \in Slots \ {s} : FieldsSame(x)
      /\ \A x \in Slots : Open(x)' = Open(x) /\ next'[x] = next[x]
  <2>1. \A x \in Slots : Open(x)' = Open(x) BY <1>1, <1>4, OpenSame
  <2> QED BY <1>s, <1>1, <2>1, TypeParts DEF FieldsSame, msgVars, HistoryTyped
<1>6. \A x : ~Owed(x) /\ (Owed(x)' => x = s)
  BY <1>0, <1>2, <1>4, <1>5 DEF Owed
<1>7. PoolShape'
  <2>1. Popping' = Popping BY <1>0, <1>2, PoppingSame DEF PopPCs
  <2>2. \A x \in Slots : phase'[x] = "free" <=> phase[x] = "free"
    BY <1>0, <1>5 DEF FieldsSame
  <2> QED BY <1>1, <1>4, <1>5, <2>1, <2>2, PoolStays DEF counters
<1>8. PopShape' BY <1>2, <1>4 DEF PopShape
<1>9. SendShape' BY <1>s, <1>0, <1>1, <1>2, <1>4, <1>5, <1>f DEF SendShape, msgVars
<1>10. QueueShape'
  <2>1. Coming = 0 /\ Coming' = 1 BY <1>0, <1>2, ComingIs
  <2>2. Taking' = Taking BY <1>2 DEF Taking, Alone
  <2>3. queuedMessages' + Coming' + Taking' = queuedMessages + Coming + Taking + 1
    BY <1>1, <2>1, <2>2, CountsNat DEF counters
  <2>4. phase[previousReceived] # "queued"
    <3>1. SlotShape(previousReceived) BY TypeParts DEF FieldShape, EndsTyped
    <3> QED BY <3>1 DEF SlotShape
  <2> QED BY <1>0, <1>1, <2>3, <2>4, QueuePush DEF msgVars
<1>11. s # previousReceived /\ \A c \in Consumers : pc[c] = "freeHold" => old[c] # s
  BY <1>0 DEF FieldShape, SlotShape, RecvShape
<1>12. RecvShape'
  <2>1. /\ phase'[previousReceived] = phase[previousReceived]
        /\ answer'[previousReceived] = answer[previousReceived]
    BY <1>5, <1>11, TypeParts DEF FieldsSame, EndsTyped
  <2>2. \A c \in Consumers : pc[c] = "freeHold" => phase'[old[c]] = phase[old[c]]
    BY <1>5, <1>11, TypeParts DEF FieldsSame, LocalsTyped
  <2>3. \A c \in Consumers : pc[c] = "freeHold" =>
          IF old[c] = Dummy THEN flags'[old[c]] = flags[old[c]] ELSE IN_USE \in flags'[old[c]]
    BY <1>1 DEF RecvShape, msgVars
  <2> QED BY <1>0, <1>1, <1>2, <2>1, <2>2, <2>3, RecvStays DEF msgVars
<1>13. FieldShape'
  <2>1. SlotShape(s) BY DEF FieldShape
  <2>2. SlotShape(s)'
    BY <1>0, <1>1, <1>5, <1>11, <2>1 DEF SlotShape, msgVars, Blank
  <2> QED BY <1>1, <1>2, <1>4, <1>5, <2>2, FieldStays
<1>14. DyingShape'
  <2>1. \A u \in Threads : pc[u] \in DyingPCs => old[u] # s
    BY <1>0 DEF DyingShape
  <2>2. \A u \in Threads : pc[u] \in DyingPCs => phase'[old[u]] = phase[old[u]]
    BY <2>1, <1>5, TypeParts DEF LocalsTyped, FieldsSame
  <2>3. \A u \in Threads \ {p} : pc[u] \in DyingPCs =>
          /\ old[u] # previousReceived' /\ phase'[old[u]] = phase[old[u]]
    BY <1>1, <2>2 DEF DyingShape
  <2> QED BY <1>1, <1>2, <2>3, DyingStays DEF DyingPCs, msgVars
<1>15. HandleShape'
  <2>1. \A x \in Slots : Signalable(x) => Signalable(x)'
    BY <1>0, <1>4, <1>5, <1>6 DEF Signalable, FieldsSame
  <2>2. openHandles' = openHandles /\ isReady' = isReady BY <1>1 DEF msgVars
  <2>3. \A x \in Slots : phase'[x] = "claimed" \/ Owed(x)' => openHandles'[x] = 1
    BY <1>0, <1>5, <1>6, <2>2 DEF HandleShape, FieldsSame
  <2> QED BY <1>2, <1>5, <2>1, <2>2, <2>3, HandleStays
<1> QED BY <1>3, <1>4, <1>7, <1>8, <1>9, <1>10, <1>12, <1>13, <1>14, <1>15

LEMMA CountKeeps ==
  ASSUME OneEach, TypeOK, AgateInv, NEW p \in Producers, Count(p)
  PROVE  TypeOK' /\ AgateInv'
<1> USE Const DEF AgateInv
<1>s. PICK s \in Slots : s = msg[p] BY TypeParts DEF LocalsTyped
<1>0. /\ pc[p] = "count" /\ fifo # <<>> /\ s = lastQueuedSlot
      /\ ret[p] = IF IGNORE \in flags[s] THEN "ignore" ELSE "keep"
      /\ CONDEMNED \notin flags[s]
  BY <1>s DEF Count, SendShape
<1>1. /\ Goto(p, "idle") /\ queuedMessages' = queuedMessages + 1
      /\ holders' = IF ret[p] = "keep" THEN [holders EXCEPT ![s] = @ + 1] ELSE holders
      /\ ret' = [ret EXCEPT ![p] = "idle"] /\ msg' = [msg EXCEPT ![p] = Dummy]
      /\ UNCHANGED <<kind, msgVars, ends, slotSemaphore, old, reg, nxt, hist>>
  BY <1>s DEF Count, Forget
<1>2. PcTyped' /\ pc'[p] = "idle" /\ Alone(p)
  BY <1>1, PcMoves, TypeParts DEF ProducerPCs, PopPCs, Alone, LocalsTyped
<1>3. TypeOK'
  <2>1. FieldsTyped' BY <1>1, TypeParts DEF FieldsTyped, msgVars
  <2>2. EndsTyped' BY <1>1, TypeParts DEF EndsTyped, ends
  <2>3. LocalsTyped' BY <1>1, TypeParts DEF LocalsTyped
  <2>4. HistoryTyped' BY <1>1, TypeParts DEF HistoryTyped, hist
  <2> QED BY <1>2, <2>1, <2>2, <2>3, <2>4, TypeNext
<1>r. ret'[p] = "idle" BY <1>1, TypeParts DEF LocalsTyped
<1>4. /\ Proper' /\ Releasing' = Releasing
      /\ \A x : Users(x)' = Users(x) /\ (Dying(x)' <=> Dying(x))
      /\ \A q \in Producers : q = p
  BY <1>1, <1>2, <1>r, ProducerFrames DEF Plain
<1>5. \A x \in Slots : FieldsSame(x) /\ next'[x] = next[x]
  BY <1>1 DEF FieldsSame, msgVars, hist
<1>6. \A x : ~Owed(x)' /\ (Owed(x) <=> x = s /\ ret[p] = "keep")
  <2>1. \A q \in Producers : pc'[q] # "count" BY <1>2, <1>4
  <2>2. \A x : Owed(x) <=> x = s /\ ret[p] = "keep" BY <1>s, <1>0, <1>4 DEF Owed
  <2> QED BY <2>1, <2>2 DEF Owed
<1>7. PoolShape'
  <2>1. Popping' = Popping BY <1>0, <1>2, PoppingSame DEF PopPCs
  <2> QED BY <1>1, <1>4, <1>5, <2>1, PoolStays DEF ends, hist
<1>8. PopShape' BY <1>2, <1>4 DEF PopShape
<1>9. SendShape' BY <1>2, <1>4 DEF SendShape
<1>10. QueueShape'
  <2>1. Coming = 1 /\ Coming' = 0 BY <1>0, <1>2, ComingIs
  <2>2. Taking' = Taking BY <1>2 DEF Taking, Alone
  <2>3. queuedMessages' + Coming' + Taking' = queuedMessages + Coming + Taking
    BY <1>1, <2>1, <2>2, CountsNat
  <2> QED BY <1>1, <1>5, <2>3, QueueSame DEF ends, hist
<1>12. RecvShape'
  BY <1>0, <1>1, <1>2, RecvStays DEF ends, msgVars, hist, RecvShape
<1>13. FieldShape' BY <1>1, <1>2, <1>4, <1>5, FieldStays DEF ends
<1>14. DyingShape' BY <1>1, <1>2, DyingStays DEF DyingPCs, ends, msgVars, hist, DyingShape
<1>15. HandleShape'
  <2>1. \A x \in Slots : Signalable(x) => Signalable(x)'
    BY <1>4, <1>5, <1>6 DEF Signalable, FieldsSame
  <2>2. openHandles' = openHandles /\ isReady' = isReady BY <1>1 DEF msgVars
  <2>3. \A x \in Slots : phase'[x] = "claimed" \/ Owed(x)' => openHandles'[x] = 1
    BY <1>5, <1>6, <2>2 DEF HandleShape, FieldsSame
  <2>4. CASE ret[p] # "keep"
    <3>1. holders' = holders BY <1>1, <2>4
    <3>2. \A x \in Slots : Open(x)' = Open(x) BY <1>4, <3>1, OpenSame
    <3> QED BY <1>2, <2>1, <2>2, <2>3, <3>2, HandleStays
  <2>5. CASE ret[p] = "keep"
    <3>0. Open(s) \in Nat BY OpenTyped
    <3>1. Owed(s) /\ ~Signalable(s) BY <1>6, <2>5 DEF Signalable
    <3>2. Open(s) = 0
      <4>1. ~(Open(s) > 0) BY <3>1 DEF HandleShape
      <4> QED BY <3>0, <4>1
    <3>3. openHandles[s] = 1 BY <3>1 DEF HandleShape
    <3>4. IGNORE \notin flags[s]
      <4>1. (IGNORE \in flags[s]) => ret[p] = "ignore" BY <1>0
      <4>2. ret[p] # "ignore" BY <2>5
      <4> QED BY <4>1, <4>2
    <3>5. phase[s] = "queued" BY <1>0, QueueEnd
    <3>6. s # Dummy BY <3>5 DEF FieldShape, SlotShape
    <3>7. ~Dying(s) BY <3>5 DEF Dying, DyingShape
    <3>8. Signalable(s)'
      BY <1>0, <1>4, <1>5, <1>6, <3>4, <3>5, <3>6, <3>7 DEF Signalable, FieldsSame
    <3>9. holders'[s] = holders[s] + 1 /\ \A x \in Slots \ {s} : holders'[x] = holders[x]
      BY <1>1, <2>5, TypeParts DEF HistoryTyped
    <3>10. Open(s)' = 1
      <4>1. holders[s] = 0 /\ Cardinality(Users(s)) = 0
        BY <3>2, OpenTyped, FS_EmptySet
      <4>2. Cardinality(Users(s)') = 0 BY <1>4, <4>1
      <4> QED BY <3>9, <4>1, <4>2 DEF Open
    <3>11. \A x \in Slots \ {s} : Open(x)' = Open(x) BY <1>4, <3>9, OpenSame
    <3>12. \A w \in Waiters : pc[w] = "condemn" => msg[w] # s
      BY <3>1 DEF HandleShape
    <3>13. \A w \in Waiters : pc[w] = "collect" => msg[w] # s
      BY <3>2, OpenTyped DEF Users, UserPCs
    <3> QED BY <1>2, <2>1, <2>2, <2>3, <3>3, <3>8, <3>10, <3>11, <3>12, <3>13, HandleMoves
  <2> QED BY <2>4, <2>5
<1> QED BY <1>3, <1>4, <1>7, <1>8, <1>9, <1>10, <1>12, <1>13, <1>14, <1>15

----------------------------------------------------------------------------
(* The consumer                                                            *)

\* A label of the consumer that no other kind of mailbox has
ConsumerPlain == {"idle", "recvLoad", "recvRead", "recvCas", "freeHold", "handle", "setReady",
                  "cleanup", "return", "returnStore", "returnCas", "release"}

LEMMA ConsumerFrames ==
  ASSUME OneEach, TypeOK, AgateInv, NEW c \in Consumers, Alone(c),
         pc'[c] \in ConsumerPlain, kind' = kind,
         ret'[c] \in {"idle", "handle"}
  PROVE  /\ Proper' /\ Popping' = Popping /\ Coming' = Coming
         /\ \A s : Users(s)' = Users(s) /\ (Owed(s)' <=> Owed(s))
         /\ \A d \in Consumers : d = c
<1> USE Const
<1>1. c \in Threads /\ c \notin Producers /\ c \notin Waiters /\ \A d \in Consumers : d = c
  BY DEF OneEach
<1>2. Proper' BY <1>1, ProperStays DEF AgateInv, Proper, ConsumerPlain
<1>3. Popping' = Popping BY <1>1, PoppingSame
<1>4. Coming' = Coming BY <1>1 DEF Coming, Alone
<1>5. \A s : Users(s)' = Users(s) BY <1>1, UsersSame
<1>6. \A s : Owed(s)' <=> Owed(s) BY <1>1, OwedSame
<1> QED BY <1>1, <1>2, <1>3, <1>4, <1>5, <1>6

(* The consumer reads where the next message is. *)
LEMMA PeekKeeps ==
  ASSUME OneEach, TypeOK, AgateInv, TypeOK', NEW c \in Consumers, Alone(c), RecvShape',
         UNCHANGED <<kind, msgVars, ends, slotSemaphore, holders, hist>>,
         pc[c] \in TakePCs \cup {"idle"}, pc'[c] \in TakePCs \ {"fetch"}, ret'[c] = ret[c],
         queuedMessages' + Coming' + Taking' = queuedMessages + Coming + Taking
  PROVE  AgateInv'
<1> USE Const DEF AgateInv
<1>4. /\ Proper' /\ Popping' = Popping /\ Coming' = Coming
      /\ \A s : Users(s)' = Users(s) /\ (Owed(s)' <=> Owed(s))
      /\ \A d \in Consumers : d = c
  BY ConsumerFrames DEF ConsumerPlain, TakePCs, Proper
<1>a. /\ pc[c] \notin DyingPCs \cup {"returnLink", "release"}
      /\ pc'[c] \notin DyingPCs \cup {"returnLink", "release"}
  BY DEF TakePCs, DyingPCs
<1>b. c \notin Producers /\ c \notin Waiters OBVIOUS
<1>5. \A s \in Slots : /\ FieldsSame(s) /\ Open(s)' = Open(s) /\ (Dying(s)' <=> Dying(s))
                       /\ next'[s] = next[s]
  BY <1>4, <1>a, DyingSame, OpenSame DEF FieldsSame, msgVars, hist
<1>6. PoolShape'
  <2>1. Releasing' = Releasing BY <1>a, ReleasingSame
  <2> QED BY <1>4, <1>5, <2>1, PoolStays DEF ends, FieldsSame
<1>7. PopShape' BY <1>5, <1>b, PopStays DEF FieldsSame
<1>8. SendShape' BY <1>b, SendStays DEF ends, msgVars, hist, SendShape
<1>9. QueueShape' BY <1>5, QueueSame DEF ends, hist
<1>11. FieldShape' BY <1>4, <1>5, <1>b, FieldStays, TypeParts DEF ends, LocalsTyped
<1>12. DyingShape' BY <1>a, DyingStays DEF ends, msgVars, hist, DyingShape
<1>13. HandleShape'
  <2>1. \A s \in Slots : Signalable(s) => Signalable(s)'
    BY <1>4, <1>5 DEF Signalable, FieldsSame
  <2>2. \A s \in Slots : phase'[s] = "claimed" \/ Owed(s)' => openHandles'[s] = 1
    BY <1>4, <1>5 DEF FieldsSame, HandleShape
  <2> QED BY <1>5, <1>b, <2>1, <2>2, HandleStays DEF FieldsSame
<1> QED BY <1>4, <1>6, <1>7, <1>8, <1>9, <1>11, <1>12, <1>13

LEMMA TakeKeeps ==
  ASSUME OneEach, TypeOK, AgateInv, NEW c \in Consumers, TakeQueued(c)
  PROVE  TypeOK' /\ AgateInv'
<1> USE Const DEF AgateInv
<1>1. /\ pc[c] = "idle" /\ Goto(c, "recvLoad") /\ queuedMessages' = queuedMessages - 1
      /\ queuedMessages > 0
      /\ UNCHANGED <<kind, msgVars, ends, slotSemaphore, locals, holders, hist>>
  BY DEF TakeQueued, Proper, SingleConsumer
<1>2. PcTyped' /\ pc'[c] = "recvLoad" /\ Alone(c)
  BY <1>1, PcMoves DEF ConsumerPCs, ReturnPCs, Alone, locals
<1>3. TypeOK'
  <2>1. FieldsTyped' /\ LocalsTyped' /\ HistoryTyped'
    BY <1>1, TypeParts DEF FieldsTyped, LocalsTyped, HistoryTyped, msgVars, locals, hist
  <2>2. EndsTyped' BY <1>1, TypeParts DEF EndsTyped, ends
  <2> QED BY <1>2, <2>1, <2>2, TypeNext
<1>4. queuedMessages' + Coming' + Taking' = queuedMessages + Coming + Taking
  <2>1. Taking = 0 /\ Taking' = 1 BY <1>1, <1>2, TakingIs DEF TakePCs
  <2>2. Coming' = Coming BY <1>2 DEF Coming, Alone
  <2> QED BY <1>1, <2>1, <2>2, CountsNat
<1>5. RecvShape'
  <2>1. ~InHand(c) /\ ~InHand(c)' BY <1>1, <1>2 DEF InHand, ReturnPCs
  <2>2. phase'[previousReceived'] = "answered" BY <1>1, <2>1 DEF RecvShape, ends, hist
  <2> QED BY <1>2, <2>1, <2>2 DEF RecvShape, OneEach
<1> QED BY <1>1, <1>2, <1>3, <1>4, <1>5, PeekKeeps DEF TakePCs, locals

LEMMA RecvLoadKeeps ==
  ASSUME OneEach, TypeOK, AgateInv, NEW c \in Consumers, RecvLoad(c)
  PROVE  TypeOK' /\ AgateInv'
<1> USE Const DEF AgateInv
<1>1. /\ pc[c] = "recvLoad" /\ Goto(c, "recvRead") /\ reg' = [reg EXCEPT ![c] = previousReceived]
      /\ UNCHANGED <<kind, msgVars, ends, counters, msg, old, nxt, ret, holders, hist>>
  BY DEF RecvLoad
<1>2. PcTyped' /\ pc'[c] = "recvRead" /\ Alone(c)
  BY <1>1, PcMoves, TypeParts DEF ConsumerPCs, ReturnPCs, Alone, LocalsTyped
<1>3. TypeOK'
  <2>1. FieldsTyped' /\ EndsTyped' /\ HistoryTyped'
    BY <1>1, TypeParts DEF FieldsTyped, EndsTyped, HistoryTyped, msgVars, hist, ends, counters
  <2>2. LocalsTyped' BY <1>1, TypeParts DEF LocalsTyped, EndsTyped
  <2> QED BY <1>2, <2>1, <2>2, TypeNext
<1>4. queuedMessages' + Coming' + Taking' = queuedMessages + Coming + Taking
  <2>1. Taking = 1 /\ Taking' = 1 BY <1>1, <1>2, TakingIs DEF TakePCs
  <2>2. Coming' = Coming BY <1>2 DEF Coming, Alone
  <2> QED BY <1>1, <2>1, <2>2 DEF counters
<1>5. RecvShape'
  <2>1. ~InHand(c) /\ ~InHand(c)' BY <1>1, <1>2 DEF InHand, ReturnPCs
  <2>2. phase'[previousReceived'] = "answered" BY <1>1, <2>1 DEF RecvShape, ends, hist
  <2>3. reg'[c] = previousReceived' BY <1>1, TypeParts DEF LocalsTyped, ends
  <2> QED BY <1>2, <2>1, <2>2, <2>3 DEF RecvShape, OneEach
<1> QED BY <1>1, <1>2, <1>3, <1>4, <1>5, PeekKeeps DEF TakePCs, counters

\* The message that a consumer with a count is about to receive
LEMMA NextMessage ==
  ASSUME OneEach, TypeOK, QueueShape, NEW c \in Consumers, pc[c] \in TakePCs
  PROVE  /\ Len(fifo) \in Nat /\ Len(fifo) >= 1 + Coming /\ 1 \in 1 .. Len(fifo)
         /\ next[previousReceived] = fifo[1] /\ fifo[1] \in Slots /\ phase[fifo[1]] = "queued"
<1>1. Taking = 1 BY TakingIs
<1>2. fifo \in Seq(Slots) /\ Len(fifo) \in Nat BY QueueEnd
<1>3. Len(fifo) >= 1 + Coming BY <1>1, <1>2, CountsNat DEF QueueShape
<1>4. 1 \in 1 .. Len(fifo) BY <1>2, <1>3, CountsNat
<1>5. next[ChainAt(1 - 1)] = fifo[1] BY <1>4 DEF QueueShape
<1>6. ChainAt(1 - 1) = previousReceived BY DEF ChainAt
<1> QED BY <1>2, <1>3, <1>4, <1>5, <1>6 DEF QueueShape

LEMMA RecvReadKeeps ==
  ASSUME OneEach, TypeOK, AgateInv, NEW c \in Consumers, RecvRead(c)
  PROVE  TypeOK' /\ AgateInv'
<1> USE Const DEF AgateInv
<1>0. /\ pc[c] = "recvRead" /\ reg[c] = previousReceived
      /\ next[previousReceived] \in Slots
  <2>1. pc[c] = "recvRead" BY DEF RecvRead
  <2> QED BY <2>1, NextMessage DEF RecvShape, TakePCs
<1>1. /\ Goto(c, "recvCas") /\ nxt' = [nxt EXCEPT ![c] = next[previousReceived]]
      /\ UNCHANGED <<kind, msgVars, ends, counters, msg, old, reg, ret, holders, hist>>
  BY <1>0 DEF RecvRead, Reach
<1>2. PcTyped' /\ pc'[c] = "recvCas" /\ Alone(c)
  BY <1>1, PcMoves, TypeParts DEF ConsumerPCs, ReturnPCs, Alone, LocalsTyped
<1>3. TypeOK'
  <2>1. FieldsTyped' /\ EndsTyped' /\ HistoryTyped'
    BY <1>1, TypeParts DEF FieldsTyped, EndsTyped, HistoryTyped, msgVars, hist, ends, counters
  <2>2. LocalsTyped' BY <1>0, <1>1, TypeParts DEF LocalsTyped
  <2> QED BY <1>2, <2>1, <2>2, TypeNext
<1>4. queuedMessages' + Coming' + Taking' = queuedMessages + Coming + Taking
  <2>1. Taking = 1 /\ Taking' = 1 BY <1>0, <1>2, TakingIs DEF TakePCs
  <2>2. Coming' = Coming BY <1>2 DEF Coming, Alone
  <2> QED BY <1>1, <2>1, <2>2 DEF counters
<1>5. RecvShape'
  <2>1. ~InHand(c) /\ ~InHand(c)' BY <1>0, <1>2 DEF InHand, ReturnPCs
  <2>2. phase'[previousReceived'] = "answered" BY <1>1, <2>1 DEF RecvShape, ends, hist
  <2>3. reg'[c] = previousReceived' BY <1>0, <1>1 DEF ends
  <2>4. nxt'[c] = next'[previousReceived'] /\ nxt'[c] \in Slots
    BY <1>0, <1>1, TypeParts DEF LocalsTyped, ends, msgVars
  <2> QED BY <1>2, <2>1, <2>2, <2>3, <2>4 DEF RecvShape, OneEach
<1> QED BY <1>0, <1>1, <1>2, <1>3, <1>4, <1>5, PeekKeeps DEF TakePCs, counters

LEMMA QueuePop ==
  ASSUME TypeOK, QueueShape, NEW m \in Slots, fifo # <<>>, fifo[1] = m, next' = next,
         UNCHANGED lastQueuedSlot, previousReceived' = m, fifo' = Rest(fifo),
         phase' = [phase EXCEPT ![m] = "handling"],
         queuedMessages' \in Nat,
         queuedMessages' + Coming' + Taking' + 1 = queuedMessages + Coming + Taking
  PROVE  QueueShape'
<1>0. fifo \in Seq(Slots) /\ Len(fifo) \in Nat /\ Len(fifo) >= 1 BY QueueEnd
<1>1. /\ fifo' \in Seq(Slots) /\ Len(fifo') = Len(fifo) - 1
      /\ \A i \in 1 .. Len(fifo') : fifo'[i] = fifo[i + 1] /\ i + 1 \in 1 .. Len(fifo)
  BY <1>0 DEF Rest
<1>2. phase'[m] = "handling" /\ \A x \in Slots : x # m => phase'[x] = phase[x]
  BY TypeParts DEF HistoryTyped
<1>3. \A i, j \in 1 .. Len(fifo') : fifo'[i] = fifo'[j] => i = j
  <2> SUFFICES ASSUME NEW i \in 1 .. Len(fifo'), NEW j \in 1 .. Len(fifo'), fifo'[i] = fifo'[j]
               PROVE  i = j
    OBVIOUS
  <2>1. i + 1 = j + 1 BY <1>1 DEF QueueShape
  <2> QED BY <2>1
<1>4. \A i \in 1 .. Len(fifo') : fifo'[i] # m
  <2> SUFFICES ASSUME NEW i \in 1 .. Len(fifo'), fifo'[i] = m PROVE FALSE OBVIOUS
  <2>1. i + 1 = 1 BY <1>0, <1>1 DEF QueueShape
  <2> QED BY <2>1
<1>5. \A i \in 1 .. Len(fifo') : phase'[fifo'[i]] = "queued"
  BY <1>0, <1>1, <1>2, <1>4 DEF QueueShape
<1>6. ASSUME NEW x \in Slots, phase'[x] = "queued"
      PROVE  \E i \in 1 .. Len(fifo') : fifo'[i] = x
  <2>1. x # m /\ phase[x] = "queued" BY <1>2, <1>6
  <2>2. PICK i \in 1 .. Len(fifo) : fifo[i] = x BY <2>1 DEF QueueShape
  <2>3. i # 1 BY <2>1, <2>2
  <2>4. i - 1 \in 1 .. Len(fifo') /\ (i - 1) + 1 = i BY <1>0, <1>1, <2>3
  <2> QED BY <1>1, <2>2, <2>4
<1>7. ASSUME NEW i \in 0 .. Len(fifo') PROVE ChainAt(i)' = ChainAt(i + 1)
  <2>1. CASE i = 0 BY <2>1 DEF ChainAt
  <2>2. CASE i # 0
    <3>1. i \in 1 .. Len(fifo') /\ i + 1 # 0 BY <1>0, <1>1, <2>2
    <3> QED BY <1>1, <2>2, <3>1 DEF ChainAt
  <2> QED BY <2>1, <2>2
<1>8. ASSUME NEW i \in 1 .. Len(fifo') PROVE next'[ChainAt(i - 1)'] = fifo'[i]
  <2>1. PICK j \in 0 .. Len(fifo') : j = i - 1 BY <1>0, <1>1
  <2>2. ChainAt(j)' = ChainAt(j + 1) BY <1>7
  <2>3. PICK k \in 1 .. Len(fifo) : k = i + 1 BY <1>1
  <2>4. k - 1 = j + 1 BY <2>1, <2>3
  <2>5. next[ChainAt(k - 1)] = fifo[k] BY DEF QueueShape
  <2> QED BY <1>1, <2>1, <2>2, <2>3, <2>4, <2>5
<1>9. lastQueuedSlot' = ChainAt(Len(fifo))'
  <2>1. PICK j \in 0 .. Len(fifo') : j = Len(fifo') BY <1>0, <1>1
  <2>2. ChainAt(j)' = ChainAt(j + 1) /\ j + 1 = Len(fifo) BY <1>0, <1>1, <1>7, <2>1
  <2>3. ChainAt(j)' = ChainAt(Len(fifo))' BY <2>1
  <2> QED BY <2>2, <2>3 DEF QueueShape
<1>10. Len(fifo)' = queuedMessages' + Coming' + Taking'
  <2>1. Coming' \in {0, 1} /\ Taking' \in {0, 1} BY DEF Coming, Taking
  <2>2. Len(fifo) = queuedMessages' + Coming' + Taking' + 1 BY DEF QueueShape
  <2> QED BY <1>0, <1>1, <2>1, <2>2
<1> QED BY <1>3, <1>5, <1>6, <1>8, <1>9, <1>10 DEF QueueShape

LEMMA RecvCasKeeps ==
  ASSUME OneEach, TypeOK, AgateInv, NEW c \in Consumers, RecvCas(c)
  PROVE  TypeOK' /\ AgateInv'
<1> USE Const DEF AgateInv
<1>s. PICK s \in Slots : s = previousReceived BY TypeParts DEF EndsTyped
<1>m. PICK m \in Slots : m = fifo[1] /\ phase[m] = "queued" /\ m = next[s]
  BY <1>s, NextMessage DEF RecvCas, TakePCs
<1>0. /\ pc[c] = "recvCas" /\ reg[c] = s /\ nxt[c] = m /\ ~InHand(c) /\ phase[s] = "answered"
  BY <1>s, <1>m DEF RecvCas, RecvShape, InHand, ReturnPCs
<1>1. /\ Goto(c, "freeHold") /\ previousReceived' = m /\ msg' = [msg EXCEPT ![c] = m]
      /\ old' = [old EXCEPT ![c] = s] /\ fifo' = Rest(fifo)
      /\ phase' = [phase EXCEPT ![m] = "handling"]
      /\ reg' = [reg EXCEPT ![c] = Dummy] /\ nxt' = [nxt EXCEPT ![c] = Dummy]
      /\ UNCHANGED <<kind, msgVars, nextFreeSlot, lastFreeSlot, lastQueuedSlot,
                     counters, ret, holders, answer>>
  BY <1>s, <1>0 DEF RecvCas, Receive, Become, Forget
<1>2. PcTyped' /\ pc'[c] = "freeHold" /\ Alone(c)
  BY <1>1, PcMoves, TypeParts DEF ConsumerPCs, ReturnPCs, Alone, LocalsTyped
<1>f. /\ fifo \in Seq(Slots) /\ fifo # <<>> /\ Rest(fifo) \in Seq(Slots)
      /\ Coming = 1 => Rest(fifo) # <<>>
  <2>1. Len(fifo) \in Nat /\ Len(fifo) >= 1 + Coming /\ Len(fifo) >= 1
    BY <1>0, NextMessage, CountsNat DEF TakePCs
  <2>2. fifo \in Seq(Slots) BY QueueEnd
  <2>3. Rest(fifo) \in Seq(Slots) /\ Len(Rest(fifo)) = Len(fifo) - 1
    BY <2>1, <2>2 DEF Rest
  <2>4. Coming = 1 => Rest(fifo) # <<>> BY <2>1, <2>3
  <2> QED BY <2>1, <2>2, <2>3, <2>4
<1>3. TypeOK'
  <2>1. FieldsTyped' BY <1>1, TypeParts DEF FieldsTyped, msgVars
  <2>2. EndsTyped' BY <1>1, TypeParts DEF EndsTyped, counters
  <2>3. LocalsTyped' BY <1>1, TypeParts DEF LocalsTyped
  <2>4. HistoryTyped' BY <1>1, <1>f, TypeParts DEF HistoryTyped
  <2> QED BY <1>2, <2>1, <2>2, <2>3, <2>4, TypeNext
<1>4. /\ Proper' /\ Popping' = Popping /\ Coming' = Coming
      /\ \A x : Users(x)' = Users(x) /\ (Owed(x)' <=> Owed(x))
      /\ \A d \in Consumers : d = c
  BY <1>1, <1>2, ConsumerFrames DEF ConsumerPlain, Proper
<1>a. /\ pc[c] \notin DyingPCs \cup {"returnLink", "release"}
      /\ pc'[c] \notin DyingPCs \cup {"returnLink", "release"}
  BY <1>0, <1>2 DEF DyingPCs
<1>b. c \notin Producers /\ c \notin Waiters OBVIOUS
<1>5. /\ phase'[m] = "handling" /\ msg'[c] = m /\ old'[c] = s
      /\ \A x \in Slots \ {m} : FieldsSame(x)
      /\ \A x \in Slots : Open(x)' = Open(x) /\ (Dying(x)' <=> Dying(x)) /\ next'[x] = next[x]
  <2>1. \A x \in Slots : Open(x)' = Open(x) BY <1>1, <1>4, OpenSame
  <2>2. \A x \in Slots : Dying(x)' <=> Dying(x) BY <1>2, <1>a, DyingSame
  <2> QED BY <1>1, <2>1, <2>2, TypeParts DEF FieldsSame, msgVars, HistoryTyped, LocalsTyped
<1>6. \A x \in Slots : /\ phase'[x] = "free" <=> phase[x] = "free"
                       /\ phase'[x] = "claimed" <=> phase[x] = "claimed"
  BY <1>m, <1>5 DEF FieldsSame
<1>7. PoolShape'
  <2>1. Releasing' = Releasing BY <1>2, <1>a, ReleasingSame
  <2> QED BY <1>1, <1>4, <1>5, <1>6, <2>1, PoolStays DEF counters
<1>8. PopShape' BY <1>2, <1>5, <1>6, <1>b, PopStays
<1>9. SendShape'
  <2>1. ASSUME NEW p \in Producers
        PROVE  /\ pc[p] \in SendPCs => phase'[msg[p]] = phase[msg[p]]
               /\ pc[p] = "count" => fifo' # <<>>
    <3>1. pc[p] = "count" => Coming = 1 BY DEF Coming
    <3>2. pc[p] \in SendPCs => phase[msg[p]] = "claimed" BY DEF SendShape, SendPCs
    <3>3. msg[p] \in Slots BY TypeParts DEF LocalsTyped
    <3> QED BY <1>1, <1>6, <1>f, <3>1, <3>2, <3>3
  <2> QED BY <1>1, <1>2, <1>b, <2>1, SendStays DEF msgVars
<1>10. QueueShape'
  <2>1. Taking = 1 /\ Taking' = 0 BY <1>0, <1>2, TakingIs DEF TakePCs
  <2>2. queuedMessages' + Coming' + Taking' + 1 = queuedMessages + Coming + Taking
    BY <1>1, <1>4, <2>1, CountsNat DEF counters
  <2> QED BY <1>m, <1>1, <1>f, <2>2, QueuePop, CountsNat DEF msgVars, counters
<1>11. m # s /\ m # Dummy /\ SlotShape(m) /\ SlotShape(s)
  BY <1>m, <1>0 DEF FieldShape, SlotShape
<1>12. RecvShape'
  <2>1. InHand(c)' BY <1>2 DEF InHand
  <2>2. msg'[c] = previousReceived' /\ phase'[msg'[c]] = "handling" BY <1>1, <1>5
  <2>3. old'[c] # previousReceived' /\ phase'[old'[c]] = "answered"
    BY <1>0, <1>1, <1>5, <1>11 DEF FieldsSame
  <2>4. IF old'[c] = Dummy THEN flags'[old'[c]] = {} ELSE IN_USE \in flags'[old'[c]]
    BY <1>s, <1>1, <1>5, <1>11 DEF SlotShape, Blank, msgVars
  <2> QED BY <1>2, <1>4, <2>1, <2>2, <2>3, <2>4 DEF RecvShape
<1>13. FieldShape'
  <2>1. SlotShape(m)'
    BY <1>m, <1>1, <1>5, <1>11 DEF SlotShape, Blank, msgVars
  <2>2. \A p \in Producers : pc[p] = "send" => FieldsSame(msg[p])
    BY <1>m, <1>5, TypeParts DEF SendShape, LocalsTyped
  <2> QED BY <1>1, <1>2, <1>5, <1>b, <2>1, <2>2, FieldStays
<1>14. DyingShape'
  <2>1. \A u \in Threads : pc[u] \in DyingPCs => old[u] # m
    BY <1>m DEF DyingShape
  <2>2. \A u \in Threads \ {c} : pc[u] \in DyingPCs =>
          /\ old[u] # previousReceived' /\ phase'[old[u]] = phase[old[u]]
    BY <1>1, <2>1, <1>5, TypeParts DEF LocalsTyped, FieldsSame
  <2> QED BY <1>1, <1>2, <1>a, <2>2, DyingStays DEF msgVars
<1>15. HandleShape'
  <2>1. \A x \in Slots : Signalable(x) => Signalable(x)'
    BY <1>1, <1>4, <1>5 DEF Signalable, FieldsSame, msgVars
  <2>2. openHandles' = openHandles /\ isReady' = isReady BY <1>1 DEF msgVars
  <2>3. \A x \in Slots : phase'[x] = "claimed" \/ Owed(x)' => openHandles'[x] = 1
    BY <1>4, <1>6, <2>2 DEF HandleShape
  <2> QED BY <1>2, <1>5, <1>b, <2>1, <2>2, <2>3, HandleStays
<1> QED BY <1>3, <1>4, <1>7, <1>8, <1>9, <1>10, <1>12, <1>13, <1>14, <1>15

(* The consumer lets go of message s, which it received before.            *)
LEMMA HeldSlot ==
  ASSUME OneEach, TypeOK, AgateInv, NEW c \in Consumers, pc[c] = "freeHold",
         NEW s \in Slots, s = old[c]
  PROVE  /\ s # previousReceived /\ phase[s] = "answered"
         /\ s = Dummy => flags[s] = {}
         /\ s # Dummy => IN_USE \in flags[s]
         /\ ~Dying(s) /\ SlotShape(s)
         /\ \A p \in Producers : pc[p] \in SendPCs \cup {"count"} => msg[p] # s
<1> USE Const DEF AgateInv
<1>1. /\ s # previousReceived /\ phase[s] = "answered"
      /\ s = Dummy => flags[s] = {}
      /\ s # Dummy => IN_USE \in flags[s]
  BY DEF RecvShape
<1>2. ASSUME Dying(s) PROVE FALSE
  <2>1. PICK u \in Threads : pc[u] \in DyingPCs /\ old[u] = s BY <1>2 DEF Dying
  <2>2. s # Dummy /\ IN_USE \notin flags[s]
    <3>1. CASE pc[u] = "cleanup" BY <2>1, <3>1 DEF DyingShape
    <3>2. CASE pc[u] \in CleanPCs BY <2>1, <3>2 DEF DyingShape, Blank
    <3> QED BY <2>1, <3>1, <3>2 DEF DyingPCs, CleanPCs, DyingShape
  <2> QED BY <1>1, <2>2
<1>3. ASSUME NEW p \in Producers, pc[p] \in SendPCs \cup {"count"} PROVE msg[p] # s
  <2>1. CASE pc[p] \in SendPCs BY <1>1, <2>1 DEF SendShape, SendPCs
  <2>2. CASE pc[p] = "count"
    <3>1. phase[lastQueuedSlot] = "queued" BY <2>2, QueueEnd DEF SendShape
    <3> QED BY <1>1, <2>2, <3>1 DEF SendShape
  <2> QED BY <1>3, <2>1, <2>2
<1> QED BY <1>1, <1>2, <1>3 DEF FieldShape

LEMMA FreeHoldKeeps ==
  ASSUME OneEach, TypeOK, AgateInv, NEW c \in Consumers, FreeHold(c)
  PROVE  TypeOK' /\ AgateInv'
<1> USE Const DEF AgateInv
<1>s. PICK s \in Slots : s = old[c] BY TypeParts DEF LocalsTyped
<1>p. pc[c] = "freeHold" BY DEF FreeHold
<1>0. /\ s # previousReceived /\ phase[s] = "answered"
      /\ s = Dummy => flags[s] = {}
      /\ s # Dummy => IN_USE \in flags[s]
      /\ ~Dying(s) /\ SlotShape(s)
      /\ \A p \in Producers : pc[p] \in SendPCs \cup {"count"} => msg[p] # s
  BY <1>s, <1>p, HeldSlot
<1>1. /\ flags' = [flags EXCEPT ![s] = @ \ {IN_USE}]
      /\ UNCHANGED <<kind, next, isReady, openHandles, status, ends, counters, msg,
                     reg, nxt, holders, fifo, answer>>
      /\ \/ /\ CONDEMNED \in flags[s] /\ Goto(c, "cleanup") /\ phase' = phase
            /\ ret' = [ret EXCEPT ![c] = "handle"] /\ old' = old
         \/ /\ CONDEMNED \notin flags[s] /\ Goto(c, "handle") /\ ret' = ret
            /\ old' = [old EXCEPT ![c] = Dummy]
            /\ \/ s # Dummy /\ phase' = phase
               \/ s = Dummy /\ phase' = [phase EXCEPT ![s] = "free"]
  <2>1. /\ flags' = [flags EXCEPT ![s] = @ \ {IN_USE}]
        /\ UNCHANGED <<kind, next, isReady, openHandles, status, ends, counters, msg,
                       reg, nxt, holders, fifo, answer>>
    BY <1>s DEF FreeHold
  <2>2. CASE CONDEMNED \in flags[s]
    BY <1>s, <2>2 DEF FreeHold, Unwanted, Destroy
  <2>3. CASE CONDEMNED \notin flags[s] /\ s # Dummy
    BY <1>s, <1>0, <2>3 DEF FreeHold, Unwanted, Forget
  <2>4. CASE CONDEMNED \notin flags[s] /\ s = Dummy
    BY <1>s, <1>0, <2>4 DEF FreeHold, Unwanted, Forget
  <2> QED BY <2>1, <2>2, <2>3, <2>4
<1>c. pc'[c] \in {"cleanup", "handle"} /\ PcTyped' /\ Alone(c)
  <2>1. CASE Goto(c, "cleanup")
    BY <1>1, <2>1, PcMoves, TypeParts DEF ConsumerPCs, ReturnPCs, Alone, LocalsTyped
  <2>2. CASE Goto(c, "handle")
    BY <1>1, <2>2, PcMoves, TypeParts DEF ConsumerPCs, ReturnPCs, Alone, LocalsTyped
  <2> QED BY <1>1, <2>1, <2>2
<1>2. /\ pc'[c] = "cleanup" => /\ CONDEMNED \in flags[s] /\ ret'[c] = "handle"
                               /\ old'[c] = s /\ phase' = phase
      /\ pc'[c] = "handle" => CONDEMNED \notin flags[s] /\ ret'[c] = ret[c]
      /\ ret'[c] \in {"idle", "handle"}
  <2>1. CASE CONDEMNED \in flags[s]
    <3>1. pc'[c] = "cleanup" BY <1>1, <2>1, TypeParts DEF Goto, PcTyped
    <3>2. ret' = [ret EXCEPT ![c] = "handle"] /\ old' = old /\ phase' = phase BY <1>1, <2>1
    <3> QED BY <1>s, <2>1, <3>1, <3>2, TypeParts DEF LocalsTyped
  <2>2. CASE CONDEMNED \notin flags[s]
    <3>1. pc'[c] = "handle" /\ ret' = ret BY <1>1, <2>2, TypeParts DEF Goto, PcTyped
    <3>2. ret[c] \in {"idle", "handle"} BY DEF Proper
    <3> QED BY <2>2, <3>1, <3>2
  <2> QED BY <2>1, <2>2
<1>3. TypeOK'
  <2>1. FieldsTyped'
    <3>1. flags[s] \ {IN_USE} \in SUBSET AllFlags BY TypeParts DEF FieldsTyped
    <3> QED BY <1>1, <3>1, TypeParts DEF FieldsTyped
  <2>2. EndsTyped' BY <1>1, TypeParts DEF EndsTyped, ends, counters
  <2>3. LocalsTyped' BY <1>1, TypeParts DEF LocalsTyped
  <2>4. HistoryTyped' BY <1>1, TypeParts DEF HistoryTyped
  <2> QED BY <1>c, <2>1, <2>2, <2>3, <2>4, TypeNext
<1>4. /\ Proper' /\ Popping' = Popping /\ Coming' = Coming
      /\ \A x : Users(x)' = Users(x) /\ (Owed(x)' <=> Owed(x))
      /\ \A d \in Consumers : d = c
  BY <1>1, <1>c, <1>2, ConsumerFrames DEF ConsumerPlain
<1>b. c \notin Producers /\ c \notin Waiters OBVIOUS
<1>5. /\ flags'[s] = flags[s] \ {IN_USE} /\ phase'[s] \in {"answered", "free"}
      /\ s # Dummy => phase'[s] = "answered"
      /\ isReady'[s] = isReady[s] /\ openHandles'[s] = openHandles[s]
      /\ status'[s] = status[s] /\ answer'[s] = answer[s]
      /\ \A x \in Slots \ {s} : FieldsSame(x)
      /\ \A x \in Slots : Open(x)' = Open(x) /\ next'[x] = next[x]
  <2>1. \A x \in Slots : Open(x)' = Open(x) BY <1>1, <1>4, OpenSame
  <2> QED BY <1>0, <1>1, <2>1, TypeParts DEF FieldsSame, FieldsTyped, HistoryTyped
<1>6. \A x \in Slots : Dying(x)' => Dying(x) \/ (x = s /\ CONDEMNED \in flags[s])
  <2>1. \A u \in Threads \ {c} : pc'[u] = pc[u] /\ old'[u] = old[u] BY <1>c DEF Alone
  <2> QED BY <1>c, <1>2, <2>1 DEF Dying, DyingPCs
<1>7. PoolShape'
  <2>1. Releasing' = Releasing BY <1>p, <1>c, ReleasingSame
  <2>2. \A x \in Slots \ {Dummy} : phase'[x] = "free" <=> phase[x] = "free"
    BY <1>0, <1>5 DEF FieldsSame
  <2> QED BY <1>1, <1>4, <1>5, <2>1, <2>2, PoolStays DEF ends, counters
<1>8. PopShape'
  <2>1. \A x \in Slots \ {Dummy} : phase[x] = "free" => phase'[x] = "free"
    BY <1>0, <1>5 DEF FieldsSame
  <2> QED BY <1>c, <1>5, <1>b, <2>1, PopStays
<1>9. SendShape'
  <2>1. \A p \in Producers : pc[p] \in SendPCs \cup {"count"} =>
          phase'[msg[p]] = phase[msg[p]] /\ flags'[msg[p]] = flags[msg[p]]
    BY <1>0, <1>5, TypeParts DEF FieldsSame, LocalsTyped
  <2>2. \A p \in Producers : pc[p] = "count" => fifo' # <<>>
    BY <1>1 DEF SendShape
  <2> QED BY <1>1, <1>b, <1>c, <2>1, <2>2, SendStays DEF ends
<1>10. QueueShape'
  <2>1. Taking' = Taking BY <1>p, <1>c, TakingIs DEF TakePCs
  <2>2. \A x \in Slots : phase'[x] = "queued" <=> phase[x] = "queued"
    BY <1>0, <1>5 DEF FieldsSame
  <2> QED BY <1>1, <1>4, <1>5, <2>1, <2>2, QueueStays DEF ends, counters
<1>12. RecvShape'
  <2>1. InHand(c)' BY <1>c, <1>2 DEF InHand, ReturnPCs
  <2>2. msg[c] = previousReceived /\ phase[msg[c]] = "handling"
    BY <1>p DEF RecvShape, InHand
  <2>3. msg'[c] = previousReceived' /\ phase'[msg'[c]] = "handling"
    BY <1>0, <1>1, <1>5, <2>2, TypeParts DEF FieldsSame, LocalsTyped, ends
  <2> QED BY <1>c, <1>4, <2>1, <2>3 DEF RecvShape
<1>13. FieldShape'
  <2>1. SlotShape(s)'
    BY <1>0, <1>1, <1>5 DEF SlotShape, Blank, ends
  <2>2. \A p \in Producers : pc[p] = "send" => FieldsSame(msg[p])
    BY <1>0, <1>5, TypeParts DEF LocalsTyped, SendPCs
  <2> QED BY <1>1, <1>c, <1>5, <1>b, <2>1, <2>2, FieldStays DEF ends
<1>14. DyingShape'
  <2>1. \A u \in Threads : pc[u] \in DyingPCs => old[u] # s /\ old[u] # previousReceived
    BY <1>0 DEF Dying, DyingShape
  <2>2. \A u \in Threads \ {c} : pc[u] \in DyingPCs =>
          /\ old[u] # previousReceived' /\ phase'[old[u]] = phase[old[u]]
          /\ flags'[old[u]] = flags[old[u]]
    BY <1>1, <2>1, <1>5, TypeParts DEF LocalsTyped, FieldsSame, ends
  <2>3. CASE pc'[c] = "handle" BY <1>1, <1>c, <2>2, <2>3, DyingStays DEF DyingPCs
  <2>4. CASE pc'[c] = "cleanup"
    <3>1. s # Dummy BY <1>0, <1>2, <2>4
    <3>2. old'[c] = s /\ CONDEMNED \in flags'[s] /\ IN_USE \notin flags'[s]
      BY <1>2, <1>5, <2>4 DEF CONDEMNED, IN_USE
    <3>3. DyingSlot(c, old[c])'
      BY <1>0, <1>1, <1>5, <2>4, <3>1, <3>2 DEF DyingSlot, CleanPCs, ends
    <3>4. ~Dying(old'[c]) BY <1>0, <3>2
    <3> QED BY <1>1, <1>c, <2>2, <3>3, <3>4, DyingStays
  <2> QED BY <1>c, <2>3, <2>4
<1>15. HandleShape'
  <2>1. ASSUME NEW x \in Slots, Signalable(x) PROVE Signalable(x)'
    <3>1. x # Dummy /\ CONDEMNED \notin flags[x] BY <2>1 DEF Signalable
    <3>2. ~Dying(x)' BY <1>6, <2>1, <3>1 DEF Signalable
    <3>3. flags'[x] \subseteq flags[x] /\ phase'[x] = phase[x]
      BY <1>0, <1>5, <3>1 DEF FieldsSame
    <3> QED BY <1>4, <2>1, <3>2, <3>3 DEF Signalable
  <2>2. openHandles' = openHandles /\ isReady' = isReady BY <1>1
  <2>3. \A x \in Slots : phase'[x] = "claimed" \/ Owed(x)' => openHandles'[x] = 1
    BY <1>4, <1>5, <2>2 DEF HandleShape, FieldsSame
  <2> QED BY <1>c, <1>5, <1>b, <2>1, <2>2, <2>3, HandleStays
<1> QED BY <1>3, <1>4, <1>7, <1>8, <1>9, <1>10, <1>12, <1>13, <1>14, <1>15

(* The consumer replies to message s, which it received last.             *)
LEMMA HandSlot ==
  ASSUME OneEach, TypeOK, AgateInv, NEW c \in Consumers, pc[c] \in {"handle", "setReady"},
         NEW s \in Slots, s = msg[c]
  PROVE  /\ s = previousReceived /\ phase[s] = "handling" /\ s # Dummy
         /\ IN_USE \in flags[s] /\ ~isReady[s] /\ SlotShape(s)
BY DEF AgateInv, RecvShape, InHand, FieldShape, SlotShape

LEMMA HandKeeps ==
  ASSUME OneEach, TypeOK, AgateInv, NEW c \in Consumers, pc[c] \in {"handle", "setReady"},
         TypeOK', Alone(c), pc'[c] \in {"setReady", "idle"}, ret'[c] = ret[c],
         NEW s \in Slots, s = msg[c],
         UNCHANGED <<kind, next, openHandles, ends, counters, holders, fifo>>,
         \A x \in Slots \ {s} : FieldsSame(x),
         phase'[s] \in {"handling", "answered"},
         flags'[s] = flags[s] \/ IGNORE \in flags[s],
         RecvShape', SlotShape(s)'
  PROVE  AgateInv'
<1> USE Const DEF AgateInv
<1>0. /\ s = previousReceived /\ phase[s] = "handling" /\ s # Dummy
      /\ IN_USE \in flags[s] /\ ~isReady[s] /\ SlotShape(s)
  BY HandSlot
<1>4. /\ Proper' /\ Popping' = Popping /\ Coming' = Coming
      /\ \A x : Users(x)' = Users(x) /\ (Owed(x)' <=> Owed(x))
      /\ \A d \in Consumers : d = c
  BY ConsumerFrames DEF ConsumerPlain, Proper
<1>a. /\ pc[c] \notin DyingPCs \cup {"returnLink", "release"}
      /\ pc'[c] \notin DyingPCs \cup {"returnLink", "release"}
  BY DEF DyingPCs
<1>b. c \notin Producers /\ c \notin Waiters OBVIOUS
<1>5. \A x \in Slots : Open(x)' = Open(x) /\ (Dying(x)' <=> Dying(x)) /\ next'[x] = next[x]
  <2>1. \A x \in Slots : Open(x)' = Open(x) BY <1>4, OpenSame
  <2>2. \A x \in Slots : Dying(x)' <=> Dying(x) BY <1>a, DyingSame
  <2> QED BY <2>1, <2>2
<1>6. \A x \in Slots : /\ phase'[x] = "free" <=> phase[x] = "free"
                       /\ phase'[x] = "claimed" <=> phase[x] = "claimed"
                       /\ phase'[x] = "queued" <=> phase[x] = "queued"
  BY <1>0 DEF FieldsSame
<1>7. PoolShape'
  <2>1. Releasing' = Releasing BY <1>a, ReleasingSame
  <2> QED BY <1>4, <1>5, <1>6, <2>1, PoolStays DEF ends, counters
<1>8. PopShape' BY <1>5, <1>6, <1>b, PopStays
<1>s. ASSUME NEW p \in Producers, pc[p] \in SendPCs \cup {"count"}
      PROVE  msg[p] # s /\ FieldsSame(msg[p])
  <2>1. CASE pc[p] \in SendPCs
    <3>1. msg[p] # s BY <1>0, <2>1 DEF SendShape, SendPCs
    <3> QED BY <3>1, TypeParts DEF LocalsTyped
  <2>2. CASE pc[p] = "count"
    <3>1. phase[lastQueuedSlot] = "queued" BY <2>2, QueueEnd DEF SendShape
    <3>2. msg[p] # s BY <1>0, <2>2, <3>1 DEF SendShape
    <3> QED BY <3>2, TypeParts DEF LocalsTyped
  <2> QED BY <1>s, <2>1, <2>2
<1>9. SendShape'
  <2>1. \A p \in Producers : pc[p] \in SendPCs \cup {"count"} =>
          phase'[msg[p]] = phase[msg[p]] /\ flags'[msg[p]] = flags[msg[p]]
    BY <1>s DEF FieldsSame
  <2>2. \A p \in Producers : pc[p] = "count" => fifo' # <<>> BY DEF SendShape
  <2> QED BY <1>b, <2>1, <2>2, SendStays DEF ends
<1>10. QueueShape'
  <2>1. Taking' = Taking BY <1>a, TakingIs DEF TakePCs
  <2> QED BY <1>4, <1>5, <1>6, <2>1, QueueStays DEF ends, counters
<1>13. FieldShape'
  <2>2. \A p \in Producers : pc[p] = "send" => FieldsSame(msg[p])
    BY <1>s DEF SendPCs
  <2> QED BY <1>b, <2>2, FieldStays DEF ends
<1>14. DyingShape'
  <2>1. \A u \in Threads : pc[u] \in DyingPCs => old[u] # s /\ old[u] # previousReceived
    BY <1>0 DEF DyingShape
  <2>2. \A u \in Threads \ {c} : pc[u] \in DyingPCs =>
          old[u] # previousReceived' /\ FieldsSame(old[u])
    BY <2>1, TypeParts DEF LocalsTyped, ends
  <2> QED BY <1>a, <2>2, DyingStays DEF FieldsSame
<1>15. HandleShape'
  <2>1. ASSUME NEW x \in Slots, Signalable(x) PROVE Signalable(x)'
    <3>1. CASE x = s BY <1>0, <1>4, <1>5, <2>1, <3>1 DEF Signalable
    <3>2. CASE x # s BY <1>4, <1>5, <2>1, <3>2 DEF Signalable, FieldsSame
    <3> QED BY <3>1, <3>2
  <2>2. \A x \in Slots : isReady[x] => isReady'[x] BY <1>0 DEF FieldsSame
  <2>3. \A x \in Slots : phase'[x] = "claimed" \/ Owed(x)' => openHandles'[x] = 1
    BY <1>4, <1>6 DEF HandleShape
  <2> QED BY <1>5, <1>b, <2>1, <2>2, <2>3, HandleStays
<1> QED BY <1>4, <1>7, <1>8, <1>9, <1>10, <1>13, <1>14, <1>15

LEMMA IgnoredKeeps ==
  ASSUME OneEach, TypeOK, AgateInv, NEW c \in Consumers, ReplyIgnored(c)
  PROVE  TypeOK' /\ AgateInv'
<1> USE Const
<1>s. PICK s \in Slots : s = msg[c] BY TypeParts DEF LocalsTyped
<1>p. pc[c] = "handle" /\ IGNORE \in flags[s] BY <1>s DEF ReplyIgnored
<1>0. /\ s = previousReceived /\ phase[s] = "handling" /\ s # Dummy
      /\ IN_USE \in flags[s] /\ ~isReady[s] /\ SlotShape(s)
  BY <1>s, <1>p, HandSlot
<1>1. /\ Goto(c, "idle") /\ flags' = [flags EXCEPT ![s] = @ \cup {CONDEMNED}]
      /\ old' = [old EXCEPT ![c] = Dummy] /\ msg' = [msg EXCEPT ![c] = Dummy]
      /\ phase' = [phase EXCEPT ![s] = "answered"]
      /\ UNCHANGED <<kind, next, isReady, openHandles, status, ends, counters, reg,
                     nxt, ret, holders, fifo, answer>>
  BY <1>s, <1>0 DEF ReplyIgnored, CondemnBy, InUse, Become, Forget
<1>2. PcTyped' /\ pc'[c] = "idle" /\ Alone(c)
  BY <1>1, PcMoves, TypeParts DEF ConsumerPCs, Alone, LocalsTyped
<1>3. TypeOK'
  <2>1. FieldsTyped'
    <3>1. flags[s] \cup {CONDEMNED} \in SUBSET AllFlags
      BY TypeParts DEF FieldsTyped, AllFlags
    <3> QED BY <1>1, <3>1, TypeParts DEF FieldsTyped
  <2>2. EndsTyped' BY <1>1, TypeParts DEF EndsTyped, ends, counters
  <2>3. LocalsTyped' BY <1>1, TypeParts DEF LocalsTyped
  <2>4. HistoryTyped' BY <1>1, TypeParts DEF HistoryTyped
  <2> QED BY <1>2, <2>1, <2>2, <2>3, <2>4, TypeNext
<1>5. /\ flags'[s] = flags[s] \cup {CONDEMNED} /\ phase'[s] = "answered"
      /\ \A x \in Slots \ {s} : FieldsSame(x)
  BY <1>1, TypeParts DEF FieldsSame, FieldsTyped, HistoryTyped
<1>6. RecvShape'
  <2>1. ~InHand(c)' BY <1>2 DEF InHand, ReturnPCs
  <2>2. phase'[previousReceived'] = "answered" BY <1>0, <1>1, <1>5 DEF ends
  <2> QED BY <1>2, <2>1, <2>2 DEF RecvShape, OneEach
<1>7. SlotShape(s)' BY <1>0, <1>1, <1>5 DEF SlotShape, ends
<1>8. AgateInv' BY <1>s, <1>p, <1>1, <1>2, <1>3, <1>5, <1>6, <1>7, HandKeeps
<1> QED BY <1>3, <1>8

LEMMA StatusKeeps ==
  ASSUME OneEach, TypeOK, AgateInv, NEW c \in Consumers, NEW result \in Results,
         ReplyStatus(c, result)
  PROVE  TypeOK' /\ AgateInv'
<1> USE Const
<1>s. PICK s \in Slots : s = msg[c] BY TypeParts DEF LocalsTyped
<1>p. pc[c] = "handle" BY DEF ReplyStatus
<1>0. /\ s = previousReceived /\ phase[s] = "handling" /\ s # Dummy
      /\ IN_USE \in flags[s] /\ ~isReady[s] /\ SlotShape(s)
  BY <1>s, <1>p, HandSlot
<1>1. /\ Goto(c, "setReady") /\ status' = [status EXCEPT ![s] = result]
      /\ answer' = [answer EXCEPT ![s] = result]
      /\ UNCHANGED <<kind, next, flags, isReady, openHandles, ends, counters, locals,
                     holders, phase, fifo>>
  BY <1>s DEF ReplyStatus
<1>2. PcTyped' /\ pc'[c] = "setReady" /\ Alone(c)
  BY <1>1, PcMoves DEF ConsumerPCs, Alone, locals
<1>3. TypeOK'
  <2>1. FieldsTyped' BY <1>1, TypeParts DEF FieldsTyped, Statuses
  <2>2. EndsTyped' BY <1>1, TypeParts DEF EndsTyped, ends, counters
  <2>3. LocalsTyped' BY <1>1, TypeParts DEF LocalsTyped, locals
  <2>4. HistoryTyped' BY <1>1, TypeParts DEF HistoryTyped, Statuses
  <2> QED BY <1>2, <2>1, <2>2, <2>3, <2>4, TypeNext
<1>5. /\ status'[s] = result /\ answer'[s] = result /\ phase'[s] = "handling"
      /\ answer'[s] # "NOT_SET" /\ \A x \in Slots \ {s} : FieldsSame(x)
  BY <1>0, <1>1, ResultAssumption, TypeParts DEF FieldsSame, FieldsTyped, HistoryTyped
<1>6. RecvShape'
  <2>1. InHand(c)' BY <1>2 DEF InHand
  <2>2. msg'[c] = previousReceived' /\ phase'[msg'[c]] = "handling"
    BY <1>s, <1>0, <1>1 DEF ends, locals
  <2>3. status'[msg'[c]] = answer'[msg'[c]] /\ answer'[msg'[c]] # "NOT_SET"
    BY <1>s, <1>1, <1>5 DEF locals
  <2> QED BY <1>2, <2>1, <2>2, <2>3 DEF RecvShape, OneEach
<1>7. SlotShape(s)' BY <1>0, <1>1, <1>5 DEF SlotShape, ends, Blank
<1>8. AgateInv'
  BY <1>s, <1>p, <1>1, <1>2, <1>3, <1>5, <1>6, <1>7, HandKeeps DEF locals
<1> QED BY <1>3, <1>8

LEMMA ReadyKeeps ==
  ASSUME OneEach, TypeOK, AgateInv, NEW c \in Consumers, SetReady(c)
  PROVE  TypeOK' /\ AgateInv'
<1> USE Const
<1>s. PICK s \in Slots : s = msg[c] BY TypeParts DEF LocalsTyped
<1>p. pc[c] = "setReady" BY DEF SetReady
<1>0. /\ s = previousReceived /\ phase[s] = "handling" /\ s # Dummy
      /\ IN_USE \in flags[s] /\ ~isReady[s] /\ SlotShape(s)
  BY <1>s, <1>p, HandSlot
<1>a. status[s] = answer[s] /\ answer[s] # "NOT_SET" BY <1>s, <1>p DEF AgateInv, RecvShape
<1>1. /\ Goto(c, "idle") /\ isReady' = [isReady EXCEPT ![s] = TRUE]
      /\ phase' = [phase EXCEPT ![s] = "answered"] /\ msg' = [msg EXCEPT ![c] = Dummy]
      /\ UNCHANGED <<kind, next, flags, openHandles, status, ends, counters, old,
                     reg, nxt, ret, holders, fifo, answer>>
  BY <1>s DEF SetReady, Become, Forget
<1>2. PcTyped' /\ pc'[c] = "idle" /\ Alone(c)
  BY <1>1, PcMoves, TypeParts DEF ConsumerPCs, Alone, LocalsTyped
<1>3. TypeOK'
  <2>1. FieldsTyped' BY <1>1, TypeParts DEF FieldsTyped
  <2>2. EndsTyped' BY <1>1, TypeParts DEF EndsTyped, ends, counters
  <2>3. LocalsTyped' BY <1>1, TypeParts DEF LocalsTyped
  <2>4. HistoryTyped' BY <1>1, TypeParts DEF HistoryTyped
  <2> QED BY <1>2, <2>1, <2>2, <2>3, <2>4, TypeNext
<1>5. /\ phase'[s] = "answered" /\ \A x \in Slots \ {s} : FieldsSame(x)
  BY <1>1, TypeParts DEF FieldsSame, FieldsTyped, HistoryTyped
<1>6. RecvShape'
  <2>1. ~InHand(c)' BY <1>2 DEF InHand, ReturnPCs
  <2>2. phase'[previousReceived'] = "answered" BY <1>0, <1>1, <1>5 DEF ends
  <2> QED BY <1>2, <2>1, <2>2 DEF RecvShape, OneEach
<1>7. SlotShape(s)' BY <1>0, <1>a, <1>1, <1>5 DEF SlotShape, ends
<1>8. AgateInv' BY <1>s, <1>p, <1>1, <1>2, <1>3, <1>5, <1>6, <1>7, HandKeeps
<1> QED BY <1>3, <1>8

----------------------------------------------------------------------------
(* The thread that returns a message                                       *)

LEMMA Returner ==
  ASSUME TypeOK, NEW t \in Threads, pc[t] \in ReturnPCs
  PROVE  t \notin Producers /\ t \in Consumers \cup Waiters
<1>1. t \in Producers => pc[t] \in ProducerPCs BY TypeParts DEF PcTyped
<1> QED BY <1>1, Const DEF ProducerPCs, PopPCs, ReturnPCs

(* Message s, which thread t returns, is in nobody's hands.                *)
LEMMA DyingFree ==
  ASSUME OneEach, TypeOK, AgateInv, NEW t \in Threads, pc[t] \in DyingPCs,
         NEW s \in Slots, s = old[t]
  PROVE  /\ s # Dummy /\ s # previousReceived /\ phase[s] = "answered" /\ Dying(s)
         /\ ~Signalable(s) /\ Open(s) = 0 /\ ~Owed(s) /\ SlotShape(s)
         /\ s # lastQueuedSlot
         /\ \A p \in Producers : pc[p] \in SendPCs \cup {"count"} => msg[p] # s
         /\ \A c \in Consumers : pc[c] = "freeHold" => old[c] # s
         /\ \A w \in Waiters : pc[w] \in {"collect", "condemn"} => msg[w] # s
         /\ \A u \in Threads \ {t} : pc[u] \in DyingPCs => old[u] # s
<1> USE Const DEF AgateInv
<1>1. s # Dummy /\ s # previousReceived /\ phase[s] = "answered" /\ Dying(s)
  BY DEF DyingShape, Dying
<1>2. ~Signalable(s) BY <1>1 DEF Signalable
<1>3. Open(s) = 0 BY <1>2, OpenTyped DEF HandleShape
<1>4. s # lastQueuedSlot
  <2>1. phase[lastQueuedSlot] = "queued" \/ lastQueuedSlot = previousReceived BY QueueEnd
  <2> QED BY <1>1, <2>1
<1>5. ASSUME NEW p \in Producers, pc[p] \in SendPCs \cup {"count"} PROVE msg[p] # s
  <2>1. CASE pc[p] \in SendPCs BY <1>1, <2>1 DEF SendShape, SendPCs
  <2>2. CASE pc[p] = "count" BY <1>4, <2>2 DEF SendShape
  <2> QED BY <1>5, <2>1, <2>2
<1>6. ~Owed(s) BY <1>5 DEF Owed
<1>7. ASSUME NEW c \in Consumers, pc[c] = "freeHold" PROVE old[c] # s
  <2>1. PICK x \in Slots : x = old[c] BY TypeParts DEF LocalsTyped
  <2>2. ~Dying(x) BY <1>7, <2>1, HeldSlot
  <2> QED BY <1>1, <2>1, <2>2
<1>8. ASSUME NEW w \in Waiters, pc[w] = "collect" PROVE msg[w] # s
  <2>1. w \in Users(msg[w]) BY <1>8 DEF Users, UserPCs
  <2> QED BY <1>3, <2>1, OpenTyped
<1>9. ASSUME NEW w \in Waiters, pc[w] = "condemn" PROVE msg[w] # s
  BY <1>2, <1>9 DEF HandleShape
<1>10. \A u \in Threads \ {t} : pc[u] \in DyingPCs => old[u] # s BY DEF DyingShape
<1>11. SlotShape(s) BY DEF FieldShape
<1> QED BY <1>1, <1>2, <1>3, <1>4, <1>5, <1>6, <1>7, <1>8, <1>9, <1>10, <1>11

LEMMA ReturnKeeps ==
  ASSUME OneEach, TypeOK, AgateInv, NEW t \in Threads, pc[t] \in DyingPCs,
         TypeOK', PoolShape', Alone(t), pc'[t] \in CleanPCs \cup {"release"},
         ret'[t] = ret[t], msg'[t] = msg[t], old'[t] = old[t],
         NEW s \in Slots, s = old[t],
         UNCHANGED <<kind, lastQueuedSlot, previousReceived, queuedMessages, holders, fifo>>,
         \A x \in Slots \ {s} : FieldsSame(x) /\ next'[x] = next[x],
         phase'[s] \in {"answered", "free"}, SlotShape(s)',
         pc'[t] \in CleanPCs => DyingSlot(t, old[t])'
  PROVE  AgateInv'
<1> USE Const DEF AgateInv
<1>0. /\ s # Dummy /\ s # previousReceived /\ phase[s] = "answered" /\ Dying(s)
      /\ ~Signalable(s) /\ Open(s) = 0 /\ ~Owed(s) /\ SlotShape(s)
      /\ s # lastQueuedSlot
      /\ \A p \in Producers : pc[p] \in SendPCs \cup {"count"} => msg[p] # s
      /\ \A c \in Consumers : pc[c] = "freeHold" => old[c] # s
      /\ \A w \in Waiters : pc[w] \in {"collect", "condemn"} => msg[w] # s
      /\ \A u \in Threads \ {t} : pc[u] \in DyingPCs => old[u] # s
  BY DyingFree
<1>a. pc[t] \in ReturnPCs /\ pc'[t] \in ReturnPCs \ {"returnLink", "cleanup"}
  BY DEF DyingPCs, CleanPCs, ReturnPCs
<1>b. t \notin Producers BY <1>a, Returner
<1>4. /\ Proper' /\ Popping' = Popping /\ Coming' = Coming /\ Taking' = Taking
      /\ \A x : Users(x)' = Users(x) /\ (Owed(x)' <=> Owed(x))
      /\ \A c \in Consumers : InHand(c)' <=> InHand(c)
  <2>1. Proper' BY <1>a, ProperStays DEF ReturnPCs
  <2>2. Popping' = Popping BY <1>b, PoppingSame
  <2>3. Coming' = Coming /\ Taking' = Taking BY <1>a, <1>b, CountsStay DEF ReturnPCs, TakePCs
  <2>4. \A x : Users(x)' = Users(x) BY <1>a, UsersSame DEF ReturnPCs, UserPCs
  <2>5. \A x : Owed(x)' <=> Owed(x) BY <1>b, OwedSame
  <2>6. \A c \in Consumers : InHand(c)' <=> InHand(c)
    BY <1>a DEF InHand, ReturnPCs, Alone
  <2> QED BY <2>1, <2>2, <2>3, <2>4, <2>5, <2>6
<1>5. \A x \in Slots : Open(x)' = Open(x) /\ (Dying(x)' => Dying(x))
  <2>1. \A x \in Slots : Open(x)' = Open(x) BY <1>4, OpenSame
  <2>2. \A x \in Slots : Dying(x)' => Dying(x) BY DEF Dying, Alone
  <2> QED BY <2>1, <2>2
<1>6. \A x \in Slots : /\ phase[x] = "free" => phase'[x] = "free" /\ next'[x] = next[x]
                       /\ phase'[x] = "claimed" => phase[x] = "claimed"
                       /\ phase'[x] = "queued" <=> phase[x] = "queued"
  BY <1>0 DEF FieldsSame
<1>8. PopShape' BY <1>6, <1>b, PopStays
<1>s. \A p \in Producers : pc[p] \in SendPCs \cup {"count"} => FieldsSame(msg[p])
  BY <1>0, TypeParts DEF LocalsTyped
<1>9. SendShape'
  <2>1. \A p \in Producers : pc[p] \in SendPCs \cup {"count"} =>
          phase'[msg[p]] = phase[msg[p]] /\ flags'[msg[p]] = flags[msg[p]]
    BY <1>s DEF FieldsSame
  <2>2. \A p \in Producers : pc[p] = "count" => fifo' # <<>> BY DEF SendShape
  <2>3. next'[lastQueuedSlot] = next[lastQueuedSlot] BY <1>0, TypeParts DEF EndsTyped
  <2> QED BY <1>b, <2>1, <2>2, <2>3, SendStays
<1>10. QueueShape'
  <2>1. \A x \in Slots : phase[x] = "queued" \/ x = previousReceived => next'[x] = next[x]
    BY <1>0
  <2> QED BY <1>4, <1>6, <2>1, QueueStays
<1>12. RecvShape'
  <2> SUFFICES ASSUME NEW c \in Consumers
               PROVE  /\ pc'[c] \in {"recvRead", "recvCas"} => reg'[c] = previousReceived'
                      /\ pc'[c] = "recvCas" =>
                           nxt'[c] = next'[previousReceived'] /\ nxt'[c] \in Slots
                      /\ InHand(c)' =>
                           msg'[c] = previousReceived' /\ phase'[msg'[c]] = "handling"
                      /\ ~InHand(c)' => phase'[previousReceived'] = "answered"
                      /\ pc'[c] = "setReady" =>
                           status'[msg'[c]] = answer'[msg'[c]] /\ answer'[msg'[c]] # "NOT_SET"
                      /\ pc'[c] = "freeHold" =>
                           /\ old'[c] # previousReceived' /\ phase'[old'[c]] = "answered"
                           /\ IF old'[c] = Dummy THEN flags'[old'[c]] = {}
                              ELSE IN_USE \in flags'[old'[c]]
    BY DEF RecvShape
  <2>0. InHand(c)' <=> InHand(c) BY <1>4
  <2>1. msg'[c] = msg[c] /\ msg[c] \in Slots /\ old[c] \in Slots
    BY TypeParts DEF Alone, LocalsTyped
  <2>2. FieldsSame(previousReceived) /\ next'[previousReceived] = next[previousReceived]
    BY <1>0, TypeParts DEF EndsTyped
  <2>3. /\ InHand(c)' => msg'[c] = previousReceived' /\ phase'[msg'[c]] = "handling"
        /\ ~InHand(c)' => phase'[previousReceived'] = "answered"
    BY <2>0, <2>1, <2>2 DEF RecvShape, FieldsSame
  <2>4. CASE c = t BY <1>a, <2>3, <2>4 DEF ReturnPCs
  <2>5. CASE c # t
    <3>1. /\ pc'[c] = pc[c] /\ reg'[c] = reg[c] /\ nxt'[c] = nxt[c] /\ old'[c] = old[c]
      BY <2>5 DEF Alone
    <3>2. /\ pc'[c] \in {"recvRead", "recvCas"} => reg'[c] = previousReceived'
          /\ pc'[c] = "recvCas" =>
               nxt'[c] = next'[previousReceived'] /\ nxt'[c] \in Slots
      BY <2>2, <3>1 DEF RecvShape
    <3>3. ASSUME pc[c] = "setReady"
          PROVE  status'[msg'[c]] = answer'[msg'[c]] /\ answer'[msg'[c]] # "NOT_SET"
      <4>1. InHand(c) BY <3>3 DEF InHand
      <4>2. /\ msg[c] = previousReceived
            /\ status[msg[c]] = answer[msg[c]] /\ answer[msg[c]] # "NOT_SET"
        BY <3>3, <4>1 DEF RecvShape
      <4>3. /\ status'[previousReceived] = answer'[previousReceived]
            /\ answer'[previousReceived] # "NOT_SET"
        BY <2>2, <4>2 DEF FieldsSame
      <4> QED BY <2>1, <4>2, <4>3
    <3>4. ASSUME pc[c] = "freeHold"
          PROVE  /\ old'[c] # previousReceived' /\ phase'[old'[c]] = "answered"
                 /\ IF old'[c] = Dummy THEN flags'[old'[c]] = {} ELSE IN_USE \in flags'[old'[c]]
      <4>1. FieldsSame(old[c]) BY <1>0, <2>1, <3>4
      <4>2. /\ old[c] # previousReceived /\ phase[old[c]] = "answered"
            /\ IF old[c] = Dummy THEN flags[old[c]] = {} ELSE IN_USE \in flags[old[c]]
        BY <3>4 DEF RecvShape
      <4>3. phase'[old[c]] = phase[old[c]] /\ flags'[old[c]] = flags[old[c]]
        BY <4>1 DEF FieldsSame
      <4> QED BY <3>1, <4>2, <4>3
    <3> QED BY <2>3, <3>1, <3>2, <3>3, <3>4
  <2> QED BY <2>4, <2>5
<1>13. FieldShape'
  <2>2. \A p \in Producers : pc[p] = "send" => FieldsSame(msg[p])
    BY <1>s DEF SendPCs
  <2> QED BY <1>b, <2>2, FieldStays
<1>14. DyingShape'
  <2>1. \A u \in Threads \ {t} : pc[u] \in DyingPCs =>
          /\ old[u] # previousReceived' /\ FieldsSame(old[u])
          /\ next'[old[u]] = next[old[u]]
    BY <1>0, TypeParts DEF LocalsTyped, DyingShape
  <2>2. \A u \in Threads \ {t} :
          pc[u] \in DyingPCs =>
            /\ old[u] # previousReceived'
            /\ flags'[old[u]] = flags[old[u]] /\ isReady'[old[u]] = isReady[old[u]]
            /\ openHandles'[old[u]] = openHandles[old[u]]
            /\ phase'[old[u]] = phase[old[u]] /\ next'[old[u]] = next[old[u]]
    BY <2>1 DEF FieldsSame
  <2>3. \/ pc'[t] \notin DyingPCs
        \/ pc[t] \in DyingPCs /\ old'[t] = old[t] /\ DyingSlot(t, old[t])'
        \/ DyingSlot(t, old[t])' /\ ~Dying(old'[t])
    BY DEF DyingPCs
  <2> QED BY <2>2, <2>3, DyingStays
<1>15. HandleShape'
  <2>1. ASSUME NEW x \in Slots, Signalable(x) PROVE Signalable(x)' /\ FieldsSame(x)
    <3>1. x # s BY <1>0, <2>1
    <3> QED BY <1>4, <1>5, <2>1, <3>1 DEF Signalable, FieldsSame
  <2>3. ASSUME NEW x \in Slots, phase'[x] = "claimed" \/ Owed(x)' PROVE openHandles'[x] = 1
    <3>1. x # s BY <1>0, <1>4, <2>3
    <3> QED BY <1>4, <1>6, <2>3, <3>1 DEF HandleShape, FieldsSame
  <2>4. t \in Waiters => pc[t] # "condemn" /\ pc'[t] \notin {"condemn", "collect"}
    BY <1>a DEF ReturnPCs
  <2> QED BY <1>5, <2>1, <2>3, <2>4, HandleStays DEF FieldsSame
<1> QED BY <1>4, <1>8, <1>9, <1>10, <1>12, <1>13, <1>14, <1>15

LEMMA CleanupKeeps ==
  ASSUME OneEach, TypeOK, AgateInv, NEW t \in Threads, Cleanup(t)
  PROVE  TypeOK' /\ AgateInv'
<1> USE Const DEF AgateInv
<1>s. PICK s \in Slots : s = old[t] BY TypeParts DEF LocalsTyped
<1>p. pc[t] = "cleanup" /\ pc[t] \in DyingPCs /\ pc[t] \in ReturnPCs
  BY DEF Cleanup, DyingPCs, ReturnPCs
<1>0. /\ s # Dummy /\ s # previousReceived /\ phase[s] = "answered"
      /\ Dying(s) /\ ~Owed(s) /\ SlotShape(s)
      /\ \A c \in Consumers : pc[c] = "freeHold" => old[c] # s
  BY <1>s, <1>p, DyingFree
<1>1. /\ Goto(t, "return") /\ isReady' = [isReady EXCEPT ![s] = FALSE]
      /\ openHandles' = [openHandles EXCEPT ![s] = 1] /\ flags' = [flags EXCEPT ![s] = {}]
      /\ status' = status \/ status' = [status EXCEPT ![s] = "NOT_SET"]
      /\ UNCHANGED <<kind, next, ends, counters, locals, holders, hist>>
  BY <1>s DEF Cleanup, NotReady, OneHandle
<1>2. PcTyped' /\ pc'[t] = "return" /\ Alone(t)
  BY <1>1, <1>p, Returner, PcMoves DEF ConsumerPCs, WaiterPCs, ReturnPCs, Alone, locals
<1>3. TypeOK'
  <2>1. FieldsTyped' BY <1>1, TypeParts DEF FieldsTyped, Statuses
  <2>2. EndsTyped' /\ HistoryTyped' /\ LocalsTyped'
    BY <1>1, TypeParts DEF EndsTyped, HistoryTyped, LocalsTyped, hist, ends, counters, locals
  <2> QED BY <1>2, <2>1, <2>2, TypeNext
<1>5. /\ flags'[s] = {} /\ openHandles'[s] = 1 /\ ~isReady'[s]
      /\ \A x \in Slots \ {s} : FieldsSame(x) /\ next'[x] = next[x]
      /\ phase' = phase
  BY <1>1, TypeParts DEF FieldsSame, FieldsTyped, hist
<1>6. PoolShape'
  <2>1. Popping' = Popping BY <1>2, <1>p, Returner, PoppingSame
  <2>2. Releasing' = Releasing BY <1>2, <1>p, ReleasingSame
  <2> QED BY <1>1, <1>5, <2>1, <2>2, PoolStays DEF ends, counters
<1>7. SlotShape(s)' BY <1>0, <1>1, <1>5 DEF SlotShape, Blank, ends
<1>8. DyingSlot(t, old[t])'
  BY <1>s, <1>0, <1>1, <1>2, <1>5 DEF DyingSlot, Blank, ends, locals
<1>9. AgateInv'
  <2>1. pc'[t] \in CleanPCs BY <1>2 DEF CleanPCs
  <2> QED BY <1>s, <1>p, <1>0, <1>1, <1>2, <1>3, <1>5, <1>6, <1>7, <1>8, <2>1, ReturnKeeps
          DEF ends, counters, locals, hist
<1> QED BY <1>3, <1>9

\* The steps that only read nextFreeSlot again
LEMMA ReturnReadKeeps ==
  ASSUME OneEach, TypeOK, AgateInv, NEW t \in Threads, pc[t] \in CleanPCs,
         Goto(t, "returnStore"), reg' = [reg EXCEPT ![t] = nextFreeSlot],
         UNCHANGED <<kind, msgVars, ends, counters, msg, old, nxt, ret, holders, hist>>
  PROVE  TypeOK' /\ AgateInv'
<1> USE Const DEF AgateInv
<1>s. PICK s \in Slots : s = old[t] BY TypeParts DEF LocalsTyped
<1>p. pc[t] \in DyingPCs /\ pc[t] \in ReturnPCs
  BY DEF CleanPCs, DyingPCs, ReturnPCs
<1>0. /\ s # Dummy /\ s # previousReceived /\ phase[s] = "answered" /\ SlotShape(s)
      /\ Blank(s)
  BY <1>s, <1>p, DyingFree DEF DyingShape
<1>2. PcTyped' /\ pc'[t] = "returnStore" /\ Alone(t)
  BY <1>p, Returner, PcMoves, TypeParts DEF ConsumerPCs, WaiterPCs, ReturnPCs, Alone, LocalsTyped
<1>3. TypeOK'
  <2>1. FieldsTyped' /\ EndsTyped' /\ HistoryTyped'
    BY TypeParts DEF FieldsTyped, EndsTyped, HistoryTyped, msgVars, hist, ends, counters
  <2>2. LocalsTyped' BY TypeParts DEF LocalsTyped, EndsTyped
  <2> QED BY <1>2, <2>1, <2>2, TypeNext
<1>5. \A x \in Slots : FieldsSame(x) /\ next'[x] = next[x]
  BY DEF FieldsSame, hist, msgVars
<1>6. PoolShape'
  <2>1. Popping' = Popping BY <1>2, <1>p, Returner, PoppingSame
  <2>2. Releasing' = Releasing BY <1>2, <1>p, ReleasingSame DEF CleanPCs
  <2> QED BY <1>5, <2>1, <2>2, PoolStays DEF ends, counters, FieldsSame
<1>7. SlotShape(s)' BY <1>0 DEF SlotShape, Blank, ends, msgVars, hist
<1>8. DyingSlot(t, old[t])'
  BY <1>s, <1>0, <1>2 DEF DyingSlot, Blank, ends, msgVars, hist
<1>9. AgateInv'
  <2>1. pc'[t] \in CleanPCs BY <1>2 DEF CleanPCs
  <2>2. phase'[s] = "answered" BY <1>0 DEF hist
  <2> QED BY <1>s, <1>p, <1>2, <1>3, <1>5, <1>6, <1>7, <1>8, <2>1, <2>2, ReturnKeeps
          DEF ends, counters, hist
<1> QED BY <1>3, <1>9

LEMMA ReturnLoadKeeps ==
  ASSUME OneEach, TypeOK, AgateInv, NEW t \in Threads, ReturnLoad(t)
  PROVE  TypeOK' /\ AgateInv'
BY ReturnReadKeeps DEF ReturnLoad, FreeEnd, AtEnd, AgateInv, Proper, CleanPCs

LEMMA ReturnAgainKeeps ==
  ASSUME OneEach, TypeOK, AgateInv, NEW t \in Threads, ReturnCas(t), nextFreeSlot # reg[t]
  PROVE  TypeOK' /\ AgateInv'
BY ReturnReadKeeps DEF ReturnCas, FreeEnd, AtEnd, AgateInv, Proper, CleanPCs, ends, hist

LEMMA ReturnStoreKeeps ==
  ASSUME OneEach, TypeOK, AgateInv, NEW t \in Threads, ReturnStore(t)
  PROVE  TypeOK' /\ AgateInv'
<1> USE Const DEF AgateInv
<1>s. PICK s \in Slots : s = old[t] BY TypeParts DEF LocalsTyped
<1>p. pc[t] = "returnStore" /\ pc[t] \in DyingPCs /\ pc[t] \in ReturnPCs
  BY DEF ReturnStore, DyingPCs, ReturnPCs
<1>0. /\ s # Dummy /\ s # previousReceived /\ phase[s] = "answered" /\ SlotShape(s)
      /\ Blank(s)
  <2>1. pc[t] \in CleanPCs BY <1>p DEF CleanPCs
  <2> QED BY <1>s, <1>p, <2>1, DyingFree DEF DyingShape
<1>1. /\ Goto(t, "returnCas") /\ next' = [next EXCEPT ![s] = reg[t]]
      /\ UNCHANGED <<kind, flags, isReady, openHandles, status, ends, counters, locals,
                     holders, hist>>
  BY <1>s DEF ReturnStore, AtEnd, Linked, Proper
<1>2. PcTyped' /\ pc'[t] = "returnCas" /\ Alone(t)
  BY <1>1, <1>p, Returner, PcMoves DEF ConsumerPCs, WaiterPCs, ReturnPCs, Alone, locals
<1>3. TypeOK'
  <2>1. FieldsTyped' BY <1>1, TypeParts DEF FieldsTyped, LocalsTyped
  <2>2. EndsTyped' /\ HistoryTyped' /\ LocalsTyped'
    BY <1>1, TypeParts DEF EndsTyped, HistoryTyped, LocalsTyped, hist, ends, counters, locals
  <2> QED BY <1>2, <2>1, <2>2, TypeNext
<1>5. /\ next'[s] = reg[t] /\ \A x \in Slots : FieldsSame(x)
      /\ \A x \in Slots \ {s} : next'[x] = next[x]
  BY <1>1, TypeParts DEF FieldsSame, FieldsTyped, hist
<1>6. PoolShape'
  <2>1. Popping' = Popping BY <1>2, <1>p, Returner, PoppingSame
  <2>2. Releasing' = Releasing BY <1>2, <1>p, ReleasingSame
  <2>3. \A x \in Slots : phase[x] = "free" => next'[x] = next[x] BY <1>0, <1>5
  <2> QED BY <1>1, <2>1, <2>2, <2>3, PoolStays DEF ends, counters, hist
<1>7. SlotShape(s)' BY <1>0, <1>1 DEF SlotShape, Blank, ends, hist
<1>8. DyingSlot(t, old[t])'
  BY <1>s, <1>0, <1>1, <1>2, <1>5 DEF DyingSlot, Blank, ends, locals, hist
<1>9. AgateInv'
  <2>1. pc'[t] \in CleanPCs BY <1>2 DEF CleanPCs
  <2>2. phase'[s] = "answered" BY <1>0, <1>1 DEF hist
  <2> QED BY <1>s, <1>p, <1>1, <1>2, <1>3, <1>5, <1>6, <1>7, <1>8, <2>1, <2>2, ReturnKeeps
          DEF ends, counters, locals, hist
<1> QED BY <1>3, <1>9

LEMMA PoolPush ==
  ASSUME TypeOK, NEW q \in Seq(Slots), Pool(q), NEW s \in Slots \ {Dummy}, phase[s] # "free",
         next[s] = nextFreeSlot, nextFreeSlot' = s, next' = next,
         phase' = [phase EXCEPT ![s] = "free"],
         Len(q) + 1 = slotSemaphore' + Cardinality(Popping)' + Cardinality(Releasing)'
  PROVE  PoolShape'
<1> USE Const
<1> DEFINE r == <<s>> \o q
<1>1. /\ r \in Seq(Slots) /\ Len(r) = Len(q) + 1 /\ r[1] = s
      /\ \A i \in 1 .. Len(q) : r[i + 1] = q[i]
  OBVIOUS
<1>2. \A i \in 1 .. Len(r) : i = 1 \/ \E j \in 1 .. Len(q) : i = j + 1 /\ r[i] = q[j]
  <2> SUFFICES ASSUME NEW i \in 1 .. Len(r), i # 1
               PROVE  \E j \in 1 .. Len(q) : i = j + 1 /\ r[i] = q[j]
    OBVIOUS
  <2>1. i - 1 \in 1 .. Len(q) /\ i = (i - 1) + 1 BY <1>1
  <2> QED BY <1>1, <2>1
<1> HIDE DEF r
<1>3. phase'[s] = "free" /\ \A x \in Slots : x # s => phase'[x] = phase[x]
  BY TypeParts DEF HistoryTyped
<1>4. \A j \in 1 .. Len(q) : q[j] \in Slots /\ q[j] # s BY DEF Pool
<1>5. \A i, j \in 1 .. Len(r) : r[i] = r[j] => i = j
  <2> SUFFICES ASSUME NEW i \in 1 .. Len(r), NEW j \in 1 .. Len(r), r[i] = r[j] PROVE i = j
    OBVIOUS
  <2>1. CASE i = 1 BY <1>1, <1>2, <1>4, <2>1
  <2>2. CASE j = 1 BY <1>1, <1>2, <1>4, <2>2
  <2>3. CASE i # 1 /\ j # 1
    <3>1. PICK k \in 1 .. Len(q) : i = k + 1 /\ r[i] = q[k] BY <1>2, <2>3
    <3>2. PICK l \in 1 .. Len(q) : j = l + 1 /\ r[j] = q[l] BY <1>2, <2>3
    <3>3. k = l BY <3>1, <3>2 DEF Pool
    <3> QED BY <3>1, <3>2, <3>3
  <2> QED BY <2>1, <2>2, <2>3
<1>6. \A i \in 1 .. Len(r) : r[i] # Dummy /\ phase'[r[i]] = "free"
  BY <1>1, <1>2, <1>3, <1>4 DEF Pool
<1>7. ASSUME NEW x \in Slots \ {Dummy}, phase'[x] = "free"
      PROVE  \E i \in 1 .. Len(r) : r[i] = x
  <2>1. CASE x = s BY <1>1, <2>1
  <2>2. CASE x # s
    <3>1. PICK j \in 1 .. Len(q) : q[j] = x BY <1>3, <1>7, <2>2 DEF Pool
    <3>2. j + 1 \in 1 .. Len(r) BY <1>1
    <3> QED BY <1>1, <3>1, <3>2
  <2> QED BY <2>1, <2>2
<1>8. ASSUME NEW j \in 1 .. Len(q) + 1 PROVE FreeAt(r, j + 1) = FreeAt(q, j)
  <2>1. CASE j \in 1 .. Len(q)
    <3>1. ~(j > Len(q)) /\ ~(j + 1 > Len(r)) BY <1>1, <2>1
    <3> QED BY <1>1, <2>1, <3>1 DEF FreeAt
  <2>2. CASE j = Len(q) + 1
    <3>1. j > Len(q) /\ j + 1 > Len(r) BY <1>1, <2>2
    <3> QED BY <3>1 DEF FreeAt
  <2> QED BY <2>1, <2>2
<1>9. nextFreeSlot' = FreeAt(r, 1)
  <2>1. ~(1 > Len(r)) BY <1>1
  <2> QED BY <1>1, <2>1 DEF FreeAt
<1>10. ASSUME NEW i \in 1 .. Len(r) PROVE next'[r[i]] = FreeAt(r, i + 1)
  <2>1. CASE i = 1
    <3>1. FreeAt(r, 1 + 1) = FreeAt(q, 1) BY <1>8
    <3>2. next[s] = FreeAt(q, 1) BY DEF Pool
    <3> QED BY <1>1, <2>1, <3>1, <3>2
  <2>2. CASE i # 1
    <3>1. PICK j \in 1 .. Len(q) : i = j + 1 /\ r[i] = q[j] BY <1>2, <2>2
    <3>2. next[q[j]] = FreeAt(q, j + 1) BY DEF Pool
    <3>3. PICK k \in 1 .. Len(q) + 1 : k = j + 1 OBVIOUS
    <3>4. FreeAt(r, k + 1) = FreeAt(q, k) BY <1>8
    <3> QED BY <3>1, <3>2, <3>3, <3>4
  <2> QED BY <2>1, <2>2
<1>11. Pool(r)' BY <1>1, <1>5, <1>6, <1>7, <1>9, <1>10 DEF Pool, FreeAt
<1> QED BY <1>1, <1>11 DEF PoolShape

LEMMA ReturnCasKeeps ==
  ASSUME OneEach, TypeOK, AgateInv, NEW t \in Threads, ReturnCas(t), nextFreeSlot = reg[t]
  PROVE  TypeOK' /\ AgateInv'
<1> USE Const DEF AgateInv
<1>s. PICK s \in Slots : s = old[t] BY TypeParts DEF LocalsTyped
<1>p. pc[t] = "returnCas" /\ pc[t] \in DyingPCs /\ pc[t] \in ReturnPCs
  BY DEF ReturnCas, DyingPCs, ReturnPCs
<1>0. /\ s # Dummy /\ s # previousReceived /\ phase[s] = "answered" /\ SlotShape(s)
      /\ Blank(s) /\ next[s] = reg[t]
  <2>1. pc[t] \in CleanPCs BY <1>p DEF CleanPCs
  <2> QED BY <1>s, <1>p, <2>1, DyingFree DEF DyingShape
<1>1. /\ Goto(t, "release") /\ nextFreeSlot' = s /\ reg' = [reg EXCEPT ![t] = Dummy]
      /\ phase' = [phase EXCEPT ![s] = "free"]
      /\ UNCHANGED <<kind, msgVars, lastFreeSlot, lastQueuedSlot, previousReceived, counters,
                     msg, old, nxt, ret, holders, fifo, answer>>
  BY <1>s DEF ReturnCas, AtEnd, FreeEnd, Proper, Become, Forget
<1>2. PcTyped' /\ pc'[t] = "release" /\ Alone(t)
  BY <1>1, <1>p, Returner, PcMoves, TypeParts
     DEF ConsumerPCs, WaiterPCs, ReturnPCs, Alone, LocalsTyped
<1>3. TypeOK'
  <2>1. FieldsTyped' BY <1>1, TypeParts DEF FieldsTyped, msgVars
  <2>2. EndsTyped' BY <1>1, TypeParts DEF EndsTyped, counters
  <2>3. LocalsTyped' BY <1>1, TypeParts DEF LocalsTyped
  <2>4. HistoryTyped' BY <1>1, TypeParts DEF HistoryTyped
  <2> QED BY <1>2, <2>1, <2>2, <2>3, <2>4, TypeNext
<1>5. phase'[s] = "free" /\ \A x \in Slots \ {s} : FieldsSame(x) /\ next'[x] = next[x]
  BY <1>1, TypeParts DEF FieldsSame, HistoryTyped, msgVars
<1>6. PoolShape'
  <2>1. Popping' = Popping BY <1>2, <1>p, Returner, PoppingSame
  <2>2. Cardinality(Releasing)' = Cardinality(Releasing) + 1 BY <1>2, <1>p, ReleasingUp
  <2>3. PICK q \in Seq(Slots) : Pool(q) BY DEF PoolShape
  <2>4. Len(q) + 1 = slotSemaphore' + Cardinality(Popping)' + Cardinality(Releasing)'
    BY <1>1, <2>1, <2>2, <2>3, CountsTyped, CountsNat DEF Pool, counters
  <2> QED BY <1>0, <1>1, <2>3, <2>4, PoolPush DEF msgVars
<1>7. SlotShape(s)' BY <1>0, <1>1, <1>5 DEF SlotShape, Blank, msgVars
<1>9. AgateInv'
  <2>1. pc'[t] \notin CleanPCs BY <1>2 DEF CleanPCs
  <2> QED BY <1>s, <1>p, <1>1, <1>2, <1>3, <1>5, <1>6, <1>7, <2>1, ReturnKeeps
          DEF counters
<1> QED BY <1>3, <1>9

LEMMA ReleaseKeeps ==
  ASSUME OneEach, TypeOK, AgateInv, NEW t \in Threads, Release(t)
  PROVE  TypeOK' /\ AgateInv'
<1> USE Const DEF AgateInv
<1>p. pc[t] = "release" /\ pc[t] \in ReturnPCs BY DEF Release, ReturnPCs
<1>t. t \notin Producers /\ t \in Consumers \cup Waiters BY <1>p, Returner
<1>0. /\ t \in Consumers => ret[t] \in {"idle", "handle"}
      /\ t \in Waiters => ret[t] = "idle"
      /\ ret[t] \in {"idle", "handle"}
  BY <1>t DEF Proper
<1>1. /\ slotSemaphore' = slotSemaphore + 1 /\ old' = [old EXCEPT ![t] = Dummy]
      /\ ret' = [ret EXCEPT ![t] = "idle"] /\ Goto(t, ret[t])
      /\ UNCHANGED <<kind, msgVars, ends, queuedMessages, msg, reg, nxt, holders, hist>>
  BY DEF Release, Forget
<1>2. PcTyped' /\ pc'[t] = ret[t] /\ Alone(t)
  BY <1>0, <1>1, <1>t, PcMoves, TypeParts DEF ConsumerPCs, WaiterPCs, Alone, LocalsTyped
<1>r. ret'[t] = "idle" BY <1>1, TypeParts DEF LocalsTyped
<1>3. TypeOK'
  <2>1. FieldsTyped' /\ HistoryTyped'
    BY <1>1, TypeParts DEF FieldsTyped, HistoryTyped, msgVars, hist
  <2>2. EndsTyped' BY <1>1, TypeParts DEF EndsTyped, ends
  <2>3. LocalsTyped' BY <1>1, TypeParts DEF LocalsTyped
  <2> QED BY <1>2, <2>1, <2>2, <2>3, TypeNext
<1>a. pc[t] \notin DyingPCs /\ pc'[t] \notin DyingPCs /\ pc'[t] \notin ReturnPCs
  BY <1>p, <1>0, <1>2 DEF DyingPCs, ReturnPCs
<1>4. /\ Proper' /\ Popping' = Popping /\ Coming' = Coming /\ Taking' = Taking
      /\ \A x : Users(x)' = Users(x) /\ (Owed(x)' <=> Owed(x))
  <2>1. Proper' BY <1>0, <1>1, <1>2, <1>r, ProperStays
  <2>2. Popping' = Popping BY <1>t, <1>2, PoppingSame
  <2>3. Coming' = Coming /\ Taking' = Taking
    BY <1>0, <1>p, <1>t, <1>2, CountsStay DEF TakePCs
  <2>4. \A x : Users(x)' = Users(x) BY <1>0, <1>p, <1>2, UsersSame DEF UserPCs
  <2>5. \A x : Owed(x)' <=> Owed(x) BY <1>t, <1>2, OwedSame
  <2> QED BY <2>1, <2>2, <2>3, <2>4, <2>5
<1>5. \A x \in Slots : /\ FieldsSame(x) /\ next'[x] = next[x]
                       /\ Open(x)' = Open(x) /\ (Dying(x)' <=> Dying(x))
  <2>1. \A x \in Slots : Open(x)' = Open(x) BY <1>1, <1>4, OpenSame
  <2>2. \A x \in Slots : Dying(x)' <=> Dying(x) BY <1>2, <1>a, DyingSame
  <2> QED BY <1>1, <2>1, <2>2 DEF FieldsSame, msgVars, hist
<1>6. PoolShape'
  <2>2. Cardinality(Releasing)' = Cardinality(Releasing) - 1
    BY <1>0, <1>2, <1>p, ReleasingDown
  <2>3. PICK q \in Seq(Slots) : Pool(q) BY DEF PoolShape
  <2>4. Len(q) = slotSemaphore' + Cardinality(Popping)' + Cardinality(Releasing)'
    BY <1>1, <1>4, <2>2, <2>3, CountsTyped, CountsNat, SMTT(30) DEF Pool
  <2> QED BY <1>1, <2>3, <2>4 DEF Pool, PoolShape, FreeAt, msgVars, ends, hist
<1>7. PopShape' BY <1>2, <1>5, <1>t, PopStays DEF FieldsSame
<1>8. SendShape' BY <1>1, <1>2, <1>t, SendStays DEF ends, msgVars, hist, SendShape
<1>9. QueueShape' BY <1>1, <1>4, QueueStays DEF ends, msgVars, hist
<1>10. RecvShape'
  <2>1. CASE t \notin Consumers BY <1>1, <1>2, <2>1, RecvStays DEF ends, msgVars, hist, RecvShape
  <2>2. CASE t \in Consumers
    <3>1. InHand(t)' <=> pc'[t] = "handle" BY <1>a, <1>0, <1>2 DEF InHand
    <3>2. InHand(t) <=> ret[t] = "handle" BY <1>p DEF InHand
    <3>3. /\ InHand(t)' => msg'[t] = previousReceived' /\ phase'[msg'[t]] = "handling"
          /\ ~InHand(t)' => phase'[previousReceived'] = "answered"
      BY <1>1, <1>2, <2>2, <3>1, <3>2 DEF RecvShape, ends, hist
    <3> QED BY <1>0, <1>2, <2>2, <3>3 DEF RecvShape, OneEach
  <2> QED BY <2>1, <2>2
<1>11. FieldShape'
  <2>1. \A p \in Producers : pc[p] = "send" => FieldsSame(msg[p])
    BY <1>5, TypeParts DEF LocalsTyped
  <2> QED BY <1>1, <1>2, <1>5, <1>t, <2>1, FieldStays DEF ends
<1>12. DyingShape' BY <1>1, <1>2, <1>a, DyingStays DEF ends, msgVars, hist, DyingShape
<1>13. HandleShape'
  <2>1. \A s \in Slots : Signalable(s) => Signalable(s)'
    BY <1>4, <1>5 DEF Signalable, FieldsSame
  <2>2. \A s \in Slots : phase'[s] = "claimed" \/ Owed(s)' => openHandles'[s] = 1
    BY <1>4, <1>5 DEF FieldsSame, HandleShape
  <2>3. pc[t] # "condemn" /\ pc'[t] \notin {"condemn", "collect"} BY <1>0, <1>p, <1>2
  <2> QED BY <1>2, <1>5, <2>1, <2>2, <2>3, HandleStays DEF FieldsSame
<1> QED BY <1>3, <1>4, <1>6, <1>7, <1>8, <1>9, <1>10, <1>11, <1>12, <1>13

----------------------------------------------------------------------------
(* The holders of signals                                                  *)

LEMMA WaiterFrames ==
  ASSUME OneEach, TypeOK, AgateInv, NEW w \in Waiters, Alone(w), kind' = kind,
         pc'[w] \in {"idle", "collect", "drop", "condemn", "cleanup"}, pc[w] \notin ReturnPCs,
         ret'[w] = "idle"
  PROVE  /\ Proper' /\ Popping' = Popping /\ Releasing' = Releasing
         /\ Coming' = Coming /\ Taking' = Taking
         /\ \A x : Owed(x)' <=> Owed(x)
         /\ w \notin Producers /\ w \notin Consumers /\ w \in Threads
<1> USE Const
<1>1. w \notin Producers /\ w \notin Consumers /\ w \in Threads OBVIOUS
<1>2. Proper' BY <1>1, ProperStays DEF AgateInv, Proper
<1>3. Popping' = Popping BY <1>1, PoppingSame
<1>4. Releasing' = Releasing BY <1>1, ReleasingSame DEF ReturnPCs
<1>5. Coming' = Coming /\ Taking' = Taking BY <1>1, CountsStay
<1>6. \A x : Owed(x)' <=> Owed(x) BY <1>1, OwedSame
<1> QED BY <1>1, <1>2, <1>3, <1>4, <1>5, <1>6

SignalPCs == {"idle", "collect", "drop", "condemn"}

(* The steps that only count and hand over handles of the signal of s.     *)
LEMMA SignalKeeps ==
  ASSUME OneEach, TypeOK, AgateInv, NEW w \in Waiters, TypeOK', HandleShape', Alone(w),
         pc[w] \in SignalPCs, pc'[w] \in SignalPCs, NEW s \in Slots, Signalable(s),
         UNCHANGED <<kind, next, flags, isReady, status, ends, counters, ret, hist>>,
         \A x \in Slots \ {s} : openHandles'[x] = openHandles[x]
  PROVE  AgateInv'
<1> USE Const DEF AgateInv
<1>a. pc[w] \notin DyingPCs /\ pc'[w] \notin DyingPCs /\ pc[w] \notin ReturnPCs
  BY DEF SignalPCs, DyingPCs, ReturnPCs
<1>4. /\ Proper' /\ Popping' = Popping /\ Releasing' = Releasing
      /\ Coming' = Coming /\ Taking' = Taking
      /\ \A x : Owed(x)' <=> Owed(x)
      /\ w \notin Producers /\ w \notin Consumers /\ w \in Threads
  <2>1. ret'[w] = "idle" BY DEF Proper
  <2>2. pc'[w] \in {"idle", "collect", "drop", "condemn", "cleanup"} BY DEF SignalPCs
  <2> QED BY <1>a, <2>1, <2>2, WaiterFrames
<1>5. /\ s # Dummy /\ phase[s] \in {"queued", "handling", "answered"} /\ ~Dying(s)
      /\ \A x \in Slots \ {s} : FieldsSame(x)
      /\ next' = next /\ phase' = phase /\ flags' = flags /\ fifo' = fifo /\ answer' = answer
  BY DEF Signalable, FieldsSame, hist
<1>6. PoolShape' BY <1>4, <1>5, PoolStays DEF ends, counters
<1>7. PopShape' BY <1>4, <1>5, PopStays
<1>8. SendShape' BY <1>4, <1>5, SendStays DEF ends, SendShape
<1>9. QueueShape' BY <1>4, <1>5, QueueStays DEF ends, counters
<1>10. RecvShape' BY <1>4, <1>5, RecvStays DEF ends, RecvShape
<1>11. FieldShape'
  <2>1. \A p \in Producers : pc[p] = "send" => msg[p] # s
    BY <1>5 DEF SendShape
  <2>2. \A p \in Producers : pc[p] = "send" => FieldsSame(msg[p])
    BY <1>5, <2>1, TypeParts DEF LocalsTyped
  <2>3. SlotShape(s)
    BY DEF FieldShape
  <2>4. SlotShape(s)' BY <1>5, <2>3 DEF SlotShape, ends
  <2> QED BY <1>4, <1>5, <2>2, <2>4, FieldStays DEF ends
<1>12. DyingShape'
  <2>1. \A u \in Threads : pc[u] \in DyingPCs => old[u] # s BY <1>5 DEF Dying
  <2>2. \A u \in Threads \ {w} :
          pc[u] \in DyingPCs =>
            /\ old[u] # previousReceived'
            /\ flags'[old[u]] = flags[old[u]] /\ isReady'[old[u]] = isReady[old[u]]
            /\ openHandles'[old[u]] = openHandles[old[u]]
            /\ phase'[old[u]] = phase[old[u]] /\ next'[old[u]] = next[old[u]]
    BY <1>5, <2>1, TypeParts DEF LocalsTyped, ends, DyingShape
  <2> QED BY <1>4, <1>a, <2>2, DyingStays
<1> QED BY <1>4, <1>6, <1>7, <1>8, <1>9, <1>10, <1>11, <1>12

LEMMA CopyKeeps ==
  ASSUME OneEach, TypeOK, AgateInv, NEW w \in Waiters, NEW s \in Slots, Copy(w, s)
  PROVE  TypeOK' /\ AgateInv'
<1> USE Const DEF AgateInv
<1>1. /\ pc[w] = "idle" /\ holders[s] > 0 /\ openHandles' = [openHandles EXCEPT ![s] = @ + 1]
      /\ holders' = [holders EXCEPT ![s] = @ + 1]
      /\ UNCHANGED <<kind, next, flags, isReady, status, ends, counters, pc, locals, hist>>
  BY DEF Copy
<1>2. PcTyped' /\ pc'[w] = "idle" /\ Alone(w)
  BY <1>1, TypeParts DEF PcTyped, Alone, locals
<1>0. Open(s) > 0 /\ openHandles[s] = Open(s) /\ Signalable(s)
  BY <1>1, OpenTyped DEF HandleShape
<1>3. TypeOK'
  <2>1. FieldsTyped' BY <1>1, TypeParts DEF FieldsTyped
  <2>2. EndsTyped' /\ LocalsTyped'
    BY <1>1, TypeParts DEF EndsTyped, LocalsTyped, ends, counters, locals
  <2>3. HistoryTyped' BY <1>1, TypeParts DEF HistoryTyped, hist
  <2> QED BY <1>2, <2>1, <2>2, <2>3, TypeNext
<1>4. \A x : (Owed(x)' <=> Owed(x)) /\ (Dying(x)' <=> Dying(x)) /\ Users(x)' = Users(x)
  BY <1>1 DEF Owed, Dying, Users, locals
<1>5. /\ openHandles'[s] = openHandles[s] + 1 /\ holders'[s] = holders[s] + 1
      /\ \A x \in Slots \ {s} : openHandles'[x] = openHandles[x] /\ holders'[x] = holders[x]
      /\ phase' = phase /\ flags' = flags /\ isReady' = isReady /\ msg' = msg /\ pc' = pc
  BY <1>1, TypeParts DEF FieldsTyped, HistoryTyped, hist, locals
<1>6. HandleShape'
  <2>1. \A x \in Slots \ {s} : Open(x)' = Open(x) BY <1>4, <1>5, OpenSame
  <2>2. Open(s)' = Open(s) + 1
    BY <1>4, <1>5, OpenTyped, TypeParts DEF Open, HistoryTyped
  <2>3. \A x \in Slots : Signalable(x) => Signalable(x)' BY <1>4, <1>5 DEF Signalable
  <2>4. \A u \in Waiters \ {w} : pc[u] = "condemn" => msg[u] # s BY <1>0 DEF HandleShape
  <2>5. \A u \in Waiters \ {w} : pc[u] = "collect" /\ msg[u] = s => isReady'[s]
    BY <1>5 DEF HandleShape
  <2>6. \A x \in Slots : phase'[x] = "claimed" \/ Owed(x)' => openHandles'[x] = 1
    <3> SUFFICES ASSUME NEW x \in Slots, phase'[x] = "claimed" \/ Owed(x)'
                 PROVE  openHandles'[x] = 1
      OBVIOUS
    <3>1. x # s BY <1>0, <1>4, <1>5 DEF Signalable
    <3> QED BY <1>4, <1>5, <3>1 DEF HandleShape
  <2>7. Open(s)' > 0 => openHandles'[s] = Open(s)' /\ Signalable(s)'
    BY <1>0, <1>5, <2>2, <2>3
  <2>8. /\ w \in Threads
        /\ w \in Waiters =>
             /\ pc'[w] = "condemn" => msg'[w] = s /\ Open(s)' = 0 /\ Signalable(s)'
             /\ pc'[w] # "collect"
    BY <1>2
  <2>9. \A x \in Slots \ {s} : Signalable(x) =>
          Signalable(x)' /\ openHandles'[x] = openHandles[x] /\ (isReady[x] => isReady'[x])
    BY <1>5, <2>3
  <2> QED BY <1>2, <2>1, <2>4, <2>5, <2>6, <2>7, <2>8, <2>9, HandleMoves
<1> QED BY <1>0, <1>1, <1>2, <1>3, <1>5, <1>6, SignalKeeps DEF SignalPCs, locals

LEMMA UseKeeps ==
  ASSUME OneEach, TypeOK, AgateInv, NEW w \in Waiters, NEW s \in Slots,
         NEW l \in UserPCs, UseHandle(w, s, l), l = "collect" => isReady[s]
  PROVE  TypeOK' /\ AgateInv'
<1> USE Const DEF AgateInv
<1>1. /\ pc[w] = "idle" /\ holders[s] > 0 /\ holders' = [holders EXCEPT ![s] = @ - 1]
      /\ msg' = [msg EXCEPT ![w] = s] /\ Goto(w, l)
      /\ UNCHANGED <<kind, msgVars, ends, counters, old, reg, nxt, ret, hist>>
  BY DEF UseHandle
<1>2. PcTyped' /\ pc'[w] = l /\ Alone(w) /\ msg'[w] = s
  BY <1>1, PcMoves, TypeParts DEF WaiterPCs, UserPCs, Alone, LocalsTyped
<1>0. Open(s) > 0 /\ openHandles[s] = Open(s) /\ Signalable(s)
  BY <1>1, OpenTyped DEF HandleShape
<1>3. TypeOK'
  <2>1. FieldsTyped' /\ EndsTyped'
    BY <1>1, TypeParts DEF FieldsTyped, EndsTyped, ends, counters, msgVars
  <2>2. LocalsTyped' BY <1>1, TypeParts DEF LocalsTyped
  <2>3. HistoryTyped' BY <1>1, TypeParts DEF HistoryTyped, hist
  <2> QED BY <1>2, <2>1, <2>2, <2>3, TypeNext
<1>a. w \notin Producers BY DEF Threads
<1>4. /\ \A x : (Owed(x)' <=> Owed(x)) /\ (Dying(x)' <=> Dying(x))
      /\ Users(s)' = Users(s) \cup {w} /\ w \notin Users(s)
      /\ \A x : x # s => Users(x)' = Users(x)
  <2>1. \A x : Owed(x)' <=> Owed(x) BY <1>2, <1>a, OwedSame
  <2>2. \A x : Dying(x)' <=> Dying(x) BY <1>1, <1>2, DyingSame DEF DyingPCs, UserPCs
  <2>3. Users(s)' = Users(s) \cup {w} /\ w \notin Users(s)
    BY <1>1, <1>2 DEF Users, UserPCs, Alone
  <2>4. \A x : x # s => Users(x)' = Users(x)
    BY <1>1, <1>2 DEF Users, UserPCs, Alone
  <2> QED BY <2>1, <2>2, <2>3, <2>4
<1>5. /\ holders'[s] = holders[s] - 1 /\ \A x \in Slots \ {s} : holders'[x] = holders[x]
      /\ phase' = phase /\ flags' = flags /\ isReady' = isReady /\ openHandles' = openHandles
  BY <1>1, TypeParts DEF HistoryTyped, hist, msgVars
<1>6. HandleShape'
  <2>1. \A x \in Slots \ {s} : Open(x)' = Open(x) BY <1>4, <1>5, OpenSame
  <2>2. Open(s)' = Open(s)
    <3>1. Cardinality(Users(s) \cup {w}) = Cardinality(Users(s)) + 1
      BY <1>4, OpenTyped, FS_AddElement
    <3>2. Cardinality(Users(s)') = Cardinality(Users(s)) + 1 BY <1>4, <3>1
    <3> QED BY <1>5, <3>2, OpenTyped, TypeParts DEF Open, HistoryTyped
  <2>3. \A x \in Slots : Signalable(x) => Signalable(x)' BY <1>4, <1>5 DEF Signalable
  <2>4. pc[w] # "condemn" /\ pc'[w] # "condemn" /\ (pc'[w] = "collect" => isReady'[msg'[w]])
    BY <1>1, <1>2, <1>5 DEF UserPCs
  <2>5. \A x \in Slots : phase'[x] = "claimed" \/ Owed(x)' => openHandles'[x] = 1
    BY <1>4, <1>5 DEF HandleShape
  <2> QED BY <1>2, <1>5, <2>1, <2>2, <2>3, <2>4, <2>5, HandleStays
<1> QED BY <1>0, <1>1, <1>2, <1>3, <1>5, <1>6, SignalKeeps DEF SignalPCs, UserPCs, msgVars

LEMMA CollectKeeps ==
  ASSUME OneEach, TypeOK, AgateInv, NEW w \in Waiters, Collect(w)
  PROVE  TypeOK' /\ AgateInv'
<1> USE Const DEF AgateInv
<1>s. PICK s \in Slots : s = msg[w] BY TypeParts DEF LocalsTyped
<1>1. /\ pc[w] = "collect" /\ Goto(w, "drop")
      /\ UNCHANGED <<kind, msgVars, ends, counters, locals, holders, hist>>
  BY DEF Collect
<1>2. PcTyped' /\ pc'[w] = "drop" /\ Alone(w) /\ msg'[w] = msg[w]
  BY <1>1, PcMoves DEF WaiterPCs, Alone, locals
<1>0. Signalable(s)
  <2>1. w \in Users(s) BY <1>s, <1>1 DEF Users, UserPCs
  <2> QED BY <2>1, OpenTyped DEF HandleShape
<1>3. TypeOK'
  <2>1. FieldsTyped' /\ EndsTyped' /\ LocalsTyped' /\ HistoryTyped'
    BY <1>1, TypeParts
       DEF FieldsTyped, EndsTyped, LocalsTyped, HistoryTyped, ends, counters, msgVars, locals, hist
  <2> QED BY <1>2, <2>1, TypeNext
<1>a. w \notin Producers BY DEF Threads
<1>4. \A x : (Owed(x)' <=> Owed(x)) /\ (Dying(x)' <=> Dying(x)) /\ Users(x)' = Users(x)
  <2>1. \A x : Owed(x)' <=> Owed(x) BY <1>2, <1>a, OwedSame
  <2>2. \A x : Dying(x)' <=> Dying(x) BY <1>1, <1>2, DyingSame DEF DyingPCs
  <2>3. \A x : Users(x)' = Users(x) BY <1>1, <1>2, UsersSame DEF UserPCs
  <2> QED BY <2>1, <2>2, <2>3
<1>6. HandleShape'
  <2>1. \A x \in Slots : Open(x)' = Open(x) BY <1>1, <1>4, OpenSame
  <2>3. \A x \in Slots : Signalable(x) => Signalable(x)'
    BY <1>1, <1>4 DEF Signalable, msgVars, hist
  <2>5. \A x \in Slots : phase'[x] = "claimed" \/ Owed(x)' => openHandles'[x] = 1
    BY <1>1, <1>4 DEF HandleShape, msgVars, hist
  <2> QED BY <1>1, <1>2, <2>1, <2>3, <2>5, HandleStays DEF msgVars
<1> QED BY <1>0, <1>1, <1>2, <1>3, <1>6, SignalKeeps DEF SignalPCs, locals, msgVars

LEMMA DropKeeps ==
  ASSUME OneEach, TypeOK, AgateInv, NEW w \in Waiters, DropHandle(w)
  PROVE  TypeOK' /\ AgateInv'
<1> USE Const DEF AgateInv
<1>s. PICK s \in Slots : s = msg[w] BY TypeParts DEF LocalsTyped
<1>p. pc[w] = "drop" BY DEF DropHandle
<1>0. Open(s) > 0 /\ openHandles[s] = Open(s) /\ Signalable(s) /\ w \in Users(s)
  <2>1. w \in Users(s) BY <1>s, <1>p DEF Users, UserPCs
  <2> QED BY <2>1, OpenTyped DEF HandleShape
<1>1. /\ openHandles' = [openHandles EXCEPT ![s] = @ - 1]
      /\ \/ openHandles[s] = 1 /\ Goto(w, "condemn") /\ msg' = msg
         \/ openHandles[s] # 1 /\ Goto(w, "idle") /\ msg' = [msg EXCEPT ![w] = Dummy]
      /\ UNCHANGED <<kind, next, flags, isReady, status, ends, counters, old,
                     reg, nxt, ret, holders, hist>>
  BY <1>s DEF DropHandle, Forget
<1>2. /\ PcTyped' /\ Alone(w)
      /\ \/ openHandles[s] = 1 /\ pc'[w] = "condemn" /\ msg'[w] = s
         \/ openHandles[s] # 1 /\ pc'[w] = "idle"
  <2>1. CASE openHandles[s] = 1
    BY <1>s, <1>1, <2>1, PcMoves, TypeParts DEF WaiterPCs, Alone, LocalsTyped
  <2>2. CASE openHandles[s] # 1
    BY <1>1, <2>2, PcMoves, TypeParts DEF WaiterPCs, Alone, LocalsTyped
  <2> QED BY <2>1, <2>2
<1>3. TypeOK'
  <2>1. FieldsTyped'
    <3>1. openHandles[s] - 1 \in Nat BY <1>0, OpenTyped
    <3> QED BY <1>1, <3>1, TypeParts DEF FieldsTyped
  <2>2. EndsTyped' /\ HistoryTyped'
    BY <1>1, TypeParts DEF EndsTyped, HistoryTyped, ends, counters, hist
  <2>3. LocalsTyped' BY <1>1, TypeParts DEF LocalsTyped
  <2> QED BY <1>2, <2>1, <2>2, <2>3, TypeNext
<1>a. w \notin Producers BY DEF Threads
<1>4. /\ \A x : (Owed(x)' <=> Owed(x)) /\ (Dying(x)' <=> Dying(x))
      /\ Users(s)' = Users(s) \ {w}
      /\ \A x : x # s => Users(x)' = Users(x)
  <2>1. \A x : Owed(x)' <=> Owed(x) BY <1>2, <1>a, OwedSame
  <2>2. \A x : Dying(x)' <=> Dying(x) BY <1>p, <1>2, DyingSame DEF DyingPCs
  <2>3. Users(s)' = Users(s) \ {w}
    BY <1>p, <1>2 DEF Users, UserPCs, Alone
  <2>4. \A x : x # s => Users(x)' = Users(x)
    BY <1>s, <1>p, <1>2 DEF Users, UserPCs, Alone
  <2> QED BY <2>1, <2>2, <2>3, <2>4
<1>5. /\ openHandles'[s] = openHandles[s] - 1
      /\ \A x \in Slots \ {s} : openHandles'[x] = openHandles[x]
      /\ holders' = holders /\ phase' = phase /\ flags' = flags /\ isReady' = isReady
  BY <1>1, TypeParts DEF FieldsTyped, hist
<1>6. HandleShape'
  <2>1. \A x \in Slots \ {s} : Open(x)' = Open(x) BY <1>4, <1>5, OpenSame
  <2>2. Open(s)' = Open(s) - 1
    <3>1. Cardinality(Users(s) \ {w}) = Cardinality(Users(s)) - 1
      BY <1>0, OpenTyped, FS_RemoveElement
    <3>2. Cardinality(Users(s)') = Cardinality(Users(s)) - 1 BY <1>4, <3>1
    <3> QED BY <1>5, <3>2, OpenTyped, TypeParts DEF Open, HistoryTyped
  <2>3. \A x \in Slots : Signalable(x) => Signalable(x)' BY <1>4, <1>5 DEF Signalable
  <2>4. \A u \in Waiters : pc[u] = "condemn" => msg[u] # s BY <1>0 DEF HandleShape
  <2>5. \A u \in Waiters : pc[u] = "collect" /\ msg[u] = s => isReady'[s]
    BY <1>5 DEF HandleShape
  <2>6. ASSUME NEW x \in Slots, phase'[x] = "claimed" \/ Owed(x)' PROVE openHandles'[x] = 1
    <3>1. x # s BY <1>0, <1>4, <1>5, <2>6 DEF Signalable
    <3> QED BY <1>4, <1>5, <2>6, <3>1 DEF HandleShape
  <2>7. openHandles'[s] = Open(s)' /\ Signalable(s)' BY <1>0, <1>5, <2>2, <2>3
  <2>8. /\ pc'[w] = "condemn" => msg'[w] = s /\ Open(s)' = 0 /\ Signalable(s)'
        /\ pc'[w] # "collect"
    BY <1>0, <1>2, <2>2, <2>7, OpenTyped
  <2>9. \A x \in Slots \ {s} : Signalable(x) =>
          Signalable(x)' /\ openHandles'[x] = openHandles[x] /\ (isReady[x] => isReady'[x])
    BY <1>5, <2>3
  <2>10. Alone(w) /\ w \in Threads BY <1>2
  <2>11. /\ \A u \in Waiters \ {w} : pc[u] = "condemn" => msg[u] # s
         /\ \A u \in Waiters \ {w} : pc[u] = "collect" /\ msg[u] = s => isReady'[s]
    BY <2>4, <2>5
  <2> QED BY <2>1, <2>6, <2>7, <2>8, <2>9, <2>10, <2>11, HandleMoves
<1>7. pc[w] \in SignalPCs /\ pc'[w] \in SignalPCs BY <1>p, <1>2 DEF SignalPCs
<1> QED BY <1>0, <1>1, <1>2, <1>3, <1>5, <1>6, <1>7, SignalKeeps

LEMMA CondemnKeeps ==
  ASSUME OneEach, TypeOK, AgateInv, NEW w \in Waiters, Condemn(w)
  PROVE  TypeOK' /\ AgateInv'
<1> USE Const DEF AgateInv
<1>s. PICK s \in Slots : s = msg[w] BY TypeParts DEF LocalsTyped
<1>p. pc[w] = "condemn" BY DEF Condemn
<1>0. /\ Open(s) = 0 /\ Signalable(s) /\ s # Dummy /\ ~Dying(s) /\ ~Owed(s) /\ SlotShape(s)
      /\ phase[s] \in {"queued", "handling", "answered"} /\ IGNORE \notin flags[s]
      /\ \A u \in Waiters \ {w} : pc[u] = "condemn" => msg[u] # s
  <2>1. Open(s) = 0 /\ Signalable(s) BY <1>s, <1>p DEF HandleShape
  <2>2. \A u \in Waiters \ {w} : pc[u] = "condemn" => msg[u] # s
    BY <1>s, <1>p DEF HandleShape
  <2> QED BY <2>1, <2>2 DEF Signalable, FieldShape
<1>1. /\ flags' = [flags EXCEPT ![s] = @ \cup {CONDEMNED}] /\ msg' = [msg EXCEPT ![w] = Dummy]
      /\ UNCHANGED <<kind, next, isReady, openHandles, status, ends, counters, reg,
                     nxt, holders, hist>>
      /\ \/ /\ IN_USE \in flags[s] /\ Goto(w, "idle") /\ ret' = ret
            /\ old' = [old EXCEPT ![w] = Dummy]
         \/ /\ IN_USE \notin flags[s] /\ Goto(w, "cleanup") /\ ret' = [ret EXCEPT ![w] = "idle"]
            /\ old' = [old EXCEPT ![w] = s]
  BY <1>s DEF Condemn, CondemnBy, InUse, Destroy, Forget
<1>2. /\ PcTyped' /\ Alone(w) /\ ret'[w] = "idle"
      /\ \/ pc'[w] = "idle"
         \/ IN_USE \notin flags[s] /\ pc'[w] = "cleanup" /\ old'[w] = s
  <2>1. CASE IN_USE \in flags[s]
    BY <1>1, <2>1, PcMoves, TypeParts DEF WaiterPCs, Alone, LocalsTyped, Proper
  <2>2. CASE IN_USE \notin flags[s]
    BY <1>1, <2>2, PcMoves, TypeParts DEF WaiterPCs, ReturnPCs, Alone, LocalsTyped
  <2> QED BY <2>1, <2>2
<1>3. TypeOK'
  <2>1. FieldsTyped'
    <3>1. flags[s] \cup {CONDEMNED} \in SUBSET AllFlags
      BY TypeParts DEF FieldsTyped, AllFlags
    <3> QED BY <1>1, <3>1, TypeParts DEF FieldsTyped
  <2>2. EndsTyped' /\ HistoryTyped'
    BY <1>1, TypeParts DEF EndsTyped, HistoryTyped, ends, counters, hist
  <2>3. LocalsTyped' BY <1>1, TypeParts DEF LocalsTyped
  <2> QED BY <1>2, <2>1, <2>2, <2>3, TypeNext
<1>4. /\ Proper' /\ Popping' = Popping /\ Releasing' = Releasing
      /\ Coming' = Coming /\ Taking' = Taking
      /\ \A x : Owed(x)' <=> Owed(x)
      /\ w \notin Producers /\ w \notin Consumers /\ w \in Threads
  BY <1>p, <1>1, <1>2, WaiterFrames DEF ReturnPCs
<1>5. /\ flags'[s] = flags[s] \cup {CONDEMNED} /\ \A x \in Slots \ {s} : FieldsSame(x)
      /\ next' = next /\ phase' = phase /\ fifo' = fifo /\ isReady' = isReady
      /\ openHandles' = openHandles /\ status' = status /\ answer' = answer
      /\ \A x \in Slots : Open(x)' = Open(x)
  <2>1. \A x \in Slots : Users(x)' = Users(x) BY <1>p, <1>2, <1>4, UsersSame DEF UserPCs
  <2>2. \A x \in Slots : Open(x)' = Open(x) BY <1>1, <2>1, OpenSame
  <2> QED BY <1>1, <2>2, TypeParts DEF FieldsSame, FieldsTyped, hist
<1>d. \A x : Dying(x)' => Dying(x) \/ x = s
  <2>1. pc'[w] \in DyingPCs => old'[w] = s BY <1>2 DEF DyingPCs
  <2> QED BY <1>2, <2>1 DEF Dying, Alone
<1>6. PoolShape' BY <1>1, <1>4, <1>5, PoolStays DEF ends, counters
<1>7. PopShape' BY <1>2, <1>4, <1>5, PopStays
<1>8. SendShape'
  <2>1. ASSUME NEW p \in Producers, pc[p] \in SendPCs \cup {"count"} PROVE msg[p] # s
    <3>1. CASE pc[p] \in SendPCs BY <1>0, <3>1 DEF SendShape, SendPCs
    <3>2. CASE pc[p] = "count" BY <1>0, <3>2 DEF SendShape, Owed
    <3> QED BY <2>1, <3>1, <3>2
  <2>2. \A p \in Producers : pc[p] \in SendPCs \cup {"count"} => flags'[msg[p]] = flags[msg[p]]
    BY <1>5, <2>1, TypeParts DEF LocalsTyped, FieldsSame
  <2> QED BY <1>1, <1>2, <1>4, <1>5, <2>2, SendStays, ZenonT(60) DEF ends, SendShape
<1>9. QueueShape' BY <1>1, <1>4, <1>5, QueueStays DEF ends, counters
<1>10. RecvShape'
  <2>1. ASSUME NEW c \in Consumers, pc[c] = "freeHold"
        PROVE  IF old[c] = Dummy THEN flags'[old[c]] = flags[old[c]]
               ELSE IN_USE \in flags'[old[c]]
    <3>1. PICK x \in Slots : x = old[c] BY TypeParts DEF LocalsTyped
    <3>2. flags[x] \subseteq flags'[x] /\ (x # s => flags'[x] = flags[x])
      BY <1>5 DEF FieldsSame
    <3>3. x # Dummy => IN_USE \in flags[x] BY <2>1, <3>1 DEF RecvShape
    <3> QED BY <1>0, <3>1, <3>2, <3>3
  <2>2. \A c \in Consumers :
          pc[c] = "freeHold" => /\ phase'[old[c]] = phase[old[c]]
                                /\ IF old[c] = Dummy THEN flags'[old[c]] = flags[old[c]]
                                   ELSE IN_USE \in flags'[old[c]]
    BY <1>5, <2>1
  <2>3. UNCHANGED <<previousReceived, status, answer>> /\ phase' = phase /\ next' = next
    BY <1>1, <1>5 DEF ends
  <2> QED BY <1>2, <1>4, <2>2, <2>3, RecvStays
<1>11. FieldShape'
  <2>1. \A p \in Producers : pc[p] = "send" => msg[p] # s
    BY <1>0 DEF SendShape
  <2>2. \A p \in Producers : pc[p] = "send" => FieldsSame(msg[p])
    BY <1>5, <2>1, TypeParts DEF LocalsTyped
  <2>4. SlotShape(s)' BY <1>0, <1>1, <1>5 DEF SlotShape, ends
  <2> QED BY <1>1, <1>2, <1>4, <1>5, <2>2, <2>4, FieldStays DEF ends
<1>12. DyingShape'
  <2>1. \A u \in Threads : pc[u] \in DyingPCs => old[u] # s BY <1>0 DEF Dying
  <2>2. \A u \in Threads \ {w} :
          pc[u] \in DyingPCs =>
            /\ old[u] # previousReceived'
            /\ flags'[old[u]] = flags[old[u]] /\ isReady'[old[u]] = isReady[old[u]]
            /\ openHandles'[old[u]] = openHandles[old[u]]
            /\ phase'[old[u]] = phase[old[u]] /\ next'[old[u]] = next[old[u]]
    BY <1>1, <1>5, <2>1, TypeParts DEF LocalsTyped, ends, DyingShape, FieldsSame
  <2>3. ASSUME pc'[w] = "cleanup" PROVE DyingSlot(w, old[w])' /\ ~Dying(old'[w])
    <3>1. IN_USE \notin flags[s] /\ old'[w] = s BY <1>2, <2>3
    <3>2. phase[s] = "answered" /\ s # previousReceived BY <1>0, <3>1 DEF SlotShape
    <3>3. IN_USE \notin flags'[s] /\ CONDEMNED \in flags'[s]
      BY <1>5, <3>1 DEF IN_USE, CONDEMNED
    <3> QED BY <1>0, <1>1, <1>5, <2>3, <3>1, <3>2, <3>3 DEF DyingSlot, CleanPCs, ends
  <2>4. pc'[w] \notin DyingPCs \/ pc'[w] = "cleanup" BY <1>2 DEF DyingPCs
  <2> QED BY <1>2, <1>4, <2>2, <2>3, <2>4, DyingStays
<1>13. HandleShape'
  <2>1. ASSUME NEW x \in Slots \ {s}, Signalable(x)
        PROVE  Signalable(x)' /\ openHandles'[x] = openHandles[x] /\ (isReady[x] => isReady'[x])
    BY <1>4, <1>5, <1>d, <2>1 DEF Signalable, FieldsSame
  <2>2. \A u \in Waiters : pc[u] = "collect" /\ msg[u] = s => isReady'[s]
    BY <1>5 DEF HandleShape
  <2>3. \A x \in Slots : phase'[x] = "claimed" \/ Owed(x)' => openHandles'[x] = 1
    BY <1>4, <1>5 DEF HandleShape
  <2>4. ~(Open(s)' > 0)
    <3>1. Open(s)' = Open(s) BY <1>5
    <3>2. Open(s) = 0 BY <1>0
    <3> QED BY <3>1, <3>2
  <2>5. pc'[w] # "condemn" /\ pc'[w] # "collect" BY <1>2
  <2> QED BY <1>0, <1>2, <1>4, <1>5, <2>1, <2>2, <2>3, <2>4, <2>5, HandleMoves
<1> QED BY <1>3, <1>4, <1>6, <1>7, <1>8, <1>9, <1>10, <1>11, <1>12, <1>13

----------------------------------------------------------------------------
(* The invariant                                                           *)

LEMMA ReturnStep ==
  ASSUME OneEach, TypeOK, AgateInv, NEW t \in Threads, Return(t)
  PROVE  TypeOK' /\ AgateInv'
<1>0. ~SingleProducer /\ pc[t] # "returnLink" BY DEF AgateInv, Proper, SingleProducer
<1>1. CASE Cleanup(t) BY <1>1, CleanupKeeps
<1>2. CASE ReturnLoad(t) BY <1>2, ReturnLoadKeeps
<1>3. CASE ReturnStore(t) BY <1>3, ReturnStoreKeeps
<1>4. CASE ReturnCas(t) BY <1>4, ReturnCasKeeps, ReturnAgainKeeps
<1>5. CASE Release(t) BY <1>5, ReleaseKeeps
<1>6. CASE ReturnSwap(t) \/ ReturnLink(t) BY <1>0, <1>6 DEF ReturnSwap, ReturnLink
<1> QED BY <1>1, <1>2, <1>3, <1>4, <1>5, <1>6 DEF Return

LEMMA ProducerStep ==
  ASSUME OneEach, TypeOK, AgateInv, NEW p \in Producers, Produce(p)
  PROVE  TypeOK' /\ AgateInv'
<1>0. ~SingleProducer /\ pc[p] # "pop" BY Const DEF AgateInv, Proper, SingleProducer
<1>1. CASE AcquireSlot(p) BY <1>1, AcquireKeeps
<1>2. CASE LoadFree(p) BY <1>2, LoadKeeps
<1>3. CASE PopRead(p) BY <1>3, ReadKeeps
<1>4. CASE PopCas(p) BY <1>4, PopKeeps, PopAgainKeeps
<1>5. ASSUME NEW f \in SendFlags, SendLoad(p, f) PROVE TypeOK' /\ AgateInv'
  BY <1>5, SendLoadKeeps
<1>6. CASE SendLink(p) BY <1>6, SendLinkKeeps
<1>7. CASE SendCas(p) BY <1>7, SendCasKeeps
<1>8. CASE Count(p) BY <1>8, CountKeeps
<1>9. ~PopSingle(p) /\ \A f \in SendFlags : ~SendSingle(p, f)
  BY <1>0 DEF PopSingle, SendSingle
<1> QED BY <1>1, <1>2, <1>3, <1>4, <1>5, <1>6, <1>7, <1>8, <1>9 DEF Produce

LEMMA ConsumerStep ==
  ASSUME OneEach, TypeOK, AgateInv, NEW c \in Consumers, Consume(c)
  PROVE  TypeOK' /\ AgateInv'
<1>0. c \in Threads /\ pc[c] # "fetch" BY Const DEF AgateInv, Proper
<1>1. CASE TakeQueued(c) BY <1>1, TakeKeeps
<1>2. CASE RecvLoad(c) BY <1>2, RecvLoadKeeps
<1>3. CASE RecvRead(c) BY <1>3, RecvReadKeeps
<1>4. CASE RecvCas(c) BY <1>4, RecvCasKeeps
<1>5. CASE FreeHold(c) BY <1>5, FreeHoldKeeps
<1>6. CASE ReplyIgnored(c) BY <1>6, IgnoredKeeps
<1>7. CASE SetReady(c) BY <1>7, ReadyKeeps
<1>8. CASE Return(c) BY <1>0, <1>8, ReturnStep
<1>9. ASSUME NEW result \in Results, ReplyStatus(c, result) PROVE TypeOK' /\ AgateInv'
  BY <1>9, StatusKeeps
<1>10. ~Fetch(c) BY <1>0 DEF Fetch
<1> QED BY <1>1, <1>2, <1>3, <1>4, <1>5, <1>6, <1>7, <1>8, <1>9, <1>10 DEF Consume

LEMMA WaiterStep ==
  ASSUME OneEach, TypeOK, AgateInv, NEW w \in Waiters, Await(w) \/ Finish(w)
  PROVE  TypeOK' /\ AgateInv'
<1>0. w \in Threads BY Const
<1>1. ASSUME NEW s \in Slots, Copy(w, s) PROVE TypeOK' /\ AgateInv' BY <1>1, CopyKeeps
<1>2. ASSUME NEW s \in Slots, WaitReady(w, s) PROVE TypeOK' /\ AgateInv'
  <2>1. "collect" \in UserPCs BY DEF UserPCs
  <2> QED BY <1>2, <2>1, UseKeeps DEF WaitReady
<1>3. ASSUME NEW s \in Slots, Discard(w, s) PROVE TypeOK' /\ AgateInv'
  <2>1. "drop" \in UserPCs BY DEF UserPCs
  <2> QED BY <1>3, <2>1, UseKeeps DEF Discard
<1>4. CASE Collect(w) BY <1>4, CollectKeeps
<1>5. CASE DropHandle(w) BY <1>5, DropKeeps
<1>6. CASE Condemn(w) BY <1>6, CondemnKeeps
<1>7. CASE Return(w) BY <1>0, <1>7, ReturnStep
<1>8. Await(w) => TypeOK' /\ AgateInv' BY <1>1, <1>2, <1>3 DEF Await
<1>9. Finish(w) => TypeOK' /\ AgateInv' BY <1>4, <1>5, <1>6, <1>7 DEF Finish
<1> QED BY <1>8, <1>9

LEMMA IdleStep ==
  ASSUME TypeOK, AgateInv, UNCHANGED vars
  PROVE  TypeOK' /\ AgateInv'
<1> USE DEF vars, msgVars, ends, counters, locals, hist, AgateInv
<1>1. TypeOK' BY DEF TypeOK
<1>2. Popping' = Popping /\ Releasing' = Releasing /\ Coming' = Coming /\ Taking' = Taking
  BY DEF Popping, Releasing, Coming, Taking
<1>3. /\ \A x : (Owed(x)' <=> Owed(x)) /\ (Dying(x)' <=> Dying(x)) /\ Users(x)' = Users(x)
      /\ \A c \in Consumers : InHand(c)' <=> InHand(c)
      /\ \A i : ChainAt(i)' = ChainAt(i)
  BY DEF Owed, Dying, Users, InHand, ChainAt
<1>4. \A x : Open(x)' = Open(x) BY <1>3 DEF Open
<1>5. Proper' /\ PopShape' /\ SendShape' BY DEF Proper, PopShape, SendShape
<1>6. PoolShape' BY <1>2, PoolStays
<1>7. QueueShape' BY <1>2, QueueStays
<1>8. RecvShape' BY <1>3 DEF RecvShape
<1>9. FieldShape' BY DEF FieldShape, SlotShape, Blank
<1>10. DyingShape' BY DEF DyingShape, Blank
<1>11. \A x : Signalable(x)' <=> Signalable(x) BY <1>3 DEF Signalable
<1>12. HandleShape' BY <1>3, <1>4, <1>11 DEF HandleShape
<1> QED BY <1>1, <1>5, <1>6, <1>7, <1>8, <1>9, <1>10, <1>12

LEMMA AgateStep ==
  ASSUME OneEach, TypeOK, AgateInv, [Next]_vars
  PROVE  TypeOK' /\ AgateInv'
<1>1. CASE UNCHANGED vars BY <1>1, IdleStep
<1>2. ASSUME NEW p \in Producers, Produce(p) PROVE TypeOK' /\ AgateInv'
  BY <1>2, ProducerStep
<1>3. ASSUME NEW c \in Consumers, Consume(c) PROVE TypeOK' /\ AgateInv'
  BY <1>3, ConsumerStep
<1>4. ASSUME NEW w \in Waiters, Await(w) \/ Finish(w) PROVE TypeOK' /\ AgateInv'
  BY <1>4, WaiterStep
<1> QED BY <1>1, <1>2, <1>3, <1>4 DEF Next

LEMMA AgateStarts == ASSUME OneEach, Init PROVE TypeOK /\ AgateInv
<1> USE Const
<1>1. kind = "mpmc" /\ slotSemaphore = N - 1 BY DEF Init, OneEach, Permits
<1>2. TypeOK
  <2>1. FieldsTyped
    <3>1. \A s \in Slots : s + 1 \in 0 .. N BY DEF Slots
    <3> QED BY <3>1 DEF Init, FieldsTyped, Statuses
  <2>2. EndsTyped
    <3>1. 0 \in 0 .. N /\ N - 2 \in Slots /\ N - 1 \in Nat BY DEF Slots
    <3> QED BY <1>1, <3>1 DEF Init, EndsTyped
  <2>3. PcTyped BY DEF Init, PcTyped, AllPCs, ProducerPCs, ConsumerPCs, WaiterPCs
  <2>4. LocalsTyped /\ HistoryTyped BY DEF Init, LocalsTyped, HistoryTyped, Statuses
  <2> QED BY <2>1, <2>2, <2>3, <2>4, TypeParts
<1>3. /\ \A t \in Threads : pc[t] = "idle" /\ ret[t] = "idle"
      /\ \A s \in Slots : /\ flags[s] = {} /\ ~isReady[s] /\ openHandles[s] = 1 /\ next[s] = s + 1
                          /\ holders[s] = 0
                          /\ phase[s] = IF s = Dummy THEN "answered" ELSE "free"
      /\ fifo = <<>> /\ queuedMessages = 0 /\ previousReceived = Dummy
      /\ lastQueuedSlot = Dummy /\ nextFreeSlot = 0
  BY DEF Init
<1>4. Proper BY <1>1, <1>3 DEF Proper
<1>5. PoolShape
  <2> DEFINE q == [i \in 1 .. N - 1 |-> i - 1]
  <2>1. q \in Seq(Slots) /\ Len(q) = N - 1
    <3>1. N - 1 \in Nat /\ \A i \in 1 .. N - 1 : i - 1 \in Slots BY DEF Slots
    <3> QED BY <3>1
  <2>2. \A i \in 1 .. N - 1 : q[i] = i - 1 /\ q[i] \in Slots \ {Dummy} BY DEF Slots, Dummy
  <2>3. Cardinality(Popping) = 0 /\ Cardinality(Releasing) = 0
    <3>1. Popping = {} /\ Releasing = {} BY <1>3 DEF Popping, Releasing, PopPCs
    <3> QED BY <3>1, FS_EmptySet
  <2> HIDE DEF q
  <2>4. \A i, j \in 1 .. Len(q) : q[i] = q[j] => i = j BY <2>1, <2>2
  <2>5. \A i \in 1 .. Len(q) : q[i] # Dummy /\ phase[q[i]] = "free" BY <1>3, <2>1, <2>2
  <2>6. ASSUME NEW s \in Slots \ {Dummy} PROVE \E i \in 1 .. Len(q) : q[i] = s
    <3>1. s + 1 \in 1 .. N - 1 /\ (s + 1) - 1 = s BY DEF Slots, Dummy
    <3> QED BY <2>1, <2>2, <3>1
  <2>7. nextFreeSlot = FreeAt(q, 1)
    <3>1. 1 \in 1 .. N - 1 /\ ~(1 > Len(q)) BY <2>1
    <3> QED BY <1>3, <2>2, <3>1 DEF FreeAt
  <2>8. ASSUME NEW i \in 1 .. Len(q) PROVE next[q[i]] = FreeAt(q, i + 1)
    <3>1. next[q[i]] = i BY <1>3, <2>1, <2>2
    <3>2. CASE i + 1 > Len(q) BY <2>1, <3>1, <3>2 DEF FreeAt, Dummy
    <3>3. CASE ~(i + 1 > Len(q))
      <4>1. i + 1 \in 1 .. N - 1 /\ (i + 1) - 1 = i BY <2>1, <3>3
      <4> QED BY <2>2, <3>1, <3>3, <4>1 DEF FreeAt
    <3> QED BY <3>2, <3>3
  <2>9. Pool(q) BY <1>1, <2>1, <2>3, <2>4, <2>5, <2>6, <2>7, <2>8 DEF Pool
  <2> QED BY <2>1, <2>9 DEF PoolShape
<1>6. PopShape /\ SendShape BY <1>3 DEF PopShape, SendShape
<1>7. QueueShape
  <2>1. Coming = 0 /\ Taking = 0 BY <1>3 DEF Coming, Taking, TakePCs
  <2>2. Len(fifo) = 0 /\ ChainAt(Len(fifo)) = Dummy BY <1>3 DEF ChainAt
  <2>3. \A s \in Slots : phase[s] # "queued" BY <1>3
  <2> QED BY <1>3, <2>1, <2>2, <2>3 DEF QueueShape
<1>8. RecvShape BY <1>3 DEF RecvShape, InHand, ReturnPCs
<1>9. FieldShape BY <1>3 DEF FieldShape, SlotShape, Blank
<1>10. DyingShape BY <1>3 DEF DyingShape, DyingPCs
<1>11. HandleShape
  <2>1. \A s \in Slots : Users(s) = {} BY <1>3 DEF Users, UserPCs
  <2>2. ASSUME NEW s \in Slots PROVE Open(s) = 0
    <3>1. Cardinality(Users(s)) = 0 BY <2>1, FS_EmptySet
    <3>2. holders[s] = 0 BY <1>3
    <3> QED BY <3>1, <3>2 DEF Open
  <2> QED BY <1>3, <2>2 DEF HandleShape, Owed
<1> QED BY <1>2, <1>4, <1>5, <1>6, <1>7, <1>8, <1>9, <1>10, <1>11 DEF AgateInv

LEMMA AgateAlways == ASSUME OneEach PROVE Spec => [](TypeOK /\ AgateInv)
<1>1. Init => TypeOK /\ AgateInv BY AgateStarts
<1>2. TypeOK /\ AgateInv /\ [Next]_vars => (TypeOK /\ AgateInv)' BY AgateStep
<1> QED BY <1>1, <1>2, PTL DEF Spec

----------------------------------------------------------------------------
\* Each step moves the thread that takes it.
LEMMA ReturnWalks ==
  ASSUME NEW t \in Threads, Return(t)
  PROVE  \E l : Goto(t, l)
BY DEF Return, Cleanup, ReturnSwap, ReturnLoad, ReturnStore, ReturnCas, ReturnLink, Release

LEMMA ProducerWalks ==
  ASSUME NEW p \in Producers, Produce(p)
  PROVE  \E l : Goto(p, l)
BY DEF Produce, AcquireSlot, PopSingle, LoadFree, PopRead, PopCas, SendSingle, SendLoad,
       SendLink, SendCas, Count, Reach

LEMMA WaiterWalks ==
  ASSUME NEW w \in Waiters, Await(w) \/ Finish(w)
  PROVE  pc' = pc \/ \E l : Goto(w, l)
<1>1. CASE Await(w) BY <1>1 DEF Await, Copy, WaitReady, Discard, UseHandle
<1>2. CASE Collect(w) \/ DropHandle(w) \/ Condemn(w)
  BY <1>2 DEF Collect, DropHandle, Condemn, CondemnBy, Destroy
<1>3. CASE Return(w) BY <1>3, ReturnWalks, Const
<1> QED BY <1>1, <1>2, <1>3 DEF Finish

(* A slot that is filled or handled is in somebody's hands.  This holds of *)
(* every kind of mailbox and any number of threads.                        *)

Fills(p, s)   == msg[p] = s /\ pc[p] \in SendPCs
Serves(c, s) == msg[c] = s /\ InHand(c)
Placed ==
  \A s \in Slots :
    /\ phase[s] = "claimed" => \E p \in Producers : Fills(p, s)
    /\ phase[s] = "handling" => \E c \in Consumers : Serves(c, s)

LEMMA PlacedMoves ==
  ASSUME Placed, NEW t \in Threads, Alone(t),
         \A s \in Slots :
           /\ phase'[s] = "claimed" =>
                \/ phase[s] = "claimed" /\ ~(t \in Producers /\ Fills(t, s))
                \/ t \in Producers /\ Fills(t, s)'
           /\ phase'[s] = "handling" =>
                \/ phase[s] = "handling" /\ ~(t \in Consumers /\ Serves(t, s))
                \/ t \in Consumers /\ Serves(t, s)'
  PROVE  Placed'
<1> USE Const
<1>1. ASSUME NEW s \in Slots, phase'[s] = "claimed" PROVE \E p \in Producers : Fills(p, s)'
  <2>1. CASE t \in Producers /\ Fills(t, s)' BY <2>1
  <2>2. CASE phase[s] = "claimed" /\ ~(t \in Producers /\ Fills(t, s))
    <3>1. PICK p \in Producers : Fills(p, s) BY <2>2 DEF Placed
    <3>2. p # t BY <2>2, <3>1
    <3> QED BY <3>1, <3>2 DEF Fills, Alone
  <2> QED BY <1>1, <2>1, <2>2
<1>2. ASSUME NEW s \in Slots, phase'[s] = "handling" PROVE \E c \in Consumers : Serves(c, s)'
  <2>1. CASE t \in Consumers /\ Serves(t, s)' BY <2>1
  <2>2. CASE phase[s] = "handling" /\ ~(t \in Consumers /\ Serves(t, s))
    <3>1. PICK c \in Consumers : Serves(c, s) BY <2>2 DEF Placed
    <3>2. c # t BY <2>2, <3>1
    <3> QED BY <3>1, <3>2 DEF Serves, InHand, Alone
  <2> QED BY <1>2, <2>1, <2>2
<1> QED BY <1>1, <1>2 DEF Placed

LEMMA ProducerPlaces ==
  ASSUME TypeOK, Placed, NEW p \in Producers, Produce(p)
  PROVE  Placed'
<1> USE Const
<1>1. /\ \E l : Goto(p, l)
      /\ \A u \in Threads \ {p} :
           /\ msg'[u] = msg[u] /\ old'[u] = old[u]
           /\ reg'[u] = reg[u] /\ nxt'[u] = nxt[u] /\ ret'[u] = ret[u]
  <2>1. \E l : Goto(p, l) BY ProducerWalks
  <2>2. ASSUME NEW u \in Threads \ {p}
        PROVE  /\ msg'[u] = msg[u] /\ old'[u] = old[u]
               /\ reg'[u] = reg[u] /\ nxt'[u] = nxt[u] /\ ret'[u] = ret[u]
    BY TypeParts DEF Produce, AcquireSlot, PopSingle, LoadFree, PopRead, PopCas, SendSingle,
       SendLoad, SendLink, SendCas, Count, Forget, locals, LocalsTyped
  <2> QED BY <2>1, <2>2
<1>2. Alone(p) BY <1>1, Goes
<1>3. p \notin Consumers OBVIOUS
<1>4. phase \in [Slots -> {"free", "claimed", "queued", "handling", "answered"}]
      /\ pc \in [Threads -> AllPCs] /\ msg \in [Threads -> Slots]
  BY TypeParts DEF HistoryTyped, PcTyped, LocalsTyped
<1>5. CASE \E x : /\ phase' = [phase EXCEPT ![x] = "claimed"] /\ pc[p] \notin SendPCs
                  /\ msg'[p] = x /\ pc'[p] = "send"
  <2>1. PICK x : /\ phase' = [phase EXCEPT ![x] = "claimed"] /\ pc[p] \notin SendPCs
                 /\ msg'[p] = x /\ pc'[p] = "send"
    BY <1>5
  <2>2. ASSUME NEW s \in Slots
        PROVE  /\ phase'[s] = "claimed" =>
                    \/ phase[s] = "claimed" /\ ~(p \in Producers /\ Fills(p, s))
                    \/ p \in Producers /\ Fills(p, s)'
               /\ phase'[s] = "handling" => phase[s] = "handling"
    BY <1>4, <2>1 DEF Fills, SendPCs
  <2> QED BY <1>2, <1>3, <2>2, PlacedMoves
<1>6. CASE phase' = [phase EXCEPT ![msg[p]] = "queued"]
  <2>1. ASSUME NEW s \in Slots
        PROVE  /\ phase'[s] = "claimed" => phase[s] = "claimed" /\ ~Fills(p, s)
               /\ phase'[s] = "handling" => phase[s] = "handling"
    BY <1>4, <1>6 DEF Fills
  <2> QED BY <1>2, <1>3, <2>1, PlacedMoves
<1>7. CASE phase' = phase /\ (pc[p] \in SendPCs => pc'[p] \in SendPCs /\ msg'[p] = msg[p])
  <2>1. \A s \in Slots : Fills(p, s) => Fills(p, s)' BY <1>7 DEF Fills
  <2> QED BY <1>2, <1>3, <1>7, <2>1, PlacedMoves
<1> USE DEF SendPCs, hist, locals, Forget
<1>8. CASE AcquireSlot(p) \/ LoadFree(p) \/ PopRead(p) \/ SendLink(p) \/ Count(p)
  <2>1. CASE SendLink(p) BY <1>1, <1>4, <1>7, <2>1 DEF SendLink, Goto
  <2>2. CASE AcquireSlot(p) \/ LoadFree(p) \/ PopRead(p) \/ Count(p)
    BY <1>7, <2>2 DEF AcquireSlot, LoadFree, PopRead, Count
  <2> QED BY <1>8, <2>1, <2>2
<1>9. CASE PopSingle(p)
  <2>1. CASE nextFreeSlot \in Slots
    BY <1>4, <1>5, <1>9, <2>1 DEF PopSingle, Claim, Become, Reach, Goto
  <2>2. CASE nextFreeSlot \notin Slots BY <1>7, <1>9, <2>2 DEF PopSingle
  <2> QED BY <2>1, <2>2
<1>10. CASE PopCas(p)
  <2>1. CASE nextFreeSlot = reg[p]
    BY <1>4, <1>5, <1>10, <2>1 DEF PopCas, Claim, Become, Goto
  <2>2. CASE nextFreeSlot # reg[p] BY <1>7, <1>10, <2>2 DEF PopCas
  <2> QED BY <2>1, <2>2
<1>11. ASSUME NEW f \in SendFlags, SendSingle(p, f) PROVE Placed'
  BY <1>6, <1>11 DEF SendSingle, Become
<1>12. ASSUME NEW f \in SendFlags, SendLoad(p, f) PROVE Placed'
  BY <1>4, <1>7, <1>12 DEF SendLoad, Goto
<1>13. CASE SendCas(p)
  <2>1. CASE lastQueuedSlot = reg[p] BY <1>6, <1>13, <2>1 DEF SendCas, Become
  <2>2. CASE lastQueuedSlot # reg[p] BY <1>4, <1>7, <1>13, <2>2 DEF SendCas, Goto
  <2> QED BY <2>1, <2>2
<1> QED BY <1>8, <1>9, <1>10, <1>11, <1>12, <1>13 DEF Produce

\* A step of a thread that returns a message
LEMMA ReturnPlaces ==
  ASSUME TypeOK, Placed, NEW t \in Threads, Return(t)
  PROVE  Placed'
<1> USE Const
<1>p. pc[t] \in ReturnPCs
  BY DEF Return, Cleanup, ReturnSwap, ReturnLoad, ReturnStore, ReturnCas, ReturnLink, Release,
     ReturnPCs
<1>0. t \notin Producers BY <1>p, Returner
<1>1. \A u \in Threads \ {t} :
        /\ msg'[u] = msg[u] /\ old'[u] = old[u]
        /\ reg'[u] = reg[u] /\ nxt'[u] = nxt[u] /\ ret'[u] = ret[u]
  BY TypeParts DEF Return, Cleanup, ReturnSwap, ReturnLoad, ReturnStore, ReturnCas, ReturnLink,
     Release, Forget, locals, LocalsTyped
<1>2. Alone(t) BY <1>1, ReturnWalks, Goes
<1>3. pc \in [Threads -> AllPCs] BY TypeParts DEF PcTyped
<1>4. ret[t] = "handle" => pc'[t] = "handle" \/ (pc'[t] \in ReturnPCs /\ ret'[t] = "handle")
  <2>1. \/ ret' = ret /\ \E l \in ReturnPCs : Goto(t, l)
        \/ Goto(t, ret[t])
    BY DEF Return, Cleanup, ReturnSwap, ReturnLoad, ReturnStore, ReturnCas, ReturnLink, Release,
       ReturnPCs, locals
  <2>2. ASSUME NEW l, Goto(t, l) PROVE pc'[t] = l BY <1>3, <2>2 DEF Goto
  <2>3. CASE Goto(t, ret[t]) BY <2>2, <2>3
  <2>4. CASE ret' = ret /\ \E l \in ReturnPCs : Goto(t, l) BY <2>2, <2>4
  <2> QED BY <2>1, <2>3, <2>4
<1>5. msg' = msg
  BY DEF Return, Cleanup, ReturnSwap, ReturnLoad, ReturnStore, ReturnCas, ReturnLink, Release,
     locals
<1>6. \A s \in Slots : Serves(t, s) => Serves(t, s)'
  BY <1>p, <1>4, <1>5 DEF Serves, InHand, ReturnPCs
<1>7. phase' = phase \/ phase' = [phase EXCEPT ![old[t]] = "free"]
  BY DEF Return, Cleanup, ReturnSwap, ReturnLoad, ReturnStore, ReturnCas, ReturnLink, Release,
     Become, hist
<1>8. phase \in [Slots -> {"free", "claimed", "queued", "handling", "answered"}]
  BY TypeParts DEF HistoryTyped
<1>9. \A s \in Slots : phase'[s] \in {"claimed", "handling"} => phase[s] = phase'[s]
  BY <1>7, <1>8
<1> QED BY <1>0, <1>2, <1>6, <1>9, PlacedMoves

LEMMA ConsumerPlaces ==
  ASSUME TypeOK, Placed, NEW c \in Consumers, Consume(c)
  PROVE  Placed'
<1> USE Const
<1>1. CASE Return(c) BY <1>1, ReturnPlaces
<1>2. SUFFICES ASSUME ~Return(c) PROVE Placed' BY <1>1
<1>3. \E l : Goto(c, l)
  BY <1>2 DEF Consume, TakeQueued, Fetch, RecvLoad, RecvRead, RecvCas, Receive, FreeHold,
     Destroy, ReplyIgnored, CondemnBy, ReplyStatus, SetReady, Reach
<1>4. \A u \in Threads \ {c} :
        /\ msg'[u] = msg[u] /\ old'[u] = old[u]
        /\ reg'[u] = reg[u] /\ nxt'[u] = nxt[u] /\ ret'[u] = ret[u]
  BY <1>2, TypeParts DEF Consume, TakeQueued, Fetch, RecvLoad, RecvRead, RecvCas, Receive,
     FreeHold, Destroy, ReplyIgnored, CondemnBy, ReplyStatus, SetReady, Forget, locals, LocalsTyped
<1>5. Alone(c) BY <1>3, <1>4, Goes
<1>6. c \notin Producers OBVIOUS
<1>7. /\ phase \in [Slots -> {"free", "claimed", "queued", "handling", "answered"}]
      /\ pc \in [Threads -> AllPCs] /\ msg \in [Threads -> Slots]
      /\ ret \in [Threads -> {"idle", "handle", "keep", "ignore"}]
  BY TypeParts DEF HistoryTyped, PcTyped, LocalsTyped
<1>8. ASSUME /\ \A s \in Slots : phase'[s] \in {"claimed", "handling"} => phase[s] = phase'[s]
             /\ InHand(c) => msg'[c] = msg[c] /\ InHand(c)'
      PROVE  Placed'
  <2>1. \A s \in Slots : Serves(c, s) => Serves(c, s)' BY <1>8 DEF Serves
  <2> QED BY <1>5, <1>6, <1>8, <2>1, PlacedMoves
<1>9. ASSUME NEW s, NEW m, Receive(c, s, m), ~InHand(c) PROVE Placed'
  <2>1. /\ phase' = [phase EXCEPT ![m] = "handling"] /\ msg'[c] = m /\ pc'[c] = "freeHold"
    BY <1>7, <1>9 DEF Receive, Become, Goto
  <2>2. InHand(c)' BY <2>1 DEF InHand
  <2>3. ASSUME NEW x \in Slots
        PROVE  /\ phase'[x] = "claimed" => phase[x] = "claimed"
               /\ phase'[x] = "handling" => phase[x] = "handling" \/ Serves(c, x)'
    BY <1>7, <2>1, <2>2 DEF Serves
  <2>4. \A x \in Slots : ~Serves(c, x) BY <1>9 DEF Serves
  <2> QED BY <1>5, <1>6, <2>3, <2>4, PlacedMoves
<1>10. ASSUME phase' = [phase EXCEPT ![msg[c]] = "answered"] PROVE Placed'
  <2>1. ASSUME NEW x \in Slots
        PROVE  /\ phase'[x] = "claimed" => phase[x] = "claimed"
               /\ phase'[x] = "handling" => phase[x] = "handling" /\ ~Serves(c, x)
    BY <1>7, <1>10 DEF Serves
  <2> QED BY <1>5, <1>6, <2>1, PlacedMoves
<1>11. pc[c] \in {"idle", "fetch", "recvLoad", "recvRead", "recvCas"} => ~InHand(c)
  BY DEF InHand, ReturnPCs
<1>12. CASE TakeQueued(c) \/ RecvLoad(c) \/ RecvRead(c)
  BY <1>8, <1>11, <1>12 DEF TakeQueued, RecvLoad, RecvRead, hist
<1>13. CASE Fetch(c)
  <2>1. CASE next[previousReceived] \in Slots BY <1>9, <1>11, <1>13, <2>1 DEF Fetch
  <2>2. CASE next[previousReceived] \notin Slots BY <1>8, <1>11, <1>13, <2>2 DEF Fetch
  <2> QED BY <2>1, <2>2
<1>14. CASE RecvCas(c)
  <2>1. CASE previousReceived = reg[c] BY <1>9, <1>11, <1>14, <2>1 DEF RecvCas
  <2>2. CASE previousReceived # reg[c] BY <1>8, <1>11, <1>14, <2>2 DEF RecvCas
  <2> QED BY <2>1, <2>2
<1>15. CASE FreeHold(c)
  <2>1. msg' = msg /\ (phase' = phase \/ phase' = [phase EXCEPT ![old[c]] = "free"])
    BY <1>15 DEF FreeHold
  <2>2. \/ pc'[c] = "handle"
        \/ pc'[c] = "cleanup" /\ ret'[c] = "handle"
    BY <1>7, <1>15 DEF FreeHold, Destroy, Goto
  <2>3. InHand(c)' BY <2>2 DEF InHand, ReturnPCs
  <2>4. \A s \in Slots : phase'[s] \in {"claimed", "handling"} => phase[s] = phase'[s]
    BY <1>7, <2>1
  <2> QED BY <1>8, <2>1, <2>3, <2>4
<1>16. CASE ReplyIgnored(c) \/ SetReady(c) BY <1>10, <1>16 DEF ReplyIgnored, SetReady, Become
<1>17. ASSUME NEW result \in Results, ReplyStatus(c, result) PROVE Placed'
  <2>1. msg' = msg /\ phase' = phase /\ pc'[c] = "setReady"
    BY <1>7, <1>17 DEF ReplyStatus, Goto, locals
  <2> QED BY <1>8, <2>1 DEF InHand
<1> QED BY <1>2, <1>12, <1>13, <1>14, <1>15, <1>16, <1>17 DEF Consume

LEMMA WaiterPlaces ==
  ASSUME TypeOK, Placed, NEW w \in Waiters, Await(w) \/ Finish(w)
  PROVE  Placed'
<1> USE Const
<1>1. CASE Return(w) BY <1>1, ReturnPlaces
<1>2. SUFFICES ASSUME ~Return(w) PROVE Placed' BY <1>1
<1>3. phase' = phase
  BY <1>2 DEF Await, Copy, WaitReady, Discard, UseHandle, Finish, Collect, DropHandle, Condemn,
     hist
<1>4. \A u \in Threads \ {w} :
        /\ msg'[u] = msg[u] /\ old'[u] = old[u]
        /\ reg'[u] = reg[u] /\ nxt'[u] = nxt[u] /\ ret'[u] = ret[u]
  BY <1>2, TypeParts DEF Await, Copy, WaitReady, Discard, UseHandle, Finish, Collect, DropHandle,
     Condemn, CondemnBy, Destroy, Forget, locals, LocalsTyped
<1>5. Alone(w)
  <2>1. CASE pc' = pc BY <1>4, <2>1 DEF Alone
  <2>2. CASE \E l : Goto(w, l) BY <1>4, <2>2, Goes
  <2> QED BY <2>1, <2>2, WaiterWalks
<1>6. w \notin Producers /\ w \notin Consumers OBVIOUS
<1> QED BY <1>3, <1>5, <1>6, PlacedMoves

LEMMA PlacedStep ==
  ASSUME TypeOK, Placed, [Next]_vars
  PROVE  Placed'
<1>1. CASE UNCHANGED vars
  BY <1>1 DEF Placed, Fills, Serves, InHand, vars, locals, hist
<1> QED BY <1>1, ProducerPlaces, ConsumerPlaces, WaiterPlaces DEF Next

LEMMA PlacedStarts == ASSUME Init PROVE Placed
BY DEF Init, Placed

----------------------------------------------------------------------------
(* A message that was sent is kept for a signal unless it is condemned or  *)
(* its result ignored; and one that was answered is held by the mailbox    *)
(* until it is returned or its last signal condemns it.                    *)

Account(s) ==
  /\ phase[s] \in {"queued", "handling", "answered"} /\ s # Dummy /\ ~Dying(s) =>
       IGNORE \in flags[s] \/ CONDEMNED \in flags[s] \/ Kept(s)
  /\ phase[s] = "answered" =>
       /\ Held(s) \/ Dying(s) \/ (s # Dummy /\ flags[s] \cap {CONDEMNED, IN_USE} = {})
       /\ IGNORE \in flags[s] => CONDEMNED \in flags[s]
Accounted == \A s \in Slots : Account(s)
\* A status is only stored for a message whose result is not ignored.
Wanted == \A c \in Consumers : pc[c] = "setReady" => IGNORE \notin flags[msg[c]]

HandlePCs == {"collect", "drop", "condemn"}

LEMMA KeptIs ==
  ASSUME NEW s
  PROVE  /\ Kept(s) <=> \/ holders[s] > 0
                        \/ \E w \in Waiters : msg[w] = s /\ pc[w] \in HandlePCs
                        \/ Owed(s)
         /\ Kept(s)' <=> \/ holders'[s] > 0
                         \/ \E w \in Waiters : msg'[w] = s /\ pc'[w] \in HandlePCs
                         \/ Owed(s)'
BY DEF Kept, Owed, HandlePCs

(* A step of thread t that concerns message s                              *)
LEMMA AccountMoves ==
  ASSUME Accounted, NEW t \in Threads, Alone(t), NEW s \in Slots, Account(s)',
         \A x \in Slots \ {s} :
            phase'[x] = phase[x] /\ flags'[x] = flags[x] /\ holders'[x] = holders[x],
         NEW r, r = previousReceived, Held(r)',
         t \in Producers /\ pc[t] = "count" => msg[t] = s,
         t \in Consumers /\ pc[t] = "freeHold" => old[t] = s,
         t \in Waiters /\ pc[t] \in HandlePCs => msg[t] = s,
         pc[t] \in DyingPCs => old[t] = s
  PROVE  Accounted'
<1> SUFFICES ASSUME NEW x \in Slots, x # s PROVE Account(x)'
  BY DEF Accounted
<1> USE Const
<1>1. phase'[x] = phase[x] /\ flags'[x] = flags[x] /\ holders'[x] = holders[x]
  OBVIOUS
<1>2. Dying(x) => Dying(x)' BY DEF Dying, Alone
<1>3. Owed(x) => Owed(x)' BY DEF Owed, Alone
<1>4. ASSUME NEW w \in Waiters, msg[w] = x, pc[w] \in HandlePCs
      PROVE  msg'[w] = x /\ pc'[w] \in HandlePCs
  <2>1. w # t BY <1>4
  <2> QED BY <1>4, <2>1 DEF Alone
<1>5. Kept(x) => Kept(x)' BY <1>1, <1>3, <1>4, KeptIs
<1>6. Held(x) => Held(x)'
  <2>1. CASE x = previousReceived BY <2>1
  <2>2. ASSUME NEW c \in Consumers, pc[c] = "freeHold", old[c] = x PROVE Held(x)'
    <3>1. c # t BY <2>2
    <3>2. pc'[c] = "freeHold" /\ old'[c] = x BY <2>2, <3>1 DEF Alone
    <3> QED BY <3>2 DEF Held
  <2> QED BY <2>1, <2>2 DEF Held
<1>7. Account(x) BY DEF Accounted
<1> QED BY <1>1, <1>2, <1>5, <1>6, <1>7 DEF Account

\* Nothing but who keeps, holds and returns message s changes about it.
LEMMA AccountStays ==
  ASSUME NEW s, Account(s), phase'[s] = phase[s], flags'[s] = flags[s],
         Dying(s) => Dying(s)', Kept(s) => Kept(s)', Held(s) => Held(s)'
  PROVE  Account(s)'
BY DEF Account

\* Only thread t moves, and what it keeps, holds and returns stays as it was.
LEMMA AccountSame ==
  ASSUME Accounted, NEW t \in Threads, Alone(t),
         UNCHANGED <<phase, flags, holders, previousReceived>>,
         t \in Producers => pc[t] # "count",
         t \in Consumers => pc[t] # "freeHold",
         t \in Waiters /\ pc[t] \in HandlePCs => msg'[t] = msg[t] /\ pc'[t] \in HandlePCs,
         pc[t] \in DyingPCs => pc'[t] \in DyingPCs /\ old'[t] = old[t]
  PROVE  Accounted'
<1> SUFFICES ASSUME NEW x \in Slots PROVE Account(x)'
  BY DEF Accounted
<1> USE Const
<1>1. Dying(x) => Dying(x)' BY DEF Dying, Alone
<1>2. Owed(x) => Owed(x)' BY DEF Owed, Alone
<1>3. ASSUME NEW w \in Waiters, msg[w] = x, pc[w] \in HandlePCs
      PROVE  msg'[w] = x /\ pc'[w] \in HandlePCs
  <2>1. CASE w = t BY <1>3, <2>1
  <2>2. CASE w # t BY <1>3, <2>2 DEF Alone
  <2> QED BY <2>1, <2>2
<1>4. Kept(x) => Kept(x)' BY <1>2, <1>3, KeptIs
<1>5. ASSUME NEW c \in Consumers, pc[c] = "freeHold", old[c] = x
      PROVE  pc'[c] = "freeHold" /\ old'[c] = x
  <2>1. c # t BY <1>5
  <2> QED BY <1>5, <2>1 DEF Alone
<1>6. Held(x) => Held(x)' BY <1>5 DEF Held
<1>7. Account(x) BY DEF Accounted
<1> QED BY <1>1, <1>4, <1>6, <1>7, AccountStays

\* A message that is being filled or free needs no account.
LEMMA Unaccounted ==
  ASSUME NEW s, phase'[s] \in {"free", "claimed"}
  PROVE  Account(s)'
BY DEF Account

LEMMA ProducerAccount ==
  ASSUME OneEach, TypeOK, AgateInv, Accounted, NEW p \in Producers,
         \/ AcquireSlot(p) \/ LoadFree(p) \/ PopRead(p) \/ PopCas(p)
         \/ \E f \in SendFlags : SendLoad(p, f)
         \/ SendLink(p) \/ SendCas(p) \/ Count(p)
  PROVE  Accounted'
<1> USE Const
<1>1. \E l : Goto(p, l)
  BY DEF AcquireSlot, LoadFree, PopRead, PopCas, SendLoad, SendLink, SendCas, Count, Reach
<1>2. \A u \in Threads \ {p} :
        /\ msg'[u] = msg[u] /\ old'[u] = old[u]
        /\ reg'[u] = reg[u] /\ nxt'[u] = nxt[u] /\ ret'[u] = ret[u]
  BY TypeParts DEF AcquireSlot, LoadFree, PopRead, PopCas, SendLoad, SendLink, SendCas, Count,
     Forget, locals, LocalsTyped
<1>3. /\ Alone(p) /\ p \notin Consumers /\ p \notin Waiters
      /\ previousReceived' = previousReceived
  <2>1. previousReceived' = previousReceived
    BY DEF AcquireSlot, LoadFree, PopRead, PopCas, SendLoad, SendLink, SendCas, Count, ends
  <2> QED BY <1>1, <1>2, <2>1, Goes
<1>4. pc[p] \notin DyingPCs
  BY DEF AcquireSlot, LoadFree, PopRead, PopCas, SendLoad, SendLink, SendCas, Count, DyingPCs
<1>h. \A r : r = previousReceived => Held(r)' BY <1>3 DEF Held
<1>5. /\ phase \in [Slots -> {"free", "claimed", "queued", "handling", "answered"}]
      /\ flags \in [Slots -> SUBSET AllFlags] /\ holders \in [Slots -> Nat]
      /\ msg[p] \in Slots
  BY TypeParts DEF HistoryTyped, FieldsTyped, LocalsTyped
<1>6. CASE UNCHANGED <<phase, flags, holders>> /\ pc[p] # "count"
  BY <1>3, <1>4, <1>6, AccountSame
<1>7. CASE \/ AcquireSlot(p) \/ LoadFree(p) \/ PopRead(p) \/ SendLink(p)
           \/ PopCas(p) /\ nextFreeSlot # reg[p]
           \/ SendCas(p) /\ lastQueuedSlot # reg[p]
  BY <1>6, <1>7 DEF AcquireSlot, LoadFree, PopRead, SendLink, PopCas, SendCas, msgVars, hist
<1>8. CASE PopCas(p) /\ nextFreeSlot = reg[p]
  <2>1. PICK s \in Slots : s = reg[p] BY <1>8 DEF AgateInv, PopCas, PopShape
  <2>2. /\ phase' = [phase EXCEPT ![s] = "claimed"] /\ pc[p] = "popCas"
        /\ flags' = flags /\ holders' = holders
    BY <1>8, <2>1 DEF PopCas, Claim, Become, msgVars
  <2>3. phase'[s] = "claimed" /\ \A x \in Slots \ {s} : phase'[x] = phase[x]
    BY <1>5, <2>2
  <2>4. Account(s)' BY <2>3, Unaccounted
  <2> QED BY <1>3, <1>4, <1>h, <2>2, <2>3, <2>4, AccountMoves
<1>9. ASSUME NEW f \in SendFlags, SendLoad(p, f) PROVE Accounted'
  <2>1. PICK s \in Slots : s = msg[p] /\ phase[s] = "claimed"
    BY <1>5, <1>9 DEF AgateInv, SendLoad, SendShape
  <2>2. /\ phase' = phase /\ holders' = holders /\ pc[p] = "send"
        /\ \A x \in Slots \ {s} : flags'[x] = flags[x]
    BY <1>5, <1>9, <2>1 DEF SendLoad, Flagged, hist
  <2>3. Account(s)' BY <2>1, <2>2, Unaccounted
  <2> QED BY <1>3, <1>4, <1>h, <2>2, <2>3, AccountMoves
<1>10. CASE SendCas(p) /\ lastQueuedSlot = reg[p]
  <2>1. PICK s \in Slots : s = msg[p] BY <1>5
  <2>2. /\ phase' = [phase EXCEPT ![s] = "queued"] /\ pc[p] = "sendCas" /\ Goto(p, "count")
        /\ UNCHANGED <<flags, holders, msg, ret>>
    BY <1>10, <2>1 DEF SendCas, Become, msgVars
  <2>3. phase'[s] = "queued" /\ \A x \in Slots \ {s} : phase'[x] = phase[x]
    BY <1>5, <2>2
  <2>4. IGNORE \notin flags[s] => ret[p] = "keep"
    BY <2>1, <2>2 DEF AgateInv, SendShape
  <2>5. pc'[p] = "count" BY <1>2, <2>2, Goes
  <2>6. IGNORE \notin flags[s] => Kept(s)' BY <2>1, <2>2, <2>4, <2>5 DEF Kept
  <2>7. Account(s)' BY <2>2, <2>3, <2>6 DEF Account
  <2> QED BY <1>3, <1>4, <1>h, <2>2, <2>3, <2>7, AccountMoves
<1>11. CASE Count(p)
  <2>1. PICK s \in Slots : s = msg[p] BY <1>5
  <2>2. /\ phase' = phase /\ flags' = flags /\ pc[p] = "count"
        /\ \A x \in Slots \ {s} : holders'[x] = holders[x]
        /\ IF ret[p] = "keep" THEN holders'[s] = holders[s] + 1 ELSE holders'[s] = holders[s]
    BY <1>5, <1>11, <2>1 DEF Count, msgVars, hist
  <2>3. holders[s] \in Nat BY <1>5
  <2>4. Kept(s) => Kept(s)'
    <3>1. CASE ret[p] = "keep" BY <2>2, <2>3, <3>1 DEF Kept
    <3>2. CASE ret[p] # "keep"
      <4>1. ~Owed(s) BY <2>1, <2>2, <3>2 DEF Owed, OneEach
      <4>2. holders[s] > 0 => Kept(s)' BY <2>2, <3>2 DEF Kept
      <4>3. \A w \in Waiters : pc'[w] = pc[w] /\ msg'[w] = msg[w] BY <1>3 DEF Alone
      <4> QED BY <4>1, <4>2, <4>3, KeptIs
    <3> QED BY <3>1, <3>2
  <2>5. Dying(s) => Dying(s)' BY <1>3, <1>4 DEF Dying, Alone
  <2>6. Held(s) => Held(s)' BY <1>3 DEF Held, Alone
  <2>7. Account(s) BY DEF Accounted
  <2>8. Account(s)' BY <2>2, <2>4, <2>5, <2>6, <2>7, AccountStays
  <2> QED BY <1>3, <1>4, <1>h, <2>1, <2>2, <2>8, AccountMoves
<1> QED BY <1>7, <1>8, <1>9, <1>10, <1>11

LEMMA PeekAccount ==
  ASSUME OneEach, TypeOK, AgateInv, Accounted, NEW c \in Consumers,
         \/ TakeQueued(c) \/ RecvLoad(c) \/ RecvRead(c)
         \/ RecvCas(c) /\ previousReceived # reg[c]
         \/ \E result \in Results : ReplyStatus(c, result)
  PROVE  Accounted'
<1> USE Const
<1>1. /\ \E l : Goto(c, l)
      /\ UNCHANGED <<phase, flags, holders, previousReceived>>
      /\ pc[c] \in {"idle", "recvLoad", "recvRead", "recvCas", "handle"}
  BY DEF TakeQueued, RecvLoad, RecvRead, RecvCas, ReplyStatus, Reach, ends, msgVars, hist
<1>2. \A u \in Threads \ {c} :
        /\ msg'[u] = msg[u] /\ old'[u] = old[u]
        /\ reg'[u] = reg[u] /\ nxt'[u] = nxt[u] /\ ret'[u] = ret[u]
  BY TypeParts DEF TakeQueued, RecvLoad, RecvRead, RecvCas, ReplyStatus, Forget, locals,
     LocalsTyped
<1>3. Alone(c) /\ c \notin Producers /\ c \notin Waiters BY <1>1, <1>2, Goes
<1>4. pc[c] \notin DyingPCs BY <1>1 DEF DyingPCs
<1> QED BY <1>1, <1>3, <1>4, AccountSame

LEMMA RecvAccount ==
  ASSUME OneEach, TypeOK, AgateInv, Accounted, NEW c \in Consumers, RecvCas(c),
         previousReceived = reg[c]
  PROVE  Accounted'
<1> USE Const
<1>r. PICK r \in Slots : r = previousReceived BY TypeParts DEF EndsTyped
<1>m. PICK m \in Slots : m = nxt[c] /\ phase[m] = "queued"
  <2>1. nxt[c] = next[previousReceived] /\ nxt[c] \in Slots
    BY DEF AgateInv, RecvCas, RecvShape
  <2> QED BY <2>1, NextMessage DEF AgateInv, RecvCas, TakePCs
<1>1. /\ pc[c] = "recvCas" /\ Goto(c, "freeHold")
      /\ phase' = [phase EXCEPT ![m] = "handling"]
      /\ msg' = [msg EXCEPT ![c] = m] /\ old' = [old EXCEPT ![c] = r]
      /\ reg' = [reg EXCEPT ![c] = Dummy] /\ nxt' = [nxt EXCEPT ![c] = Dummy]
      /\ UNCHANGED <<flags, holders, ret>>
  BY <1>r, <1>m DEF RecvCas, Receive, Become, Forget, msgVars
<1>2. \A u \in Threads \ {c} :
        /\ msg'[u] = msg[u] /\ old'[u] = old[u]
        /\ reg'[u] = reg[u] /\ nxt'[u] = nxt[u] /\ ret'[u] = ret[u]
  BY <1>1, TypeParts DEF LocalsTyped
<1>3. /\ Alone(c) /\ c \notin Producers /\ c \notin Waiters
      /\ pc'[c] = "freeHold" /\ old'[c] = r
  BY <1>1, <1>2, Goes, TypeParts DEF LocalsTyped
<1>4. Held(r)' BY <1>3 DEF Held
<1>5. phase'[m] = "handling" /\ \A x \in Slots \ {m} : phase'[x] = phase[x]
  BY <1>1, TypeParts DEF HistoryTyped
<1>6. pc[c] \notin DyingPCs BY <1>1 DEF DyingPCs
<1>7. Account(m)'
  <2>1. Dying(m) => Dying(m)' BY <1>3, <1>6 DEF Dying, Alone
  <2>2. Owed(m) => Owed(m)' BY <1>3 DEF Owed, Alone
  <2>3. \A w \in Waiters : pc'[w] = pc[w] /\ msg'[w] = msg[w] BY <1>3 DEF Alone
  <2>4. Kept(m) => Kept(m)' BY <1>1, <2>2, <2>3, KeptIs
  <2>5. Account(m) BY DEF Accounted
  <2> QED BY <1>m, <1>1, <1>5, <2>1, <2>4, <2>5 DEF Account
<1> QED BY <1>r, <1>1, <1>3, <1>4, <1>5, <1>6, <1>7, AccountMoves

(* The message received before is let go of: it is returned, or its signal *)
(* is still to condemn it.                                                 *)
LEMMA FreeHoldAccount ==
  ASSUME OneEach, TypeOK, AgateInv, Accounted, NEW c \in Consumers, FreeHold(c)
  PROVE  Accounted'
<1> USE Const
<1>s. PICK s \in Slots : s = old[c] BY TypeParts DEF LocalsTyped
<1>p. pc[c] = "freeHold" BY DEF FreeHold
<1>0. /\ phase[s] = "answered" /\ ~Dying(s) /\ Account(s)
      /\ s = Dummy => flags[s] = {}
      /\ s # Dummy => IN_USE \in flags[s]
  BY <1>s, <1>p, HeldSlot DEF Accounted
<1>1. /\ flags' = [flags EXCEPT ![s] = @ \ {IN_USE}]
      /\ UNCHANGED <<holders, previousReceived, msg>>
      /\ \/ CONDEMNED \in flags[s] /\ Goto(c, "cleanup") /\ old' = old /\ phase' = phase
         \/ /\ CONDEMNED \notin flags[s] /\ Goto(c, "handle") /\ ret' = ret
            /\ old' = [old EXCEPT ![c] = Dummy]
            /\ IF s = Dummy THEN phase' = [phase EXCEPT ![s] = "free"] ELSE phase' = phase
  <2>1. /\ flags' = [flags EXCEPT ![s] = @ \ {IN_USE}]
        /\ UNCHANGED <<holders, previousReceived, msg>>
    BY <1>s DEF FreeHold, ends
  <2>2. CASE CONDEMNED \in flags[s]
    BY <1>s, <2>1, <2>2 DEF FreeHold, Unwanted, Destroy
  <2>3. CASE CONDEMNED \notin flags[s]
    BY <1>s, <1>0, <2>1, <2>3 DEF FreeHold, Unwanted, Forget
  <2> QED BY <2>2, <2>3
<1>2. \A u \in Threads \ {c} :
        /\ msg'[u] = msg[u] /\ old'[u] = old[u]
        /\ reg'[u] = reg[u] /\ nxt'[u] = nxt[u] /\ ret'[u] = ret[u]
  BY TypeParts DEF FreeHold, Destroy, Forget, LocalsTyped
<1>3. Alone(c) /\ c \notin Producers /\ c \notin Waiters BY <1>1, <1>2, Goes
<1>4. /\ flags'[s] = flags[s] \ {IN_USE}
      /\ \A x \in Slots \ {s} : flags'[x] = flags[x] /\ phase'[x] = phase[x]
      /\ \A r : r = previousReceived => Held(r)'
      /\ pc[c] \notin DyingPCs
  BY <1>p, <1>1, TypeParts DEF FieldsTyped, HistoryTyped, Held, DyingPCs
<1>5. Account(s)'
  <2>1. CASE CONDEMNED \in flags[s]
    <3>1. pc'[c] = "cleanup" /\ old'[c] = s BY <1>s, <1>1, <1>2, <2>1, Goes
    <3>2. Dying(s)' BY <3>1 DEF Dying, DyingPCs
    <3>3. CONDEMNED \in flags'[s] BY <1>4, <2>1 DEF CONDEMNED, IN_USE
    <3> QED BY <3>2, <3>3 DEF Account
  <2>2. CASE CONDEMNED \notin flags[s] /\ s = Dummy
    <3>1. phase'[s] = "free" BY <1>1, <2>2, TypeParts DEF HistoryTyped
    <3> QED BY <3>1, Unaccounted
  <2>3. CASE CONDEMNED \notin flags[s] /\ s # Dummy
    <3>1. phase'[s] = phase[s] BY <1>1, <2>3
    <3>2. IGNORE \notin flags[s] /\ Kept(s) BY <1>0, <2>3 DEF Account
    <3>3. Owed(s) => Owed(s)' BY <1>3 DEF Owed, Alone
    <3>4. \A w \in Waiters : pc'[w] = pc[w] /\ msg'[w] = msg[w] BY <1>3 DEF Alone
    <3>5. Kept(s)' BY <1>1, <3>2, <3>3, <3>4, KeptIs
    <3> QED BY <1>4, <2>3, <3>2, <3>5 DEF Account
  <2> QED BY <2>1, <2>2, <2>3
<1> QED BY <1>s, <1>1, <1>3, <1>4, <1>5, AccountMoves

LEMMA ReplyAccount ==
  ASSUME OneEach, TypeOK, AgateInv, Accounted, Wanted, NEW c \in Consumers,
         ReplyIgnored(c) \/ SetReady(c)
  PROVE  Accounted'
<1> USE Const
<1>s. PICK s \in Slots : s = msg[c] BY TypeParts DEF LocalsTyped
<1>p. pc[c] \in {"handle", "setReady"} BY DEF ReplyIgnored, SetReady
<1>0. phase[s] = "handling" /\ s = previousReceived /\ IN_USE \in flags[s] /\ Account(s)
  BY <1>s, <1>p, HandSlot DEF Accounted
<1>1. /\ phase' = [phase EXCEPT ![s] = "answered"]
      /\ UNCHANGED <<previousReceived, holders>>
      /\ \E l : Goto(c, l)
  BY <1>s DEF ReplyIgnored, SetReady, CondemnBy, Destroy, Become, ends
<1>2. \A u \in Threads \ {c} :
        /\ msg'[u] = msg[u] /\ old'[u] = old[u]
        /\ reg'[u] = reg[u] /\ nxt'[u] = nxt[u] /\ ret'[u] = ret[u]
  BY TypeParts DEF ReplyIgnored, SetReady, CondemnBy, Destroy, Forget, LocalsTyped
<1>3. Alone(c) /\ c \notin Producers /\ c \notin Waiters BY <1>1, <1>2, Goes
<1>4. /\ phase'[s] = "answered" /\ \A x \in Slots \ {s} : phase'[x] = phase[x]
      /\ \A r : r = previousReceived => Held(r)'
      /\ pc[c] \notin DyingPCs /\ pc[c] # "freeHold"
  BY <1>p, <1>1, TypeParts DEF HistoryTyped, Held, DyingPCs
<1>5. CASE ReplyIgnored(c)
  <2>1. flags' = [flags EXCEPT ![s] = @ \cup {CONDEMNED}]
    BY <1>s, <1>5 DEF ReplyIgnored, CondemnBy
  <2>2. CONDEMNED \in flags'[s] /\ \A x \in Slots \ {s} : flags'[x] = flags[x]
    BY <2>1, TypeParts DEF FieldsTyped
  <2>3. Account(s)' BY <1>0, <1>4, <2>2 DEF Account
  <2> QED BY <1>1, <1>3, <1>4, <2>2, <2>3, AccountMoves
<1>6. CASE SetReady(c)
  <2>1. flags' = flags /\ IGNORE \notin flags[s] BY <1>s, <1>6 DEF SetReady, Wanted
  <2>2. Dying(s) => Dying(s)' BY <1>3, <1>4 DEF Dying, Alone
  <2>3. Owed(s) => Owed(s)' BY <1>3 DEF Owed, Alone
  <2>4. \A w \in Waiters : pc'[w] = pc[w] /\ msg'[w] = msg[w] BY <1>3 DEF Alone
  <2>5. Kept(s) => Kept(s)' BY <1>1, <2>3, <2>4, KeptIs
  <2>6. Account(s)' BY <1>0, <1>4, <2>1, <2>2, <2>5 DEF Account
  <2> QED BY <1>1, <1>3, <1>4, <2>1, <2>6, AccountMoves
<1> QED BY <1>5, <1>6

LEMMA ReturnAccount ==
  ASSUME OneEach, TypeOK, AgateInv, Accounted, NEW t \in Threads, Return(t)
  PROVE  Accounted'
<1> USE Const
<1>0. ~SingleProducer /\ ~AtEnd /\ pc[t] # "returnLink"
  BY DEF AgateInv, Proper, SingleProducer, AtEnd
<1>a. Cleanup(t) \/ ReturnLoad(t) \/ ReturnStore(t) \/ ReturnCas(t) \/ Release(t)
  BY <1>0 DEF Return, ReturnSwap, ReturnLink
<1>p. pc[t] \in ReturnPCs /\ pc[t] # "freeHold" /\ pc[t] \notin HandlePCs
  BY <1>a DEF Cleanup, ReturnLoad, ReturnStore, ReturnCas, Release, ReturnPCs, HandlePCs
<1>b. t \notin Producers BY <1>p, Returner
<1>s. PICK s \in Slots : s = old[t] BY TypeParts DEF LocalsTyped
<1>1. UNCHANGED <<previousReceived, holders, msg>> /\ \A r : r = previousReceived => Held(r)'
  BY <1>a DEF Cleanup, ReturnLoad, ReturnStore, ReturnCas, Release, ends, locals, Held
<1>2. \A u \in Threads \ {t} :
        /\ msg'[u] = msg[u] /\ old'[u] = old[u]
        /\ reg'[u] = reg[u] /\ nxt'[u] = nxt[u] /\ ret'[u] = ret[u]
  BY <1>a, TypeParts DEF Cleanup, ReturnLoad, ReturnStore, ReturnCas, Release, Forget,
     locals, LocalsTyped
<1>3. Alone(t) BY <1>2, ReturnWalks, Goes
<1>4. CASE Cleanup(t)
  <2>1. /\ flags' = [flags EXCEPT ![s] = {}] /\ Goto(t, "return")
        /\ UNCHANGED <<phase, old>>
    BY <1>s, <1>4 DEF Cleanup, locals, hist
  <2>2. flags'[s] = {} /\ \A x \in Slots \ {s} : flags'[x] = flags[x]
    BY <2>1, TypeParts DEF FieldsTyped
  <2>3. pc'[t] = "return" /\ old'[t] = s BY <1>s, <1>2, <2>1, Goes
  <2>4. Dying(s)' BY <2>3 DEF Dying, DyingPCs
  <2>5. Account(s)' BY <2>2, <2>4 DEF Account
  <2> QED BY <1>s, <1>b, <1>p, <1>1, <1>3, <2>1, <2>2, <2>5, AccountMoves
<1>5. CASE ReturnCas(t) /\ FreeEnd = reg[t]
  <2>1. phase' = [phase EXCEPT ![s] = "free"] /\ flags' = flags
    BY <1>s, <1>5 DEF ReturnCas, Become, msgVars
  <2>2. phase'[s] = "free" /\ \A x \in Slots \ {s} : phase'[x] = phase[x]
    BY <2>1, TypeParts DEF HistoryTyped
  <2>3. Account(s)' BY <2>2, Unaccounted
  <2> QED BY <1>s, <1>b, <1>p, <1>1, <1>3, <2>1, <2>2, <2>3, AccountMoves
<1>6. CASE \/ ReturnLoad(t) \/ ReturnStore(t) \/ Release(t)
           \/ ReturnCas(t) /\ FreeEnd # reg[t]
  <2>1. UNCHANGED <<phase, flags>>
    BY <1>6 DEF ReturnLoad, ReturnStore, ReturnCas, Release, msgVars, hist
  <2>2. ASSUME pc[t] \in DyingPCs PROVE pc'[t] \in DyingPCs /\ old'[t] = old[t]
    <3>1. old' = old /\ \E l \in DyingPCs : Goto(t, l)
      BY <1>6, <2>2 DEF ReturnLoad, ReturnStore, ReturnCas, Release, DyingPCs, locals
    <3> QED BY <1>2, <3>1, Goes
  <2> QED BY <1>b, <1>p, <1>1, <1>3, <2>1, <2>2, AccountSame
<1> QED BY <1>a, <1>4, <1>5, <1>6

LEMMA HandleAccount ==
  ASSUME OneEach, TypeOK, AgateInv, Accounted, NEW w \in Waiters, NEW s \in Slots,
         Copy(w, s) \/ \E l \in UserPCs : UseHandle(w, s, l)
  PROVE  Accounted'
<1> USE Const
<1>1. /\ pc[w] = "idle" /\ UNCHANGED <<phase, flags, previousReceived>>
      /\ \A x \in Slots \ {s} : holders'[x] = holders[x]
      /\ \/ pc' = pc /\ msg' = msg /\ holders'[s] = holders[s] + 1
         \/ \E l \in UserPCs : Goto(w, l) /\ msg' = [msg EXCEPT ![w] = s]
  BY TypeParts DEF Copy, UseHandle, msgVars, ends, locals, hist, HistoryTyped
<1>2. \A u \in Threads \ {w} :
        /\ msg'[u] = msg[u] /\ old'[u] = old[u]
        /\ reg'[u] = reg[u] /\ nxt'[u] = nxt[u] /\ ret'[u] = ret[u]
  BY TypeParts DEF Copy, UseHandle, locals, LocalsTyped
<1>3. /\ Alone(w) /\ w \notin Producers /\ w \notin Consumers
      /\ Kept(s)'
  <2>1. CASE pc' = pc /\ msg' = msg /\ holders'[s] = holders[s] + 1
    <3>1. holders'[s] > 0 BY <2>1, TypeParts DEF HistoryTyped
    <3> QED BY <1>2, <2>1, <3>1, KeptIs DEF Alone
  <2>2. ASSUME NEW l \in UserPCs, Goto(w, l), msg' = [msg EXCEPT ![w] = s]
        PROVE  Alone(w) /\ Kept(s)'
    <3>1. Alone(w) /\ pc'[w] = l BY <1>2, <2>2, Goes
    <3>2. msg'[w] = s BY <2>2, TypeParts DEF LocalsTyped
    <3>3. pc'[w] \in HandlePCs BY <3>1 DEF HandlePCs, UserPCs
    <3> QED BY <3>1, <3>2, <3>3, KeptIs
  <2> QED BY <1>1, <2>1, <2>2
<1>4. Dying(s) => Dying(s)' BY <1>1, <1>3 DEF Dying, DyingPCs, Alone
<1>5. Held(s) => Held(s)' BY <1>1, <1>3 DEF Held, Alone
<1>6. Account(s)' BY <1>1, <1>3, <1>4, <1>5, AccountStays DEF Accounted
<1>7. pc[w] \notin DyingPCs /\ pc[w] \notin HandlePCs
      /\ \A r : r = previousReceived => Held(r)'
  BY <1>1 DEF DyingPCs, HandlePCs, Held
<1> QED BY <1>1, <1>3, <1>6, <1>7, AccountMoves

LEMMA CollectAccount ==
  ASSUME OneEach, TypeOK, AgateInv, Accounted, NEW w \in Waiters, Collect(w)
  PROVE  Accounted'
<1> USE Const
<1>1. /\ pc[w] = "collect" /\ Goto(w, "drop") /\ msg' = msg
      /\ UNCHANGED <<phase, flags, holders, previousReceived>>
  BY DEF Collect, locals, msgVars, ends, hist
<1>2. \A u \in Threads \ {w} :
        /\ msg'[u] = msg[u] /\ old'[u] = old[u]
        /\ reg'[u] = reg[u] /\ nxt'[u] = nxt[u] /\ ret'[u] = ret[u]
  BY DEF Collect, locals
<1>3. Alone(w) /\ w \notin Producers /\ w \notin Consumers /\ pc'[w] = "drop"
  BY <1>1, <1>2, Goes
<1>4. pc[w] \notin DyingPCs /\ pc'[w] \in HandlePCs BY <1>1, <1>3 DEF DyingPCs, HandlePCs
<1> QED BY <1>1, <1>3, <1>4, AccountSame

\* Unless it is the last handle that is let go of, another one is left.
LEMMA DropAccount ==
  ASSUME OneEach, TypeOK, AgateInv, Accounted, NEW w \in Waiters, DropHandle(w)
  PROVE  Accounted'
<1> USE Const
<1>s. PICK s \in Slots : s = msg[w] BY TypeParts DEF LocalsTyped
<1>p. pc[w] = "drop" BY DEF DropHandle
<1>0. w \in Users(s) /\ openHandles[s] = Open(s)
  <2>1. w \in Users(s) BY <1>s, <1>p DEF Users, UserPCs
  <2> QED BY <2>1, OpenTyped DEF AgateInv, HandleShape
<1>1. /\ UNCHANGED <<phase, flags, holders, previousReceived>>
      /\ \/ openHandles[s] = 1 /\ Goto(w, "condemn") /\ msg' = msg
         \/ openHandles[s] # 1 /\ Goto(w, "idle")
  BY <1>s DEF DropHandle, ends, hist
<1>2. \A u \in Threads \ {w} :
        /\ msg'[u] = msg[u] /\ old'[u] = old[u]
        /\ reg'[u] = reg[u] /\ nxt'[u] = nxt[u] /\ ret'[u] = ret[u]
  BY TypeParts DEF DropHandle, Forget, LocalsTyped
<1>3. Alone(w) /\ w \notin Producers /\ w \notin Consumers BY <1>1, <1>2, Goes
<1>4. Kept(s)'
  <2>1. CASE openHandles[s] = 1 /\ Goto(w, "condemn") /\ msg' = msg
    <3>1. pc'[w] = "condemn" BY <1>2, <2>1, Goes
    <3> QED BY <1>s, <2>1, <3>1 DEF Kept
  <2>2. CASE openHandles[s] # 1
    <3>1. holders[s] > 0 \/ Users(s) # {w}
      <4>1. ASSUME holders[s] = 0, Users(s) = {w} PROVE FALSE
        <5>1. Cardinality({w}) = 1 BY FS_Singleton
        <5>2. Cardinality(Users(s)) = 1 BY <4>1, <5>1
        <5> QED BY <1>0, <2>2, <4>1, <5>2 DEF Open
      <4> QED BY <4>1, TypeParts DEF HistoryTyped
    <3>2. CASE holders[s] > 0 BY <1>1, <3>2 DEF Kept
    <3>3. CASE Users(s) # {w}
      <4>1. PICK u \in Users(s) : u # w BY <1>0, <3>3
      <4>2. u \in Waiters /\ msg'[u] = s /\ pc'[u] \in UserPCs BY <1>3, <4>1 DEF Users, Alone
      <4> QED BY <4>2, KeptIs DEF UserPCs, HandlePCs
    <3> QED BY <3>1, <3>2, <3>3
  <2> QED BY <1>1, <2>1, <2>2
<1>5. Dying(s) => Dying(s)' BY <1>p, <1>3 DEF Dying, DyingPCs, Alone
<1>6. Held(s) => Held(s)' BY <1>1, <1>3 DEF Held, Alone
<1>7. Account(s)' BY <1>1, <1>4, <1>5, <1>6, AccountStays DEF Accounted
<1>8. pc[w] \notin DyingPCs /\ \A r : r = previousReceived => Held(r)'
  BY <1>p, <1>1 DEF DyingPCs, Held
<1> QED BY <1>s, <1>1, <1>3, <1>7, <1>8, AccountMoves

(* A message that is answered and in use is held, so free_hold is still to *)
(* come; if it is not in use it is returned at once.                       *)
LEMMA CondemnAccount ==
  ASSUME OneEach, TypeOK, AgateInv, Accounted, NEW w \in Waiters, Condemn(w)
  PROVE  Accounted'
<1> USE Const
<1>s. PICK s \in Slots : s = msg[w] BY TypeParts DEF LocalsTyped
<1>p. pc[w] = "condemn" BY DEF Condemn
<1>0. Signalable(s) /\ ~Dying(s) /\ s # Dummy
  BY <1>s, <1>p DEF AgateInv, HandleShape, Signalable
<1>1. /\ flags' = [flags EXCEPT ![s] = @ \cup {CONDEMNED}]
      /\ UNCHANGED <<phase, holders, previousReceived>>
      /\ \/ IN_USE \in flags[s] /\ Goto(w, "idle")
         \/ IN_USE \notin flags[s] /\ Goto(w, "cleanup") /\ old' = [old EXCEPT ![w] = s]
  BY <1>s DEF Condemn, CondemnBy, InUse, Destroy, ends, hist
<1>2. \A u \in Threads \ {w} :
        /\ msg'[u] = msg[u] /\ old'[u] = old[u]
        /\ reg'[u] = reg[u] /\ nxt'[u] = nxt[u] /\ ret'[u] = ret[u]
  BY TypeParts DEF Condemn, CondemnBy, Destroy, Forget, LocalsTyped
<1>3. Alone(w) /\ w \notin Producers /\ w \notin Consumers BY <1>1, <1>2, Goes
<1>4. CONDEMNED \in flags'[s] /\ \A x \in Slots \ {s} : flags'[x] = flags[x]
  BY <1>1, TypeParts DEF FieldsTyped
<1>5. Held(s) => Held(s)' BY <1>1, <1>3 DEF Held, Alone
<1>6. phase[s] = "answered" => Held(s)' \/ Dying(s)'
  <2>1. CASE IN_USE \in flags[s]
    <3>1. phase[s] = "answered" => Held(s) BY <1>0, <2>1 DEF Accounted, Account
    <3> QED BY <1>5, <3>1
  <2>2. CASE IN_USE \notin flags[s]
    <3>1. Goto(w, "cleanup") /\ old' = [old EXCEPT ![w] = s] BY <1>1, <2>2
    <3>2. pc'[w] = "cleanup" /\ old'[w] = s BY <1>2, <3>1, Goes, TypeParts DEF LocalsTyped
    <3> QED BY <3>2 DEF Dying, DyingPCs
  <2> QED BY <2>1, <2>2
<1>7. Account(s)' BY <1>1, <1>4, <1>6 DEF Account
<1>8. pc[w] \notin DyingPCs /\ \A r : r = previousReceived => Held(r)'
  BY <1>p, <1>1 DEF DyingPCs, Held
<1> QED BY <1>s, <1>1, <1>3, <1>4, <1>7, <1>8, AccountMoves

LEMMA AccountStep ==
  ASSUME OneEach, TypeOK, AgateInv, Accounted, Wanted, [Next]_vars
  PROVE  Accounted'
<1> USE Const
<1>0. ~SingleProducer /\ \A t \in Threads : pc[t] \notin {"pop", "fetch"}
  BY DEF AgateInv, Proper, SingleProducer
<1>1. CASE UNCHANGED vars
  BY <1>1 DEF Accounted, Account, Dying, Kept, Held, vars, msgVars, ends, locals, hist
<1>2. ASSUME NEW p \in Producers, Produce(p) PROVE Accounted'
  <2>1. ~PopSingle(p) /\ \A f \in SendFlags : ~SendSingle(p, f)
    BY <1>0 DEF PopSingle, SendSingle
  <2> QED BY <1>2, <2>1, ProducerAccount DEF Produce
<1>3. ASSUME NEW c \in Consumers, Consume(c) PROVE Accounted'
  <2>1. ~Fetch(c) /\ c \in Threads BY <1>0 DEF Fetch
  <2> QED BY <1>3, <2>1, PeekAccount, RecvAccount, FreeHoldAccount, ReplyAccount, ReturnAccount
      DEF Consume
<1>4. ASSUME NEW w \in Waiters, Await(w) PROVE Accounted'
  BY <1>4, HandleAccount DEF Await, WaitReady, Discard, UserPCs
<1>5. ASSUME NEW w \in Waiters, Finish(w) PROVE Accounted'
  <2>1. w \in Threads OBVIOUS
  <2> QED BY <1>5, <2>1, DropAccount, CollectAccount, CondemnAccount, ReturnAccount DEF Finish
<1> QED BY <1>1, <1>2, <1>3, <1>4, <1>5 DEF Next

LEMMA WantedStays ==
  ASSUME TypeOK, AgateInv, Wanted, NEW t \in Threads, Alone(t),
         \A x \in Slots : phase[x] = "handling" /\ IGNORE \in flags'[x] => IGNORE \in flags[x],
         t \in Consumers /\ pc'[t] = "setReady" => IGNORE \notin flags'[msg'[t]]
  PROVE  Wanted'
<1> SUFFICES ASSUME NEW c \in Consumers, c # t, pc'[c] = "setReady"
             PROVE  IGNORE \notin flags'[msg'[c]]
  BY DEF Wanted
<1>1. pc[c] = "setReady" /\ msg'[c] = msg[c] /\ msg[c] \in Slots
  BY Const, TypeParts DEF Alone, LocalsTyped
<1>2. phase[msg[c]] = "handling" BY <1>1 DEF AgateInv, RecvShape, InHand
<1> QED BY <1>1, <1>2 DEF Wanted

LEMMA WantedStep ==
  ASSUME OneEach, TypeOK, AgateInv, Wanted, [Next]_vars
  PROVE  Wanted'
<1> USE Const
<1>t. /\ flags \in [Slots -> SUBSET AllFlags] /\ pc \in [Threads -> AllPCs]
      /\ msg \in [Threads -> Slots] /\ old \in [Threads -> Slots]
  BY TypeParts DEF FieldsTyped, PcTyped, LocalsTyped
<1>1. CASE UNCHANGED vars BY <1>1 DEF Wanted, vars, msgVars, locals
<1>2. ASSUME NEW p \in Producers, Produce(p) PROVE Wanted'
  <2>1. \A u \in Threads \ {p} :
          /\ msg'[u] = msg[u] /\ old'[u] = old[u]
          /\ reg'[u] = reg[u] /\ nxt'[u] = nxt[u] /\ ret'[u] = ret[u]
    BY <1>2, TypeParts DEF Produce, AcquireSlot, PopSingle, LoadFree, PopRead, PopCas, SendSingle,
       SendLoad, SendLink, SendCas, Count, Forget, locals, LocalsTyped
  <2>2. Alone(p) /\ p \notin Consumers BY <1>2, <2>1, ProducerWalks, Goes
  <2>3. \/ flags' = flags
        \/ pc[p] = "send" /\ \E f \in SendFlags : flags' = Flagged(msg[p], f)
    BY <1>2 DEF Produce, AcquireSlot, PopSingle, LoadFree, PopRead, PopCas, SendSingle,
       SendLoad, SendLink, SendCas, Count, msgVars
  <2>4. pc[p] = "send" => phase[msg[p]] = "claimed" BY DEF AgateInv, SendShape
  <2>5. \A x \in Slots : phase[x] = "handling" => flags'[x] = flags[x]
    BY <1>t, <2>3, <2>4 DEF Flagged
  <2> QED BY <2>2, <2>5, WantedStays
<1>3. ASSUME NEW t \in Threads, Return(t) PROVE Wanted'
  <2>1. \A u \in Threads \ {t} :
          /\ msg'[u] = msg[u] /\ old'[u] = old[u]
          /\ reg'[u] = reg[u] /\ nxt'[u] = nxt[u] /\ ret'[u] = ret[u]
    BY <1>3, TypeParts DEF Return, Cleanup, ReturnSwap, ReturnLoad, ReturnStore, ReturnCas,
       ReturnLink, Release, Forget, locals, LocalsTyped
  <2>2. Alone(t) BY <1>3, <2>1, ReturnWalks, Goes
  <2>3. flags' = flags \/ flags' = [flags EXCEPT ![old[t]] = {}]
    BY <1>3 DEF Return, Cleanup, ReturnSwap, ReturnLoad, ReturnStore, ReturnCas,
       ReturnLink, Release, msgVars
  <2>4. \A x \in Slots : IGNORE \in flags'[x] => IGNORE \in flags[x] BY <1>t, <2>3
  <2>5. \E l : Goto(t, l) /\ (t \in Consumers => l # "setReady")
    <3>1. CASE Release(t)
      BY <3>1 DEF Release, AgateInv, Proper
    <3>2. CASE ~Release(t)
      BY <1>3, <3>2 DEF Return, Cleanup, ReturnSwap, ReturnLoad, ReturnStore, ReturnCas, ReturnLink
    <3> QED BY <3>1, <3>2
  <2>6. t \in Consumers => pc'[t] # "setReady" BY <2>1, <2>5, Goes
  <2> QED BY <2>2, <2>4, <2>6, WantedStays
<1>4. ASSUME NEW c \in Consumers, Consume(c), ~Return(c) PROVE Wanted'
  <2>1. \E l : Goto(c, l)
    BY <1>4 DEF Consume, TakeQueued, Fetch, RecvLoad, RecvRead, RecvCas, Receive, FreeHold,
       Destroy, ReplyIgnored, CondemnBy, ReplyStatus, SetReady, Reach
  <2>2. \A u \in Threads \ {c} :
          /\ msg'[u] = msg[u] /\ old'[u] = old[u]
          /\ reg'[u] = reg[u] /\ nxt'[u] = nxt[u] /\ ret'[u] = ret[u]
    BY <1>4, TypeParts DEF Consume, TakeQueued, Fetch, RecvLoad, RecvRead, RecvCas, Receive,
       FreeHold, Destroy, ReplyIgnored, CondemnBy, ReplyStatus, SetReady, Forget, locals,
       LocalsTyped
  <2>3. Alone(c) BY <2>1, <2>2, Goes
  <2>4. \/ flags' = flags
        \/ flags' = [flags EXCEPT ![old[c]] = @ \ {IN_USE}]
        \/ flags' = [flags EXCEPT ![msg[c]] = @ \cup {CONDEMNED}]
    BY <1>4 DEF Consume, TakeQueued, Fetch, RecvLoad, RecvRead, RecvCas, FreeHold,
       ReplyIgnored, CondemnBy, ReplyStatus, SetReady, msgVars
  <2>5. \A x \in Slots : IGNORE \in flags'[x] => IGNORE \in flags[x]
    BY <1>t, <2>4 DEF IGNORE, CONDEMNED
  <2>6. CASE \E result \in Results : ReplyStatus(c, result)
    <3>1. flags' = flags /\ msg' = msg /\ IGNORE \notin flags[msg[c]]
      BY <2>6 DEF ReplyStatus, locals
    <3> QED BY <2>3, <3>1, WantedStays
  <2>7. CASE ~ \E result \in Results : ReplyStatus(c, result)
    <3>1. \E l : Goto(c, l) /\ l # "setReady"
      BY <1>4, <2>7 DEF Consume, TakeQueued, Fetch, RecvLoad, RecvRead, RecvCas, Receive, FreeHold,
         Destroy, ReplyIgnored, CondemnBy, SetReady, Reach
    <3>2. pc'[c] # "setReady" BY <2>2, <3>1, Goes
    <3> QED BY <2>3, <2>5, <3>2, WantedStays
  <2> QED BY <2>6, <2>7
<1>5. ASSUME NEW w \in Waiters, Await(w) \/ Finish(w), ~Return(w) PROVE Wanted'
  <2>1. \A u \in Threads \ {w} :
          /\ msg'[u] = msg[u] /\ old'[u] = old[u]
          /\ reg'[u] = reg[u] /\ nxt'[u] = nxt[u] /\ ret'[u] = ret[u]
    BY <1>5, TypeParts DEF Await, Copy, WaitReady, Discard, UseHandle, Finish, Collect, DropHandle,
       Condemn, CondemnBy, Destroy, Forget, locals, LocalsTyped
  <2>2. Alone(w)
    <3>1. CASE pc' = pc BY <2>1, <3>1 DEF Alone
    <3>2. CASE \E l : Goto(w, l) BY <2>1, <3>2, Goes
    <3> QED BY <1>5, <3>1, <3>2, WaiterWalks
  <2>3. flags' = flags \/ flags' = [flags EXCEPT ![msg[w]] = @ \cup {CONDEMNED}]
    BY <1>5 DEF Await, Copy, WaitReady, Discard, UseHandle, Finish, Collect, DropHandle, Condemn,
       CondemnBy, msgVars
  <2>4. \A x \in Slots : IGNORE \in flags'[x] => IGNORE \in flags[x]
    BY <1>t, <2>3 DEF IGNORE, CONDEMNED
  <2>5. w \notin Consumers OBVIOUS
  <2> QED BY <2>2, <2>4, <2>5, WantedStays
<1> QED BY <1>1, <1>2, <1>3, <1>4, <1>5 DEF Next

LEMMA AccountAlways ==
  ASSUME OneEach PROVE Spec => [](TypeOK /\ AgateInv /\ Placed /\ Accounted /\ Wanted)
<1>1. Init => TypeOK /\ AgateInv /\ Placed /\ Accounted /\ Wanted
  <2> SUFFICES ASSUME Init PROVE TypeOK /\ AgateInv /\ Placed /\ Accounted /\ Wanted OBVIOUS
  <2>1. Accounted BY Const DEF Init, Accounted, Account, Held
  <2>2. Wanted BY Const DEF Init, Wanted
  <2> QED BY <2>1, <2>2, AgateStarts, PlacedStarts
<1>2. TypeOK /\ AgateInv /\ Placed /\ Accounted /\ Wanted /\ [Next]_vars
        => (TypeOK /\ AgateInv /\ Placed /\ Accounted /\ Wanted)'
  BY AgateStep, PlacedStep, AccountStep, WantedStep
<1> QED BY <1>1, <1>2, PTL DEF Spec

----------------------------------------------------------------------------
(* Theorems                                                                *)

(* Every variable has its type: the code never tests for the end of a      *)
(* list, and no thread leaves the slots all the same.                      *)
THEOREM TypeCorrect == ASSUME OneEach PROVE Spec => []TypeOK
BY AgateAlways, PTL

\* The pool is as large as the list through it is long.
LEMMA PoolSize ==
  ASSUME TypeOK, NEW q \in Seq(Slots), Pool(q)
  PROVE  Cardinality(Free \ {Dummy}) = Len(q) /\ IsFiniteSet(Free \ {Dummy})
<1> DEFINE S == Free \ {Dummy}
<1>1. Len(q) \in Nat /\ \A i \in 1 .. Len(q) : q[i] \in Slots OBVIOUS
<1>2. \A i \in 1 .. Len(q) : q[i] \in S BY <1>1 DEF Pool, Free
<1>3. \A x \in S : \E i \in 1 .. Len(q) : q[i] = x BY DEF Pool, Free
<1> HIDE DEF S
<1> DEFINE f == [i \in 1 .. Len(q) |-> q[i]]
<1>4. f \in [1 .. Len(q) -> S] BY <1>2
<1>5. \A i, j \in 1 .. Len(q) : f[i] = f[j] => i = j BY DEF Pool
<1>6. \A x \in S : \E i \in 1 .. Len(q) : f[i] = x BY <1>3
<1>7. DOMAIN f = 1 .. Len(q) OBVIOUS
<1> HIDE DEF f
<1>8. f \in Bijection(1 .. Len(q), S)
  BY <1>4, <1>5, <1>6, <1>7 DEF Bijection, Injection, Surjection, IsInjective
<1>9. ExistsBijection(1 .. Len(q), S) BY <1>8 DEF ExistsBijection
<1>10. Cardinality(S) = Len(q) BY <1>1, <1>9, FS_CountingElements
<1>11. IsFiniteSet(S) BY <1>1, <1>9, FS_NatBijection
<1> QED BY <1>10, <1>11 DEF S

\* The free slots but the constructor's are as many as the permits.
LEMMA FreeCounted ==
  ASSUME OneEach, TypeOK, AgateInv
  PROVE  \E spare \in N - 1 - Permits(kind) .. N - Permits(kind) :
           Cardinality(Free) = slotSemaphore + Cardinality(Popping)
                                 + Cardinality(Releasing) + spare
<1> USE Const
<1>1. PICK q \in Seq(Slots) : Pool(q) BY DEF AgateInv, PoolShape
<1>2. Cardinality(Free \ {Dummy}) = Len(q) /\ IsFiniteSet(Free \ {Dummy})
  BY <1>1, PoolSize
<1>3. N - 1 - Permits(kind) = 0 /\ N - Permits(kind) = 1
  BY DEF AgateInv, Proper, Permits
<1>4. Len(q) \in Nat
      /\ Len(q) = slotSemaphore + Cardinality(Popping) + Cardinality(Releasing)
  BY <1>1 DEF Pool
<1>5. slotSemaphore \in Nat /\ Cardinality(Popping) \in Nat /\ Cardinality(Releasing) \in Nat
  BY CountsNat, CountsTyped
<1>6. CASE Dummy \in Free
  <2>1. Free = (Free \ {Dummy}) \cup {Dummy} BY <1>6
  <2>2. Cardinality((Free \ {Dummy}) \cup {Dummy}) = Cardinality(Free \ {Dummy}) + 1
    BY <1>2, FS_AddElement
  <2>3. Cardinality(Free) = Len(q) + 1 BY <1>2, <2>1, <2>2
  <2>4. Cardinality(Free) = slotSemaphore + Cardinality(Popping) + Cardinality(Releasing) + 1
    BY <1>4, <1>5, <2>3
  <2>5. 1 \in N - 1 - Permits(kind) .. N - Permits(kind) BY <1>3
  <2> QED BY <2>4, <2>5
<1>7. CASE Dummy \notin Free
  <2>1. Free = Free \ {Dummy} BY <1>7
  <2>2. Cardinality(Free) = Len(q) BY <1>2, <2>1
  <2>4. Cardinality(Free) = slotSemaphore + Cardinality(Popping) + Cardinality(Releasing) + 0
    BY <1>4, <1>5, <2>2
  <2>5. 0 \in N - 1 - Permits(kind) .. N - Permits(kind) BY <1>3
  <2> QED BY <2>4, <2>5
<1> QED BY <1>6, <1>7

(* A message that was answered is returned by one thread, when it is       *)
(* neither kept nor held, and by none before.                              *)
LEMMA AnsweredCounted ==
  ASSUME OneEach, TypeOK, AgateInv, Accounted, NEW s \in Slots, phase[s] = "answered"
  PROVE  IF Kept(s) \/ Held(s) THEN Returners(s) = {}
         ELSE \E t \in Threads : Returners(s) = {t}
<1> USE Const DEF AgateInv
<1>1. Returners(s) = {t \in Threads : old[t] = s /\ pc[t] \in DyingPCs}
  BY DEF Returners, DyingPCs
<1>2. Dying(s) => \E t \in Threads : Returners(s) = {t}
  <2>1. SUFFICES ASSUME NEW t \in Threads, pc[t] \in DyingPCs, old[t] = s
                 PROVE  Returners(s) = {t}
    BY DEF Dying
  <2>2. \A u \in Threads : pc[u] \in DyingPCs /\ old[u] = s => u = t BY <2>1 DEF DyingShape
  <2> QED BY <1>1, <2>1, <2>2
<1>3. ~Dying(s) => Returners(s) = {} BY <1>1 DEF Dying
<1>4. Kept(s) => ~Dying(s)
  <2>1. ~Owed(s)
    <3>1. ASSUME NEW p \in Producers, pc[p] = "count", msg[p] = s PROVE FALSE
      BY <3>1, QueueEnd DEF SendShape
    <3> QED BY <3>1 DEF Owed
  <2>2. ASSUME NEW w \in Waiters, msg[w] = s, pc[w] \in HandlePCs PROVE Signalable(s)
    <3>1. CASE pc[w] = "condemn" BY <2>2, <3>1 DEF HandleShape
    <3>2. CASE pc[w] # "condemn"
      <4>1. w \in Users(s) BY <2>2, <3>2 DEF Users, UserPCs, HandlePCs
      <4> QED BY <4>1, OpenTyped DEF HandleShape
    <3> QED BY <3>1, <3>2
  <2>3. holders[s] > 0 => Signalable(s) BY OpenTyped DEF HandleShape
  <2> QED BY <2>1, <2>2, <2>3, KeptIs DEF Signalable
<1>5. Held(s) => ~Dying(s)
  <2>1. s = previousReceived => ~Dying(s) BY DEF Dying, DyingShape
  <2>2. ASSUME NEW c \in Consumers, pc[c] = "freeHold", old[c] = s PROVE ~Dying(s)
    BY <2>2, HeldSlot
  <2> QED BY <2>1, <2>2 DEF Held
<1>6. ~Kept(s) /\ ~Held(s) => Dying(s)
  BY DEF Accounted, Account, IGNORE, CONDEMNED, IN_USE
<1> QED BY <1>2, <1>3, <1>4, <1>5, <1>6

(* No slot is lost and none returned twice.  The free slots are those that *)
(* permits stand for, those about to be released, and the constructor's    *)
(* when its message has been let go of.  Every other slot is filled by the *)
(* producer, queued, or handled by the consumer; and once answered, one    *)
(* thread returns it, as soon as neither a signal keeps it nor the mailbox *)
(* holds it, and none before.                                              *)
THEOREM SlotsConservedCorrect == ASSUME OneEach PROVE Spec => []SlotsConserved
<1>1. ASSUME TypeOK, AgateInv, Placed, Accounted PROVE SlotsConserved
  <2> USE <1>1
  <2>1. ASSUME NEW s \in Slots
        PROVE  /\ phase[s] = "claimed" =>
                    \E p \in Producers : msg[p] = s /\ pc[p] \in {"send", "sendLink", "sendCas"}
               /\ phase[s] = "queued" => \E i \in DOMAIN fifo : fifo[i] = s
               /\ phase[s] = "handling" => \E c \in Consumers : msg[c] = s /\ InHand(c)
    <3>1. DOMAIN fifo = 1 .. Len(fifo) BY QueueEnd DEF AgateInv
    <3>2. phase[s] = "queued" => \E i \in DOMAIN fifo : fifo[i] = s
      BY <3>1 DEF AgateInv, QueueShape
    <3> QED BY <3>2 DEF Placed, Fills, Serves, SendPCs
  <2> QED BY <2>1, FreeCounted, AnsweredCounted DEF SlotsConserved
<1> QED BY <1>1, AccountAlways, PTL

(* A thread with a permit finds a slot: the links from nextFreeSlot lead   *)
(* through as many free slots as there are permits, given out or not.      *)
THEOREM PermitsBackedCorrect == ASSUME OneEach PROVE Spec => []PermitsBacked
<1>1. ASSUME TypeOK, AgateInv PROVE PermitsBacked
  <2> USE <1>1, Const
  <2> DEFINE permits == slotSemaphore + Cardinality(Popping)
  <2>1. PICK q \in Seq(Slots) : Pool(q) BY DEF AgateInv, PoolShape
  <2>2. permits \in Nat /\ Len(q) \in Nat /\ permits <= Len(q)
    BY <2>1, CountsNat, CountsTyped DEF Pool
  <2> DEFINE list == [i \in 1 .. permits |-> q[i]]
  <2> HIDE DEF permits
  <2>3. \A i \in 1 .. permits : i \in 1 .. Len(q) /\ q[i] \in Free BY <2>1, <2>2 DEF Pool, Free
  <2>4. list \in [1 .. permits -> Free] BY <2>3
  <2>5. Distinct(list) BY <2>1, <2>3 DEF Distinct, Pool
  <2>6. permits > 0 => list[1] = nextFreeSlot
    <3>1. permits > 0 => 1 \in 1 .. permits /\ ~(1 > Len(q)) BY <2>2
    <3> QED BY <2>1, <3>1 DEF Pool, FreeAt
  <2>7. ASSUME NEW i \in 1 .. permits - 1 PROVE list[i + 1] = next[list[i]]
    <3>1. i \in 1 .. permits /\ i + 1 \in 1 .. permits BY <2>2
    <3>2. next[q[i]] = FreeAt(q, i + 1) BY <2>1, <2>3, <3>1 DEF Pool
    <3>3. ~(i + 1 > Len(q)) BY <2>2, <3>1
    <3> QED BY <3>1, <3>2, <3>3 DEF FreeAt
  <2> HIDE DEF list
  <2>8. \E l \in [1 .. permits -> Free] :
          /\ Distinct(l)
          /\ permits > 0 => l[1] = nextFreeSlot
          /\ \A i \in 1 .. permits - 1 : l[i + 1] = next[l[i]]
    BY <2>4, <2>5, <2>6, <2>7
  <2> QED BY <2>8 DEF PermitsBacked, permits
<1> QED BY <1>1, AgateAlways, PTL

(* The status that agt_signal_wait returns is one that the consumer        *)
(* replied with to this very message: neither what an earlier message in   *)
(* the slot left there, nor what is there before the reply.                *)
THEOREM ReplyIsOwnCorrect == ASSUME OneEach PROVE Spec => []ReplyIsOwn
<1>1. ASSUME TypeOK, AgateInv PROVE ReplyIsOwn
  <2> SUFFICES ASSUME NEW w \in Waiters, pc[w] = "collect"
               PROVE  answer[msg[w]] # "NOT_SET" /\ status[msg[w]] = answer[msg[w]]
    BY DEF ReplyIsOwn
  <2>1. PICK s \in Slots : s = msg[w] BY <1>1, Const, TypeParts DEF LocalsTyped
  <2>2. isReady[s] /\ SlotShape(s) BY <1>1, <2>1 DEF AgateInv, HandleShape, FieldShape
  <2> QED BY <2>1, <2>2 DEF SlotShape
<1> QED BY <1>1, AgateAlways, PTL

(* openHandles counts the handles somebody will still let go of, so the    *)
(* last of them, and no other, condemns the message.                       *)
THEOREM HandlesCountedCorrect == ASSUME OneEach PROVE Spec => []HandlesCounted
<1>1. ASSUME TypeOK, AgateInv PROVE HandlesCounted
  <2>1. \A s \in Slots : {w \in Waiters : msg[w] = s /\ pc[w] \in {"collect", "drop"}} = Users(s)
    BY DEF Users, UserPCs
  <2>2. \A s \in Slots : Open(s) > 0 => openHandles[s] = Open(s)
    BY <1>1 DEF AgateInv, HandleShape
  <2> QED BY <2>1, <2>2 DEF HandlesCounted, Open
<1> QED BY <1>1, AgateAlways, PTL

\* A receive that follows next finds the messages in the order of fifo.
LEMMA QueueFollows ==
  ASSUME TypeOK, QueueShape
  PROVE  QueueLinked
<1> DEFINE chain == <<previousReceived>> \o fifo
<1>1. fifo \in Seq(Slots) /\ Len(fifo) \in Nat /\ previousReceived \in Slots
  BY QueueEnd, TypeParts DEF EndsTyped
<1>2. chain[1] = previousReceived /\ \A i \in 1 .. Len(fifo) : chain[i + 1] = fifo[i]
  BY <1>1
<1> HIDE DEF chain
<1>3. ASSUME NEW i \in 1 .. Len(fifo) PROVE chain[i] = ChainAt(i - 1)
  <2>1. CASE i = 1 BY <1>2, <2>1 DEF ChainAt
  <2>2. CASE i # 1
    <3>1. PICK j \in 1 .. Len(fifo) : j = i - 1 /\ i = j + 1 BY <1>1, <2>2
    <3>2. j # 0 BY <1>1
    <3> QED BY <1>2, <3>1, <3>2 DEF ChainAt
  <2> QED BY <2>1, <2>2
<1>4. \A i \in 1 .. Len(fifo) : next[chain[i]] = chain[i + 1]
  BY <1>2, <1>3 DEF QueueShape
<1>5. queuedMessages <= Len(fifo) BY <1>1, CountsNat DEF QueueShape
<1> QED BY <1>4, <1>5 DEF QueueLinked, chain

(* A receive that follows next finds the messages in the order in which    *)
(* they were appended, and each counted message is there.                  *)
THEOREM QueueLinkedCorrect == ASSUME OneEach PROVE Spec => []QueueLinked
<1>1. TypeOK /\ AgateInv => QueueLinked BY QueueFollows DEF AgateInv
<1> QED BY <1>1, AgateAlways, PTL

----------------------------------------------------------------------------
(* RequestService: each step is the step of the service that its lemma     *)
(* names, or changes nothing the service shows.                            *)

ServiceStep == [Service!Next]_(Service!vars)

LEMMA NextOf ==
  ASSUME NEW s \in Slots,
         \/ Service!Claim(s) \/ Service!Submit(s) \/ Service!Take(s)
         \/ Service!Answer(s) \/ Service!Drop(s) \/ Service!Recycle(s)
  PROVE  ServiceStep
BY DEF Service!Next, ServiceStep

LEMMA SignalledAre ==
  /\ \A x : x \in Signalled <=>
       (x \in Slots /\ holders[x] > 0) \/ Users(x) # {} \/ Owed(x)
  /\ \A x : x \in Signalled' <=>
       (x \in Slots /\ holders'[x] > 0) \/ Users(x)' # {} \/ Owed(x)'
<1>1. \A x : x \in Signalled <=>
        (x \in Slots /\ holders[x] > 0) \/ Users(x) # {} \/ Owed(x)
  BY DEF Signalled, Users, Owed, UserPCs
<1>2. \A x : x \in Signalled' <=>
        (x \in Slots /\ holders'[x] > 0) \/ Users(x)' # {} \/ Owed(x)'
  BY DEF Signalled, Users, Owed, UserPCs, Slots
<1> QED BY <1>1, <1>2

\* The step of a thread that neither hands a signal out nor lets go of one.
LEMMA Unseen ==
  ASSUME NEW t \in Threads, Alone(t), UNCHANGED <<phase, fifo, previousReceived, holders>>,
         t \in Producers => (pc[t] # "count" /\ pc'[t] # "count"),
         t \in Waiters => \/ pc[t] \notin UserPCs /\ pc'[t] \notin UserPCs
                          \/ pc[t] \in UserPCs /\ pc'[t] \in UserPCs /\ msg'[t] = msg[t]
  PROVE  ServiceStep
<1>1. \A x : Users(x)' = Users(x) BY UsersSame
<1>2. \A x : Owed(x)' <=> Owed(x) BY OwedSame
<1>3. Signalled' = Signalled BY <1>1, <1>2, SignalledAre
<1> QED BY <1>3 DEF ServiceStep, Service!vars

LEMMA ProducerUnseen ==
  ASSUME OneEach, TypeOK, AgateInv, NEW p \in Producers,
         \/ AcquireSlot(p) \/ LoadFree(p) \/ PopRead(p)
         \/ PopCas(p) /\ nextFreeSlot # reg[p]
         \/ \E f \in SendFlags : SendLoad(p, f)
         \/ SendLink(p)
  PROVE  ServiceStep
<1> USE Const
<1>1. /\ pc[p] # "count"
      /\ \E l : l # "count" /\ Goto(p, l)
      /\ UNCHANGED <<phase, fifo, previousReceived, holders>>
  BY DEF AcquireSlot, LoadFree, PopRead, PopCas, SendLoad, SendLink, Reach, ends, hist
<1>2. \A u \in Threads \ {p} :
        /\ msg'[u] = msg[u] /\ old'[u] = old[u]
        /\ reg'[u] = reg[u] /\ nxt'[u] = nxt[u] /\ ret'[u] = ret[u]
  BY TypeParts DEF AcquireSlot, LoadFree, PopRead, PopCas, SendLoad, SendLink, Forget,
     locals, LocalsTyped
<1>3. Alone(p) /\ pc'[p] # "count" BY <1>1, <1>2, Goes
<1>4. p \notin Waiters OBVIOUS
<1> QED BY <1>1, <1>3, <1>4, Unseen

LEMMA PopClaims ==
  ASSUME OneEach, TypeOK, AgateInv, NEW p \in Producers, PopCas(p), nextFreeSlot = reg[p]
  PROVE  ServiceStep
<1> USE Const
<1>s. PICK s \in Slots : s = reg[p] /\ phase[s] = "free"
  BY DEF AgateInv, PopCas, PopShape
<1>1. /\ pc[p] = "popCas" /\ Goto(p, "send") /\ phase' = [phase EXCEPT ![s] = "claimed"]
      /\ UNCHANGED <<fifo, previousReceived, holders>>
  BY <1>s DEF PopCas, Claim, Become
<1>2. \A u \in Threads \ {p} :
        /\ msg'[u] = msg[u] /\ old'[u] = old[u]
        /\ reg'[u] = reg[u] /\ nxt'[u] = nxt[u] /\ ret'[u] = ret[u]
  BY TypeParts DEF PopCas, Forget, LocalsTyped
<1>3. Alone(p) /\ pc'[p] = "send" BY <1>1, <1>2, Goes
<1>4. p \notin Waiters OBVIOUS
<1>5. \A x : Users(x)' = Users(x) BY <1>3, <1>4, UsersSame
<1>6. \A x : Owed(x)' <=> Owed(x) BY <1>1, <1>3, OwedSame
<1>7. Signalled' = Signalled BY <1>1, <1>5, <1>6, SignalledAre
<1>8. Service!Claim(s) BY <1>s, <1>1, <1>7 DEF Service!Claim, Service!Become
<1> QED BY <1>8, NextOf

LEMMA SendSubmits ==
  ASSUME OneEach, TypeOK, AgateInv, NEW p \in Producers, SendCas(p)
  PROVE  ServiceStep
<1> USE Const
<1>s. PICK s \in Slots : s = msg[p] BY TypeParts DEF LocalsTyped
<1>0. pc[p] = "sendCas" /\ phase[s] = "claimed" /\ reg[p] = lastQueuedSlot
  BY <1>s DEF AgateInv, SendCas, SendShape
<1>1. /\ Goto(p, "count") /\ phase' = [phase EXCEPT ![s] = "queued"]
      /\ fifo' = Append(fifo, s)
      /\ UNCHANGED <<previousReceived, holders, msg, ret>>
  BY <1>s, <1>0 DEF SendCas, Become
<1>2. \A u \in Threads \ {p} :
        /\ msg'[u] = msg[u] /\ old'[u] = old[u]
        /\ reg'[u] = reg[u] /\ nxt'[u] = nxt[u] /\ ret'[u] = ret[u]
  BY TypeParts DEF SendCas, Forget, LocalsTyped
<1>3. Alone(p) /\ pc'[p] = "count" BY <1>1, <1>2, Goes
<1>4. p \notin Waiters /\ \A q \in Producers : q = p BY DEF OneEach
<1>5. \A x : Users(x)' = Users(x) BY <1>3, <1>4, UsersSame
<1>6. \A x : ~Owed(x) BY <1>0, <1>4 DEF Owed
<1>7. \A x : Owed(x)' <=> x = s /\ ret[p] = "keep" BY <1>s, <1>1, <1>3, <1>4 DEF Owed
<1>8. Signalled' \in {Signalled, Signalled \cup {s}}
  <2>1. CASE ret[p] = "keep"
    <3>1. \A x : x \in Signalled' <=> x \in Signalled \cup {s}
      BY <1>1, <1>5, <1>6, <1>7, <2>1, SignalledAre
    <3> QED BY <3>1
  <2>2. CASE ret[p] # "keep"
    <3>1. \A x : x \in Signalled' <=> x \in Signalled
      BY <1>1, <1>5, <1>6, <1>7, <2>2, SignalledAre
    <3> QED BY <3>1
  <2> QED BY <2>1, <2>2
<1>9. Service!Submit(s) BY <1>0, <1>1, <1>8 DEF Service!Submit, Service!Become
<1> QED BY <1>9, NextOf

(* The signal passes from the mailbox to the application.                  *)
LEMMA CountUnseen ==
  ASSUME OneEach, TypeOK, AgateInv, NEW p \in Producers, Count(p)
  PROVE  ServiceStep
<1> USE Const
<1>s. PICK s \in Slots : s = msg[p] BY TypeParts DEF LocalsTyped
<1>1. /\ pc[p] = "count" /\ Goto(p, "idle")
      /\ holders' = IF ret[p] = "keep" THEN [holders EXCEPT ![s] = @ + 1] ELSE holders
      /\ UNCHANGED <<phase, fifo, previousReceived>>
  BY <1>s DEF Count, ends, hist
<1>2. \A u \in Threads \ {p} :
        /\ msg'[u] = msg[u] /\ old'[u] = old[u]
        /\ reg'[u] = reg[u] /\ nxt'[u] = nxt[u] /\ ret'[u] = ret[u]
  BY TypeParts DEF Count, Forget, LocalsTyped
<1>3. Alone(p) /\ pc'[p] = "idle" BY <1>1, <1>2, Goes
<1>4. p \notin Waiters /\ \A q \in Producers : q = p BY DEF OneEach
<1>5. \A x : Users(x)' = Users(x) BY <1>3, <1>4, UsersSame
<1>6. \A x : Owed(x) <=> x = s /\ ret[p] = "keep" BY <1>s, <1>1, <1>4 DEF Owed
<1>7. \A x : ~Owed(x)' BY <1>3, <1>4 DEF Owed
<1>8. Signalled' = Signalled
  <2>1. CASE ret[p] = "keep"
    <3>1. /\ holders[s] \in Nat /\ holders'[s] = holders[s] + 1
          /\ \A x \in Slots \ {s} : holders'[x] = holders[x]
      BY <1>1, <2>1, TypeParts DEF HistoryTyped
    <3>2. holders'[s] > 0 BY <3>1
    <3>3. \A x : x \in Signalled' <=> x \in Signalled
      BY <1>5, <1>6, <1>7, <2>1, <3>1, <3>2, SignalledAre
    <3> QED BY <3>3
  <2>2. CASE ret[p] # "keep"
    <3>1. \A x : x \in Signalled' <=> x \in Signalled
      BY <1>1, <1>5, <1>6, <1>7, <2>2, SignalledAre
    <3> QED BY <3>1
  <2> QED BY <2>1, <2>2
<1> QED BY <1>1, <1>8 DEF ServiceStep, Service!vars

\* A thread that is no producer, and no waiter with a signal in hand.
LEMMA Bystander ==
  ASSUME NEW t \in Threads, Alone(t), t \notin Producers, UNCHANGED holders,
         t \in Waiters => pc[t] \notin UserPCs /\ pc'[t] \notin UserPCs
  PROVE  Signalled' = Signalled
<1>1. \A x : Users(x)' = Users(x) BY UsersSame
<1>2. \A x : Owed(x)' <=> Owed(x) BY OwedSame
<1> QED BY <1>1, <1>2, SignalledAre

LEMMA ConsumerUnseen ==
  ASSUME OneEach, TypeOK, AgateInv, NEW c \in Consumers,
         \/ TakeQueued(c) \/ RecvLoad(c) \/ RecvRead(c)
         \/ \E result \in Results : ReplyStatus(c, result)
  PROVE  ServiceStep
<1> USE Const
<1>1. /\ \E l : Goto(c, l)
      /\ UNCHANGED <<phase, fifo, previousReceived, holders>>
  BY DEF TakeQueued, RecvLoad, RecvRead, ReplyStatus, Reach, ends, hist
<1>2. \A u \in Threads \ {c} :
        /\ msg'[u] = msg[u] /\ old'[u] = old[u]
        /\ reg'[u] = reg[u] /\ nxt'[u] = nxt[u] /\ ret'[u] = ret[u]
  BY TypeParts DEF TakeQueued, RecvLoad, RecvRead, ReplyStatus, locals, LocalsTyped
<1>3. Alone(c) BY <1>1, <1>2, Goes
<1>4. c \notin Producers /\ c \notin Waiters OBVIOUS
<1> QED BY <1>1, <1>3, <1>4, Unseen

LEMMA RecvTakes ==
  ASSUME OneEach, TypeOK, AgateInv, NEW c \in Consumers, RecvCas(c)
  PROVE  /\ ServiceStep
         /\ fifo # <<>> /\ previousReceived' = Head(fifo)
<1> USE Const
<1>s. PICK s \in Slots : s = previousReceived BY TypeParts DEF EndsTyped
<1>m. PICK m \in Slots : m = fifo[1] /\ phase[m] = "queued" /\ m = next[s]
  BY <1>s, NextMessage DEF AgateInv, RecvCas, TakePCs
<1>f. fifo # <<>> /\ m = Head(fifo)
  <2>1. Len(fifo) \in Nat /\ 1 \in 1 .. Len(fifo)
    BY NextMessage DEF AgateInv, RecvCas, TakePCs
  <2>2. fifo \in Seq(Slots) BY TypeParts DEF HistoryTyped
  <2>3. Len(fifo) >= 1 BY <2>1
  <2>4. fifo # <<>> BY <2>2, <2>3
  <2>5. Head(fifo) = fifo[1] BY <2>2, <2>4
  <2> QED BY <1>m, <2>4, <2>5
<1>0. reg[c] = s /\ nxt[c] = m
  BY <1>s, <1>m DEF AgateInv, RecvCas, RecvShape
<1>1. /\ Goto(c, "freeHold") /\ previousReceived' = m /\ fifo' = Rest(fifo)
      /\ phase' = [phase EXCEPT ![m] = "handling"]
      /\ msg' = [msg EXCEPT ![c] = m] /\ old' = [old EXCEPT ![c] = s]
      /\ reg' = [reg EXCEPT ![c] = Dummy] /\ nxt' = [nxt EXCEPT ![c] = Dummy]
      /\ UNCHANGED <<ret, holders>>
  BY <1>s, <1>0 DEF RecvCas, Receive, Become, Forget
<1>2. \A u \in Threads \ {c} :
        /\ msg'[u] = msg[u] /\ old'[u] = old[u]
        /\ reg'[u] = reg[u] /\ nxt'[u] = nxt[u] /\ ret'[u] = ret[u]
  BY <1>1, TypeParts DEF LocalsTyped
<1>3. Alone(c) BY <1>1, <1>2, Goes
<1>4. c \notin Producers /\ c \notin Waiters OBVIOUS
<1>5. Signalled' = Signalled BY <1>1, <1>3, <1>4, Bystander
<1>6. Service!Take(m) BY <1>m, <1>f, <1>1, <1>5 DEF Service!Take, Service!Become, Rest
<1> QED BY <1>f, <1>1, <1>6, NextOf

\* Only the first message received, the constructor's, is recycled here.
LEMMA FreeHoldRecycles ==
  ASSUME OneEach, TypeOK, AgateInv, NEW c \in Consumers, FreeHold(c)
  PROVE  ServiceStep
<1> USE Const
<1>s. PICK s \in Slots : s = old[c] BY TypeParts DEF LocalsTyped
<1>p. pc[c] = "freeHold" BY DEF FreeHold
<1>0. /\ s # previousReceived /\ phase[s] = "answered"
      /\ s # Dummy => IN_USE \in flags[s]
      /\ \A p \in Producers : pc[p] \in SendPCs \cup {"count"} => msg[p] # s
  BY <1>s, <1>p, HeldSlot
<1>1. /\ UNCHANGED <<previousReceived, fifo, holders>>
      /\ \E l : Goto(c, l)
      /\ phase' = phase \/ (s = Dummy /\ phase' = [phase EXCEPT ![s] = "free"])
  BY <1>s, <1>0 DEF FreeHold, Destroy, ends
<1>2. \A u \in Threads \ {c} :
        /\ msg'[u] = msg[u] /\ old'[u] = old[u]
        /\ reg'[u] = reg[u] /\ nxt'[u] = nxt[u] /\ ret'[u] = ret[u]
  BY TypeParts DEF FreeHold, Destroy, Forget, LocalsTyped
<1>3. Alone(c) BY <1>1, <1>2, Goes
<1>4. c \notin Producers /\ c \notin Waiters OBVIOUS
<1>5. Signalled' = Signalled BY <1>1, <1>3, <1>4, Bystander
<1>6. CASE phase' = phase BY <1>1, <1>5, <1>6 DEF ServiceStep, Service!vars
<1>7. CASE s = Dummy /\ phase' = [phase EXCEPT ![s] = "free"]
  <2>1. ~Owed(s) BY <1>0 DEF Owed
  <2>2. ~(Open(s) > 0) BY <1>7 DEF AgateInv, HandleShape, Signalable
  <2>3. s \notin Signalled BY <2>1, <2>2, OpenTyped, SignalledAre
  <2>4. Service!Recycle(s)
    BY <1>0, <1>1, <1>5, <1>7, <2>3 DEF Service!Recycle, Service!Become
  <2> QED BY <2>4, NextOf
<1> QED BY <1>1, <1>6, <1>7

LEMMA ReplyAnswers ==
  ASSUME OneEach, TypeOK, AgateInv, NEW c \in Consumers, ReplyIgnored(c) \/ SetReady(c)
  PROVE  ServiceStep
<1> USE Const
<1>s. PICK s \in Slots : s = msg[c] BY TypeParts DEF LocalsTyped
<1>p. pc[c] \in {"handle", "setReady"} BY DEF ReplyIgnored, SetReady
<1>0. phase[s] = "handling" BY <1>s, <1>p, HandSlot
<1>1. /\ UNCHANGED <<previousReceived, fifo, holders>>
      /\ \E l : Goto(c, l)
      /\ phase' = [phase EXCEPT ![s] = "answered"]
  BY <1>s DEF ReplyIgnored, SetReady, CondemnBy, Destroy, Become, ends
<1>2. \A u \in Threads \ {c} :
        /\ msg'[u] = msg[u] /\ old'[u] = old[u]
        /\ reg'[u] = reg[u] /\ nxt'[u] = nxt[u] /\ ret'[u] = ret[u]
  BY TypeParts DEF ReplyIgnored, SetReady, CondemnBy, Destroy, Forget, LocalsTyped
<1>3. Alone(c) BY <1>1, <1>2, Goes
<1>4. c \notin Producers /\ c \notin Waiters OBVIOUS
<1>5. Signalled' = Signalled BY <1>1, <1>3, <1>4, Bystander
<1>6. Service!Answer(s) BY <1>0, <1>1, <1>5 DEF Service!Answer, Service!Become
<1> QED BY <1>6, NextOf

(* Whoever returns a message recycles its slot when the free list has it.  *)
LEMMA ReturnRecycles ==
  ASSUME OneEach, TypeOK, AgateInv, NEW t \in Threads, Return(t)
  PROVE  ServiceStep
<1> USE Const
<1>0. ~SingleProducer /\ ~AtEnd /\ pc[t] # "returnLink"
  BY DEF AgateInv, Proper, SingleProducer, AtEnd
<1>a. Cleanup(t) \/ ReturnLoad(t) \/ ReturnStore(t) \/ ReturnCas(t) \/ Release(t)
  BY <1>0 DEF Return, ReturnSwap, ReturnLink
<1>p. pc[t] \in ReturnPCs /\ (ReturnCas(t) => pc[t] \in DyingPCs)
  BY <1>a DEF Cleanup, ReturnLoad, ReturnStore, ReturnCas, Release, ReturnPCs, DyingPCs
<1>b. t \notin Producers BY <1>p, Returner
<1>s. PICK s \in Slots : s = old[t] BY TypeParts DEF LocalsTyped
<1>1. /\ UNCHANGED <<previousReceived, fifo, holders>>
      /\ phase' = phase \/ (ReturnCas(t) /\ phase' = [phase EXCEPT ![s] = "free"])
  BY <1>s, <1>a DEF Cleanup, ReturnLoad, ReturnStore, ReturnCas, Release, Become, ends, hist
<1>l. \E l : Goto(t, l) /\ (t \in Waiters => l \notin UserPCs)
  <2>1. CASE Release(t)
    <3>1. Goto(t, ret[t]) BY <2>1 DEF Release
    <3>2. t \in Waiters => ret[t] = "idle" BY DEF AgateInv, Proper
    <3> QED BY <3>1, <3>2 DEF UserPCs
  <2>2. CASE Cleanup(t) \/ ReturnLoad(t) \/ ReturnStore(t) \/ ReturnCas(t)
    BY <2>2 DEF Cleanup, ReturnLoad, ReturnStore, ReturnCas, UserPCs
  <2> QED BY <1>a, <2>1, <2>2
<1>2. \A u \in Threads \ {t} :
        /\ msg'[u] = msg[u] /\ old'[u] = old[u]
        /\ reg'[u] = reg[u] /\ nxt'[u] = nxt[u] /\ ret'[u] = ret[u]
  BY <1>a, TypeParts DEF Cleanup, ReturnLoad, ReturnStore, ReturnCas, Release, Forget,
     locals, LocalsTyped
<1>3. Alone(t) /\ (t \in Waiters => pc[t] \notin UserPCs /\ pc'[t] \notin UserPCs)
  BY <1>p, <1>l, <1>2, Goes DEF ReturnPCs, UserPCs
<1>5. Signalled' = Signalled BY <1>1, <1>3, <1>b, Bystander
<1>6. CASE phase' = phase BY <1>1, <1>5, <1>6 DEF ServiceStep, Service!vars
<1>7. CASE ReturnCas(t) /\ phase' = [phase EXCEPT ![s] = "free"]
  <2>1. s # previousReceived /\ phase[s] = "answered" /\ Open(s) = 0 /\ ~Owed(s)
    BY <1>p, <1>s, <1>7, DyingFree
  <2>2. s \notin Signalled BY <2>1, OpenTyped, SignalledAre
  <2>3. Service!Recycle(s)
    BY <1>1, <1>5, <1>7, <2>1, <2>2 DEF Service!Recycle, Service!Become
  <2> QED BY <2>3, NextOf
<1> QED BY <1>1, <1>6, <1>7

LEMMA WaiterUnseen ==
  ASSUME OneEach, TypeOK, AgateInv, NEW w \in Waiters,
         \/ Collect(w) \/ Condemn(w)
  PROVE  ServiceStep
<1> USE Const
<1>1. /\ UNCHANGED <<phase, fifo, previousReceived, holders>>
      /\ \/ pc[w] = "collect" /\ Goto(w, "drop") /\ msg' = msg
         \/ pc[w] = "condemn" /\ \E l \in {"idle", "cleanup"} : Goto(w, l)
  BY DEF Collect, Condemn, CondemnBy, Destroy, locals, ends, hist
<1>2. \A u \in Threads \ {w} :
        /\ msg'[u] = msg[u] /\ old'[u] = old[u]
        /\ reg'[u] = reg[u] /\ nxt'[u] = nxt[u] /\ ret'[u] = ret[u]
  BY TypeParts DEF Collect, Condemn, CondemnBy, Destroy, Forget, locals, LocalsTyped
<1>3. /\ Alone(w)
      /\ \/ pc[w] \notin UserPCs /\ pc'[w] \notin UserPCs
         \/ pc[w] \in UserPCs /\ pc'[w] \in UserPCs /\ msg'[w] = msg[w]
  <2>1. CASE pc[w] = "collect" /\ Goto(w, "drop") /\ msg' = msg
    BY <1>2, <2>1, Goes DEF UserPCs
  <2>2. ASSUME NEW l \in {"idle", "cleanup"}, pc[w] = "condemn", Goto(w, l)
        PROVE  Alone(w) /\ pc[w] \notin UserPCs /\ pc'[w] \notin UserPCs
    BY <1>2, <2>2, Goes DEF UserPCs
  <2> QED BY <1>1, <2>1, <2>2
<1>4. w \notin Producers OBVIOUS
<1> QED BY <1>1, <1>3, <1>4, Unseen

(* A handle passes from the application to its call, or is made.           *)
LEMMA HandleUnseen ==
  ASSUME OneEach, TypeOK, AgateInv, NEW w \in Waiters, NEW s \in Slots,
         \/ Copy(w, s)
         \/ UseHandle(w, s, "collect") \/ UseHandle(w, s, "drop")
  PROVE  ServiceStep
<1> USE Const
<1>1. holders[s] > 0 /\ UNCHANGED <<phase, fifo, previousReceived>> /\ pc[w] = "idle"
  BY DEF Copy, UseHandle, ends, hist
<1>a. w \in Threads /\ w \notin Producers OBVIOUS
<1>2. CASE Copy(w, s)
  <2>1. Signalled' = Signalled
    <3>1. \A x : Users(x)' = Users(x) /\ (Owed(x)' <=> Owed(x))
      BY <1>2 DEF Copy, Users, Owed, locals
    <3>2. \A x \in Slots : holders'[x] > 0 <=> holders[x] > 0
      BY <1>1, <1>2, TypeParts DEF Copy, HistoryTyped
    <3> QED BY <3>1, <3>2, SignalledAre
  <2> QED BY <1>1, <2>1 DEF ServiceStep, Service!vars
<1>3. CASE UseHandle(w, s, "collect") \/ UseHandle(w, s, "drop")
  <2>1. /\ \E l \in UserPCs : Goto(w, l)
        /\ msg' = [msg EXCEPT ![w] = s] /\ holders' = [holders EXCEPT ![s] = @ - 1]
        /\ UNCHANGED <<old, reg, nxt, ret>>
    BY <1>3 DEF UseHandle, UserPCs
  <2>2. \A u \in Threads \ {w} :
          /\ msg'[u] = msg[u] /\ old'[u] = old[u]
          /\ reg'[u] = reg[u] /\ nxt'[u] = nxt[u] /\ ret'[u] = ret[u]
    BY <2>1, TypeParts DEF LocalsTyped
  <2>3. Alone(w) /\ pc'[w] \in UserPCs /\ msg'[w] = s
    BY <1>a, <2>1, <2>2, Goes, TypeParts DEF LocalsTyped
  <2>4. \A x : Owed(x)' <=> Owed(x) BY <1>a, <2>3, OwedSame
  <2>5. \A x : x # s => Users(x)' = Users(x)
    BY <1>1, <2>3 DEF Users, UserPCs, Alone
  <2>6. w \in Users(s)' BY <2>3 DEF Users
  <2>7. \A x \in Slots : x # s => holders'[x] = holders[x]
    BY <2>1, TypeParts DEF HistoryTyped
  <2>8. \A x : x # s => (x \in Signalled' <=> x \in Signalled)
    BY <2>4, <2>5, <2>7, SignalledAre
  <2>9. s \in Signalled' /\ s \in Signalled BY <1>1, <2>6, SignalledAre
  <2>10. \A x : x \in Signalled' <=> x \in Signalled BY <2>8, <2>9
  <2>11. Signalled' = Signalled BY <2>10
  <2> QED BY <1>1, <2>11 DEF ServiceStep, Service!vars
<1> QED BY <1>2, <1>3

LEMMA DropDrops ==
  ASSUME OneEach, TypeOK, AgateInv, NEW w \in Waiters, DropHandle(w)
  PROVE  ServiceStep
<1> USE Const
<1>s. PICK s \in Slots : s = msg[w] BY TypeParts DEF LocalsTyped
<1>1. /\ UNCHANGED <<phase, fifo, previousReceived, holders>> /\ pc[w] = "drop"
      /\ \E l \in {"idle", "condemn"} : Goto(w, l)
  BY DEF DropHandle, ends, hist
<1>2. \A u \in Threads \ {w} :
        /\ msg'[u] = msg[u] /\ old'[u] = old[u]
        /\ reg'[u] = reg[u] /\ nxt'[u] = nxt[u] /\ ret'[u] = ret[u]
  BY TypeParts DEF DropHandle, Forget, LocalsTyped
<1>3. Alone(w) /\ pc'[w] \notin UserPCs
  <2>1. ASSUME NEW l \in {"idle", "condemn"}, Goto(w, l)
        PROVE  Alone(w) /\ pc'[w] \notin UserPCs
    BY <1>2, <2>1, Goes DEF UserPCs
  <2> QED BY <1>1, <2>1
<1>4. \A x : Owed(x)' <=> Owed(x) BY <1>3, OwedSame
<1>5. \A x : x # s => Users(x)' = Users(x)
  BY <1>s, <1>1, <1>3 DEF Users, UserPCs, Alone
<1>6. w \in Users(s) BY <1>s, <1>1 DEF Users, UserPCs
<1>7. \A x : x # s => (x \in Signalled' <=> x \in Signalled)
  BY <1>1, <1>4, <1>5, SignalledAre
<1>8. s \in Signalled BY <1>6, SignalledAre
<1>9. CASE s \in Signalled'
  <2>1. \A x : x \in Signalled' <=> x \in Signalled BY <1>7, <1>8, <1>9
  <2>2. Signalled' = Signalled BY <2>1
  <2> QED BY <1>1, <2>2 DEF ServiceStep, Service!vars
<1>10. CASE s \notin Signalled'
  <2>1. \A x : x \in Signalled' <=> x \in Signalled \ {s} BY <1>7, <1>10
  <2>2. Signalled' = Signalled \ {s} BY <2>1
  <2>3. Service!Drop(s) BY <1>1, <1>8, <2>2 DEF Service!Drop
  <2> QED BY <2>3, NextOf
<1> QED BY <1>9, <1>10

LEMMA StepImplements ==
  ASSUME OneEach, TypeOK, AgateInv, [Next]_vars
  PROVE  ServiceStep
<1> USE Const
<1>0. ~SingleProducer /\ \A t \in Threads : pc[t] \notin {"pop", "fetch"}
  BY DEF AgateInv, Proper, SingleProducer
<1>1. CASE UNCHANGED vars
  <2>1. UNCHANGED <<phase, fifo, previousReceived, holders, pc, msg, ret>>
    BY <1>1 DEF vars, ends, locals, hist
  <2>2. Signalled' = Signalled BY <2>1 DEF Signalled
  <2> QED BY <2>1, <2>2 DEF ServiceStep, Service!vars
<1>2. ASSUME NEW p \in Producers, Produce(p) PROVE ServiceStep
  <2>1. ~PopSingle(p) /\ \A f \in SendFlags : ~SendSingle(p, f)
    BY <1>0 DEF PopSingle, SendSingle
  <2>2. \/ AcquireSlot(p) \/ LoadFree(p) \/ PopRead(p) \/ PopCas(p)
        \/ (\E f \in SendFlags : SendLoad(p, f))
        \/ SendLink(p) \/ SendCas(p) \/ Count(p)
    BY <1>2, <2>1 DEF Produce
  <2>3. CASE PopCas(p) BY <2>3, PopClaims, ProducerUnseen
  <2>4. CASE SendCas(p) BY <2>4, SendSubmits
  <2>5. CASE Count(p) BY <2>5, CountUnseen
  <2>6. CASE \/ AcquireSlot(p) \/ LoadFree(p) \/ PopRead(p)
             \/ (\E f \in SendFlags : SendLoad(p, f))
             \/ SendLink(p)
    BY <2>6, ProducerUnseen
  <2> QED BY <2>2, <2>3, <2>4, <2>5, <2>6
<1>3. ASSUME NEW c \in Consumers, Consume(c) PROVE ServiceStep
  <2>1. ~Fetch(c) /\ c \in Threads BY <1>0 DEF Fetch
  <2>2. CASE RecvCas(c) BY <2>2, RecvTakes
  <2>3. CASE FreeHold(c) BY <2>3, FreeHoldRecycles
  <2>4. CASE ReplyIgnored(c) \/ SetReady(c) BY <2>4, ReplyAnswers
  <2>5. CASE Return(c) BY <2>1, <2>5, ReturnRecycles
  <2>6. CASE \/ TakeQueued(c) \/ RecvLoad(c) \/ RecvRead(c)
             \/ (\E result \in Results : ReplyStatus(c, result))
    BY <2>6, ConsumerUnseen
  <2> QED BY <1>3, <2>1, <2>2, <2>3, <2>4, <2>5, <2>6 DEF Consume
<1>4. ASSUME NEW w \in Waiters, Await(w) PROVE ServiceStep
  BY <1>4, HandleUnseen DEF Await, WaitReady, Discard
<1>5. ASSUME NEW w \in Waiters, Finish(w) PROVE ServiceStep
  <2>1. w \in Threads OBVIOUS
  <2>2. CASE DropHandle(w) BY <2>2, DropDrops
  <2>3. CASE Collect(w) \/ Condemn(w) BY <2>3, WaiterUnseen
  <2>4. CASE Return(w) BY <2>1, <2>4, ReturnRecycles
  <2> QED BY <1>5, <2>2, <2>3, <2>4 DEF Finish
<1> QED BY <1>1, <1>2, <1>3, <1>4, <1>5 DEF Next

LEMMA InitImplements == Init => Service!Init
<1> SUFFICES ASSUME Init PROVE Service!Init OBVIOUS
<1>1. Signalled = {}
  <2>1. /\ \A t \in Threads : pc[t] = "idle"
        /\ \A s \in Slots : ~(holders[s] > 0)
    BY DEF Init
  <2> QED BY <2>1, Const DEF Signalled
<1> QED BY <1>1 DEF Init, Service!Init

(* With one producer and one consumer, however many threads copy, wait on  *)
(* and discard the signals of however many slots, the mailbox implements   *)
(* RequestService: messages are received in the order they were sent, each *)
(* is replied to once, and its slot is recycled once, after the reply,     *)
(* when nobody has its signal any more and a later message has been        *)
(* received.                                                               *)
THEOREM ServiceImplemented == ASSUME OneEach PROVE Spec => ImplementsService
<1>1. Init => Service!Init BY InitImplements
<1>2. TypeOK /\ AgateInv /\ [Next]_vars => [Service!Next]_(Service!vars)
  BY StepImplements DEF ServiceStep
<1> QED BY <1>1, <1>2, AgateAlways, PTL DEF Spec, ImplementsService, Service!Spec

(* Each receive yields the oldest message not yet received.                *)
THEOREM ReceivedInOrderCorrect == ASSUME OneEach PROVE Spec => ReceivedInOrder
<1> DEFINE InOrder ==
      \A c \in Consumers :
        Receiving(c) => fifo # <<>> /\ previousReceived' = Head(fifo)
<1>1. ASSUME TypeOK, AgateInv, [Next]_vars PROVE InOrder
  <2> SUFFICES ASSUME NEW c \in Consumers, Receiving(c)
               PROVE  fifo # <<>> /\ previousReceived' = Head(fifo)
    OBVIOUS
  <2> USE <1>1, Const
  <2>1. pc[c] = "recvCas" /\ pc'[c] # "recvCas"
    BY DEF AgateInv, Proper, Receiving
  <2>2. pc' # pc BY <2>1
  <2>3. ASSUME NEW t \in Threads, NEW l, Goto(t, l) PROVE t = c
    <3>1. pc \in [Threads -> AllPCs] BY TypeParts DEF PcTyped
    <3> QED BY <2>1, <2>3, <3>1 DEF Goto
  <2>4. ~UNCHANGED vars /\ Next BY <2>2 DEF vars
  <2>5. ASSUME NEW p \in Producers, Produce(p) PROVE FALSE
    <3>1. p \in Threads /\ p # c OBVIOUS
    <3> QED BY <2>3, <2>5, <3>1, ProducerWalks
  <2>6. ASSUME NEW w \in Waiters, Await(w) \/ Finish(w) PROVE FALSE
    <3>1. w \in Threads /\ w # c OBVIOUS
    <3> QED BY <2>2, <2>3, <2>6, <3>1, WaiterWalks
  <2>7. PICK d \in Consumers : Consume(d) BY <2>4, <2>5, <2>6 DEF Next
  <2>8. d = c BY DEF OneEach
  <2>9. RecvCas(c)
    BY <2>1, <2>7, <2>8 DEF Consume, TakeQueued, Fetch, RecvLoad, RecvRead, FreeHold,
       ReplyIgnored, SetReady, Return, ReplyStatus, Cleanup, ReturnSwap, ReturnLoad,
       ReturnStore, ReturnCas, ReturnLink, Release
  <2> QED BY <2>9, RecvTakes
<1>2. TypeOK /\ AgateInv /\ [Next]_vars => [InOrder]_vars BY <1>1
<1> QED BY <1>2, AgateAlways, PTL DEF Spec, ReceivedInOrder
=============================================================================
