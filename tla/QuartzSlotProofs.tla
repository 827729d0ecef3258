-------------------------- MODULE QuartzSlotProofs --------------------------
(***************************************************************************)
(* With one sending thread the slots of QuartzMailbox are never lost, used *)
(* twice or taken out of order, nobody sleeps on an answered request, and  *)
(* the status read is the request's own, and QuartzMailbox implements      *)
(* RequestService: for every number of slots and clients.                  *)
(***************************************************************************)
EXTENDS QuartzMailboxProofs, MCQuartzMailbox

OneSender == \A p, q \in Senders : p = q

(* The places of the queue: 0 for the request taken last, then those behind *)
(* it; and of the pool, whose list ends in the dummy.                       *)
Place(i)  == IF i = 0 THEN LastTaken ELSE fifo[i]
FreeAt(i) == IF i > Len(stack) THEN Dummy ELSE stack[i]

Linking == \E c \in Senders : pc[c] = "link"
Coming  == IF Appending = {} THEN 0 ELSE 1
Taking  == IF pc[Main] = "getNext" THEN 1 ELSE 0

BusyPCs == DestroyPCs \ {"release"}
Busy    == {t \in Threads : pc[t] \in BusyPCs}

\* A client whose slot is a handle that somebody is still to collect.
Holds(c) == \/ pc[c] \in WaitPCs
            \/ c \in Appending /\ call[c].kind \in HandleKinds

\* The mailbox thread has taken a request and not yet unlocked the one before,
\* has it in hand, or has not yet answered it.
Taken    == {"lock", "unlock"}
Working  == {"dispatch", "notify", "wake", "destroy", "checkClose"} \cup DestroyPCs
Pending  == Taken \cup {"dispatch", "notify", "destroy"} \cup DestroyPCs
Unanswered == Elems(fifo) \cup (IF pc[Main] \in Pending THEN {slot[Main]} ELSE {})
Settled == pc[Main] \in {"idle", "getNext", "wake"} \cup Taken
             \/ (pc[Main] = "checkClose" /\ ~shouldClose)
----------------------------------------------------------------------------
\* The parts of the invariant.

StackShape ==
  /\ Distinct(stack)
  /\ nextFreeSlot = FreeAt(1)
  /\ \A i \in 1 .. Len(stack) : nextSlot[stack[i]] = FreeAt(i + 1)

(* What a popping sender read is still in the pool, and its link unchanged. *)
PopShape ==
  \A c \in Senders :
    /\ pc[c] \in {"popRead", "popCas"} => reg[c] \in Elems(stack)
    /\ pc[c] = "popCas" => nxt[c] = nextSlot[reg[c]]

PushShape ==
  \A t \in Threads : pc[t] = "pushCas" => nextSlot[dying[t]] = reg[t]

QueueShape ==
  /\ \A i, j \in 0 .. Len(fifo) : Place(i) = Place(j) => i = j
  /\ lastQueuedSlot = Place(Len(fifo))
  /\ Len(fifo) = queuedMessages + Coming + Taking
  /\ \A i \in 0 .. Len(fifo) - 1 :
       nextSlot[Place(i)] = Place(i + 1) \/ (i + 1 = Len(fifo) /\ Linking)

AppendShape ==
  \A c \in Appending :
    /\ slot[c] = Place(Len(fifo))
    /\ pc[c] = "link" => reg[c] = Place(Len(fifo) - 1)

MainShape ==
  /\ pc[Main] \in Taken =>
       previousRequest \notin Elems(fifo) \cup {slot[Main]} /\ slot[Main] # Dummy
  /\ pc[Main] \in Working => slot[Main] = previousRequest /\ slot[Main] # Dummy
  /\ pc[Main] \in DestroyPCs => ret[Main] = "dispatch"
  /\ pc[Main] = "notify"  => kind[slot[Main]] \in ReplyKinds
  /\ pc[Main] = "destroy" => kind[slot[Main]] \in DestroyKinds

Roles ==
  /\ Elems(stack) \cap (Popped \cup Dying \cup Handles \cup InQueue) = {}
  /\ Dying \cap (Popped \cup Handles \cup InQueue) = {}
  /\ Popped \cap (Handles \cup InQueue) = {}
  /\ \A t, u \in Busy : dying[t] = dying[u] => t = u

DummyRetired ==
  /\ Dummy \notin Elems(stack) \cup Popped \cup Dying \cup Handles \cup Elems(fifo)
  /\ READY \notin flags[Dummy] /\ DISCARDED \notin flags[Dummy]

(* A slot is free with NOT_PRESERVED alone; the request taken last is       *)
(* locked; what has not been handled is not ready, and what has been is.    *)
FlagShape ==
  /\ \A s \in Elems(stack) \cup Popped : flags[s] = {NOT_PRESERVED}
  /\ \A t \in Threads :
       pc[t] \in {"pushLink", "pushCas"} => flags[dying[t]] = {NOT_PRESERVED}
  /\ \A s \in Unanswered : READY \notin flags[s]
  /\ previousRequest # Dummy => NOT_PRESERVED \notin flags[previousRequest]
  /\ pc[Main] = "unlock" => NOT_PRESERVED \notin flags[slot[Main]]
  /\ Settled => previousRequest = Dummy \/ READY \in flags[previousRequest]

(* A handle's request is not discarded, and it is ready and unlocked once   *)
(* the queue has passed it; a queued request that gets an answer and is not *)
(* discarded has its handle.                                                *)
HandleShape ==
  /\ \A s \in Handles : DISCARDED \notin flags[s] /\ kind[s] \in HandleKinds
  /\ \A s \in Handles \ InQueue : READY \in flags[s] /\ NOT_PRESERVED \in flags[s]
  /\ \A s \in InQueue \ {Dummy} :
       /\ kind[s] # "none"
       /\ DISCARDED \in flags[s] \/ s \in Handles
            \/ (kind[s] \in DestroyKinds /\ READY \notin flags[s])

HandleOnce ==
  /\ \A c, d \in Clients : Holds(c) /\ Holds(d) /\ slot[c] = slot[d] => c = d
  /\ \A c \in Clients : Holds(c) => slot[c] \notin held

KillShape ==
  /\ killRequest # None =>
       /\ pc[Main] \in {"checkClose", "closing", "wakeKiller", "stopped"}
       /\ shouldClose /\ killRequest = previousRequest
       /\ kind[killRequest] = "kill" /\ killRequest # Dummy
  /\ pc[Main] \in {"closing", "wakeKiller"} => killRequest # None

AnswersOwn ==
  /\ \A s \in Slots : READY \in flags[s] /\ kind[s] = "alloc" => status[s] = answer[s]
  /\ pc[Main] = "notify" /\ kind[slot[Main]] = "alloc" =>
       status[slot[Main]] = answer[slot[Main]]
  /\ \A c \in Clients : pc[c] = "collect" => READY \in flags[slot[c]]

ListInv == NoAbort /\ StackShape /\ PopShape /\ PushShape /\ QueueShape /\ AppendShape
RoleInv == MainShape /\ Roles /\ DummyRetired /\ FlagShape /\ HandleShape /\ HandleOnce
UserInv == KillShape /\ AnswersOwn /\ NoLostWakeup /\ NoSlotLost
SlotInv == ListInv /\ RoleInv /\ UserInv
----------------------------------------------------------------------------
(* Sequences and their elements.                                           *)
LEMMA ElemsIn == \A q \in Seq(Slots) : Elems(q) \subseteq Slots
  BY DEF Elems

LEMMA ElemsRest ==
  ASSUME NEW q \in Seq(Slots), Len(q) > 0, Distinct(q)
  PROVE  /\ Rest(q) \in Seq(Slots) /\ Len(Rest(q)) = Len(q) - 1
         /\ \A i \in 1 .. Len(Rest(q)) : Rest(q)[i] = q[i + 1]
         /\ Elems(Rest(q)) = Elems(q) \ {q[1]}
         /\ Distinct(Rest(q))
  <1>1. Rest(q) = Tail(q) /\ Tail(q) \in Seq(Slots) /\ Len(Tail(q)) = Len(q) - 1
    BY DEF Rest
  <1>2. \A i \in 1 .. Len(q) - 1 : Tail(q)[i] = q[i + 1]
    OBVIOUS
  <1>3. DOMAIN q = 1 .. Len(q) /\ DOMAIN Tail(q) = 1 .. Len(q) - 1
    BY <1>1
  <1>4. \A i \in 1 .. Len(q) - 1 : i + 1 \in 1 .. Len(q) /\ i + 1 # 1
    OBVIOUS
  <1>5. Distinct(Tail(q))
    BY <1>2, <1>3, <1>4 DEF Distinct
  <1>6. Elems(Tail(q)) \subseteq Elems(q) \ {q[1]}
    <2> SUFFICES ASSUME NEW i \in 1 .. Len(q) - 1
                 PROVE  Tail(q)[i] \in Elems(q) \ {q[1]}
      BY <1>3 DEF Elems
    <2>1. 1 \in 1 .. Len(q)
      OBVIOUS
    <2> QED
      BY <2>1, <1>2, <1>3, <1>4 DEF Elems, Distinct
  <1>7. Elems(q) \ {q[1]} \subseteq Elems(Tail(q))
    <2> SUFFICES ASSUME NEW i \in 1 .. Len(q), q[i] # q[1]
                 PROVE  q[i] \in Elems(Tail(q))
      BY <1>3 DEF Elems
    <2>1. i - 1 \in 1 .. Len(q) - 1 /\ (i - 1) + 1 = i
      OBVIOUS
    <2> QED
      BY <2>1, <1>2, <1>3 DEF Elems
  <1> QED
    BY <1>1, <1>2, <1>5, <1>6, <1>7

LEMMA ElemsPush ==
  ASSUME NEW q \in Seq(Slots), NEW e \in Slots
  PROVE  /\ Len(<<e>> \o q) = Len(q) + 1 /\ (<<e>> \o q)[1] = e
         /\ \A i \in 1 .. Len(q) : (<<e>> \o q)[i + 1] = q[i]
         /\ Elems(<<e>> \o q) = Elems(q) \cup {e}
         /\ e \notin Elems(q) /\ Distinct(q) => Distinct(<<e>> \o q)
  <1> DEFINE r == <<e>> \o q
  <1>1. r \in Seq(Slots) /\ Len(r) = Len(q) + 1 /\ r[1] = e
    OBVIOUS
  <1>2. \A i \in 1 .. Len(q) : r[i + 1] = q[i]
    OBVIOUS
  <1>3. DOMAIN r = 1 .. Len(q) + 1 /\ DOMAIN q = 1 .. Len(q)
    BY <1>1
  <1> HIDE DEF r
  <1>4. \A j \in 1 .. Len(q) + 1 :
           j = 1 \/ (j - 1 \in 1 .. Len(q) /\ r[j] = q[j - 1])
    <2> SUFFICES ASSUME NEW j \in 1 .. Len(q) + 1, j # 1
                 PROVE  j - 1 \in 1 .. Len(q) /\ r[j] = q[j - 1]
      OBVIOUS
    <2>1. j - 1 \in 1 .. Len(q) /\ (j - 1) + 1 = j
      OBVIOUS
    <2> QED
      BY <2>1, <1>2
  <1>5. Elems(r) = Elems(q) \cup {e}
    <2>1. Elems(r) \subseteq Elems(q) \cup {e}
      BY <1>1, <1>3, <1>4 DEF Elems
    <2>2. e \in Elems(r)
      BY <1>1, <1>3 DEF Elems
    <2>3. \A i \in 1 .. Len(q) : q[i] \in Elems(r)
      <3> SUFFICES ASSUME NEW i \in 1 .. Len(q) PROVE q[i] \in Elems(r)
        OBVIOUS
      <3>1. i + 1 \in 1 .. Len(q) + 1
        OBVIOUS
      <3> QED
        BY <3>1, <1>2, <1>3 DEF Elems
    <2> QED
      BY <2>1, <2>2, <2>3, <1>3 DEF Elems
  <1>6. e \notin Elems(q) /\ Distinct(q) => Distinct(r)
    <2> SUFFICES ASSUME e \notin Elems(q), Distinct(q),
                        NEW i \in 1 .. Len(q) + 1, NEW j \in 1 .. Len(q) + 1, r[i] = r[j]
                 PROVE  i = j
      BY <1>3 DEF Distinct
    <2>1. \A k \in 1 .. Len(q) : q[k] # e
      BY <1>3 DEF Elems
    <2>2. i = 1 <=> j = 1
      BY <2>1, <1>1, <1>4
    <2>3. CASE i # 1
      <3>1. /\ i - 1 \in DOMAIN q /\ j - 1 \in DOMAIN q
            /\ q[i - 1] = q[j - 1]
        BY <2>2, <2>3, <1>3, <1>4
      <3>2. i - 1 = j - 1
        BY <3>1 DEF Distinct
      <3> QED
        BY <3>2
    <2> QED
      BY <2>2, <2>3
  <1> QED
    BY <1>1, <1>2, <1>5, <1>6 DEF r

LEMMA ElemsAppend ==
  ASSUME NEW q \in Seq(Slots), NEW e \in Slots
  PROVE  /\ Append(q, e) \in Seq(Slots) /\ Len(Append(q, e)) = Len(q) + 1
         /\ Append(q, e)[Len(q) + 1] = e
         /\ \A i \in 1 .. Len(q) : Append(q, e)[i] = q[i]
         /\ Elems(Append(q, e)) = Elems(q) \cup {e}
  <1> DEFINE r == Append(q, e)
  <1>1. r \in Seq(Slots) /\ Len(r) = Len(q) + 1 /\ r[Len(q) + 1] = e
    OBVIOUS
  <1>2. \A i \in 1 .. Len(q) : r[i] = q[i]
    OBVIOUS
  <1>3. DOMAIN r = 1 .. Len(q) + 1 /\ DOMAIN q = 1 .. Len(q) /\ Len(q) \in Nat
    BY <1>1
  <1> HIDE DEF r
  <1>4. Elems(r) = Elems(q) \cup {e}
    <2>1. \A j \in 1 .. Len(q) + 1 : j = Len(q) + 1 \/ j \in 1 .. Len(q)
      BY <1>3
    <2>2. Len(q) + 1 \in 1 .. Len(q) + 1 /\ 1 .. Len(q) \subseteq 1 .. Len(q) + 1
      BY <1>3
    <2> QED
      BY <2>1, <2>2, <1>1, <1>2, <1>3 DEF Elems
  <1> QED
    BY <1>1, <1>2, <1>4 DEF r
----------------------------------------------------------------------------
(* The queue by its places.                                                *)
LEMMA Places ==
  ASSUME TypeOK
  PROVE  /\ LastTaken \in Slots /\ fifo \in Seq(Slots) /\ Len(fifo) \in Nat
         /\ Len(Chain) = Len(fifo) + 1
         /\ \A i \in 0 .. Len(fifo) : Chain[i + 1] = Place(i) /\ Place(i) \in Slots
         /\ InQueue = Elems(fifo) \cup {LastTaken, previousRequest}
         /\ \A s : s \in Elems(fifo) <=> \E i \in 1 .. Len(fifo) : s = Place(i)
  <1>1. LastTaken \in Slots
    BY Constants DEF LastTaken, TypeOK, LocalsTyped, BoxTyped
  <1>2. fifo \in Seq(Slots) /\ Len(fifo) \in Nat /\ DOMAIN fifo = 1 .. Len(fifo)
    BY DEF TypeOK, HistoryTyped
  <1>3. /\ Len(Chain) = Len(fifo) + 1 /\ Chain[1] = LastTaken
        /\ \A i \in 1 .. Len(fifo) : Chain[i + 1] = fifo[i]
        /\ Elems(Chain) = Elems(fifo) \cup {LastTaken}
    BY <1>1, <1>2, ElemsPush DEF Chain
  <1>4. \A i \in 1 .. Len(fifo) : Place(i) = fifo[i] /\ fifo[i] \in Slots
    BY <1>2 DEF Place
  <1>5. \A i \in 0 .. Len(fifo) : i = 0 \/ i \in 1 .. Len(fifo)
    BY <1>2
  <1>6. Place(0) = LastTaken /\ 0 + 1 = 1
    BY DEF Place
  <1>7. \A i \in 0 .. Len(fifo) : Chain[i + 1] = Place(i) /\ Place(i) \in Slots
    BY <1>1, <1>3, <1>4, <1>5, <1>6
  <1>8. InQueue = Elems(fifo) \cup {LastTaken, previousRequest}
    BY <1>3 DEF InQueue
  <1>9. \A s : s \in Elems(fifo) <=> \E i \in 1 .. Len(fifo) : s = Place(i)
    BY <1>2, <1>4 DEF Elems
  <1> QED
    BY <1>1, <1>2, <1>3, <1>7, <1>8, <1>9

LEMMA PlaceInQueue ==
  ASSUME TypeOK, NEW i \in 0 .. Len(fifo)
  PROVE  Place(i) \in InQueue /\ Place(i) \in Elems(fifo) \cup {LastTaken}
  <1>1. i = 0 \/ i \in 1 .. Len(fifo)
    BY Places
  <1>2. CASE i = 0
    BY <1>2, Places DEF Place
  <1>3. CASE i \in 1 .. Len(fifo)
    BY <1>3, Places
  <1> QED
    BY <1>1, <1>2, <1>3

\* The request taken last is not among those that wait.
LEMMA LastNotQueued ==
  ASSUME TypeOK, QueueShape
  PROVE  LastTaken \notin Elems(fifo)
  <1> SUFFICES ASSUME NEW i \in 1 .. Len(fifo), LastTaken = Place(i)
               PROVE  FALSE
    BY Places
  <1>1. 0 \in 0 .. Len(fifo) /\ i \in 0 .. Len(fifo) /\ i # 0 /\ Place(0) = LastTaken
    BY Places DEF Place
  <1> QED
    BY <1>1 DEF QueueShape

LEMMA HandlesAre ==
  ASSUME NEW s
  PROVE  s \in Handles <=> s \in held \/ \E c \in Clients : Holds(c) /\ slot[c] = s
  BY Constants DEF Handles, Holds, Appending

LEMMA InSlots ==
  ASSUME TypeOK
  PROVE  /\ Elems(stack) \subseteq Slots /\ Elems(fifo) \subseteq Slots
         /\ Popped \subseteq Slots /\ Dying \subseteq Slots
         /\ Handles \subseteq Slots /\ InQueue \subseteq Slots
         /\ stack \in Seq(Slots) /\ fifo \in Seq(Slots)
  <1> USE Constants
  <1>1. stack \in Seq(Slots) /\ fifo \in Seq(Slots)
    BY DEF TypeOK, HistoryTyped
  <1>2. Elems(stack) \subseteq Slots /\ Elems(fifo) \subseteq Slots
    BY <1>1, ElemsIn
  <1>3. Popped \subseteq Slots /\ Dying \subseteq Slots
    BY DEF TypeOK, LocalsTyped, Popped, Dying
  <1>4. Handles \subseteq Slots
    <2>1. held \subseteq Slots /\ \A c \in Clients : slot[c] \in Slots
      BY DEF TypeOK, LocalsTyped, BoxTyped
    <2> QED
      BY <2>1, HandlesAre
  <1>5. InQueue \subseteq Slots
    BY <1>2, Places DEF TypeOK, BoxTyped
  <1> QED
    BY <1>1, <1>2, <1>3, <1>4, <1>5

LEMMA DyingAre ==
  /\ Dying = {dying[t] : t \in Busy}
  /\ \A s : s \in Dying <=> \E t \in Busy : dying[t] = s
  BY DEF Dying, Busy, BusyPCs

LEMMA PoppedAre ==
  \A s : s \in Popped <=> \E c \in Senders : pc[c] = "exchange" /\ slot[c] = s
  BY DEF Popped
----------------------------------------------------------------------------
(* What a step has to leave alone for each part of the invariant to stay.  *)
LEMMA SameStack ==
  ASSUME TypeOK, StackShape, UNCHANGED <<stack, nextFreeSlot>>,
         \A s \in Elems(stack) : nextSlot'[s] = nextSlot[s]
  PROVE  StackShape'
  <1>1. \A i \in 1 .. Len(stack) : stack[i] \in Elems(stack)
    BY DEF TypeOK, HistoryTyped, Elems
  <1> QED
    BY <1>1 DEF StackShape, FreeAt, Distinct

LEMMA SameQueue ==
  ASSUME TypeOK, QueueShape, UNCHANGED <<fifo, lastQueuedSlot>>,
         LastTaken' = LastTaken, Linking => Linking',
         queuedMessages' + Coming' + Taking' = queuedMessages + Coming + Taking,
         \A s \in InQueue : nextSlot'[s] = nextSlot[s]
  PROVE  QueueShape'
  <1>1. \A i : Place(i)' = Place(i)
    BY DEF Place
  <1>2. \A i \in 0 .. Len(fifo) - 1 : i \in 0 .. Len(fifo)
    BY Places
  <1>3. \A i \in 0 .. Len(fifo) - 1 : nextSlot'[Place(i)] = nextSlot[Place(i)]
    BY <1>2, PlaceInQueue
  <1> QED
    BY <1>1, <1>3 DEF QueueShape

LEMMA SameRoles ==
  ASSUME Roles, UNCHANGED <<stack, Popped, Dying, Handles, InQueue, Busy>>,
         \A t \in Busy : dying'[t] = dying[t]
  PROVE  Roles'
  BY DEF Roles

LEMMA SameHandles ==
  ASSUME UNCHANGED held,
         \A c \in Clients : /\ Holds(c)' <=> Holds(c)
                            /\ Holds(c) => slot'[c] = slot[c]
  PROVE  Handles' = Handles /\ (HandleOnce => HandleOnce')
  <1>1. \A s : s \in Handles' <=> s \in held' \/ \E c \in Clients : Holds(c)' /\ slot'[c] = s
    BY Constants DEF Handles, Holds, Appending
  <1>2. Handles' = Handles
    BY <1>1, HandlesAre
  <1>3. HandleOnce => HandleOnce'
    BY DEF HandleOnce
  <1> QED
    BY <1>2, <1>3
----------------------------------------------------------------------------
(* Steps that change no slot's role.                                       *)

LEMMA Moves ==
  ASSUME TypeOK, NEW t \in Threads, NEW l, Goto(t, l)
  PROVE  pc'[t] = l /\ \A u \in Threads : u # t => pc'[u] = pc[u]
  BY DEF TypeOK, PcTyped, Goto

\* Labels at which a client has no part in the lists.
RestPCs == {"idle", "acquire", "loadFree", "popRead", "popCas", "release"}

SlotsStay == UNCHANGED <<nextSlot, flags, kind, status, answer, stack, fifo, held>>
BoxStays  == UNCHANGED <<nextFreeSlot, lastQueuedSlot, queuedMessages,
                         previousRequest, killRequest, shouldClose>>

\* What a thread that moves alone leaves to the others.
OthersKeep(t) ==
  /\ \A u \in Threads : u # t => reg'[u] = reg[u] /\ ret'[u] = ret[u]
  /\ \A c \in Clients : c # t => call'[c] = call[c]

LEMMA QuietClient ==
  ASSUME TypeOK, SlotInv, NEW c \in Clients, NEW l, Goto(c, l),
         SlotsStay, BoxStays, UNCHANGED <<slot, dying>>, OthersKeep(c),
         pc[c] \in RestPCs \cup WaitPCs, l \in RestPCs \cup WaitPCs,
         pc[c] \in WaitPCs <=> l \in WaitPCs,
         PopShape',
         l = "collect" => READY \in flags[slot[c]],
         l = "asleep"  => READY \notin flags[slot[c]]
  PROVE  SlotInv'
  <1> USE Constants DEF SlotInv, ListInv, RoleInv, UserInv
  <1>1. /\ pc'[c] = l /\ pc'[Main] = pc[Main] /\ c # Main
        /\ \A u \in Threads : u # c => pc'[u] = pc[u]
    BY Moves
  <1>2. /\ l \notin BusyPCs \cup {"aborted", "exchange", "link", "increase"}
        /\ pc[c] \notin BusyPCs \cup {"exchange", "link", "increase"}
    BY DEF RestPCs, WaitPCs, BusyPCs, DestroyPCs
  <1>3. Busy' = Busy /\ Dying' = Dying
    <2>1. Busy' = Busy
      BY <1>1, <1>2 DEF Busy
    <2>2. Dying' = {dying'[t] : t \in Busy'}
      BY DEF Dying, Busy, BusyPCs
    <2> QED
      BY <2>1, <2>2, DyingAre
  <1>4. Appending' = Appending /\ Linking' = Linking /\ Coming' = Coming
    BY <1>1, <1>2 DEF Appending, Linking, Coming
  <1>5. Popped' = Popped
    BY <1>1, <1>2 DEF Popped
  <1>6. Taking' = Taking /\ LastTaken' = LastTaken /\ \A i : Place(i)' = Place(i)
    BY <1>1 DEF Taking, LastTaken, Place, SlotsStay, BoxStays
  <1>7. InQueue' = InQueue
    BY <1>6 DEF InQueue, Chain, SlotsStay, BoxStays
  <1>8. \A d \in Clients : Holds(d)' <=> Holds(d)
    BY <1>1, <1>2, <1>4 DEF Holds, OthersKeep, Appending
  <1>9. Handles' = Handles /\ HandleOnce'
    BY <1>8, SameHandles DEF SlotsStay
  <1>10. Unanswered' = Unanswered /\ Settled' = Settled
    BY <1>1 DEF Unanswered, Settled, SlotsStay, BoxStays
  <1>11. NoAbort'
    BY <1>1, <1>2 DEF NoAbort
  <1>12. StackShape'
    BY SameStack DEF SlotsStay, BoxStays
  <1>13. PushShape'
    BY <1>1, <1>2 DEF PushShape, SlotsStay, OthersKeep, BusyPCs, DestroyPCs
  <1>14. QueueShape'
    BY <1>4, <1>6, SameQueue DEF SlotsStay, BoxStays
  <1>15. AppendShape'
    BY <1>1, <1>2, <1>4, <1>6 DEF AppendShape, SlotsStay, OthersKeep, Appending
  <1>16. MainShape'
    BY <1>1 DEF MainShape, SlotsStay, BoxStays, OthersKeep
  <1>17. Roles'
    BY <1>3, <1>5, <1>7, <1>9, SameRoles DEF SlotsStay
  <1>18. DummyRetired'
    BY <1>3, <1>5, <1>9 DEF DummyRetired, SlotsStay
  <1>19. FlagShape'
    <2>1. \A t \in Threads : pc'[t] \in {"pushLink", "pushCas"} => pc'[t] = pc[t]
      BY <1>1, <1>2 DEF BusyPCs, DestroyPCs
    <2> QED
      BY <2>1, <1>1, <1>5, <1>10 DEF FlagShape, SlotsStay, BoxStays
  <1>20. HandleShape'
    BY <1>7, <1>9 DEF HandleShape, SlotsStay
  <1>21. KillShape'
    BY <1>1 DEF KillShape, SlotsStay, BoxStays
  <1>22. AnswersOwn'
    BY <1>1 DEF AnswersOwn, SlotsStay
  <1>23. NoLostWakeup'
    BY <1>1 DEF NoLostWakeup, SlotsStay, BoxStays
  <1>24. NoSlotLost'
    BY <1>3, <1>5, <1>7, <1>9 DEF NoSlotLost, SlotsStay
  <1> QED
    BY <1>9, <1>11, <1>12, <1>13, <1>14, <1>15, <1>16, <1>17, <1>18, <1>19, <1>20,
       <1>21, <1>22, <1>23, <1>24

LEMMA PopStays ==
  ASSUME TypeOK, PopShape, NEW c \in Clients, NEW l, Goto(c, l),
         l \notin {"popRead", "popCas"}, UNCHANGED <<nextSlot, stack>>,
         \A u \in Threads : u # c => reg'[u] = reg[u] /\ nxt'[u] = nxt[u]
  PROVE  PopShape'
  <1>1. pc'[c] = l /\ \A u \in Threads : u # c => pc'[u] = pc[u]
    BY Moves, Constants
  <1>2. \A d \in Senders : d \in Threads
    BY Constants
  <1> QED
    BY <1>1, <1>2 DEF PopShape

(* Beginning, counting and giving up in qtz_send.                          *)
LEMMA AskKeeps ==
  ASSUME TypeOK, SlotInv, NEW c \in Senders,
         \/ \E k \in Kinds, m \in Modes : SendBegin(c, k, m)
         \/ AcquireSlot(c) \/ AcquireFail(c)
  PROVE  SlotInv'
  <1> USE Constants DEF slotVars, counters, boxVars, hist
  <1>1. c \in Clients /\ call \in [Clients -> [kind : AllKinds, mode : Modes]]
    BY DEF TypeOK, LocalsTyped
  <1>2. SlotsStay /\ BoxStays /\ UNCHANGED <<slot, dying, reg, nxt, ret>>
    BY DEF SendBegin, AcquireSlot, AcquireFail, SlotsStay, BoxStays
  <1>3. PICK l \in {"acquire", "loadFree", "idle"} : Goto(c, l)
    BY DEF SendBegin, AcquireSlot, AcquireFail
  <1>4. pc[c] \in {"idle", "acquire"}
    BY DEF SendBegin, AcquireSlot, AcquireFail
  <1>5. \A d \in Clients : d # c => call'[d] = call[d]
    BY <1>1 DEF SendBegin, AcquireSlot, AcquireFail, Forget
  <1>6. PopShape'
    BY <1>1, <1>2, <1>3, PopStays DEF SlotInv, ListInv, SlotsStay
  <1> QED
    BY <1>1, <1>2, <1>3, <1>4, <1>5, <1>6, QuietClient DEF OthersKeep, RestPCs, WaitPCs

(* With a permit the sender finds a slot at the head of the pool.          *)
LEMMA PoolNotEmpty ==
  ASSUME TypeOK, PermitsMatchPool, StackShape, NEW c \in Senders,
         pc[c] \in {"loadFree", "popRead", "popCas"}
  PROVE  /\ Len(stack) > 0 /\ nextFreeSlot = stack[1] /\ stack[1] \in Elems(stack)
         /\ 1 \in 1 .. Len(stack) /\ nextSlot[stack[1]] = FreeAt(2)
  <1> DEFINE P == {d \in Senders : pc[d] \in {"loadFree", "popRead", "popCas"}}
             R == {t \in Threads : pc[t] = "release"}
  <1>1. IsFiniteSet(P) /\ IsFiniteSet(R)
    BY FiniteThreads, FS_Subset, Constants
  <1>2. Cardinality(P) \in Nat /\ Cardinality(R) \in Nat /\ Cardinality(P) # 0
    BY <1>1, FS_CardinalityType, FS_EmptySet
  <1>3. stack \in Seq(Slots) /\ Len(stack) \in Nat /\ slotSemaphore \in Nat
    BY DEF TypeOK, HistoryTyped, BoxTyped
  <1> HIDE DEF P, R
  <1>4. Len(stack) > 0
    <2>1. Len(stack) = slotSemaphore + Cardinality(P) + Cardinality(R)
      BY DEF PermitsMatchPool, P, R
    <2> QED
      BY <2>1, <1>2, <1>3
  <1>5. 1 \in 1 .. Len(stack) /\ 1 \in DOMAIN stack
    BY <1>3, <1>4
  <1> QED
    BY <1>3, <1>4, <1>5 DEF StackShape, FreeAt, Elems

(* Looking at the head of the pool.                                        *)
LEMMA LookKeeps ==
  ASSUME OneSender, TypeOK, PermitsMatchPool, SlotInv, NEW c \in Senders,
         LoadFree(c) \/ PopRead(c) \/ (PopCas(c) /\ ~HeadUnchanged(c))
  PROVE  SlotInv'
  <1> USE Constants DEF slotVars, counters, boxVars, hist
  <1>1. /\ reg \in [Threads -> 0 .. N] /\ nxt \in [Threads -> 0 .. N]
        /\ PopShape /\ StackShape /\ stack \in Seq(Slots)
    BY DEF TypeOK, LocalsTyped, HistoryTyped, SlotInv, ListInv
  <1>2. pc[c] \in {"loadFree", "popRead", "popCas"}
    BY DEF LoadFree, PopRead, PopCas
  <1>3. /\ SlotsStay /\ BoxStays /\ UNCHANGED <<slot, dying, ret, call>>
        /\ \A u \in Threads : u # c => reg'[u] = reg[u]
    BY <1>1 DEF LoadFree, PopRead, PopCas, SlotsStay, BoxStays
  <1>4. Goto(c, "popRead") \/ Goto(c, "popCas")
    <2>1. CASE PopRead(c)
      <3>1. reg[c] \in Slots
        BY <2>1, <1>1, ElemsIn DEF PopRead, PopShape
      <3>2. Valid(reg[c])
        BY <3>1 DEF Valid, Slots
      <3> QED
        BY <3>2, <2>1 DEF PopRead
    <2> QED
      BY <2>1 DEF LoadFree, PopCas
  <1>5. PopShape'
    <2>1. \A d \in Senders : d = c
      BY DEF OneSender
    <2>2. nextFreeSlot \in Elems(stack)
      BY <1>2, <1>1, PoolNotEmpty
    <2>3. CASE LoadFree(c)
      <3>1. pc'[c] = "popRead" /\ reg'[c] = nextFreeSlot /\ stack' = stack
        BY <2>3, <1>1, Moves DEF LoadFree
      <3> QED
        BY <3>1, <2>1, <2>2 DEF PopShape
    <2>4. CASE PopCas(c) /\ ~HeadUnchanged(c)
      <3>1. pc'[c] = "popRead" /\ reg'[c] = nextFreeSlot /\ stack' = stack
        BY <2>4, <1>1, Moves DEF PopCas
      <3> QED
        BY <3>1, <2>1, <2>2 DEF PopShape
    <2>5. CASE PopRead(c)
      <3>1. reg[c] \in Elems(stack) /\ reg[c] \in Slots
        BY <2>5, <1>1, ElemsIn DEF PopRead, PopShape
      <3>2. Valid(reg[c])
        BY <3>1 DEF Valid, Slots
      <3>3. /\ pc'[c] = "popCas" /\ reg' = reg /\ stack' = stack /\ nextSlot' = nextSlot
            /\ nxt'[c] = nextSlot[reg[c]]
        BY <3>2, <2>5, <1>1, Moves DEF PopRead
      <3> QED
        BY <3>1, <3>3, <2>1 DEF PopShape
    <2> QED
      BY <2>3, <2>4, <2>5
  <1> QED
    BY <1>2, <1>3, <1>4, <1>5, QuietClient DEF OthersKeep, RestPCs, WaitPCs

(* Looking at the request in qtz_wait, and a client's end of               *)
(* destroy_request.                                                        *)
LEMMA WatchKeeps ==
  ASSUME TypeOK, SlotInv, NEW c \in Clients,
         WaitReady(c) \/ ReadStatus(c) \/ WaitSleep(c) \/ Release(c)
  PROVE  SlotInv'
  <1> USE Constants DEF slotVars, counters, boxVars, hist, locals
  <1>1. /\ call \in [Clients -> [kind : AllKinds, mode : Modes]]
        /\ ret \in [Threads -> {"idle", "dispatch", "checkClose"}] /\ ret[c] = "idle"
    BY DEF TypeOK, LocalsTyped, RegsTyped
  <1>2. SlotsStay /\ BoxStays /\ UNCHANGED <<slot, dying, reg, nxt>>
    BY DEF WaitReady, ReadStatus, WaitSleep, Release, SlotsStay, BoxStays
  <1>3. /\ \A d \in Clients : d # c => call'[d] = call[d]
        /\ \A u \in Threads : u # c => ret'[u] = ret[u]
    BY <1>1 DEF WaitReady, ReadStatus, WaitSleep, Release, Forget
  <1>4. PICK l \in {"collect", "discard", "asleep", "idle"} : Goto(c, l)
    BY <1>1 DEF WaitReady, ReadStatus, WaitSleep, Release
  <1>5. pc'[c] = l
    BY <1>4, Moves
  <1>6. /\ l = "collect" => READY \in flags[slot[c]]
        /\ l = "asleep" => READY \notin flags[slot[c]]
        /\ pc[c] \in RestPCs \cup WaitPCs
        /\ pc[c] \in WaitPCs <=> l \in WaitPCs
    <2>1. CASE WaitReady(c)
      <3>1. pc'[c] = "collect"
        BY <2>1, Moves DEF WaitReady
      <3> QED
        BY <3>1, <2>1, <1>5 DEF WaitReady, Ready, RestPCs, WaitPCs
    <2>2. CASE ReadStatus(c)
      <3>1. pc'[c] = "discard"
        BY <2>2, Moves DEF ReadStatus
      <3> QED
        BY <3>1, <2>2, <1>5 DEF ReadStatus, RestPCs, WaitPCs
    <2>3. CASE WaitSleep(c)
      <3>1. pc'[c] = "asleep"
        BY <2>3, Moves DEF WaitSleep
      <3> QED
        BY <3>1, <2>3, <1>5 DEF WaitSleep, MaySleep, Ready, RestPCs, WaitPCs
    <2>4. CASE Release(c)
      <3>1. pc'[c] = "idle"
        BY <2>4, <1>1, Moves DEF Release
      <3> QED
        BY <3>1, <2>4, <1>5 DEF Release, RestPCs, WaitPCs
    <2> QED
      BY <2>1, <2>2, <2>3, <2>4
  <1>7. PopShape'
    BY <1>2, <1>4, PopStays DEF SlotInv, ListInv, SlotsStay
  <1>8. l \in RestPCs \cup WaitPCs
    BY <1>4 DEF RestPCs, WaitPCs
  <1> QED
    BY <1>2, <1>3, <1>4, <1>6, <1>7, <1>8, QuietClient DEF OthersKeep
----------------------------------------------------------------------------
(* Steps of the mailbox thread that leave the lists alone.                 *)

ListsStay == UNCHANGED <<nextSlot, kind, stack, fifo, held, nextFreeSlot,
                         lastQueuedSlot, previousRequest>>

\* A client keeps its place, but for being woken.
Woken(c) == pc'[c] = pc[c] \/ (pc[c] = "asleep" /\ pc'[c] = "wait")

LEMMA MainStays ==
  ASSUME TypeOK, SlotInv, ListsStay, UNCHANGED <<reg, nxt, dying, call>>,
         \A c \in Clients : slot'[c] = slot[c] /\ Woken(c),
         pc[Main] \notin BusyPCs \cup Taken, pc'[Main] \notin BusyPCs \cup Taken,
         queuedMessages' + Taking' = queuedMessages + Taking,
         queuedMessages' \in Nat
  PROVE  /\ UNCHANGED <<Busy, Dying, Popped, Handles, InQueue>>
         /\ StackShape' /\ PopShape' /\ PushShape' /\ QueueShape' /\ AppendShape'
         /\ Roles' /\ HandleOnce' /\ NoSlotLost'
         /\ (pc'[Main] # "aborted" => NoAbort')
  <1> USE Constants DEF SlotInv, ListInv, RoleInv, UserInv
  <1>1. \A c \in Senders : c \in Clients /\ c \in Threads
    OBVIOUS
  <1>2. \A c \in Clients, l \in SendPCs \cup DestroyPCs \cup {"aborted"} :
           pc'[c] = l <=> pc[c] = l
    BY DEF Woken, SendPCs, DestroyPCs
  <1>3. \A c \in Clients : pc'[c] \in WaitPCs <=> pc[c] \in WaitPCs
    BY DEF Woken, WaitPCs
  <1>4. Busy' = Busy
    BY <1>2 DEF Busy, BusyPCs, DestroyPCs, Threads
  <1>5. Dying' = Dying
    <2>1. Dying' = {dying'[t] : t \in Busy'}
      BY DEF Dying, Busy, BusyPCs
    <2> QED
      BY <2>1, <1>4, DyingAre
  <1>6. Appending' = Appending /\ Linking' = Linking /\ Coming' = Coming
    <2>1. Appending' = Appending
      BY <1>1, <1>2 DEF Appending, SendPCs
    <2>2. Linking' = Linking
      BY <1>1, <1>2 DEF Linking, SendPCs
    <2> QED
      BY <2>1, <2>2 DEF Coming
  <1>7. Popped' = Popped
    <2>1. \A c \in Senders : /\ pc'[c] = "exchange" <=> pc[c] = "exchange"
                             /\ slot'[c] = slot[c]
      BY <1>1, <1>2 DEF SendPCs
    <2> QED
      BY <2>1 DEF Popped
  <1>8. LastTaken' = LastTaken /\ \A i : Place(i)' = Place(i)
    BY DEF LastTaken, Place, ListsStay, Taken
  <1>9. InQueue' = InQueue
    BY <1>8 DEF InQueue, Chain, ListsStay
  <1>10. \A c \in Clients : Holds(c)' <=> Holds(c)
    BY <1>3, <1>6 DEF Holds
  <1>11. Handles' = Handles /\ HandleOnce'
    BY <1>10, SameHandles DEF ListsStay
  <1>12. StackShape'
    BY SameStack DEF ListsStay
  <1>13. PopShape'
    BY <1>1, <1>2 DEF PopShape, ListsStay, SendPCs
  <1>14. PushShape'
    <2>1. \A t \in Threads : pc'[t] = "pushCas" => pc[t] = "pushCas"
      BY <1>2 DEF Threads, BusyPCs, DestroyPCs
    <2> QED
      BY <2>1 DEF PushShape, ListsStay
  <1>15. QueueShape'
    <2>1. Coming \in Nat /\ Taking \in Nat /\ Taking' \in Nat /\ queuedMessages \in Nat
      BY DEF Coming, Taking, TypeOK, BoxTyped
    <2>2. PICK q \in Nat, c \in Nat, t \in Nat, r \in Nat, u \in Nat :
             /\ q = queuedMessages /\ c = Coming /\ t = Taking
             /\ r = queuedMessages' /\ u = Taking'
      BY <2>1
    <2>3. r + u = q + t
      BY <2>2
    <2>4. r + c + u = q + c + t
      BY <2>3
    <2>5. queuedMessages' + Coming' + Taking' = queuedMessages + Coming + Taking
      BY <2>2, <2>4, <1>6
    <2> QED
      BY <2>5, <1>6, <1>8, SameQueue DEF ListsStay
  <1>16. AppendShape'
    <2>1. \A c \in Appending : c \in Clients /\ (pc'[c] = "link" => pc[c] = "link")
      BY <1>1, <1>2 DEF Appending, SendPCs
    <2> QED
      BY <2>1, <1>6, <1>8 DEF AppendShape, ListsStay
  <1>17. Roles'
    BY <1>4, <1>5, <1>7, <1>9, <1>11, SameRoles DEF ListsStay
  <1>18. NoSlotLost'
    BY <1>5, <1>7, <1>9, <1>11 DEF NoSlotLost, ListsStay
  <1>19. pc'[Main] # "aborted" => NoAbort'
    BY <1>2 DEF NoAbort, Threads
  <1> QED
    BY <1>4, <1>5, <1>7, <1>9, <1>11, <1>12, <1>13, <1>14, <1>15, <1>16, <1>17,
       <1>18, <1>19

LEMMA MainGoes ==
  ASSUME TypeOK, NEW l, Goto(Main, l)
  PROVE  pc'[Main] = l /\ \A c \in Clients : pc'[c] = pc[c] /\ Woken(c)
  BY Moves, Constants DEF Woken

\* Only the mailbox thread's own place and request can have changed.
LEMMA MainQuiet ==
  ASSUME TypeOK, SlotInv, ListsStay, NEW l, Goto(Main, l),
         UNCHANGED <<flags, status, answer, reg, nxt, dying, call, killRequest,
                     shouldClose>>,
         \A c \in Clients : slot'[c] = slot[c],
         pc[Main] \notin BusyPCs \cup Taken \cup {"wake", "wakeKiller"},
         l \notin BusyPCs \cup Taken \cup {"aborted", "notify", "destroy", "release"},
         queuedMessages' \in Nat,
         queuedMessages' + Taking' = queuedMessages + Taking,
         l \in Working => pc[Main] \in Working /\ slot'[Main] = slot[Main],
         l \in Pending => pc[Main] \in Pending,
         Settled' => Settled,
         killRequest # None =>
           l \in {"checkClose", "closing", "wakeKiller", "stopped"},
         l \in {"closing", "wakeKiller"} => killRequest # None
  PROVE  SlotInv'
  <1> USE Constants DEF SlotInv, ListInv, RoleInv, UserInv
  <1>1. pc'[Main] = l /\ \A c \in Clients : pc'[c] = pc[c] /\ Woken(c)
    BY MainGoes
  <1>2. pc'[Main] \notin BusyPCs \cup Taken \cup {"aborted"}
    BY <1>1
  <1>3. /\ UNCHANGED <<Busy, Dying, Popped, Handles, InQueue>>
        /\ StackShape' /\ PopShape' /\ PushShape' /\ QueueShape' /\ AppendShape'
        /\ Roles' /\ HandleOnce' /\ NoSlotLost' /\ NoAbort'
    BY <1>1, <1>2, MainStays
  <1>4. MainShape'
    BY <1>1 DEF MainShape, ListsStay, Taken, DestroyPCs, BusyPCs
  <1>5. DummyRetired'
    BY <1>3 DEF DummyRetired, ListsStay
  <1>6. FlagShape'
    <2>1. \A t \in Threads : pc'[t] \in {"pushLink", "pushCas"} => pc[t] = pc'[t]
      BY <1>1 DEF Threads, BusyPCs, DestroyPCs
    <2>2. Unanswered' \subseteq Unanswered
      <3>1. CASE l \in Pending
        BY <3>1, <1>1 DEF Unanswered, Pending, Working, Taken, ListsStay, DestroyPCs, BusyPCs
      <3>2. CASE l \notin Pending
        BY <3>2, <1>1 DEF Unanswered, ListsStay
      <3> QED
        BY <3>1, <3>2
    <2> QED
      BY <2>1, <2>2, <1>1, <1>3 DEF FlagShape, ListsStay, Taken
  <1>7. HandleShape'
    BY <1>3 DEF HandleShape, ListsStay
  <1>8. KillShape'
    BY <1>1 DEF KillShape, ListsStay
  <1>9. AnswersOwn'
    BY <1>1 DEF AnswersOwn, ListsStay
  <1>10. NoLostWakeup'
    BY <1>1 DEF NoLostWakeup
  <1> QED
    BY <1>3, <1>4, <1>5, <1>6, <1>7, <1>8, <1>9, <1>10

(* Counting, closing and the mailbox thread's end of destroy_request.      *)
LEMMA LoopKeeps ==
  ASSUME TypeOK, SlotInv, Decrease \/ CheckClose \/ Release(Main)
  PROVE  SlotInv'
  <1> USE Constants DEF slotVars, counters, boxVars, hist, locals
  <1>1. /\ slot \in [Threads -> Slots] /\ queuedMessages \in Nat
        /\ MainShape /\ KillShape
    BY DEF TypeOK, LocalsTyped, BoxTyped, SlotInv, RoleInv, UserInv
  <1>2. CASE Decrease
    <2>1. /\ ListsStay /\ UNCHANGED <<flags, status, answer, reg, nxt, dying, call,
                                      killRequest, shouldClose, slot>>
          /\ Goto(Main, "getNext") /\ pc[Main] = "idle"
          /\ queuedMessages' = queuedMessages - 1 /\ queuedMessages > 0
      BY <1>2 DEF Decrease, ListsStay
    <2>2. pc'[Main] = "getNext"
      BY <2>1, MainGoes
    <2>3. queuedMessages' \in Nat /\ queuedMessages' + Taking' = queuedMessages + Taking
      BY <2>1, <2>2, <1>1 DEF Taking
    <2>4. Settled
      BY <2>1 DEF Settled
    <2>5. "getNext" \notin BusyPCs \cup Taken \cup Working \cup Pending
      BY DEF BusyPCs, DestroyPCs, Taken, Working, Pending
    <2>6. "idle" \notin BusyPCs \cup Taken
      BY DEF BusyPCs, DestroyPCs, Taken
    <2>7. killRequest = None
      BY <1>1, <2>1 DEF KillShape
    <2> QED
      BY <2>1, <2>3, <2>4, <2>5, <2>6, <2>7, MainQuiet
  <1>3. CASE CheckClose
    <2> DEFINE l == IF ~shouldClose THEN "idle"
                    ELSE IF killRequest = None THEN "crashed" ELSE "closing"
    <2>1. /\ ListsStay /\ UNCHANGED <<flags, status, answer, reg, nxt, dying, call,
                                      killRequest, shouldClose, queuedMessages>>
          /\ Goto(Main, l) /\ pc[Main] = "checkClose"
          /\ \A c \in Clients : slot'[c] = slot[c]
      BY <1>3, <1>1 DEF CheckClose, ListsStay, Forget
    <2>2. pc'[Main] = l
      BY <2>1, MainGoes
    <2>3. queuedMessages' \in Nat /\ queuedMessages' + Taking' = queuedMessages + Taking
      BY <2>1, <2>2, <1>1 DEF Taking
    <2>4. l \notin BusyPCs \cup Taken \cup Working \cup Pending
                     \cup {"aborted", "notify", "destroy", "release"}
      BY DEF BusyPCs, DestroyPCs, Taken, Working, Pending
    <2>5. Settled' => Settled
      BY <2>1, <2>2 DEF Settled, Taken
    <2>6. "checkClose" \notin BusyPCs \cup Taken
      BY DEF BusyPCs, DestroyPCs, Taken
    <2>7. /\ killRequest # None => l = "closing"
          /\ l \in {"closing", "wakeKiller"} => killRequest # None
      BY <1>1 DEF KillShape
    <2> HIDE DEF l
    <2> QED
      BY <2>1, <2>3, <2>4, <2>5, <2>6, <2>7, MainQuiet
  <1>4. CASE Release(Main)
    <2>1. pc[Main] = "release" /\ ret[Main] = "dispatch"
      BY <1>4, <1>1 DEF Release, MainShape, DestroyPCs
    <2>2. /\ ListsStay /\ UNCHANGED <<flags, status, answer, reg, nxt, dying, call,
                                      killRequest, shouldClose, slot, queuedMessages>>
          /\ Goto(Main, "dispatch")
      BY <1>4, <2>1 DEF Release, ListsStay
    <2>3. pc'[Main] = "dispatch"
      BY <2>2, MainGoes
    <2>4. queuedMessages' \in Nat /\ queuedMessages' + Taking' = queuedMessages + Taking
      BY <2>1, <2>2, <2>3, <1>1 DEF Taking
    <2>5. ~Settled'
      BY <2>3 DEF Settled, Taken
    <2>6. /\ "release" \in Working \cap Pending /\ "release" \notin BusyPCs \cup Taken
          /\ "dispatch" \notin BusyPCs \cup Taken
      BY DEF BusyPCs, DestroyPCs, Taken, Working, Pending
    <2>7. killRequest = None
      BY <1>1, <2>1 DEF KillShape
    <2> QED
      BY <2>1, <2>2, <2>4, <2>5, <2>6, <2>7, MainQuiet
  <1> QED
    BY <1>2, <1>3, <1>4

LEMMA KindsApart ==
  /\ ReplyKinds \cap DestroyKinds = {} /\ HandleKinds \cap DestroyKinds = {}
  /\ "alloc" \in ReplyKinds /\ "alloc" \notin DestroyKinds
  /\ "kill" \notin ReplyKinds /\ "kill" \notin DestroyKinds
  BY DEF ReplyKinds, DestroyKinds, HandleKinds

(* The request that the mailbox thread works on: locked, its own, and not  *)
(* waiting in the queue.                                                   *)
LEMMA InHand ==
  ASSUME TypeOK, SlotInv, previousRequest # Dummy
  PROVE  /\ previousRequest \in InQueue /\ previousRequest \in Slots
         /\ previousRequest \notin Elems(stack) \cup Popped \cup Dying
         /\ NOT_PRESERVED \notin flags[previousRequest]
         /\ pc[Main] \notin Taken => previousRequest \notin Elems(fifo)
  <1> USE DEF SlotInv, ListInv, RoleInv
  <1>1. previousRequest \in InQueue /\ previousRequest \in Slots
    BY DEF InQueue, TypeOK, BoxTyped
  <1>2. pc[Main] \notin Taken => previousRequest \notin Elems(fifo)
    BY LastNotQueued DEF LastTaken, Taken
  <1> QED
    BY <1>1, <1>2 DEF Roles, FlagShape

LEMMA DispatchKeeps ==
  ASSUME TypeOK, SlotInv, Dispatch
  PROVE  SlotInv'
  <1> USE Constants DEF SlotInv, ListInv, RoleInv, UserInv
  <1> DEFINE s == slot[Main]
  <1>1. /\ pc[Main] = "dispatch" /\ s = previousRequest /\ s # Dummy /\ s \in Slots
        /\ queuedMessages \in Nat
    BY DEF Dispatch, MainShape, Working, TypeOK, LocalsTyped, BoxTyped
  <1>2. /\ ListsStay
        /\ UNCHANGED <<flags, reg, nxt, dying, call, queuedMessages, slot, ret>>
    BY DEF Dispatch, ListsStay, counters, boxVars, locals, hist
  <1>3. killRequest = None /\ None \notin Slots
    BY <1>1, NoneAssumption DEF KillShape
  <1>4. \/ /\ kind[s] \in ReplyKinds /\ Goto(Main, "notify")
           /\ UNCHANGED <<killRequest, shouldClose>>
        \/ /\ kind[s] \in DestroyKinds /\ Goto(Main, "destroy")
           /\ UNCHANGED <<killRequest, shouldClose>>
        \/ /\ kind[s] = "kill" /\ Goto(Main, "checkClose")
           /\ killRequest' = s /\ shouldClose'
    BY DEF Dispatch, boxVars, ReplyKinds, DestroyKinds, RequestKept
  <1>5. PICK l \in {"notify", "destroy", "checkClose"} : Goto(Main, l)
    BY <1>4
  <1>6. pc'[Main] = l /\ \A c \in Clients : pc'[c] = pc[c] /\ Woken(c)
    BY <1>5, MainGoes
  <1>7. /\ pc[Main] \notin BusyPCs \cup Taken
        /\ pc'[Main] \notin BusyPCs \cup Taken \cup {"aborted"}
    BY <1>1, <1>6 DEF BusyPCs, DestroyPCs, Taken
  <1>8. queuedMessages' + Taking' = queuedMessages + Taking
    BY <1>1, <1>2, <1>6 DEF Taking
  <1>9. /\ UNCHANGED <<Busy, Dying, Popped, Handles, InQueue>>
        /\ StackShape' /\ PopShape' /\ PushShape' /\ QueueShape' /\ AppendShape'
        /\ Roles' /\ HandleOnce' /\ NoSlotLost' /\ NoAbort'
    BY <1>1, <1>2, <1>6, <1>7, <1>8, MainStays
  <1>10. \/ l = "notify" /\ kind[s] \in ReplyKinds
         \/ l = "destroy" /\ kind[s] \in DestroyKinds
         \/ l = "checkClose"
    BY <1>4, <1>6, MainGoes
  <1>11. MainShape'
    BY <1>1, <1>2, <1>6, <1>10 DEF MainShape, ListsStay, Taken, DestroyPCs
  <1>12. DummyRetired'
    BY <1>2, <1>9 DEF DummyRetired, ListsStay
  <1>13. FlagShape'
    <2>1. \A t \in Threads : pc'[t] \in {"pushLink", "pushCas"} => pc[t] = pc'[t]
      BY <1>6, <1>7 DEF Threads, BusyPCs, DestroyPCs
    <2>2. Unanswered' \subseteq Unanswered
      BY <1>1, <1>2, <1>6 DEF Unanswered, Pending, ListsStay
    <2>3. ~Settled'
      <3>1. CASE l = "checkClose"
        <4>1. shouldClose'
          BY <3>1, <1>4, <1>6, MainGoes
        <4> QED
          BY <4>1, <3>1, <1>6 DEF Settled, Taken
      <3>2. CASE l # "checkClose"
        BY <3>2, <1>6 DEF Settled, Taken
      <3> QED
        BY <3>1, <3>2
    <2> QED
      BY <2>1, <2>2, <2>3, <1>2, <1>6, <1>9 DEF FlagShape, ListsStay
  <1>14. HandleShape'
    BY <1>2, <1>9 DEF HandleShape, ListsStay
  <1>15. KillShape'
    <2>1. l = "checkClose" => killRequest' = s /\ shouldClose' /\ kind[s] = "kill"
      BY <1>4, <1>6, MainGoes
    <2>2. l # "checkClose" => killRequest' = None
      BY <1>3, <1>4, <1>6, MainGoes
    <2> QED
      BY <2>1, <2>2, <1>1, <1>2, <1>6 DEF KillShape, ListsStay
  <1>16. AnswersOwn'
    <2>1. READY \notin flags[s]
      BY <1>1 DEF FlagShape, Unanswered, Pending
    <2>2. \A x \in Slots : x # s => status'[x] = status[x] /\ answer'[x] = answer[x]
      BY <1>2 DEF Dispatch, StatusStored, TypeOK, SlotsTyped, HistoryTyped
    <2>3. kind[s] = "alloc" => status'[s] = answer'[s]
      BY <1>1 DEF Dispatch, StatusStored, DestroyKinds, TypeOK, SlotsTyped, HistoryTyped
    <2> QED
      BY <2>1, <2>2, <2>3, <1>2, <1>6 DEF AnswersOwn, ListsStay
  <1>17. NoLostWakeup'
    BY <1>1, <1>2, <1>6 DEF NoLostWakeup
  <1> QED
    BY <1>9, <1>11, <1>12, <1>13, <1>14, <1>15, <1>16, <1>17

(* action_notify_sender, action_destroy and the mark on the kill request:  *)
(* the request in hand is locked, so that they never destroy it, and it    *)
(* becomes ready.                                                          *)
LEMMA MarkKeeps ==
  ASSUME TypeOK, SlotInv, ActionNotify \/ ActionDestroy \/ MarkKilled
  PROVE  SlotInv'
  <1> USE Constants DEF SlotInv, ListInv, RoleInv, UserInv
  <1> DEFINE p == previousRequest
  <1>1. /\ pc[Main] \in {"notify", "destroy", "closing"} /\ p # Dummy /\ p \in Slots
        /\ pc[Main] # "closing" => slot[Main] = p /\ killRequest = None
        /\ pc[Main] = "closing" => killRequest = p /\ kind[p] = "kill" /\ shouldClose
        /\ pc[Main] = "notify" => kind[p] \in ReplyKinds
        /\ pc[Main] = "destroy" => kind[p] \in DestroyKinds
        /\ queuedMessages \in Nat /\ flags \in [Slots -> SUBSET FlagBits]
    BY DEF ActionNotify, ActionDestroy, MarkKilled, MainShape, KillShape, Working,
           TypeOK, BoxTyped, SlotsTyped
  <1>2. /\ p \in InQueue /\ p \notin Elems(stack) \cup Popped \cup Dying
        /\ NOT_PRESERVED \notin flags[p] /\ p \notin Elems(fifo)
    BY <1>1, InHand DEF Taken
  <1>3. /\ ListsStay
        /\ UNCHANGED <<status, answer, reg, nxt, call, queuedMessages, slot,
                       killRequest, shouldClose>>
    BY DEF ActionNotify, ActionDestroy, MarkKilled, ListsStay, counters, boxVars,
           locals, hist
  <1>4. UNCHANGED <<dying, ret>>
    BY <1>1, <1>2 DEF ActionNotify, ActionDestroy, MarkKilled, locals
  <1>5. /\ \A x \in Slots : x # p => flags'[x] = flags[x]
        /\ READY \in flags'[p] /\ NOT_PRESERVED \notin flags'[p]
        /\ DISCARDED \in flags[p] => DISCARDED \in flags'[p]
        /\ DISCARDED \in flags'[p] => DISCARDED \in flags[p] \/ kind[p] \in DestroyKinds
        /\ pc[Main] = "destroy" => DISCARDED \in flags'[p]
    BY <1>1, <1>2 DEF ActionNotify, ActionDestroy, MarkKilled, READY, DISCARDED,
                      NOT_PRESERVED
  <1>6. \/ Goto(Main, "wake") /\ pc[Main] = "notify"
        \/ Goto(Main, "checkClose") /\ pc[Main] = "notify" /\ DISCARDED \in flags[p]
        \/ Goto(Main, "checkClose") /\ pc[Main] = "destroy"
        \/ Goto(Main, "wakeKiller") /\ pc[Main] = "closing"
    BY <1>1, <1>2 DEF ActionNotify, ActionDestroy, MarkKilled
  <1>7. PICK l \in {"wake", "checkClose", "wakeKiller"} : Goto(Main, l)
    BY <1>6
  <1>8. pc'[Main] = l /\ \A c \in Clients : pc'[c] = pc[c] /\ Woken(c)
    BY <1>7, MainGoes
  <1>9. \/ l = "wake" /\ pc[Main] = "notify"
        \/ l = "checkClose" /\ pc[Main] = "notify" /\ DISCARDED \in flags[p]
        \/ l = "checkClose" /\ pc[Main] = "destroy"
        \/ l = "wakeKiller" /\ pc[Main] = "closing"
    BY <1>6, <1>8, MainGoes
  <1>10. /\ pc[Main] \notin BusyPCs \cup Taken
         /\ pc'[Main] \notin BusyPCs \cup Taken \cup {"aborted"}
    BY <1>1, <1>8 DEF BusyPCs, DestroyPCs, Taken
  <1>11. queuedMessages' + Taking' = queuedMessages + Taking
    BY <1>1, <1>3, <1>8 DEF Taking
  <1>12. /\ UNCHANGED <<Busy, Dying, Popped, Handles, InQueue>>
         /\ StackShape' /\ PopShape' /\ PushShape' /\ QueueShape' /\ AppendShape'
         /\ Roles' /\ HandleOnce' /\ NoSlotLost' /\ NoAbort'
    BY <1>1, <1>3, <1>4, <1>8, <1>10, <1>11, MainStays
  <1>13. MainShape'
    BY <1>1, <1>3, <1>8, <1>9 DEF MainShape, ListsStay, Taken, DestroyPCs, Working
  <1>14. DummyRetired'
    BY <1>1, <1>3, <1>5, <1>12 DEF DummyRetired, ListsStay
  <1>15. FlagShape'
    <2>1. \A t \in Threads : pc'[t] \in {"pushLink", "pushCas"} =>
             pc[t] = pc'[t] /\ dying[t] \in Dying /\ dying[t] \in Slots
      BY <1>8, <1>10, DyingAre DEF Threads, Busy, BusyPCs, DestroyPCs, TypeOK, LocalsTyped
    <2>2. Unanswered' \subseteq Unanswered /\ p \notin Unanswered'
      BY <1>2, <1>3, <1>8 DEF Unanswered, Pending, ListsStay, Taken, DestroyPCs
    <2>3. Elems(stack) \subseteq Slots /\ Elems(fifo) \subseteq Slots /\ Popped \subseteq Slots
      BY InSlots
    <2>4. \A s \in Elems(stack)' \cup Popped' : flags'[s] = {NOT_PRESERVED}
      BY <2>3, <1>2, <1>3, <1>5, <1>12 DEF FlagShape, ListsStay
    <2>5. \A t \in Threads :
            pc'[t] \in {"pushLink", "pushCas"} => flags'[dying'[t]] = {NOT_PRESERVED}
      BY <2>1, <1>2, <1>4, <1>5 DEF FlagShape
    <2>6. Unanswered' \subseteq Slots
      BY <2>3, <1>3, <1>8 DEF Unanswered, Pending, ListsStay, Taken, DestroyPCs
    <2>7. \A s \in Unanswered' : READY \notin flags'[s]
      BY <2>2, <2>6, <1>5 DEF FlagShape
    <2> QED
      BY <2>4, <2>5, <2>7, <1>3, <1>5, <1>8 DEF FlagShape, ListsStay
  <1>16. HandleShape'
    <2>1. Handles \subseteq Slots /\ InQueue \subseteq Slots
      BY InSlots
    <2>2. p \in Handles => DISCARDED \notin flags'[p]
      BY <1>5, KindsApart DEF HandleShape
    <2>3. \A s \in Handles : DISCARDED \notin flags'[s] /\ kind'[s] \in HandleKinds
      BY <2>1, <2>2, <1>3, <1>5 DEF HandleShape, ListsStay
    <2>4. \A s \in Handles \ InQueue : READY \in flags'[s] /\ NOT_PRESERVED \in flags'[s]
      BY <2>1, <1>2, <1>5 DEF HandleShape
    <2>5. DISCARDED \in flags'[p] \/ p \in Handles
      BY <1>1, <1>2, <1>5, KindsApart DEF HandleShape
    <2>6. \A s \in InQueue \ {Dummy} :
            /\ kind'[s] # "none"
            /\ DISCARDED \in flags'[s] \/ s \in Handles
                 \/ (kind'[s] \in DestroyKinds /\ READY \notin flags'[s])
      BY <2>1, <2>5, <1>3, <1>5 DEF HandleShape, ListsStay
    <2> QED
      BY <2>3, <2>4, <2>6, <1>12 DEF HandleShape
  <1>17. KillShape'
    BY <1>1, <1>3, <1>8, <1>9, NoneAssumption DEF KillShape, ListsStay
  <1>18. AnswersOwn'
    <2>1. kind[p] = "alloc" => status[p] = answer[p]
      BY <1>1, KindsApart DEF AnswersOwn
    <2>2. \A c \in Clients : slot[c] \in Slots
      BY DEF TypeOK, LocalsTyped
    <2> QED
      BY <2>1, <2>2, <1>3, <1>5, <1>8 DEF AnswersOwn, ListsStay
  <1>19. NoLostWakeup'
    <2> SUFFICES ASSUME NEW c \in Clients, pc[c] = "asleep", READY \in flags'[slot[c]]
                 PROVE  \/ pc'[Main] = "wake" /\ slot[Main] = slot[c]
                        \/ pc'[Main] = "wakeKiller" /\ killRequest = slot[c]
      BY <1>3, <1>8 DEF NoLostWakeup
    <2>1. slot[c] \in Slots /\ slot[c] \in Handles
      BY HandlesAre DEF TypeOK, LocalsTyped, Holds, WaitPCs
    <2>2. slot[c] = p
      BY <2>1, <1>1, <1>5 DEF NoLostWakeup
    <2>3. DISCARDED \notin flags[p] /\ kind[p] \notin DestroyKinds
      BY <2>1, <2>2, KindsApart DEF HandleShape
    <2> QED
      BY <2>2, <2>3, <1>1, <1>8, <1>9
  <1> QED
    BY <1>12, <1>13, <1>14, <1>15, <1>16, <1>17, <1>18, <1>19

(* The wake-ups.                                                           *)
LEMMA WakeKeeps ==
  ASSUME TypeOK, SlotInv, NotifyAll \/ WakeKiller
  PROVE  SlotInv'
  <1> USE Constants DEF SlotInv, ListInv, RoleInv, UserInv
  <1> DEFINE p == previousRequest
             l == IF pc[Main] = "wake" THEN "checkClose" ELSE "stopped"
  <1>1. /\ pc[Main] \in {"wake", "wakeKiller"} /\ queuedMessages \in Nat
        /\ pc[Main] = "wake" => slot[Main] = p /\ killRequest = None
        /\ pc[Main] = "wakeKiller" => killRequest = p /\ killRequest # None
    BY DEF NotifyAll, WakeKiller, MainShape, KillShape, Working, TypeOK, BoxTyped
  <1>2. /\ ListsStay
        /\ UNCHANGED <<flags, status, answer, reg, nxt, call, queuedMessages, slot,
                       dying, ret, killRequest, shouldClose>>
    BY DEF NotifyAll, WakeKiller, ListsStay, slotVars, counters, boxVars, locals, hist
  <1>3. WakeAll(p, l)
    BY <1>1 DEF NotifyAll, WakeKiller
  <1>4. /\ pc'[Main] = l
        /\ \A c \in Clients : /\ Woken(c)
                              /\ pc[c] = "asleep" /\ slot[c] = p => pc'[c] = "wait"
                              /\ pc'[c] \in {"asleep", "collect"} => pc'[c] = pc[c]
    BY <1>3 DEF WakeAll, AsleepOn, Woken
  <1>5. l \in {"checkClose", "stopped"} /\ (l = "checkClose" <=> pc[Main] = "wake")
    BY <1>1
  <1> HIDE DEF l
  <1>6. /\ pc[Main] \notin BusyPCs \cup Taken
        /\ pc'[Main] \notin BusyPCs \cup Taken \cup {"aborted"}
    BY <1>1, <1>4, <1>5 DEF BusyPCs, DestroyPCs, Taken
  <1>7. queuedMessages' + Taking' = queuedMessages + Taking
    BY <1>1, <1>2, <1>4, <1>5 DEF Taking
  <1>8. /\ UNCHANGED <<Busy, Dying, Popped, Handles, InQueue>>
        /\ StackShape' /\ PopShape' /\ PushShape' /\ QueueShape' /\ AppendShape'
        /\ Roles' /\ HandleOnce' /\ NoSlotLost' /\ NoAbort'
    BY <1>1, <1>2, <1>4, <1>6, <1>7, MainStays
  <1>9. MainShape'
    BY <1>1, <1>2, <1>4, <1>5 DEF MainShape, ListsStay, Taken, DestroyPCs, Working
  <1>10. DummyRetired'
    BY <1>2, <1>8 DEF DummyRetired, ListsStay
  <1>11. FlagShape'
    <2>1. \A t \in Threads : pc'[t] \in {"pushLink", "pushCas"} => pc[t] = pc'[t]
      BY <1>4, <1>6 DEF Threads, BusyPCs, DestroyPCs, Woken
    <2>2. Unanswered' \subseteq Unanswered
      BY <1>2, <1>4, <1>5 DEF Unanswered, Pending, ListsStay, Taken, DestroyPCs
    <2>3. Settled' => Settled
      BY <1>2, <1>4, <1>5 DEF Settled, Taken
    <2> QED
      BY <2>1, <2>2, <2>3, <1>2, <1>4, <1>5, <1>8 DEF FlagShape, ListsStay
  <1>12. HandleShape'
    BY <1>2, <1>8 DEF HandleShape, ListsStay
  <1>13. KillShape'
    BY <1>1, <1>2, <1>4, <1>5 DEF KillShape, ListsStay
  <1>14. AnswersOwn'
    BY <1>2, <1>4, <1>5 DEF AnswersOwn, ListsStay
  <1>15. NoLostWakeup'
    BY <1>1, <1>2, <1>4 DEF NoLostWakeup
  <1> QED
    BY <1>8, <1>9, <1>10, <1>11, <1>12, <1>13, <1>14, <1>15
----------------------------------------------------------------------------
(* Who destroys a request, and what stays with the clients.                *)

LEMMA BusyMoves ==
  ASSUME TypeOK, NEW t \in Threads, NEW l, Goto(t, l),
         \A u \in Threads : u # t => dying'[u] = dying[u]
  PROVE  /\ l \notin BusyPCs /\ pc[t] \notin BusyPCs => Busy' = Busy /\ Dying' = Dying
         /\ l \in BusyPCs /\ pc[t] \in BusyPCs /\ dying'[t] = dying[t] =>
              Busy' = Busy /\ Dying' = Dying
         /\ l \in BusyPCs /\ pc[t] \notin BusyPCs =>
              Busy' = Busy \cup {t} /\ Dying' = Dying \cup {dying'[t]} /\ t \notin Busy
         /\ l \notin BusyPCs /\ pc[t] \in BusyPCs /\ Roles =>
              Busy' = Busy \ {t} /\ Dying' = Dying \ {dying[t]} /\ t \in Busy
  <1>1. pc'[t] = l /\ \A u \in Threads : u # t => pc'[u] = pc[u]
    BY Moves
  <1>2. \A s : s \in Dying' <=> \E u \in Busy' : dying'[u] = s
    BY DEF Dying, Busy, BusyPCs
  <1>3. Busy \subseteq Threads
    BY DEF Busy
  <1>4. CASE l \notin BusyPCs /\ pc[t] \notin BusyPCs
    <2>1. Busy' = Busy /\ t \notin Busy
      BY <1>1, <1>4 DEF Busy
    <2> QED
      BY <2>1, <1>2, <1>3, <1>4, DyingAre
  <1>5. CASE l \in BusyPCs /\ pc[t] \in BusyPCs
    <2>1. Busy' = Busy
      BY <1>1, <1>5 DEF Busy
    <2>2. dying'[t] = dying[t] => Dying' = Dying
      BY <2>1, <1>2, <1>3, DyingAre
    <2> QED
      BY <2>1, <2>2, <1>5
  <1>6. CASE l \in BusyPCs /\ pc[t] \notin BusyPCs
    <2>1. Busy' = Busy \cup {t} /\ t \notin Busy
      BY <1>1, <1>6 DEF Busy
    <2> QED
      BY <2>1, <1>2, <1>3, <1>6, DyingAre
  <1>7. CASE l \notin BusyPCs /\ pc[t] \in BusyPCs
    <2>1. Busy' = Busy \ {t} /\ t \in Busy
      BY <1>1, <1>7 DEF Busy
    <2>2. Roles => \A u \in Busy : dying[u] = dying[t] => u = t
      BY <2>1 DEF Roles
    <2> QED
      BY <2>1, <2>2, <1>2, <1>3, <1>7, DyingAre
  <1> QED
    BY <1>4, <1>5, <1>6, <1>7

\* The clients and what they hold stay as they are.
ClientsStay ==
  /\ \A c \in Clients : pc'[c] = pc[c] /\ slot'[c] = slot[c]
  /\ UNCHANGED <<reg, nxt, call, held>>

LEMMA ClientSets ==
  ASSUME SlotInv, ClientsStay
  PROVE  /\ UNCHANGED <<Appending, Linking, Coming, Popped, Handles>> /\ HandleOnce'
         /\ (UNCHANGED <<stack, nextSlot>> => PopShape')
  <1> USE Constants DEF SlotInv, ListInv, RoleInv
  <1>1. \A c \in Senders : pc'[c] = pc[c] /\ slot'[c] = slot[c] /\ c \in Threads
    BY DEF ClientsStay
  <1>2. Appending' = Appending
    BY <1>1 DEF Appending
  <1>3. Linking' = Linking
    BY <1>1 DEF Linking
  <1>4. Popped' = Popped
    BY <1>1 DEF Popped
  <1>5. \A c \in Clients : Holds(c)' <=> Holds(c)
    BY <1>2 DEF Holds, ClientsStay
  <1>6. Handles' = Handles /\ HandleOnce'
    BY <1>5, SameHandles DEF ClientsStay
  <1>7. UNCHANGED <<stack, nextSlot>> => PopShape'
    BY <1>1 DEF PopShape, ClientsStay
  <1> QED
    BY <1>2, <1>3, <1>4, <1>6, <1>7 DEF Coming
----------------------------------------------------------------------------
(* acquire_next_queued_request.                                            *)

(* The link from the request taken last leads to the oldest in the queue.  *)
LEMMA NextIsOldest ==
  ASSUME TypeOK, SlotInv, pc[Main] = "getNext"
  PROVE  /\ Len(fifo) > 0 /\ nextSlot[previousRequest] = fifo[1] /\ fifo[1] \in Slots
         /\ fifo[1] = Place(1) /\ LastTaken = previousRequest
         /\ Linking => Len(fifo) > 1
  <1>1. fifo \in Seq(Slots) /\ Len(fifo) \in Nat /\ queuedMessages \in Nat
    BY DEF TypeOK, HistoryTyped, BoxTyped
  <1>2. Len(fifo) = queuedMessages + Coming + 1
    BY DEF SlotInv, ListInv, QueueShape, Taking
  <1>3. Linking => Coming = 1
    BY DEF Linking, Coming, Appending
  <1>4. Coming \in Nat
    BY DEF Coming
  <1>5. Len(fifo) > 0 /\ (Linking => Len(fifo) > 1)
    BY <1>1, <1>2, <1>3, <1>4
  <1>6. LastTaken = previousRequest /\ Place(0) = LastTaken
    BY DEF LastTaken, Place
  <1>7. fifo[1] = Place(1) /\ fifo[1] \in Slots
    BY <1>1, <1>5 DEF Place
  <1>8. 0 \in 0 .. Len(fifo) - 1 /\ 0 + 1 = 1
    BY <1>1, <1>5
  <1>9. nextSlot[Place(0)] = Place(1)
    <2>1. nextSlot[Place(0)] = Place(1) \/ (1 = Len(fifo) /\ Linking)
      BY <1>8 DEF SlotInv, ListInv, QueueShape
    <2>2. Len(fifo) > 1 => Len(fifo) # 1
      BY <1>1
    <2>3. ~(1 = Len(fifo) /\ Linking)
      BY <2>2, <1>5, Zenon
    <2> QED
      BY <2>1, <2>3, Zenon
  <1> QED
    BY <1>5, <1>6, <1>7, <1>9

(* fifo's elements are distinct.                                           *)
LEMMA FifoDistinct ==
  ASSUME TypeOK, QueueShape
  PROVE  Distinct(fifo)
  <1>1. fifo \in Seq(Slots) /\ Len(fifo) \in Nat /\ DOMAIN fifo = 1 .. Len(fifo)
    BY DEF TypeOK, HistoryTyped
  <1>2. \A i \in DOMAIN fifo : i \in 0 .. Len(fifo) /\ Place(i) = fifo[i]
    BY <1>1 DEF Place
  <1> QED
    BY <1>2 DEF Distinct, QueueShape

LEMMA GetNextKeeps ==
  ASSUME TypeOK, SlotInv, GetNextQueued
  PROVE  SlotInv'
  <1> USE Constants DEF SlotInv, ListInv, RoleInv, UserInv
  <1>1. /\ pc[Main] = "getNext" /\ LastTaken = previousRequest /\ Len(fifo) > 0
        /\ nextSlot[previousRequest] = fifo[1] /\ fifo[1] \in Slots /\ fifo[1] = Place(1)
        /\ slot \in [Threads -> Slots] /\ fifo \in Seq(Slots) /\ Len(fifo) \in Nat
    BY NextIsOldest DEF GetNextQueued, TypeOK, LocalsTyped, HistoryTyped
  <1>2. Valid(nextSlot[previousRequest])
    BY <1>1 DEF Valid, Slots
  <1>3. /\ slot' = [slot EXCEPT ![Main] = fifo[1]] /\ fifo' = Rest(fifo)
        /\ Goto(Main, "lock")
        /\ UNCHANGED <<slotVars, nextFreeSlot, lastQueuedSlot, counters, boxVars,
                       reg, nxt, dying, ret, call, held, stack, answer>>
    BY <1>1, <1>2 DEF GetNextQueued
  <1>4. /\ UNCHANGED <<nextSlot, flags, kind, status, nextFreeSlot, lastQueuedSlot,
                       queuedMessages, previousRequest, killRequest, shouldClose,
                       reg, nxt, dying, ret, call, held, stack, answer>>
        /\ slot'[Main] = fifo[1] /\ \A c \in Clients : slot'[c] = slot[c]
    BY <1>1, <1>3 DEF slotVars, counters, boxVars
  <1>5. pc'[Main] = "lock" /\ \A c \in Clients : pc'[c] = pc[c]
    BY <1>3, MainGoes
  <1>6. ClientsStay
    BY <1>4, <1>5 DEF ClientsStay
  <1>7. /\ UNCHANGED <<Appending, Linking, Coming, Popped, Handles>>
        /\ HandleOnce' /\ PopShape'
    BY <1>4, <1>6, ClientSets
  <1>8. Busy' = Busy /\ Dying' = Dying
    <2>1. pc[Main] \notin BusyPCs /\ "lock" \notin BusyPCs
      BY <1>1 DEF BusyPCs, DestroyPCs
    <2> QED
      BY <2>1, <1>3, <1>4, BusyMoves
  \* The queue moves up by one place.
  <1>9. /\ fifo' \in Seq(Slots) /\ Len(fifo') = Len(fifo) - 1
        /\ \A i \in 1 .. Len(fifo') : fifo'[i] = fifo[i + 1]
        /\ Elems(fifo') = Elems(fifo) \ {fifo[1]}
    BY <1>1, <1>3, FifoDistinct, ElemsRest
  <1>10. LastTaken' = fifo[1]
    BY <1>4, <1>5 DEF LastTaken
  <1>11. \A i \in 0 .. Len(fifo') : Place(i)' = Place(i + 1)
    <2> SUFFICES ASSUME NEW i \in 0 .. Len(fifo') PROVE Place(i)' = Place(i + 1)
      OBVIOUS
    <2>1. CASE i = 0
      <3>1. Place(0)' = LastTaken' /\ 0 + 1 = 1
        BY DEF Place
      <3> QED
        BY <3>1, <2>1, <1>1, <1>10
    <2>2. CASE i # 0
      <3>1. i \in 1 .. Len(fifo') /\ i + 1 # 0
        BY <2>2, <1>1, <1>9
      <3> QED
        BY <3>1, <2>2, <1>9 DEF Place
    <2> QED
      BY <2>1, <2>2
  <1>12. fifo[1] \in Elems(fifo)
    BY <1>1 DEF Elems
  <1>13. Elems(fifo)' = Elems(fifo) \ {fifo[1]}
    BY <1>9 DEF Elems
  <1>14. InQueue' = InQueue
    <2>1. Elems(Chain)' = Elems(<<LastTaken'>> \o fifo')
      BY DEF Elems, Chain
    <2>2. Elems(Chain)' = Elems(fifo)' \cup {LastTaken'}
      BY <2>1, <1>1, <1>9, <1>10, ElemsPush
    <2>3. InQueue' = Elems(Chain)' \cup {previousRequest'}
      BY DEF InQueue
    <2> QED
      BY <2>2, <2>3, <1>1, <1>4, <1>10, <1>12, <1>13, Places
  <1>15. StackShape'
    BY <1>4, SameStack
  <1>16. PushShape'
    BY <1>4, <1>5, <1>1 DEF PushShape, Threads
  <1>17. QueueShape'
    <2>1. \A i \in 0 .. Len(fifo') : i + 1 \in 0 .. Len(fifo)
      BY <1>1, <1>9
    <2>2. \A i, j \in 0 .. Len(fifo') : Place(i)' = Place(j)' => i = j
      <3> SUFFICES ASSUME NEW i \in 0 .. Len(fifo'), NEW j \in 0 .. Len(fifo'),
                          Place(i)' = Place(j)'
                   PROVE  i = j
        OBVIOUS
      <3>1. i + 1 = j + 1
        BY <2>1, <1>11 DEF QueueShape
      <3> QED
        BY <3>1
    <2>3. lastQueuedSlot' = Place(Len(fifo))'
      <3>1. Len(fifo') \in 0 .. Len(fifo') /\ Len(fifo') + 1 = Len(fifo)
        BY <1>1, <1>9
      <3> QED
        BY <3>1, <1>4, <1>11 DEF QueueShape
    <2>4. Len(fifo') = queuedMessages' + Coming' + Taking'
      <3>1. Taking = 1 /\ Taking' = 0 /\ Coming \in Nat /\ queuedMessages \in Nat
        BY <1>1, <1>5 DEF Taking, Coming, TypeOK, BoxTyped
      <3>2. Len(fifo) = queuedMessages + Coming + 1
        BY <3>1 DEF QueueShape
      <3> QED
        BY <3>1, <3>2, <1>1, <1>4, <1>7, <1>9
    <2>5. ASSUME NEW i \in 0 .. Len(fifo') - 1
          PROVE  \/ nextSlot'[Place(i)'] = Place(i + 1)'
                 \/ i + 1 = Len(fifo') /\ Linking'
      <3>1. /\ i \in 0 .. Len(fifo') /\ i + 1 \in 0 .. Len(fifo')
            /\ i + 1 \in 0 .. Len(fifo) - 1
            /\ (i + 1) + 1 = Len(fifo) => i + 1 = Len(fifo')
        BY <1>1, <1>9
      <3>2. \/ nextSlot[Place(i + 1)] = Place((i + 1) + 1)
            \/ (i + 1) + 1 = Len(fifo) /\ Linking
        BY <3>1 DEF QueueShape
      <3> QED
        BY <3>1, <3>2, <1>4, <1>7, <1>11
    <2> QED
      BY <2>2, <2>3, <2>4, <2>5 DEF QueueShape
  <1>18. AppendShape'
    <2> SUFFICES ASSUME NEW c \in Appending
                 PROVE  /\ slot'[c] = Place(Len(fifo))'
                        /\ pc'[c] = "link" => reg'[c] = Place(Len(fifo) - 1)'
      BY <1>7 DEF AppendShape
    <2>1. c \in Clients /\ Len(fifo') \in 0 .. Len(fifo') /\ Len(fifo') + 1 = Len(fifo)
      BY <1>1, <1>9 DEF Appending
    <2>2. slot'[c] = Place(Len(fifo))'
      BY <2>1, <1>4, <1>11 DEF AppendShape
    <2>3. pc[c] = "link" => Len(fifo) > 1
      BY NextIsOldest, <1>1 DEF Linking, Appending
    <2>4. ASSUME pc[c] = "link" PROVE reg'[c] = Place(Len(fifo) - 1)'
      <3>1. Len(fifo') - 1 \in 0 .. Len(fifo') /\ (Len(fifo') - 1) + 1 = Len(fifo) - 1
        BY <2>3, <2>4, <1>1, <1>9
      <3> QED
        BY <3>1, <2>4, <1>4, <1>11 DEF AppendShape
    <2> QED
      BY <2>1, <2>2, <2>4, <1>5
  <1>19. MainShape'
    <2>1. previousRequest \notin Elems(fifo)
      BY <1>1, LastNotQueued
    <2> QED
      BY <2>1, <1>4, <1>5, <1>12, <1>13
         DEF MainShape, DummyRetired, Taken, Working, DestroyPCs
  <1>20. Roles'
    BY <1>4, <1>7, <1>8, <1>14, SameRoles
  <1>21. DummyRetired'
    BY <1>4, <1>7, <1>8, <1>13 DEF DummyRetired
  <1>22. FlagShape'
    <2>1. \A t \in Threads : pc'[t] \in {"pushLink", "pushCas"} => pc[t] = pc'[t]
      BY <1>5 DEF Threads
    <2>2. Unanswered' \subseteq Unanswered
      BY <1>4, <1>5, <1>12, <1>13 DEF Unanswered
    <2>3. Settled
      BY <1>1 DEF Settled
    <2> QED
      BY <2>1, <2>2, <2>3, <1>4, <1>5, <1>7 DEF FlagShape
  <1>23. HandleShape'
    BY <1>4, <1>7, <1>14 DEF HandleShape
  <1>24. KillShape'
    BY <1>1, <1>4, <1>5 DEF KillShape
  <1>25. AnswersOwn' /\ NoLostWakeup' /\ NoAbort'
    BY <1>1, <1>4, <1>5 DEF AnswersOwn, NoLostWakeup, NoAbort, Threads
  <1>26. NoSlotLost'
    BY <1>4, <1>7, <1>8, <1>14 DEF NoSlotLost
  <1> QED
    BY <1>7, <1>15, <1>16, <1>17, <1>18, <1>19, <1>20, <1>21, <1>22, <1>23, <1>24,
       <1>25, <1>26

LEMMA LockKeeps ==
  ASSUME TypeOK, SlotInv, Lock
  PROVE  SlotInv'
  <1> USE Constants DEF SlotInv, ListInv, RoleInv, UserInv
  <1> DEFINE s == slot[Main]
  <1>1. /\ pc[Main] = "lock" /\ s \in Slots /\ s # Dummy /\ s # previousRequest
        /\ flags \in [Slots -> SUBSET FlagBits]
    BY DEF Lock, MainShape, Taken, TypeOK, LocalsTyped, SlotsTyped
  <1>2. s \in InQueue /\ s \notin Elems(stack) \cup Popped \cup Dying
    <2>1. s \in InQueue
      BY <1>1, Places DEF LastTaken
    <2> QED
      BY <2>1 DEF Roles
  <1>3. /\ UNCHANGED <<nextSlot, kind, status, nextFreeSlot, lastQueuedSlot,
                       queuedMessages, previousRequest, killRequest, shouldClose,
                       slot, reg, nxt, dying, ret, call, held, stack, fifo, answer>>
        /\ Goto(Main, "unlock")
    BY DEF Lock, slotVars, counters, boxVars, locals, hist
  <1>4. /\ \A x \in Slots : x # s => flags'[x] = flags[x]
        /\ flags'[s] = flags[s] \ {NOT_PRESERVED}
    BY <1>1 DEF Lock
  <1>5. \A x \in Slots : /\ READY \in flags'[x] <=> READY \in flags[x]
                         /\ DISCARDED \in flags'[x] <=> DISCARDED \in flags[x]
    BY <1>4 DEF READY, DISCARDED, NOT_PRESERVED
  <1>6. pc'[Main] = "unlock" /\ \A c \in Clients : pc'[c] = pc[c]
    BY <1>3, MainGoes
  <1>7. /\ UNCHANGED <<Appending, Linking, Coming, Popped, Handles>>
        /\ HandleOnce' /\ PopShape'
    BY <1>3, <1>6, ClientSets DEF ClientsStay
  <1>8. Busy' = Busy /\ Dying' = Dying
    <2>1. pc[Main] \notin BusyPCs /\ "unlock" \notin BusyPCs
      BY <1>1 DEF BusyPCs, DestroyPCs
    <2> QED
      BY <2>1, <1>3, BusyMoves
  <1>9. LastTaken' = LastTaken /\ Taking' = Taking /\ \A i : Place(i)' = Place(i)
    BY <1>1, <1>3, <1>6 DEF LastTaken, Taking, Place
  <1>10. InQueue' = InQueue
    BY <1>3, <1>9 DEF InQueue, Chain
  <1>11. StackShape' /\ QueueShape'
    BY <1>3, <1>7, <1>9, SameStack, SameQueue
  <1>12. PushShape' /\ AppendShape' /\ NoAbort'
    BY <1>3, <1>6, <1>7, <1>9 DEF PushShape, AppendShape, NoAbort, Threads, Appending
  <1>13. MainShape'
    BY <1>1, <1>3, <1>6 DEF MainShape, Taken, Working, DestroyPCs
  <1>14. Roles' /\ NoSlotLost'
    BY <1>3, <1>7, <1>8, <1>10, SameRoles DEF NoSlotLost
  <1>15. DummyRetired'
    BY <1>3, <1>5, <1>7, <1>8 DEF DummyRetired
  <1>16. FlagShape'
    <2>1. \A t \in Threads : pc'[t] \in {"pushLink", "pushCas"} =>
             pc[t] = pc'[t] /\ dying[t] \in Dying /\ dying[t] \in Slots
      BY <1>6, DyingAre DEF Threads, Busy, BusyPCs, DestroyPCs, TypeOK, LocalsTyped
    <2>2. Unanswered' = Unanswered /\ Unanswered \subseteq Slots
      BY <1>1, <1>3, <1>6, InSlots DEF Unanswered, Pending, Taken
    <2>3. \A x \in Elems(stack)' \cup Popped' : flags'[x] = {NOT_PRESERVED}
      BY <1>2, <1>3, <1>4, <1>7, InSlots DEF FlagShape
    <2>4. \A t \in Threads :
            pc'[t] \in {"pushLink", "pushCas"} => flags'[dying'[t]] = {NOT_PRESERVED}
      BY <2>1, <1>2, <1>3, <1>4 DEF FlagShape
    <2>5. \A x \in Unanswered' : READY \notin flags'[x]
      BY <2>2, <1>5 DEF FlagShape
    <2>6. previousRequest \in Slots /\ Settled
      BY <1>1 DEF TypeOK, BoxTyped, Settled, Taken
    <2> QED
      BY <2>3, <2>4, <2>5, <2>6, <1>1, <1>3, <1>4, <1>6 DEF FlagShape
  <1>17. HandleShape'
    <2>1. \A x \in Handles : DISCARDED \notin flags'[x] /\ kind'[x] \in HandleKinds
      BY <1>3, <1>5, InSlots DEF HandleShape
    <2>2. \A x \in Handles \ InQueue : READY \in flags'[x] /\ NOT_PRESERVED \in flags'[x]
      BY <1>2, <1>4, InSlots DEF HandleShape
    <2>3. \A x \in InQueue \ {Dummy} :
            /\ kind'[x] # "none"
            /\ DISCARDED \in flags'[x] \/ x \in Handles
                 \/ (kind'[x] \in DestroyKinds /\ READY \notin flags'[x])
      BY <1>3, <1>5, InSlots DEF HandleShape
    <2> QED
      BY <2>1, <2>2, <2>3, <1>7, <1>10 DEF HandleShape
  <1>18. KillShape'
    BY <1>1, <1>3, <1>6 DEF KillShape
  <1>19. AnswersOwn' /\ NoLostWakeup'
    <2>1. \A c \in Clients : slot[c] \in Slots
      BY DEF TypeOK, LocalsTyped
    <2> QED
      BY <2>1, <1>1, <1>3, <1>5, <1>6 DEF AnswersOwn, NoLostWakeup
  <1> QED
    BY <1>7, <1>11, <1>12, <1>13, <1>14, <1>15, <1>16, <1>17, <1>18, <1>19

(* The request before the one just taken leaves the queue: into the hands  *)
(* of its handle's holder, or of destroy_request.                          *)
LEMMA UnlockKeeps ==
  ASSUME TypeOK, SlotInv, UnlockPrevious
  PROVE  SlotInv'
  <1> USE Constants DEF SlotInv, ListInv, RoleInv, UserInv
  <1> DEFINE p == previousRequest
             s == slot[Main]
  <1>1. /\ pc[Main] = "unlock" /\ s \in Slots /\ s # Dummy /\ p \in Slots
        /\ p \notin Elems(fifo) \cup {s} /\ flags \in [Slots -> SUBSET FlagBits]
        /\ dying \in [Threads -> Slots] /\ ret \in [Threads -> {"idle", "dispatch", "checkClose"}]
    BY DEF UnlockPrevious, MainShape, Taken, TypeOK, LocalsTyped, SlotsTyped, BoxTyped,
           RegsTyped
  <1>2. p \in InQueue /\ p \notin Elems(stack) \cup Popped \cup Dying
    <2>1. p \in InQueue
      BY DEF InQueue
    <2> QED
      BY <2>1 DEF Roles
  <1>3. /\ UNCHANGED <<nextSlot, kind, status, nextFreeSlot, lastQueuedSlot,
                       queuedMessages, killRequest, shouldClose,
                       slot, reg, nxt, call, held, stack, fifo, answer>>
        /\ previousRequest' = s
    BY DEF UnlockPrevious, slotVars, counters, hist
  <1>4. /\ \A x \in Slots : x # p => flags'[x] = flags[x]
        /\ flags'[p] = flags[p] \cup {NOT_PRESERVED}
    BY <1>1 DEF UnlockPrevious
  <1>5. \A x \in Slots : /\ READY \in flags'[x] <=> READY \in flags[x]
                         /\ DISCARDED \in flags'[x] <=> DISCARDED \in flags[x]
    <2>1. READY # NOT_PRESERVED /\ DISCARDED # NOT_PRESERVED
      BY DEF READY, DISCARDED, NOT_PRESERVED
    <2> TAKE x \in Slots
    <2>2. CASE x = p
      BY <1>4, <2>1, <2>2
    <2>3. CASE x # p
      BY <1>4, <2>3
    <2> QED
      BY <2>2, <2>3
  <1> DEFINE gone == DestroyOnUnlock(p)
  <1>6. /\ gone => READY \in flags[p] /\ DISCARDED \in flags[p] /\ p # Dummy /\ p \notin Handles
        /\ ~gone => p = Dummy \/ p \in Handles
        /\ p # Dummy => READY \in flags[p]
    <2>1. p # Dummy => READY \in flags[p]
      BY <1>1 DEF FlagShape, Settled, Taken
    <2>2. gone => READY \in flags[p] /\ DISCARDED \in flags[p] /\ p # Dummy /\ p \notin Handles
      BY DEF DestroyOnUnlock, DummyRetired, HandleShape
    <2>3. ~gone /\ p # Dummy => p \in Handles
      BY <2>1, <1>2 DEF DestroyOnUnlock, HandleShape
    <2> QED
      BY <2>1, <2>2, <2>3
  <1>7. /\ gone => /\ Goto(Main, "clear") /\ dying' = [dying EXCEPT ![Main] = p]
                   /\ ret' = [ret EXCEPT ![Main] = "dispatch"]
        /\ ~gone => Goto(Main, "dispatch") /\ UNCHANGED <<dying, ret>>
    BY DEF UnlockPrevious, StartDestroy
  <1> HIDE DEF gone
  <1>8. PICK l : /\ Goto(Main, l) /\ l = IF gone THEN "clear" ELSE "dispatch"
    BY <1>7
  <1>9. pc'[Main] = l /\ \A c \in Clients : pc'[c] = pc[c]
    BY <1>8, MainGoes
  <1>10. /\ UNCHANGED <<Appending, Linking, Coming, Popped, Handles>>
         /\ HandleOnce' /\ PopShape'
    BY <1>3, <1>9, ClientSets DEF ClientsStay
  <1>11. /\ gone => /\ Busy' = Busy \cup {Main} /\ Main \notin Busy
                    /\ Dying' = Dying \cup {p} /\ dying'[Main] = p
         /\ ~gone => Busy' = Busy /\ Dying' = Dying
         /\ \A u \in Threads : u # Main => dying'[u] = dying[u]
    <2>1. /\ gone => dying'[Main] = p
          /\ \A u \in Threads : u # Main => dying'[u] = dying[u]
      BY <1>1, <1>7
    <2>2. /\ pc[Main] \notin BusyPCs /\ "clear" \in BusyPCs
          /\ "dispatch" \notin BusyPCs
      BY <1>1 DEF BusyPCs, DestroyPCs
    <2> QED
      BY <2>1, <2>2, <1>7, BusyMoves
  <1>12. LastTaken = s /\ LastTaken' = LastTaken /\ Taking' = Taking
         /\ \A i : Place(i)' = Place(i)
    BY <1>1, <1>3, <1>8, <1>9 DEF LastTaken, Taking, Place
  <1>13. InQueue' = InQueue \ {p}
    <2>1. Chain' = Chain
      BY <1>3, <1>12 DEF Chain
    <2>2. InQueue' = Elems(Chain) \cup {s}
      BY <2>1, <1>3 DEF InQueue
    <2>3. Elems(Chain) = Elems(fifo) \cup {LastTaken}
      BY <1>1, <1>12, InSlots, ElemsPush DEF Chain
    <2> QED
      BY <2>2, <2>3, <1>1, <1>12 DEF InQueue
  <1>14. StackShape'
    BY <1>3, SameStack
  <1>15. QueueShape'
    BY <1>3, <1>10, <1>12, SameQueue
  <1>16. PushShape' /\ AppendShape' /\ NoAbort'
    <2>1. \A t \in Threads : pc'[t] = "pushCas" => pc[t] = "pushCas" /\ dying'[t] = dying[t]
      BY <1>8, <1>9, <1>11 DEF Threads
    <2> QED
      BY <2>1, <1>3, <1>8, <1>9, <1>10, <1>12
         DEF PushShape, AppendShape, NoAbort, Threads, Appending
  <1>17. MainShape'
    <2>1. gone => ret'[Main] = "dispatch"
      BY <1>1, <1>7
    <2> QED
      BY <2>1, <1>1, <1>3, <1>8, <1>9 DEF MainShape, Taken, Working, DestroyPCs
  <1>18. Roles'
    <2>1. \A t, u \in Busy' : dying'[t] = dying'[u] => t = u
      <3>1. Busy \subseteq Threads /\ \A t \in Busy : dying[t] \in Dying
        BY DyingAre DEF Busy
      <3>2. CASE gone
        BY <3>1, <3>2, <1>2, <1>11 DEF Roles
      <3>3. CASE ~gone
        BY <3>3, <1>7, <1>11 DEF Roles
      <3> QED
        BY <3>2, <3>3
    <2>2. Dying' = Dying \/ (Dying' = Dying \cup {p} /\ p \notin Handles)
      BY <1>6, <1>11
    <2> QED
      BY <2>1, <2>2, <1>2, <1>3, <1>10, <1>13 DEF Roles
  <1>19. NoSlotLost'
    <2>1. p \in Dying' \cup Handles \cup {Dummy} /\ Dying \subseteq Dying'
      BY <1>6, <1>11
    <2> QED
      BY <2>1, <1>3, <1>10, <1>13 DEF NoSlotLost
  <1>20. DummyRetired'
    <2>1. Dummy \notin Dying'
      BY <1>6, <1>11 DEF DummyRetired
    <2> QED
      BY <2>1, <1>3, <1>5, <1>10 DEF DummyRetired
  <1>21. FlagShape'
    <2>1. \A t \in Threads : pc'[t] \in {"pushLink", "pushCas"} =>
             /\ pc[t] = pc'[t] /\ dying[t] \in Dying /\ dying[t] \in Slots
             /\ dying'[t] = dying[t]
      <3>1. \A t \in Threads : pc'[t] \in {"pushLink", "pushCas"} => t # Main /\ pc[t] = pc'[t]
        BY <1>8, <1>9 DEF Threads
      <3> QED
        BY <3>1, <1>1, <1>11, DyingAre DEF Busy, BusyPCs, DestroyPCs
    <2>2. Unanswered' = Unanswered /\ Unanswered \subseteq Slots
      BY <1>1, <1>3, <1>8, <1>9, InSlots DEF Unanswered, Pending, Taken, DestroyPCs
    <2>3. \A x \in Elems(stack)' \cup Popped' : flags'[x] = {NOT_PRESERVED}
      BY <1>2, <1>3, <1>4, <1>10, InSlots DEF FlagShape
    <2>4. \A t \in Threads :
            pc'[t] \in {"pushLink", "pushCas"} => flags'[dying'[t]] = {NOT_PRESERVED}
      BY <2>1, <1>2, <1>4, ZenonT(60) DEF FlagShape
    <2>5. \A x \in Unanswered' : READY \notin flags'[x]
      BY <2>2, <1>5 DEF FlagShape
    <2>6. NOT_PRESERVED \notin flags'[s]
      BY <1>1, <1>4 DEF FlagShape
    <2>7. ~Settled' /\ pc'[Main] # "unlock"
      BY <1>8, <1>9 DEF Settled, Taken
    <2> QED
      BY <2>3, <2>4, <2>5, <2>6, <2>7, <1>3 DEF FlagShape
  <1>22. HandleShape'
    <2>1. \A x \in Handles : DISCARDED \notin flags'[x] /\ kind'[x] \in HandleKinds
      BY <1>3, <1>5, InSlots DEF HandleShape
    <2>2. \A x \in Handles \ InQueue' : READY \in flags'[x] /\ NOT_PRESERVED \in flags'[x]
      <3> SUFFICES ASSUME NEW x \in Handles, x \notin InQueue'
                   PROVE  READY \in flags'[x] /\ NOT_PRESERVED \in flags'[x]
        OBVIOUS
      <3>1. x \in Slots /\ x # Dummy
        BY InSlots DEF DummyRetired
      <3>2. CASE x = p
        BY <3>1, <3>2, <1>4, <1>6
      <3>3. CASE x # p
        BY <3>1, <3>3, <1>4, <1>13 DEF HandleShape
      <3> QED
        BY <3>2, <3>3
    <2>3. \A x \in InQueue' \ {Dummy} :
            /\ kind'[x] # "none"
            /\ DISCARDED \in flags'[x] \/ x \in Handles
                 \/ (kind'[x] \in DestroyKinds /\ READY \notin flags'[x])
      BY <1>3, <1>5, <1>13, InSlots DEF HandleShape
    <2> QED
      BY <2>1, <2>2, <2>3, <1>10 DEF HandleShape
  <1>23. KillShape'
    BY <1>1, <1>3, <1>8, <1>9 DEF KillShape
  <1>24. AnswersOwn' /\ NoLostWakeup'
    <2>1. \A c \in Clients : slot[c] \in Slots
      BY DEF TypeOK, LocalsTyped
    <2> QED
      BY <2>1, <1>1, <1>3, <1>5, <1>8, <1>9 DEF AnswersOwn, NoLostWakeup
  <1> QED
    BY <1>10, <1>14, <1>15, <1>16, <1>17, <1>18, <1>19, <1>20, <1>21, <1>22, <1>23, <1>24
----------------------------------------------------------------------------
(* destroy_request.                                                        *)

LEMMA DestroyStays ==
  ASSUME TypeOK, SlotInv, NEW t \in Threads, NEW l \in DestroyPCs, Goto(t, l),
         pc[t] \in DestroyPCs,
         UNCHANGED <<status, fifo, held, slot, nxt, ret, call, queuedMessages,
                     lastQueuedSlot, previousRequest, killRequest, shouldClose>>,
         \A u \in Threads : u # t => reg'[u] = reg[u]
  PROVE  /\ pc'[t] = l /\ \A u \in Threads : u # t => pc'[u] = pc[u]
         /\ UNCHANGED <<Appending, Linking, Coming, Popped, Handles, InQueue,
                        LastTaken, Taking, Unanswered, Settled>>
         /\ \A i : Place(i)' = Place(i)
         /\ AppendShape' /\ HandleOnce' /\ NoAbort'
         /\ (\A s \in InQueue : nextSlot'[s] = nextSlot[s]) => QueueShape'
         /\ (\A s \in InQueue : kind'[s] = kind[s]) => MainShape' /\ KillShape'
  <1> USE Constants DEF SlotInv, ListInv, RoleInv, UserInv
  <1>1. /\ pc'[t] = l /\ \A u \in Threads : u # t => pc'[u] = pc[u]
        /\ \A c \in Senders : c \in Clients /\ c \in Threads
    BY Moves
  <1>2. \A u \in Threads : \/ pc'[u] = pc[u]
                           \/ pc[u] \in DestroyPCs /\ pc'[u] \in DestroyPCs
    BY <1>1
  <1>3. Appending' = Appending /\ Linking' = Linking /\ Coming' = Coming
    <2>1. Appending' = Appending
      BY <1>1, <1>2 DEF Appending, DestroyPCs
    <2>2. Linking' = Linking
      BY <1>1, <1>2 DEF Linking, DestroyPCs
    <2> QED
      BY <2>1, <2>2 DEF Coming
  <1>4. Popped' = Popped
    <2>1. \A c \in Senders : pc'[c] = "exchange" <=> pc[c] = "exchange"
      BY <1>1, <1>2 DEF DestroyPCs
    <2> QED
      BY <2>1 DEF Popped
  <1>5. Handles' = Handles /\ HandleOnce'
    <2>1. \A c \in Clients : pc'[c] \in WaitPCs <=> pc[c] \in WaitPCs
      BY <1>2 DEF DestroyPCs, WaitPCs, Threads
    <2>2. \A c \in Clients : Holds(c)' <=> Holds(c)
      BY <2>1, <1>3 DEF Holds
    <2> QED
      BY <2>2, SameHandles
  <1>6. LastTaken' = LastTaken /\ Taking' = Taking /\ \A i : Place(i)' = Place(i)
    BY <1>2 DEF LastTaken, Taking, Place, DestroyPCs
  <1>7. InQueue' = InQueue
    BY <1>6 DEF InQueue, Chain
  <1>8. Unanswered' = Unanswered
    BY <1>2 DEF Unanswered, Pending
  <1>9. Settled' = Settled
    BY <1>2 DEF Settled, DestroyPCs, Taken
  <1>10. AppendShape'
    <2>1. \A c \in Appending : c # t /\ reg'[c] = reg[c] /\ pc'[c] = pc[c]
      BY <1>1 DEF Appending, DestroyPCs
    <2> QED
      BY <2>1, <1>3, <1>6 DEF AppendShape
  <1>11. NoAbort'
    BY <1>2 DEF NoAbort, DestroyPCs
  <1>12. (\A s \in InQueue : nextSlot'[s] = nextSlot[s]) => QueueShape'
    BY <1>3, <1>6, SameQueue
  <1>13. ASSUME \A s \in InQueue : kind'[s] = kind[s]
         PROVE  MainShape' /\ KillShape'
    <2>1. previousRequest \in InQueue
      BY DEF InQueue
    <2>2. pc'[Main] \in Working <=> pc[Main] \in Working
      BY <1>2 DEF Working
    <2>3. MainShape'
      BY <2>1, <2>2, <1>2, <1>13 DEF MainShape, Taken, DestroyPCs, Working
    <2>4. KillShape'
      BY <2>1, <1>2, <1>13 DEF KillShape, DestroyPCs
    <2> QED
      BY <2>3, <2>4
  <1> QED
    BY <1>1, <1>3, <1>4, <1>5, <1>6, <1>7, <1>8, <1>9, <1>10, <1>11, <1>12, <1>13

(* The request being destroyed plays no other role.                        *)
LEMMA DyingAlone ==
  ASSUME TypeOK, SlotInv, NEW t \in Busy
  PROVE  /\ t \in Threads /\ dying[t] \in Slots /\ dying[t] # Dummy /\ dying[t] \in Dying
         /\ dying[t] \notin Elems(stack) \cup Popped \cup Handles \cup InQueue
         /\ dying[t] \notin Unanswered /\ dying[t] # previousRequest
         /\ pc[Main] \in Working \cup Taken => dying[t] # slot[Main]
         /\ \A c \in Clients : pc[c] \in WaitPCs => dying[t] # slot[c]
  <1> USE DEF SlotInv, RoleInv
  <1>1. t \in Threads /\ dying[t] \in Slots /\ dying[t] \in Dying
    BY DyingAre DEF Busy, TypeOK, LocalsTyped
  <1>2. /\ dying[t] \notin Elems(stack) \cup Popped \cup Handles \cup InQueue
        /\ dying[t] # Dummy
    BY <1>1 DEF Roles, DummyRetired
  <1>3. previousRequest \in InQueue /\ Elems(fifo) \subseteq InQueue /\ LastTaken \in InQueue
    BY Places
  <1>4. pc[Main] \in Working \cup Taken => slot[Main] \in InQueue
    BY <1>3 DEF MainShape, LastTaken, Taken
  <1>5. dying[t] \notin Unanswered
    BY <1>2, <1>3, <1>4 DEF Unanswered, Pending, Working
  <1>6. \A c \in Clients : pc[c] \in WaitPCs => slot[c] \in Handles
    BY HandlesAre DEF Holds
  <1> QED
    BY <1>1, <1>2, <1>3, <1>4, <1>5, <1>6

LEMMA ClearKeeps ==
  ASSUME TypeOK, SlotInv, NEW t \in Threads, Clear(t)
  PROVE  SlotInv'
  <1> USE Constants DEF SlotInv, ListInv, RoleInv, UserInv
  <1> DEFINE d == dying[t]
  <1>1. /\ pc[t] = "clear" /\ Goto(t, "pushLink") /\ reg \in [Threads -> 0 .. N]
        /\ flags \in [Slots -> SUBSET FlagBits]
        /\ kind \in [Slots -> AllKinds \cup {"none"}]
        /\ answer \in [Slots -> Statuses \cup {"none"}]
        /\ "clear" \in DestroyPCs \cap BusyPCs /\ "pushLink" \in DestroyPCs \cap BusyPCs
    BY DEF Clear, TypeOK, LocalsTyped, SlotsTyped, HistoryTyped, BusyPCs, DestroyPCs
  <1>2. t \in Busy
    BY <1>1 DEF Busy
  <1>3. /\ d \in Slots /\ d # Dummy /\ d \in Dying
        /\ d \notin Elems(stack) \cup Popped \cup Handles \cup InQueue \cup Unanswered
        /\ d # previousRequest
        /\ pc[Main] \in Working \cup Taken => d # slot[Main]
        /\ \A c \in Clients : pc[c] \in WaitPCs => d # slot[c]
    BY <1>2, DyingAlone
  <1>4. /\ UNCHANGED <<nextSlot, status, nextFreeSlot, lastQueuedSlot, queuedMessages,
                       previousRequest, killRequest, shouldClose, slot, nxt, dying,
                       ret, call, held, stack, fifo>>
        /\ reg' = [reg EXCEPT ![t] = nextFreeSlot]
        /\ \A u \in Threads : u # t => reg'[u] = reg[u]
    BY <1>1 DEF Clear, counters, boxVars
  <1>5. /\ flags'[d] = {NOT_PRESERVED} /\ READY \notin flags'[d]
        /\ \A s \in Slots : s # d => /\ flags'[s] = flags[s]
                                     /\ kind'[s] = kind[s] /\ answer'[s] = answer[s]
    BY <1>1, <1>3 DEF Clear, ClearedFlags, READY, NOT_PRESERVED
  <1>6. /\ pc'[t] = "pushLink" /\ \A u \in Threads : u # t => pc'[u] = pc[u]
        /\ UNCHANGED <<Appending, Linking, Coming, Popped, Handles, InQueue,
                       LastTaken, Taking, Unanswered, Settled>>
        /\ \A i : Place(i)' = Place(i)
        /\ AppendShape' /\ HandleOnce' /\ NoAbort' /\ QueueShape'
        /\ (\A s \in InQueue : kind'[s] = kind[s]) => MainShape' /\ KillShape'
    BY <1>1, <1>4, DestroyStays
  <1>7. MainShape' /\ KillShape'
    BY <1>3, <1>5, <1>6, InSlots
  <1>8. Busy' = Busy /\ Dying' = Dying
    BY <1>1, <1>4, BusyMoves
  <1>9. StackShape'
    BY <1>4, SameStack
  <1>10. PopShape'
    <2>1. \A c \in Senders : pc'[c] \in {"popRead", "popCas"} =>
             c # t /\ pc'[c] = pc[c] /\ reg'[c] = reg[c]
      BY <1>4, <1>6
    <2> QED
      BY <2>1, <1>4 DEF PopShape
  <1>11. PushShape'
    BY <1>4, <1>6 DEF PushShape
  <1>12. Roles' /\ NoSlotLost'
    BY <1>4, <1>6, <1>8, SameRoles DEF NoSlotLost
  <1>13. DummyRetired'
    BY <1>3, <1>4, <1>5, <1>6, <1>8 DEF DummyRetired
  <1>14. FlagShape'
    <2>1. \A u \in Threads : dying[u] \in Slots
      BY DEF TypeOK, LocalsTyped
    <2>2. \A u \in Threads :
            pc'[u] \in {"pushLink", "pushCas"} => flags'[dying'[u]] = {NOT_PRESERVED}
      <3> SUFFICES ASSUME NEW u \in Threads, pc'[u] \in {"pushLink", "pushCas"}
                   PROVE  flags'[dying[u]] = {NOT_PRESERVED}
        BY <1>4
      <3>1. CASE u = t
        BY <3>1, <1>5
      <3>2. CASE u # t
        BY <3>2, <2>1, <1>5, <1>6 DEF FlagShape
      <3> QED
        BY <3>1, <3>2
    <2>3. Unanswered \subseteq Slots
      BY InSlots DEF Unanswered, TypeOK, LocalsTyped
    <2>4. \A s \in Elems(stack)' \cup Popped' : flags'[s] = {NOT_PRESERVED}
      BY <1>3, <1>4, <1>5, <1>6, InSlots DEF FlagShape
    <2>5. \A s \in Unanswered' : READY \notin flags'[s]
      BY <2>3, <1>3, <1>5, <1>6 DEF FlagShape
    <2>6. flags'[previousRequest] = flags[previousRequest]
      BY <1>3, <1>5 DEF TypeOK, BoxTyped
    <2>7. pc'[Main] = "unlock" => pc[Main] = "unlock" /\ flags'[slot[Main]] = flags[slot[Main]]
      BY <1>3, <1>5, <1>6 DEF Taken, TypeOK, LocalsTyped
    <2> QED
      BY <2>2, <2>4, <2>5, <2>6, <2>7, <1>4, <1>6 DEF FlagShape
  <1>15. HandleShape'
    <2>1. \A s \in Handles \cup InQueue : s \in Slots /\ s # d
      BY <1>3, InSlots
    <2>2. \A s \in Handles \cup InQueue : flags'[s] = flags[s] /\ kind'[s] = kind[s]
      BY <2>1, <1>5
    <2> QED
      BY <2>2, <1>6 DEF HandleShape
  <1>16. AnswersOwn'
    <2>1. \A s \in Slots : READY \in flags'[s] /\ kind'[s] = "alloc" => status'[s] = answer'[s]
      BY <1>4, <1>5 DEF AnswersOwn
    <2>2. pc'[Main] = "notify" => pc[Main] = "notify" /\ slot[Main] # d /\ slot[Main] \in Slots
      BY <1>3, <1>6 DEF Working, TypeOK, LocalsTyped
    <2>3. \A c \in Clients : pc'[c] = "collect" =>
             pc[c] = "collect" /\ slot[c] # d /\ slot[c] \in Slots
      BY <1>3, <1>6 DEF WaitPCs, TypeOK, LocalsTyped
    <2> QED
      BY <2>1, <2>2, <2>3, <1>4, <1>5, ZenonT(60) DEF AnswersOwn
  <1>17. NoLostWakeup'
    <2>1. \A c \in Clients : pc'[c] = "asleep" =>
             pc[c] = "asleep" /\ slot[c] # d /\ slot[c] \in Slots
      BY <1>3, <1>6 DEF WaitPCs, TypeOK, LocalsTyped
    <2>2. pc[Main] \in {"wake", "wakeKiller"} => pc'[Main] = pc[Main]
      BY <1>1, <1>6
    <2> QED
      BY <2>1, <2>2, <1>4, <1>5 DEF NoLostWakeup
  <1> QED
    BY <1>6, <1>7, <1>9, <1>10, <1>11, <1>12, <1>13, <1>14, <1>15, <1>16, <1>17

\* The parts that neither the links nor the pool enter.
LEMMA DestroyRest ==
  ASSUME TypeOK, SlotInv, NEW t \in Threads, NEW l \in DestroyPCs, Goto(t, l),
         pc[t] \in DestroyPCs,
         UNCHANGED <<status, fifo, held, slot, nxt, ret, call, queuedMessages,
                     lastQueuedSlot, previousRequest, killRequest, shouldClose,
                     flags, kind, answer>>,
         \A u \in Threads : u # t => reg'[u] = reg[u]
  PROVE  HandleShape' /\ AnswersOwn' /\ NoLostWakeup'
  <1> USE Constants DEF SlotInv, ListInv, RoleInv, UserInv
  <1>1. /\ pc'[t] = l /\ \A u \in Threads : u # t => pc'[u] = pc[u]
        /\ UNCHANGED <<Handles, InQueue>>
    BY DestroyStays
  <1>2. \A u \in Threads : \/ pc'[u] = pc[u]
                           \/ pc[u] \in DestroyPCs /\ pc'[u] \in DestroyPCs
    BY <1>1
  <1>3. HandleShape'
    BY <1>1 DEF HandleShape
  <1>4. AnswersOwn'
    BY <1>2 DEF AnswersOwn, DestroyPCs
  <1>5. NoLostWakeup'
    BY <1>2 DEF NoLostWakeup, DestroyPCs
  <1> QED
    BY <1>3, <1>4, <1>5

LEMMA PushLinkKeeps ==
  ASSUME TypeOK, SlotInv, NEW t \in Threads, PushLink(t)
  PROVE  SlotInv'
  <1> USE Constants DEF SlotInv, ListInv, RoleInv, UserInv
  <1> DEFINE d == dying[t]
  <1>1. /\ pc[t] = "pushLink" /\ Goto(t, "pushCas") /\ nextSlot \in [Slots -> 0 .. N]
        /\ "pushLink" \in DestroyPCs \cap BusyPCs /\ "pushCas" \in DestroyPCs \cap BusyPCs
    BY DEF PushLink, TypeOK, SlotsTyped, BusyPCs, DestroyPCs
  <1>2. t \in Busy
    BY <1>1 DEF Busy
  <1>3. /\ d \in Slots /\ d \in Dying /\ d \notin Elems(stack) \cup InQueue
    BY <1>2, DyingAlone
  <1>4. UNCHANGED <<flags, kind, answer, status, nextFreeSlot, lastQueuedSlot, queuedMessages,
                    previousRequest, killRequest, shouldClose, slot, reg, nxt, dying,
                    ret, call, held, stack, fifo>>
    BY DEF PushLink, counters, boxVars, locals, hist
  <1>5. /\ nextSlot'[d] = reg[t]
        /\ \A s \in Slots : s # d => nextSlot'[s] = nextSlot[s]
    BY <1>1, <1>3 DEF PushLink
  <1>6. /\ pc'[t] = "pushCas" /\ \A u \in Threads : u # t => pc'[u] = pc[u]
        /\ UNCHANGED <<Appending, Linking, Coming, Popped, Handles, InQueue,
                       LastTaken, Taking, Unanswered, Settled>>
        /\ AppendShape' /\ HandleOnce' /\ NoAbort' /\ MainShape' /\ KillShape'
        /\ (\A s \in InQueue : nextSlot'[s] = nextSlot[s]) => QueueShape'
    BY <1>1, <1>4, DestroyStays
  <1>7. QueueShape'
    BY <1>3, <1>5, <1>6, InSlots
  <1>8. Busy' = Busy /\ Dying' = Dying
    BY <1>1, <1>4, BusyMoves
  <1>9. \A s \in Elems(stack) : nextSlot'[s] = nextSlot[s]
    BY <1>3, <1>5, InSlots
  <1>10. StackShape'
    BY <1>4, <1>9, SameStack
  <1>11. PopShape'
    <2>1. \A c \in Senders : pc'[c] \in {"popRead", "popCas"} => pc'[c] = pc[c]
      BY <1>6
    <2> QED
      BY <2>1, <1>4, <1>9 DEF PopShape
  <1>12. PushShape'
    <2> SUFFICES ASSUME NEW u \in Threads, pc'[u] = "pushCas"
                 PROVE  nextSlot'[dying[u]] = reg[u]
      BY <1>4 DEF PushShape
    <2>1. CASE u = t
      BY <2>1, <1>5
    <2>2. CASE u # t
      <3>1. pc[u] = "pushCas" /\ u \in Busy
        BY <2>2, <1>1, <1>6 DEF Busy
      <3>2. dying[u] # d /\ dying[u] \in Slots
        BY <3>1, <2>2, <1>2, DyingAlone DEF Roles
      <3> QED
        BY <3>1, <3>2, <1>5 DEF PushShape
    <2> QED
      BY <2>1, <2>2
  <1>13. Roles' /\ NoSlotLost'
    BY <1>4, <1>6, <1>8, SameRoles DEF NoSlotLost
  <1>14. DummyRetired'
    BY <1>4, <1>6, <1>8 DEF DummyRetired
  <1>15. FlagShape'
    <2>1. \A u \in Threads :
            pc'[u] \in {"pushLink", "pushCas"} => pc[u] \in {"pushLink", "pushCas"}
      BY <1>1, <1>6
    <2>2. pc'[Main] = "unlock" => pc[Main] = "unlock"
      BY <1>6
    <2> QED
      BY <2>1, <2>2, <1>4, <1>6 DEF FlagShape
  <1>16. HandleShape' /\ AnswersOwn' /\ NoLostWakeup'
    BY <1>1, <1>4, DestroyRest
  <1> QED
    BY <1>6, <1>7, <1>10, <1>11, <1>12, <1>13, <1>14, <1>15, <1>16

LEMMA PushCasKeeps ==
  ASSUME TypeOK, SlotInv, NEW t \in Threads, PushCas(t)
  PROVE  SlotInv'
  <1> USE Constants DEF SlotInv, ListInv, RoleInv, UserInv
  <1> DEFINE d == dying[t]
  <1>1. /\ pc[t] = "pushCas" /\ reg \in [Threads -> 0 .. N] /\ dying \in [Threads -> Slots]
        /\ "pushCas" \in DestroyPCs \cap BusyPCs /\ "pushLink" \in DestroyPCs \cap BusyPCs
        /\ "release" \in DestroyPCs \ BusyPCs
    BY DEF PushCas, TypeOK, LocalsTyped, BusyPCs, DestroyPCs
  <1>2. t \in Busy
    BY <1>1 DEF Busy
  <1>3. /\ d \in Slots /\ d \in Dying /\ d # Dummy
        /\ d \notin Elems(stack) \cup Popped \cup Handles \cup InQueue
    BY <1>2, DyingAlone
  <1>4. UNCHANGED <<flags, kind, answer, status, nextSlot, lastQueuedSlot, queuedMessages,
                    previousRequest, killRequest, shouldClose, slot, nxt,
                    ret, call, held, fifo>>
    BY DEF PushCas, slotVars, counters, boxVars
  <1>5. \A u \in Threads : u # t => reg'[u] = reg[u] /\ dying'[u] = dying[u]
    BY <1>1 DEF PushCas, Forget
  <1>6. PICK l \in {"release", "pushLink"} :
           Goto(t, l) /\ (l = "release" <=> HeadUnchanged(t))
    BY DEF PushCas
  <1>7. /\ pc'[t] = l /\ \A u \in Threads : u # t => pc'[u] = pc[u]
        /\ UNCHANGED <<Appending, Linking, Coming, Popped, Handles, InQueue,
                       LastTaken, Taking, Unanswered, Settled>>
        /\ AppendShape' /\ HandleOnce' /\ NoAbort' /\ MainShape' /\ KillShape' /\ QueueShape'
    BY <1>1, <1>4, <1>5, <1>6, DestroyStays
  <1>8. HandleShape' /\ AnswersOwn' /\ NoLostWakeup'
    BY <1>1, <1>4, <1>5, <1>6, DestroyRest
  <1>9. \A u \in Threads : u # t /\ pc'[u] \in {"pushLink", "pushCas"} =>
           pc'[u] = pc[u] /\ dying'[u] = dying[u] /\ reg'[u] = reg[u]
    BY <1>5, <1>7
  <1>10. pc'[Main] = "unlock" => pc[Main] = "unlock"
    BY <1>6, <1>7
  \* Another thread came first: the push starts again.
  <1>11. CASE ~HeadUnchanged(t)
    <2>1. l = "pushLink" /\ UNCHANGED <<nextFreeSlot, stack, dying>>
      BY <1>6, <1>11 DEF PushCas
    <2>2. Busy' = Busy /\ Dying' = Dying
      BY <2>1, <1>1, <1>6, BusyMoves
    <2>3. StackShape'
      BY <2>1, <1>4, SameStack
    <2>4. PopShape'
      <3>1. \A c \in Senders : pc'[c] \in {"popRead", "popCas"} =>
               pc'[c] = pc[c] /\ reg'[c] = reg[c]
        BY <2>1, <1>5, <1>7
      <3> QED
        BY <3>1, <2>1, <1>4 DEF PopShape
    <2>5. PushShape'
      BY <2>1, <1>4, <1>7, <1>9 DEF PushShape
    <2>6. Roles' /\ NoSlotLost'
      BY <2>1, <2>2, <1>7, SameRoles DEF NoSlotLost
    <2>7. DummyRetired'
      BY <2>1, <2>2, <1>4, <1>7 DEF DummyRetired
    <2>8. FlagShape'
      BY <2>1, <1>1, <1>4, <1>7, <1>9, <1>10 DEF FlagShape
    <2> QED
      BY <2>3, <2>4, <2>5, <2>6, <2>7, <2>8, <1>7, <1>8
  \* The slot is free.
  <1>12. CASE HeadUnchanged(t)
    <2>1. /\ l = "release" /\ nextFreeSlot' = d /\ stack' = <<d>> \o stack
          /\ nextFreeSlot = reg[t] /\ nextSlot[d] = reg[t]
      BY <1>1, <1>6, <1>12 DEF PushCas, HeadUnchanged, PushShape
    <2>2. /\ Busy' = Busy \ {t} /\ Dying' = Dying \ {d}
      BY <2>1, <1>1, <1>5, <1>6, BusyMoves
    <2>3. stack \in Seq(Slots) /\ Len(stack) \in Nat
      BY InSlots
    <2>4. /\ Len(stack') = Len(stack) + 1 /\ stack'[1] = d
          /\ \A i \in 1 .. Len(stack) : stack'[i + 1] = stack[i]
          /\ Elems(stack)' = Elems(stack) \cup {d} /\ Distinct(stack)'
      <3>1. Elems(<<d>> \o stack) = Elems(stack) \cup {d} /\ Distinct(<<d>> \o stack)
        BY <2>3, <1>3, ElemsPush DEF StackShape
      <3>2. Elems(stack)' = Elems(stack) \cup {d} /\ Distinct(stack)'
        BY <3>1, <2>1
      <3>3. /\ Len(<<d>> \o stack) = Len(stack) + 1 /\ (<<d>> \o stack)[1] = d
            /\ \A i \in 1 .. Len(stack) : (<<d>> \o stack)[i + 1] = stack[i]
        BY <2>3, <1>3, ElemsPush
      <3> QED
        BY <3>2, <3>3, <2>1
    <2>5. StackShape'
      <3>1. \A i \in 1 .. Len(stack) + 1 : FreeAt(i + 1)' = FreeAt(i)
        <4> SUFFICES ASSUME NEW i \in 1 .. Len(stack) + 1 PROVE FreeAt(i + 1)' = FreeAt(i)
          OBVIOUS
        <4>1. CASE i = Len(stack) + 1
          <5>1. i + 1 > Len(stack') /\ i > Len(stack)
            BY <4>1, <2>3, <2>4
          <5> QED
            BY <5>1 DEF FreeAt
        <4>2. CASE i # Len(stack) + 1
          <5>1. i \in 1 .. Len(stack) /\ ~(i > Len(stack)) /\ ~(i + 1 > Len(stack'))
            BY <4>2, <2>3, <2>4
          <5> QED
            BY <5>1, <2>4 DEF FreeAt
        <4> QED
          BY <4>1, <4>2
      <3>2. FreeAt(1)' = d
        BY <2>3, <2>4 DEF FreeAt
      <3>3. ASSUME NEW i \in 1 .. Len(stack')
            PROVE  nextSlot'[stack'[i]] = FreeAt(i + 1)'
        <4>1. CASE i = 1
          <5>1. 1 \in 1 .. Len(stack) + 1 /\ 1 + 1 = 2
            BY <2>3
          <5>2. FreeAt(2)' = FreeAt(1)
            BY <5>1, <3>1
          <5>3. FreeAt(1) = nextFreeSlot
            BY DEF StackShape
          <5> QED
            BY <5>2, <5>3, <4>1, <2>1, <2>4, <1>4
        <4>2. CASE i # 1
          <5>1. i - 1 \in 1 .. Len(stack) /\ (i - 1) + 1 = i /\ i \in 1 .. Len(stack) + 1
            BY <4>2, <2>3, <2>4
          <5>2. stack'[i] = stack[i - 1] /\ FreeAt(i + 1)' = FreeAt((i - 1) + 1)
            BY <5>1, <3>1, <2>4
          <5> QED
            BY <5>1, <5>2, <1>4 DEF StackShape
        <4> QED
          BY <4>1, <4>2
      <3> QED
        BY <3>2, <3>3, <2>1, <2>4 DEF StackShape
    <2>6. PopShape'
      <3>1. \A c \in Senders : pc'[c] \in {"popRead", "popCas"} =>
               pc'[c] = pc[c] /\ reg'[c] = reg[c]
        BY <2>1, <1>5, <1>7
      <3> QED
        BY <3>1, <2>4, <1>4 DEF PopShape
    <2>7. PushShape'
      BY <2>1, <1>4, <1>7, <1>9 DEF PushShape
    <2>8. Roles' /\ NoSlotLost'
      <3>1. \A u, v \in Busy' : dying'[u] = dying'[v] => u = v
        <4>1. \A u \in Busy' : u \in Busy /\ dying'[u] = dying[u]
          BY <2>2, <1>5 DEF Busy
        <4> QED
          BY <4>1 DEF Roles
      <3> QED
        BY <3>1, <2>2, <2>4, <1>3, <1>7 DEF Roles, NoSlotLost
    <2>9. DummyRetired'
      BY <2>2, <2>4, <1>3, <1>4, <1>7 DEF DummyRetired
    <2>10. FlagShape'
      <3>1. flags[d] = {NOT_PRESERVED}
        BY <1>1 DEF FlagShape
      <3>2. \A u \in Threads :
              pc'[u] \in {"pushLink", "pushCas"} => flags'[dying'[u]] = {NOT_PRESERVED}
        BY <2>1, <1>4, <1>7, <1>9 DEF FlagShape
      <3> QED
        BY <3>1, <3>2, <2>4, <1>4, <1>7, <1>10 DEF FlagShape
    <2> QED
      BY <2>5, <2>6, <2>7, <2>8, <2>9, <2>10, <1>7, <1>8
  <1> QED
    BY <1>11, <1>12
----------------------------------------------------------------------------
(* Steps of a client that change a slot's role.                            *)

LEMMA ClientMoves ==
  ASSUME TypeOK, SlotInv, NEW c \in Clients, NEW l, Goto(c, l),
         UNCHANGED <<flags, status, answer, dying, ret, previousRequest, killRequest,
                     shouldClose>>,
         \A u \in Threads : u # c => slot'[u] = slot[u] /\ reg'[u] = reg[u],
         pc[c] \notin BusyPCs, l \notin BusyPCs \cup {"aborted", "asleep", "collect"},
         \A s \in InQueue : kind'[s] = kind[s],
         \A s \in Slots : READY \in flags[s] => kind'[s] = kind[s]
  PROVE  /\ pc'[c] = l /\ \A u \in Threads : u # c => pc'[u] = pc[u]
         /\ pc'[Main] = pc[Main] /\ slot'[Main] = slot[Main] /\ c # Main
         /\ UNCHANGED <<Busy, Dying, LastTaken, Taking, Settled>>
         /\ NoAbort' /\ KillShape' /\ AnswersOwn' /\ NoLostWakeup'
         /\ (\A s \in Dying : nextSlot'[s] = nextSlot[s]) => PushShape'
         /\ (previousRequest \notin Elems(fifo)' \ Elems(fifo)) => MainShape'
         /\ Elems(stack)' \cup Popped' \subseteq Elems(stack) \cup Popped
              /\ (\A s \in Elems(fifo)' : READY \notin flags[s]) => FlagShape'
  <1> USE Constants DEF SlotInv, ListInv, RoleInv, UserInv
  <1>1. /\ pc'[c] = l /\ \A u \in Threads : u # c => pc'[u] = pc[u]
        /\ pc'[Main] = pc[Main] /\ slot'[Main] = slot[Main] /\ c # Main
    BY Moves
  <1>2. Busy' = Busy /\ Dying' = Dying
    BY BusyMoves
  <1>3. UNCHANGED <<LastTaken, Taking, Settled>>
    BY <1>1 DEF LastTaken, Taking, Settled
  <1>4. \A u \in Threads : pc'[u] \in BusyPCs => pc'[u] = pc[u] /\ u # c
    BY <1>1
  <1>5. NoAbort'
    BY <1>1 DEF NoAbort
  <1>6. previousRequest \in InQueue /\ LastTaken \in InQueue
    BY Places DEF InQueue
  <1>7. KillShape'
    BY <1>1, <1>6 DEF KillShape
  <1>8. pc[Main] \in {"notify", "destroy"} => kind'[slot[Main]] = kind[slot[Main]]
    BY <1>6 DEF MainShape, Working
  <1>9. AnswersOwn'
    BY <1>1, <1>8 DEF AnswersOwn
  <1>10. NoLostWakeup'
    BY <1>1 DEF NoLostWakeup
  <1>11. (\A s \in Dying : nextSlot'[s] = nextSlot[s]) => PushShape'
    <2>1. \A u \in Threads : pc'[u] = "pushCas" =>
             pc[u] = "pushCas" /\ dying[u] \in Dying /\ reg'[u] = reg[u]
      BY <1>4, DyingAre DEF Busy, BusyPCs, DestroyPCs
    <2> QED
      BY <2>1 DEF PushShape
  <1>12. (previousRequest \notin Elems(fifo)' \ Elems(fifo)) => MainShape'
    BY <1>1, <1>8 DEF MainShape
  <1>13. ASSUME Elems(stack)' \cup Popped' \subseteq Elems(stack) \cup Popped,
                \A s \in Elems(fifo)' : READY \notin flags[s]
         PROVE  FlagShape'
    <2>1. \A u \in Threads : pc'[u] \in {"pushLink", "pushCas"} => pc'[u] = pc[u]
      BY <1>4 DEF BusyPCs, DestroyPCs
    <2>2. \A s \in Unanswered' : READY \notin flags[s]
      BY <1>1, <1>13 DEF Unanswered, FlagShape
    <2> QED
      BY <2>1, <2>2, <1>1, <1>3, <1>13 DEF FlagShape
  <1> QED
    BY <1>1, <1>2, <1>3, <1>5, <1>7, <1>9, <1>10, <1>11, <1>12, <1>13

(* The only sender's place.                                                *)
LEMMA SenderAlone ==
  ASSUME OneSender, TypeOK, NEW c \in Senders, NEW l, Goto(c, l)
  PROVE  /\ c \in Clients /\ c \in Threads /\ pc'[c] = l /\ Senders = {c}
         /\ Appending  = (IF pc[c] \in {"link", "increase"} THEN {c} ELSE {})
         /\ Appending' = (IF l \in {"link", "increase"} THEN {c} ELSE {})
         /\ Linking  <=> pc[c] = "link"
         /\ Linking' <=> l = "link"
         /\ Coming  = (IF pc[c] \in {"link", "increase"} THEN 1 ELSE 0)
         /\ Coming' = (IF l \in {"link", "increase"} THEN 1 ELSE 0)
         /\ Popped  = (IF pc[c] = "exchange" THEN {slot[c]} ELSE {})
         /\ Popped' = (IF l = "exchange" THEN {slot'[c]} ELSE {})
  <1>1. /\ c \in Clients /\ c \in Threads /\ pc'[c] = l
    BY Moves, Constants
  <1>2. Senders = {c}
    BY DEF OneSender
  <1>3. /\ Appending  = (IF pc[c] \in {"link", "increase"} THEN {c} ELSE {})
        /\ Appending' = (IF l \in {"link", "increase"} THEN {c} ELSE {})
    BY <1>1, <1>2 DEF Appending
  <1>4. (Linking <=> pc[c] = "link") /\ (Linking' <=> l = "link")
    BY <1>1, <1>2 DEF Linking
  <1>5. /\ Coming  = (IF pc[c] \in {"link", "increase"} THEN 1 ELSE 0)
        /\ Coming' = (IF l \in {"link", "increase"} THEN 1 ELSE 0)
    BY <1>3 DEF Coming
  <1>6. /\ Popped  = (IF pc[c] = "exchange" THEN {slot[c]} ELSE {})
        /\ Popped' = (IF l = "exchange" THEN {slot'[c]} ELSE {})
    BY <1>1, <1>2 DEF Popped
  <1> QED
    BY <1>1, <1>2, <1>3, <1>4, <1>5, <1>6

(* The pop succeeds: what the sender read is still true, so that the head  *)
(* of the pool moves on to the next free slot.                             *)
LEMMA PopKeeps ==
  ASSUME OneSender, TypeOK, PermitsMatchPool, SlotInv,
         NEW c \in Senders, PopCas(c), HeadUnchanged(c)
  PROVE  SlotInv'
  <1> USE Constants DEF SlotInv, ListInv, RoleInv, UserInv
  <1> DEFINE s == stack[1]
  <1>1. /\ pc[c] = "popCas" /\ reg \in [Threads -> 0 .. N] /\ slot \in [Threads -> Slots]
        /\ nxt \in [Threads -> 0 .. N] /\ stack \in Seq(Slots) /\ Len(stack) \in Nat
    BY DEF PopCas, TypeOK, LocalsTyped, HistoryTyped
  <1>2. /\ Len(stack) > 0 /\ nextFreeSlot = s /\ s \in Elems(stack) /\ s \in Slots
        /\ 1 \in 1 .. Len(stack) /\ nextSlot[s] = FreeAt(2)
    BY <1>1, PoolNotEmpty, InSlots
  <1>3. reg[c] = s /\ nxt[c] = FreeAt(2)
    BY <1>1, <1>2 DEF HeadUnchanged, PopShape
  <1>4. /\ UNCHANGED <<nextSlot, flags, kind, status, answer, dying, ret, previousRequest,
                       killRequest, shouldClose, lastQueuedSlot, queuedMessages,
                       call, held, fifo>>
        /\ nextFreeSlot' = FreeAt(2) /\ stack' = Rest(stack)
        /\ slot' = [slot EXCEPT ![c] = s] /\ Goto(c, "exchange")
        /\ reg' = [reg EXCEPT ![c] = 0]
    BY <1>3 DEF PopCas, slotVars, counters, boxVars, Forget
  <1>5. /\ c \in Clients /\ c \in Threads /\ Senders = {c} /\ pc'[c] = "exchange"
        /\ Appending' = {} /\ Appending = {} /\ Popped = {}
        /\ (Linking => Linking') /\ Coming' = Coming
        /\ slot'[c] = s /\ Popped' = {s}
    BY <1>1, <1>4, SenderAlone
  <1>6. \A u \in Threads : u # c => slot'[u] = slot[u] /\ reg'[u] = reg[u]
    BY <1>1, <1>4
  <1>7. \A u \in Threads : u # c => pc'[u] = pc[u]
    BY <1>4, <1>5, Moves
  <1>8. /\ stack' \in Seq(Slots) /\ Len(stack') = Len(stack) - 1
        /\ \A i \in 1 .. Len(stack') : stack'[i] = stack[i + 1]
        /\ Elems(stack)' = Elems(stack) \ {s} /\ Distinct(stack)'
    <2>1. /\ Rest(stack) \in Seq(Slots) /\ Len(Rest(stack)) = Len(stack) - 1
          /\ \A i \in 1 .. Len(Rest(stack)) : Rest(stack)[i] = stack[i + 1]
          /\ Elems(Rest(stack)) = Elems(stack) \ {s} /\ Distinct(Rest(stack))
      BY <1>1, <1>2, ElemsRest DEF StackShape
    <2> QED
      BY <2>1, <1>4
  <1>9. /\ UNCHANGED <<Busy, Dying, LastTaken, Taking, Settled>>
        /\ NoAbort' /\ KillShape' /\ AnswersOwn' /\ NoLostWakeup'
        /\ PushShape' /\ MainShape' /\ FlagShape'
    <2>1. pc[c] \notin BusyPCs /\ "exchange" \notin BusyPCs \cup {"aborted", "asleep", "collect"}
      BY <1>1 DEF BusyPCs, DestroyPCs
    <2>2. \A x \in Elems(fifo)' : READY \notin flags[x]
      BY <1>4 DEF FlagShape, Unanswered
    <2> QED
      BY <2>1, <2>2, <1>2, <1>4, <1>5, <1>6, <1>8, ClientMoves
  <1>10. InQueue' = InQueue /\ \A i : Place(i)' = Place(i)
    BY <1>4, <1>9 DEF InQueue, Chain, Place
  <1>11. \A d \in Clients : /\ Holds(d)' <=> Holds(d)
                            /\ Holds(d) => slot'[d] = slot[d]
    <2>1. \A d \in Clients : Holds(d) => d # c
      BY <1>1, <1>5 DEF Holds, WaitPCs
    <2>2. ~Holds(c)'
      BY <1>5 DEF Holds, WaitPCs
    <2> QED
      BY <2>1, <2>2, <1>4, <1>5, <1>6, <1>7 DEF Holds
  <1>12. Handles' = Handles /\ HandleOnce'
    BY <1>4, <1>11, SameHandles
  <1>13. StackShape'
    <2>1. \A i \in 1 .. Len(stack') + 1 : FreeAt(i)' = FreeAt(i + 1)
      <3> SUFFICES ASSUME NEW i \in 1 .. Len(stack') + 1 PROVE FreeAt(i)' = FreeAt(i + 1)
        OBVIOUS
      <3>1. CASE i = Len(stack') + 1
        <4>1. i > Len(stack') /\ i + 1 > Len(stack)
          BY <3>1, <1>1, <1>8
        <4> QED
          BY <4>1 DEF FreeAt
      <3>2. CASE i # Len(stack') + 1
        <4>1. i \in 1 .. Len(stack') /\ ~(i > Len(stack')) /\ ~(i + 1 > Len(stack))
          BY <3>2, <1>1, <1>8
        <4> QED
          BY <4>1, <1>8 DEF FreeAt
      <3> QED
        BY <3>1, <3>2
    <2>2. FreeAt(1)' = FreeAt(2)
      <3>1. 1 \in 1 .. Len(stack') + 1 /\ 1 + 1 = 2
        BY <1>1, <1>2, <1>8
      <3> QED
        BY <3>1, <2>1
    <2>3. ASSUME NEW i \in 1 .. Len(stack')
          PROVE  nextSlot'[stack'[i]] = FreeAt(i + 1)'
      <3>1. i + 1 \in 1 .. Len(stack) /\ i + 1 \in 1 .. Len(stack') + 1
        BY <1>1, <1>8
      <3>2. nextSlot[stack[i + 1]] = FreeAt((i + 1) + 1)
        BY <3>1 DEF StackShape
      <3> QED
        BY <3>1, <3>2, <2>1, <1>4, <1>8
    <2> QED
      BY <2>2, <2>3, <1>4, <1>8 DEF StackShape
  <1>14. PopShape'
    BY <1>5 DEF PopShape
  <1>15. QueueShape' /\ AppendShape'
    BY <1>4, <1>5, <1>9, SameQueue DEF AppendShape
  <1>16. Roles' /\ NoSlotLost'
    BY <1>2, <1>4, <1>5, <1>8, <1>9, <1>10, <1>12 DEF Roles, NoSlotLost
  <1>17. DummyRetired'
    BY <1>2, <1>4, <1>5, <1>8, <1>9, <1>12 DEF DummyRetired
  <1>18. HandleShape'
    BY <1>4, <1>10, <1>12 DEF HandleShape
  <1> QED
    BY <1>9, <1>12, <1>13, <1>14, <1>15, <1>16, <1>17, <1>18

(* The request enters the queue, behind the one queued last.               *)
LEMMA ExchangeKeeps ==
  ASSUME OneSender, TypeOK, SlotInv, NEW c \in Senders, Exchange(c)
  PROVE  SlotInv'
  <1> USE Constants DEF SlotInv, ListInv, RoleInv, UserInv
  <1> DEFINE s == slot[c]
             k == call[c].kind
  <1>1. /\ pc[c] = "exchange" /\ reg \in [Threads -> 0 .. N] /\ s \in Slots
        /\ kind \in [Slots -> AllKinds \cup {"none"}] /\ k \in AllKinds
        /\ fifo \in Seq(Slots) /\ Len(fifo) \in Nat /\ queuedMessages \in Nat
    <2>1. pc[c] = "exchange"
      BY DEF Exchange
    <2>2. reg \in [Threads -> 0 .. N] /\ s \in Slots /\ k \in AllKinds
      BY DEF TypeOK, LocalsTyped
    <2>3. kind \in [Slots -> AllKinds \cup {"none"}]
      BY DEF TypeOK, SlotsTyped
    <2>4. fifo \in Seq(Slots)
      BY DEF TypeOK, HistoryTyped
    <2>5. queuedMessages \in Nat
      BY DEF TypeOK, BoxTyped
    <2> HIDE DEF s, k
    <2> QED
      BY <2>1, <2>2, <2>3, <2>4, <2>5
  <1>2. /\ UNCHANGED <<nextSlot, flags, status, answer, dying, ret, previousRequest,
                       killRequest, shouldClose, nextFreeSlot, queuedMessages,
                       slot, nxt, call, held, stack>>
        /\ kind' = [kind EXCEPT ![s] = k] /\ reg' = [reg EXCEPT ![c] = lastQueuedSlot]
        /\ lastQueuedSlot' = s /\ fifo' = Append(fifo, s) /\ Goto(c, "link")
    BY DEF Exchange, counters, boxVars
  <1>3. /\ c \in Clients /\ c \in Threads /\ Senders = {c} /\ pc'[c] = "link"
        /\ Appending' = {c} /\ Appending = {} /\ Popped = {s} /\ Popped' = {}
        /\ ~Linking /\ Linking' /\ Coming = 0 /\ Coming' = 1
    BY <1>1, <1>2, SenderAlone
  <1>4. \A u \in Threads : u # c => pc'[u] = pc[u]
    BY <1>2, <1>3, Moves
  <1>5. /\ s \notin Elems(stack) \cup Dying \cup Handles \cup InQueue /\ s # Dummy
        /\ flags[s] = {NOT_PRESERVED} /\ READY \notin flags[s] /\ DISCARDED \notin flags[s]
    BY <1>3 DEF Roles, DummyRetired, FlagShape, READY, DISCARDED, NOT_PRESERVED
  <1>6. /\ kind'[s] = k /\ \A x \in Slots : x # s => kind'[x] = kind[x]
        /\ reg'[c] = lastQueuedSlot
    BY <1>1, <1>2, <1>3
  <1>7. /\ Len(fifo') = Len(fifo) + 1 /\ fifo'[Len(fifo) + 1] = s
        /\ \A i \in 1 .. Len(fifo) : fifo'[i] = fifo[i]
        /\ Elems(fifo)' = Elems(fifo) \cup {s} /\ fifo' \in Seq(Slots)
    <2>1. /\ Append(fifo, s) \in Seq(Slots) /\ Len(Append(fifo, s)) = Len(fifo) + 1
          /\ Append(fifo, s)[Len(fifo) + 1] = s
          /\ \A i \in 1 .. Len(fifo) : Append(fifo, s)[i] = fifo[i]
          /\ Elems(Append(fifo, s)) = Elems(fifo) \cup {s}
      BY <1>1, ElemsAppend
    <2> QED
      BY <2>1, <1>2
  <1>8. previousRequest \in InQueue /\ LastTaken \in InQueue /\ Elems(fifo) \subseteq InQueue
    BY Places DEF InQueue
  <1>9. /\ UNCHANGED <<Busy, Dying, LastTaken, Taking, Settled>>
        /\ NoAbort' /\ KillShape' /\ AnswersOwn' /\ NoLostWakeup'
        /\ PushShape' /\ MainShape' /\ FlagShape'
    <2>1. pc[c] \notin BusyPCs /\ "link" \notin BusyPCs \cup {"aborted", "asleep", "collect"}
      BY <1>1 DEF BusyPCs, DestroyPCs
    <2>2. \A x \in Elems(fifo)' : READY \notin flags[x]
      BY <1>5, <1>7 DEF FlagShape, Unanswered
    <2>3. \A x \in InQueue : kind'[x] = kind[x]
      BY <1>5, <1>6, InSlots
    <2>4. \A x \in Slots : READY \in flags[x] => kind'[x] = kind[x]
      BY <1>5, <1>6
    <2>5. previousRequest \notin Elems(fifo)' \ Elems(fifo)
      BY <1>5, <1>7, <1>8
    <2>6. Elems(stack)' \cup Popped' \subseteq Elems(stack) \cup Popped
      BY <1>2, <1>3
    <2>7. \A u \in Threads : u # c => slot'[u] = slot[u] /\ reg'[u] = reg[u]
      BY <1>1, <1>2
    <2> QED
      BY <2>1, <2>2, <2>3, <2>4, <2>5, <2>6, <2>7, <1>2, <1>3, ClientMoves
  <1>10. \A i \in 0 .. Len(fifo) : Place(i)' = Place(i)
    <2> SUFFICES ASSUME NEW i \in 0 .. Len(fifo) PROVE Place(i)' = Place(i)
      OBVIOUS
    <2>1. CASE i = 0
      BY <2>1, <1>9 DEF Place
    <2>2. CASE i # 0
      <3>1. i \in 1 .. Len(fifo)
        BY <2>2, <1>1
      <3> QED
        BY <3>1, <2>2, <1>7 DEF Place
    <2> QED
      BY <2>1, <2>2
  <1>11. PICK n \in Nat : n = Len(fifo)
    BY <1>1
  <1>12. Place(n + 1)' = s /\ n + 1 = Len(fifo') /\ Len(fifo') - 1 = n
         /\ n + 1 \in 0 .. n + 1 /\ n \in 0 .. n
    BY <1>7, <1>11 DEF Place
  <1>13. \A i \in 0 .. n + 1 : i \in 0 .. n \/ i = n + 1
    BY <1>11
  <1>14. InQueue' = InQueue \cup {s}
    <2>1. InQueue' = Elems(Chain)' \cup {previousRequest'}
      BY DEF InQueue
    <2>2. Elems(Chain)' = Elems(<<LastTaken>> \o fifo')
      BY <1>9 DEF Chain
    <2>3. Elems(<<LastTaken>> \o fifo') = Elems(fifo)' \cup {LastTaken}
      BY <1>7, <1>8, InSlots, ElemsPush
    <2> QED
      BY <2>1, <2>2, <2>3, <1>2, <1>7, Places
  <1>15. \A d \in Clients : d # c => (Holds(d)' <=> Holds(d)) /\ slot'[d] = slot[d]
    BY <1>2, <1>3, <1>4 DEF Holds
  <1>16. ~Holds(c) /\ (Holds(c)' <=> k \in HandleKinds)
    BY <1>1, <1>2, <1>3 DEF Holds, WaitPCs
  <1>17. Handles' = Handles \cup (IF k \in HandleKinds THEN {s} ELSE {})
    <2>1. \A x : x \in Handles' <=> x \in held' \/ \E d \in Clients : Holds(d)' /\ slot'[d] = x
      BY Constants DEF Handles, Holds, Appending
    <2>2. \A x : x \in Handles' <=> x \in Handles \/ (k \in HandleKinds /\ x = s)
      BY <2>1, <1>2, <1>3, <1>15, <1>16, HandlesAre
    <2> QED
      BY <2>2
  <1>18. HandleOnce'
    <2>1. \A d \in Clients : Holds(d) => slot[d] \in Handles
      BY HandlesAre
    <2>2. held \subseteq Handles
      BY DEF Handles
    <2> QED
      BY <2>1, <2>2, <1>2, <1>3, <1>5, <1>15, <1>16 DEF HandleOnce
  <1>19. StackShape'
    BY <1>2, SameStack
  <1>20. PopShape'
    BY <1>3 DEF PopShape
  <1>21. QueueShape'
    <2>1. \A i \in 0 .. n : Place(i) \in InQueue /\ Place(i) # s
      BY <1>5, <1>11, PlaceInQueue
    <2>2. \A i, j \in 0 .. n + 1 : Place(i)' = Place(j)' => i = j
      <3> SUFFICES ASSUME NEW i \in 0 .. n + 1, NEW j \in 0 .. n + 1, Place(i)' = Place(j)'
                   PROVE  i = j
        OBVIOUS
      <3>1. CASE i = n + 1 \/ j = n + 1
        BY <3>1, <2>1, <1>10, <1>11, <1>12, <1>13
      <3>2. CASE i \in 0 .. n /\ j \in 0 .. n
        BY <3>2, <1>10, <1>11 DEF QueueShape
      <3> QED
        BY <3>1, <3>2, <1>13
    <2>3. Len(fifo') = queuedMessages' + Coming' + Taking'
      <3>1. Taking \in Nat /\ Len(fifo) = queuedMessages + Coming + Taking
        BY DEF Taking, QueueShape
      <3> QED
        BY <3>1, <1>1, <1>2, <1>3, <1>7, <1>9
    <2>4. ASSUME NEW i \in 0 .. n
          PROVE  nextSlot'[Place(i)'] = Place(i + 1)' \/ (i + 1 = n + 1 /\ Linking')
      <3>1. CASE i = n
        BY <3>1, <1>3
      <3>2. CASE i # n
        <4>1. i \in 0 .. Len(fifo) - 1 /\ i \in 0 .. n /\ i + 1 \in 0 .. n
          BY <3>2, <1>11
        <4>2. nextSlot[Place(i)] = Place(i + 1)
          BY <4>1, <1>3 DEF QueueShape
        <4> QED
          BY <4>1, <4>2, <1>2, <1>10, <1>11
      <3> QED
        BY <3>1, <3>2
    <2> QED
      BY <2>2, <2>3, <2>4, <1>2, <1>12 DEF QueueShape
  <1>22. AppendShape'
    <2>1. reg'[c] = Place(n)' /\ slot'[c] = Place(n + 1)'
      BY <1>2, <1>6, <1>10, <1>11, <1>12 DEF QueueShape
    <2> QED
      BY <2>1, <1>3, <1>12 DEF AppendShape
  <1>23. Roles' /\ NoSlotLost'
    <2>1. Handles' \subseteq Handles \cup {s} /\ Handles \subseteq Handles'
      BY <1>17
    <2>2. \A t \in Busy : dying'[t] = dying[t]
      BY <1>2
    <2> QED
      BY <2>1, <2>2, <1>2, <1>3, <1>5, <1>9, <1>14 DEF Roles, NoSlotLost
  <1>24. DummyRetired'
    BY <1>2, <1>3, <1>5, <1>7, <1>9, <1>17 DEF DummyRetired
  <1>25. HandleShape'
    <2>1. k \in HandleKinds \/ k \in DestroyKinds
      BY <1>1 DEF AllKinds, HandleKinds
    <2>2. k # "none"
      BY <1>1 DEF AllKinds, ReplyKinds, DestroyKinds
    <2>3. \A x \in Handles \cup InQueue : kind'[x] = kind[x] /\ x # s
      BY <1>5, <1>6, InSlots
    <2>4. \A x \in Handles' : DISCARDED \notin flags'[x] /\ kind'[x] \in HandleKinds
      BY <2>3, <1>2, <1>5, <1>6, <1>17 DEF HandleShape
    <2>5. \A x \in Handles' \ InQueue' : READY \in flags'[x] /\ NOT_PRESERVED \in flags'[x]
      BY <1>2, <1>14, <1>17 DEF HandleShape
    <2>6. s \in Handles' \/ k \in DestroyKinds
      BY <2>1, <1>17
    <2>7. \A x \in InQueue' \ {Dummy} :
            /\ kind'[x] # "none"
            /\ DISCARDED \in flags'[x] \/ x \in Handles'
                 \/ (kind'[x] \in DestroyKinds /\ READY \notin flags'[x])
      BY <2>2, <2>3, <2>6, <1>2, <1>5, <1>6, <1>14, <1>17 DEF HandleShape
    <2> QED
      BY <2>4, <2>5, <2>7 DEF HandleShape
  <1> QED
    BY <1>9, <1>18, <1>19, <1>20, <1>21, <1>22, <1>23, <1>24, <1>25

(* The link that was missing is written.                                   *)
LEMMA LinkKeeps ==
  ASSUME OneSender, TypeOK, SlotInv, NEW c \in Senders, LinkPrevious(c)
  PROVE  SlotInv'
  <1> USE Constants DEF SlotInv, ListInv, RoleInv, UserInv
  <1>1. /\ pc[c] = "link" /\ reg \in [Threads -> 0 .. N]
        /\ nextSlot \in [Slots -> 0 .. N]
        /\ fifo \in Seq(Slots) /\ Len(fifo) \in Nat /\ queuedMessages \in Nat
    BY SMTT(30) DEF LinkPrevious, TypeOK, LocalsTyped, SlotsTyped, HistoryTyped, BoxTyped
  <1>2. /\ UNCHANGED <<flags, kind, status, answer, dying, ret, previousRequest,
                       killRequest, shouldClose, nextFreeSlot, lastQueuedSlot,
                       queuedMessages, slot, nxt, call, held, stack, fifo>>
        /\ nextSlot' = [nextSlot EXCEPT ![reg[c]] = slot[c]]
        /\ reg' = [reg EXCEPT ![c] = 0] /\ Goto(c, "increase")
    BY DEF LinkPrevious, Linked, counters, boxVars, hist, Forget
  <1>3. /\ c \in Clients /\ c \in Threads /\ Senders = {c} /\ pc'[c] = "increase"
        /\ Appending' = {c} /\ Appending = {c} /\ Popped = {} /\ Popped' = {}
        /\ Linking /\ ~Linking' /\ Coming = 1 /\ Coming' = 1
    <2>1. pc[c] = "link" /\ Goto(c, "increase")
      BY <1>1, <1>2
    <2> QED
      BY <2>1, SenderAlone
  <1>4. \A u \in Threads : u # c => pc'[u] = pc[u]
    BY <1>2, <1>3, Moves
  <1>5. PICK n \in Nat : n = Len(fifo)
    BY <1>1
  <1>6. n > 0
    <2>1. Taking \in Nat /\ Len(fifo) = queuedMessages + Coming + Taking
      BY DEF Taking, QueueShape
    <2> QED
      BY <2>1, <1>1, <1>3, <1>5
  <1>7. /\ n - 1 \in 0 .. n /\ n - 1 \in 0 .. Len(fifo) /\ n \in 0 .. Len(fifo)
        /\ n - 1 \in 0 .. n - 1 /\ (n - 1) + 1 = n
    BY <1>5, <1>6
  <1>8. reg[c] = Place(n - 1) /\ slot[c] = Place(n)
    BY <1>1, <1>3, <1>5 DEF AppendShape
  <1>9. reg[c] \in InQueue /\ reg[c] \in Slots
    BY <1>7, <1>8, PlaceInQueue, InSlots
  <1>10. /\ nextSlot'[reg[c]] = slot[c]
         /\ \A x \in Slots : x # reg[c] => nextSlot'[x] = nextSlot[x]
    BY <1>1, <1>2, <1>9
  <1>11. reg[c] \notin Elems(stack) \cup Dying
    BY <1>9 DEF Roles
  <1>12. /\ UNCHANGED <<Busy, Dying, LastTaken, Taking, Settled>>
         /\ NoAbort' /\ KillShape' /\ AnswersOwn' /\ NoLostWakeup'
         /\ PushShape' /\ MainShape' /\ FlagShape'
    <2>1. pc[c] \notin BusyPCs /\ "increase" \notin BusyPCs \cup {"aborted", "asleep", "collect"}
      BY <1>1 DEF BusyPCs, DestroyPCs
    <2>2. \A x \in Elems(fifo)' : READY \notin flags[x]
      BY <1>2 DEF FlagShape, Unanswered
    <2>3. \A x \in Dying : nextSlot'[x] = nextSlot[x]
      BY <1>10, <1>11, InSlots
    <2>4. \A u \in Threads : u # c => slot'[u] = slot[u] /\ reg'[u] = reg[u]
      BY <1>1, <1>2
    <2>5. Elems(stack)' \cup Popped' \subseteq Elems(stack) \cup Popped
      BY <1>2, <1>3
    <2>6. previousRequest \notin Elems(fifo)' \ Elems(fifo)
      BY <1>2
    <2> QED
      BY <2>1, <2>2, <2>3, <2>4, <2>5, <2>6, <1>2, <1>3, ClientMoves
  <1>13. InQueue' = InQueue /\ \A i : Place(i)' = Place(i)
    BY <1>2, <1>12 DEF InQueue, Chain, Place
  <1>14. \A d \in Clients : (Holds(d)' <=> Holds(d)) /\ slot'[d] = slot[d]
    <2>1. pc[c] \notin WaitPCs /\ pc'[c] \notin WaitPCs
      BY <1>1, <1>3 DEF WaitPCs
    <2> QED
      BY <2>1, <1>2, <1>3, <1>4 DEF Holds
  <1>15. Handles' = Handles /\ HandleOnce'
    BY <1>2, <1>14, SameHandles
  <1>16. StackShape'
    BY <1>2, <1>10, <1>11, InSlots, SameStack
  <1>17. PopShape'
    BY <1>3 DEF PopShape
  <1>18. QueueShape'
    <2>1. ASSUME NEW i \in 0 .. n - 1
          PROVE  nextSlot'[Place(i)] = Place(i + 1)
      <3>1. CASE i = n - 1
        BY <3>1, <1>7, <1>8, <1>10
      <3>2. CASE i # n - 1
        <4>1. i \in 0 .. Len(fifo) /\ i \in 0 .. Len(fifo) - 1 /\ i + 1 # Len(fifo)
          BY <3>2, <1>5
        <4>2. nextSlot[Place(i)] = Place(i + 1)
          BY <4>1 DEF QueueShape
        <4>3. Place(i) # Place(n - 1)
          BY <4>1, <3>2, <1>7 DEF QueueShape
        <4>4. Place(i) \in Slots
          BY <4>1, Places
        <4> QED
          BY <4>2, <4>3, <4>4, <1>8, <1>10
      <3> QED
        BY <3>1, <3>2
    <2> QED
      BY <2>1, <1>2, <1>3, <1>5, <1>12, <1>13 DEF QueueShape
  <1>19. AppendShape'
    BY <1>2, <1>3, <1>13 DEF AppendShape
  <1>20. Roles' /\ NoSlotLost'
    BY <1>2, <1>3, <1>12, <1>13, <1>15 DEF Roles, NoSlotLost
  <1>21. DummyRetired'
    BY <1>2, <1>3, <1>12, <1>15 DEF DummyRetired
  <1>22. HandleShape'
    BY <1>2, <1>13, <1>15 DEF HandleShape
  <1> QED
    BY <1>12, <1>15, <1>16, <1>17, <1>18, <1>19, <1>20, <1>21, <1>22

(* The request is counted, and its handle goes to the application.         *)
LEMMA IncreaseKeeps ==
  ASSUME OneSender, TypeOK, SlotInv, NEW c \in Senders, Increase(c)
  PROVE  SlotInv'
  <1> USE Constants DEF SlotInv, ListInv, RoleInv, UserInv
  <1> DEFINE s == slot[c]
             k == call[c].kind
  <1>1. /\ pc[c] = "increase" /\ slot \in [Threads -> Slots]
        /\ call \in [Clients -> [kind : AllKinds, mode : Modes]]
        /\ queuedMessages \in Nat
    BY DEF Increase, TypeOK, LocalsTyped, BoxTyped
  <1>2. /\ UNCHANGED <<flags, kind, status, answer, dying, ret, previousRequest,
                       killRequest, shouldClose, nextSlot, nextFreeSlot, lastQueuedSlot,
                       reg, nxt, stack, fifo>>
        /\ queuedMessages' = queuedMessages + 1
        /\ held' = IF k \in HandleKinds THEN held \cup {s} ELSE held
        /\ slot' = [slot EXCEPT ![c] = Dummy] /\ call' = [call EXCEPT ![c] = NoCall]
        /\ Goto(c, "idle")
    BY DEF Increase, slotVars, boxVars, hist, Forget
  <1>3. /\ c \in Clients /\ c \in Threads /\ Senders = {c} /\ pc'[c] = "idle"
        /\ Appending' = {} /\ Appending = {c} /\ Popped = {} /\ Popped' = {}
        /\ ~Linking /\ Coming = 1 /\ Coming' = 0
    BY <1>1, <1>2, SenderAlone
  <1>4. \A u \in Threads : u # c => pc'[u] = pc[u] /\ slot'[u] = slot[u] /\ reg'[u] = reg[u]
    BY <1>1, <1>2, <1>3, Moves
  <1>5. /\ UNCHANGED <<Busy, Dying, LastTaken, Taking, Settled>>
        /\ NoAbort' /\ KillShape' /\ AnswersOwn' /\ NoLostWakeup'
        /\ PushShape' /\ MainShape' /\ FlagShape'
    <2>1. pc[c] \notin BusyPCs /\ "idle" \notin BusyPCs \cup {"aborted", "asleep", "collect"}
      BY <1>1 DEF BusyPCs, DestroyPCs
    <2>2. \A x \in Elems(fifo)' : READY \notin flags[x]
      BY <1>2 DEF FlagShape, Unanswered
    <2>3. Elems(stack)' \cup Popped' \subseteq Elems(stack) \cup Popped
      BY <1>2, <1>3
    <2>4. previousRequest \notin Elems(fifo)' \ Elems(fifo)
      BY <1>2
    <2> QED
      BY <2>1, <2>2, <2>3, <2>4, <1>2, <1>3, <1>4, ClientMoves
  <1>6. InQueue' = InQueue /\ \A i : Place(i)' = Place(i)
    BY <1>2, <1>5 DEF InQueue, Chain, Place
  <1>7. \A d \in Clients : d # c => (Holds(d)' <=> Holds(d)) /\ slot'[d] = slot[d]
    BY <1>1, <1>2, <1>3, <1>4 DEF Holds
  <1>8. ~Holds(c)' /\ (Holds(c) <=> k \in HandleKinds)
    BY <1>1, <1>2, <1>3 DEF Holds, WaitPCs
  <1>9. Handles' = Handles
    <2>1. \A x : x \in Handles' <=> x \in held' \/ \E d \in Clients : Holds(d)' /\ slot'[d] = x
      BY Constants DEF Handles, Holds, Appending
    <2>2. \A x : x \in Handles' <=> x \in Handles
      BY <2>1, <1>2, <1>3, <1>7, <1>8, HandlesAre
    <2> QED
      BY <2>2
  <1>10. HandleOnce'
    BY <1>2, <1>3, <1>7, <1>8 DEF HandleOnce
  <1>11. StackShape'
    BY <1>2, SameStack
  <1>12. PopShape'
    BY <1>3 DEF PopShape
  <1>13. QueueShape'
    <2>1. Taking \in Nat
      BY DEF Taking
    <2>2. queuedMessages' + Coming' + Taking' = queuedMessages + Coming + Taking
      BY <2>1, <1>1, <1>2, <1>3, <1>5
    <2> QED
      BY <2>2, <1>2, <1>3, <1>5, SameQueue
  <1>14. AppendShape'
    BY <1>3 DEF AppendShape
  <1>15. Roles' /\ NoSlotLost'
    BY <1>2, <1>3, <1>5, <1>6, <1>9 DEF Roles, NoSlotLost
  <1>16. DummyRetired'
    BY <1>2, <1>3, <1>5, <1>9 DEF DummyRetired
  <1>17. HandleShape'
    BY <1>2, <1>6, <1>9 DEF HandleShape
  <1> QED
    BY <1>5, <1>9, <1>10, <1>11, <1>12, <1>13, <1>14, <1>15, <1>16, <1>17

\* A client outside the lists takes a handle or gives it back.
LEMMA HolderStays ==
  ASSUME TypeOK, SlotInv, NEW c \in Clients, NEW l, Goto(c, l),
         UNCHANGED <<nextSlot, flags, kind, status, answer, nextFreeSlot, lastQueuedSlot,
                     queuedMessages, previousRequest, killRequest, shouldClose,
                     reg, nxt, dying, ret, stack, fifo>>,
         \A u \in Threads : u # c => slot'[u] = slot[u],
         \A d \in Clients : d # c => call'[d] = call[d],
         pc[c] \in {"idle", "wait", "asleep"}, l \in {"idle", "wait", "discard"},
         \A x : x \in held' \cup (IF l # "idle" THEN {slot'[c]} ELSE {}) <=>
                x \in held \cup (IF pc[c] # "idle" THEN {slot[c]} ELSE {}),
         l # "idle" => slot'[c] \notin held',
         pc[c] # "idle" => held' \subseteq held \cup {slot[c]},
         pc[c] = "idle" => held' \subseteq held /\ slot'[c] \in held
  PROVE  SlotInv'
  <1> USE Constants DEF SlotInv, ListInv, RoleInv, UserInv
  <1>1. /\ pc'[c] = l /\ \A u \in Threads : u # c => pc'[u] = pc[u]
        /\ \A d \in Senders : d \in Clients /\ d \in Threads
    BY Moves
  <1>2. Appending' = Appending /\ c \notin Appending
    BY <1>1 DEF Appending
  <1>3. Linking' = Linking /\ Coming' = Coming
    BY <1>1, <1>2 DEF Linking, Coming
  <1>4. Popped' = Popped
    <2>1. \A d \in Senders : (pc'[d] = "exchange" <=> pc[d] = "exchange")
                             /\ (pc[d] = "exchange" => slot'[d] = slot[d])
      BY <1>1
    <2> QED
      BY <2>1 DEF Popped
  <1>5. \A d \in Clients : d # c => (Holds(d)' <=> Holds(d)) /\ slot'[d] = slot[d]
    BY <1>1, <1>2 DEF Holds
  <1>6. (Holds(c)' <=> l # "idle") /\ (Holds(c) <=> pc[c] # "idle")
    BY <1>1, <1>2 DEF Holds, WaitPCs
  <1>7. Handles' = Handles
    <2>1. \A x : x \in Handles' <=> x \in held' \/ \E d \in Clients : Holds(d)' /\ slot'[d] = x
      BY Constants DEF Handles, Holds, Appending
    <2>2. \A x : x \in Handles' <=> x \in Handles
      BY <2>1, <1>5, <1>6, HandlesAre
    <2> QED
      BY <2>2
  <1>8. HandleOnce'
    <2>1. \A d \in Clients : d # c /\ Holds(d)' => slot'[d] \notin held'
      BY <1>5, <1>6 DEF HandleOnce
    <2>2. \A d \in Clients : d # c /\ Holds(d)' /\ Holds(c)' => slot'[d] # slot'[c]
      BY <1>5, <1>6 DEF HandleOnce
    <2>3. \A d, e \in Clients :
             d # c /\ e # c /\ Holds(d)' /\ Holds(e)' /\ slot'[d] = slot'[e] => d = e
      BY <1>5 DEF HandleOnce
    <2> QED
      BY <2>1, <2>2, <2>3, <1>6 DEF HandleOnce
  <1>9. /\ UNCHANGED <<Busy, Dying, LastTaken, Taking, Settled>>
        /\ NoAbort' /\ KillShape' /\ AnswersOwn' /\ NoLostWakeup'
        /\ PushShape' /\ MainShape' /\ FlagShape'
    <2>1. pc[c] \notin BusyPCs /\ l \notin BusyPCs \cup {"aborted", "asleep", "collect"}
      BY DEF BusyPCs, DestroyPCs
    <2>2. \A x \in Elems(fifo)' : READY \notin flags[x]
      BY DEF FlagShape, Unanswered
    <2>3. Elems(stack)' \cup Popped' \subseteq Elems(stack) \cup Popped
      BY <1>4
    <2> QED
      BY <2>1, <2>2, <2>3, ClientMoves
  <1>10. InQueue' = InQueue /\ \A i : Place(i)' = Place(i)
    BY <1>9 DEF InQueue, Chain, Place
  <1>11. StackShape' /\ QueueShape'
    BY <1>3, <1>9, SameStack, SameQueue
  <1>12. PopShape'
    <2>1. \A d \in Senders : pc'[d] \in {"popRead", "popCas"} => pc'[d] = pc[d]
      BY <1>1
    <2> QED
      BY <2>1 DEF PopShape
  <1>13. AppendShape'
    <2>1. \A d \in Appending : d # c /\ pc'[d] = pc[d] /\ slot'[d] = slot[d]
      BY <1>1, <1>2 DEF Appending
    <2> QED
      BY <2>1, <1>2, <1>10 DEF AppendShape
  <1>14. Roles' /\ NoSlotLost'
    BY <1>4, <1>7, <1>9, <1>10, SameRoles DEF NoSlotLost
  <1>15. DummyRetired' /\ HandleShape'
    BY <1>4, <1>7, <1>9, <1>10 DEF DummyRetired, HandleShape
  <1> QED
    BY <1>8, <1>9, <1>11, <1>12, <1>13, <1>14, <1>15

LEMMA HolderKeeps ==
  ASSUME TypeOK, SlotInv, NEW c \in Clients,
         \/ \E s \in Slots, m \in Modes : WaitBegin(c, s, m)
         \/ \E s \in Slots : DiscardBegin(c, s)
         \/ WaitNotReady(c)
  PROVE  SlotInv'
  <1> USE Constants
  <1>1. /\ slot \in [Threads -> Slots] /\ c \in Threads
        /\ call \in [Clients -> [kind : AllKinds, mode : Modes]]
    BY DEF TypeOK, LocalsTyped
  <1>2. UNCHANGED <<nextSlot, flags, kind, status, answer, nextFreeSlot, lastQueuedSlot,
                    queuedMessages, previousRequest, killRequest, shouldClose,
                    reg, nxt, dying, ret, stack, fifo>>
    BY DEF WaitBegin, DiscardBegin, WaitNotReady, slotVars, counters, boxVars, hist
  <1>3. /\ \A u \in Threads : u # c => slot'[u] = slot[u]
        /\ \A d \in Clients : d # c => call'[d] = call[d]
    BY <1>1 DEF WaitBegin, DiscardBegin, WaitNotReady, Forget
  <1>4. CASE WaitNotReady(c)
    <2>1. /\ pc[c] \in {"wait", "asleep"} /\ Goto(c, "idle")
          /\ held' = held \cup {slot[c]}
      BY <1>4 DEF WaitNotReady
    <2> QED
      BY <2>1, <1>2, <1>3, HolderStays
  <1>5. ASSUME NEW s \in held, NEW l \in {"wait", "discard"}, Goto(c, l), pc[c] = "idle",
               held' = held \ {s}, slot' = [slot EXCEPT ![c] = s]
        PROVE  SlotInv'
    <2>1. slot'[c] = s
      BY <1>1, <1>5
    <2>2. \A x : x \in held' \cup {slot'[c]} <=> x \in held
      BY <2>1, <1>5
    <2> QED
      BY <2>1, <2>2, <1>2, <1>3, <1>5, HolderStays
  <1>6. CASE \E s \in Slots, m \in Modes : WaitBegin(c, s, m)
    BY <1>5, <1>6 DEF WaitBegin
  <1>7. CASE \E s \in Slots : DiscardBegin(c, s)
    BY <1>5, <1>7 DEF DiscardBegin
  <1> QED
    BY <1>4, <1>6, <1>7

(* qtz_request::discard: the request is destroyed if the queue has passed  *)
(* it, and stays with the mailbox thread if not.                           *)
LEMMA DiscardKeeps ==
  ASSUME TypeOK, SlotInv, NEW c \in Clients, Discard(c)
  PROVE  SlotInv'
  <1> USE Constants DEF SlotInv, ListInv, RoleInv, UserInv
  <1> DEFINE s == slot[c]
             gone == DestroyOnDiscard(s)
  <1>1. /\ pc[c] = "discard" /\ c \in Threads /\ c # Main /\ s \in Slots
        /\ slot \in [Threads -> Slots] /\ flags \in [Slots -> SUBSET FlagBits]
        /\ dying \in [Threads -> Slots]
    BY DEF Discard, TypeOK, LocalsTyped, SlotsTyped
  <1>2. /\ UNCHANGED <<nextSlot, kind, status, answer, nextFreeSlot, lastQueuedSlot,
                       queuedMessages, previousRequest, killRequest, shouldClose,
                       reg, nxt, call, held, stack, fifo>>
        /\ slot' = [slot EXCEPT ![c] = Dummy]
    BY DEF Discard, counters, boxVars, hist, Forget
  <1>3. \A u \in Threads : u # c => slot'[u] = slot[u]
    BY <1>1, <1>2
  <1>4. /\ \A x \in Slots : x # s => flags'[x] = flags[x]
        /\ flags'[s] = flags[s] \cup {DISCARDED}
    BY <1>1 DEF Discard
  <1>5. \A x \in Slots : /\ READY \in flags'[x] <=> READY \in flags[x]
                         /\ NOT_PRESERVED \in flags'[x] <=> NOT_PRESERVED \in flags[x]
                         /\ DISCARDED \in flags[x] => DISCARDED \in flags'[x]
    BY <1>4 DEF READY, DISCARDED, NOT_PRESERVED
  <1>6. Holds(c) /\ s \in Handles
    BY <1>1, HandlesAre DEF Holds, WaitPCs
  <1>7. /\ s # Dummy /\ s \notin Elems(stack) \cup Popped \cup Dying
        /\ kind[s] \in HandleKinds
    BY <1>6 DEF DummyRetired, Roles, HandleShape
  <1>8. gone <=> NOT_PRESERVED \in flags[s] /\ READY \in flags[s]
    BY DEF DestroyOnDiscard
  <1>9. gone <=> s \notin InQueue
    <2>1. s \notin InQueue => gone
      BY <1>6, <1>8 DEF HandleShape
    <2>2. s \in Elems(fifo) => ~gone
      BY <1>8 DEF FlagShape, Unanswered
    <2>3. s = previousRequest => ~gone
      BY <1>7, <1>8 DEF FlagShape
    <2>4. s = LastTaken => ~gone
      <3>1. CASE pc[Main] \in Taken
        BY <3>1, <1>8 DEF FlagShape, Unanswered, Pending, LastTaken, Taken
      <3>2. CASE pc[Main] \notin Taken
        BY <3>2, <2>3 DEF LastTaken, Taken
      <3> QED
        BY <3>1, <3>2
    <2> QED
      BY <2>1, <2>2, <2>3, <2>4, Places
  <1>10. /\ gone => Goto(c, "clear") /\ dying' = [dying EXCEPT ![c] = s]
                    /\ ret' = [ret EXCEPT ![c] = "idle"]
         /\ ~gone => Goto(c, "idle") /\ UNCHANGED <<dying, ret>>
    BY DEF Discard, StartDestroy
  <1> HIDE DEF gone
  <1>11. PICK l : Goto(c, l) /\ l = IF gone THEN "clear" ELSE "idle"
    BY <1>10
  <1>12. /\ pc'[c] = l /\ \A u \in Threads : u # c => pc'[u] = pc[u]
         /\ pc'[Main] = pc[Main] /\ slot'[Main] = slot[Main]
         /\ \A d \in Senders : d \in Clients /\ d \in Threads
    BY <1>1, <1>3, <1>11, Moves
  <1>13. /\ gone => /\ Busy' = Busy \cup {c} /\ c \notin Busy
                    /\ Dying' = Dying \cup {s} /\ dying'[c] = s
         /\ ~gone => Busy' = Busy /\ Dying' = Dying /\ dying' = dying
         /\ \A u \in Threads : u # c => dying'[u] = dying[u]
    <2>1. /\ gone => dying'[c] = s
          /\ \A u \in Threads : u # c => dying'[u] = dying[u]
      BY <1>1, <1>10
    <2>2. pc[c] \notin BusyPCs /\ "clear" \in BusyPCs /\ "idle" \notin BusyPCs
      BY <1>1 DEF BusyPCs, DestroyPCs
    <2> QED
      BY <2>1, <2>2, <1>1, <1>10, BusyMoves
  <1>14. Appending' = Appending /\ c \notin Appending
    BY <1>1, <1>11, <1>12 DEF Appending
  <1>15. Linking' = Linking /\ Coming' = Coming
    BY <1>1, <1>11, <1>12, <1>14 DEF Linking, Coming
  <1>16. Popped' = Popped
    <2>1. \A d \in Senders : (pc'[d] = "exchange" <=> pc[d] = "exchange")
                             /\ (pc[d] = "exchange" => slot'[d] = slot[d])
      BY <1>1, <1>3, <1>11, <1>12
    <2> QED
      BY <2>1 DEF Popped
  <1>17. /\ LastTaken' = LastTaken /\ Taking' = Taking
         /\ \A i : Place(i)' = Place(i)
    BY <1>2, <1>12 DEF LastTaken, Taking, Place
  <1>18. InQueue' = InQueue
    BY <1>2, <1>17 DEF InQueue, Chain
  <1>19. \A d \in Clients : d # c => (Holds(d)' <=> Holds(d)) /\ slot'[d] = slot[d]
    BY <1>2, <1>3, <1>12, <1>14 DEF Holds
  <1>20. ~Holds(c)'
    BY <1>11, <1>12, <1>14 DEF Holds, WaitPCs
  <1>21. Handles' = Handles \ {s}
    <2>1. \A x : x \in Handles' <=> x \in held' \/ \E d \in Clients : Holds(d)' /\ slot'[d] = x
      BY Constants DEF Handles, Holds, Appending
    <2>2. s \notin held /\ \A d \in Clients : Holds(d) /\ slot[d] = s => d = c
      BY <1>6 DEF HandleOnce
    <2>3. \A x : x \in Handles' <=> x \in Handles /\ x # s
      BY <2>1, <2>2, <1>2, <1>6, <1>19, <1>20, HandlesAre
    <2> QED
      BY <2>3
  <1>22. HandleOnce'
    BY <1>2, <1>19, <1>20 DEF HandleOnce
  <1>23. StackShape'
    BY <1>2, SameStack
  <1>24. QueueShape'
    BY <1>2, <1>15, <1>17, SameQueue
  <1>25. \A t \in Threads : pc'[t] \in {"pushLink", "pushCas", "popRead", "popCas"} =>
            t # c /\ pc'[t] = pc[t]
    BY <1>11, <1>12
  <1>26. PopShape' /\ PushShape' /\ NoAbort'
    BY <1>2, <1>11, <1>12, <1>13, <1>25 DEF PopShape, PushShape, NoAbort
  <1>27. AppendShape'
    <2>1. \A d \in Appending : d # c /\ pc'[d] = pc[d] /\ slot'[d] = slot[d]
      BY <1>3, <1>12, <1>14 DEF Appending
    <2> QED
      BY <2>1, <1>2, <1>14, <1>17 DEF AppendShape
  <1>28. MainShape' /\ KillShape'
    <2>1. ret'[Main] = ret[Main]
      BY <1>1, <1>10 DEF TypeOK, RegsTyped
    <2> QED
      BY <2>1, <1>2, <1>12 DEF MainShape, KillShape
  <1>29. Roles'
    <2>1. \A t, u \in Busy' : dying'[t] = dying'[u] => t = u
      <3>1. Busy \subseteq Threads /\ \A t \in Busy : dying[t] \in Dying
        BY DyingAre DEF Busy
      <3>2. CASE gone
        BY <3>1, <3>2, <1>7, <1>13 DEF Roles
      <3>3. CASE ~gone
        BY <3>3, <1>13 DEF Roles
      <3> QED
        BY <3>2, <3>3
    <2>2. Dying' = Dying \/ (Dying' = Dying \cup {s} /\ s \notin InQueue)
      BY <1>9, <1>13
    <2> QED
      BY <2>1, <2>2, <1>2, <1>7, <1>16, <1>18, <1>21 DEF Roles
  <1>30. NoSlotLost'
    <2>1. s \in Dying' \cup InQueue /\ Dying \subseteq Dying'
      BY <1>9, <1>13
    <2> QED
      BY <2>1, <1>2, <1>16, <1>18, <1>21 DEF NoSlotLost
  <1>31. DummyRetired'
    <2>1. Dummy \notin Dying' /\ flags'[Dummy] = flags[Dummy]
      BY <1>4, <1>7, <1>13 DEF DummyRetired
    <2> QED
      BY <2>1, <1>2, <1>16, <1>21 DEF DummyRetired
  <1>32. FlagShape'
    <2>1. \A t \in Threads : pc'[t] \in {"pushLink", "pushCas"} =>
             /\ pc[t] = pc'[t] /\ dying[t] \in Dying /\ dying[t] \in Slots
             /\ dying'[t] = dying[t]
      BY <1>1, <1>13, <1>25, DyingAre DEF Busy, BusyPCs, DestroyPCs
    <2>2. Unanswered' = Unanswered /\ Unanswered \subseteq Slots
      BY <1>1, <1>2, <1>12, InSlots DEF Unanswered
    <2>3. \A x \in Elems(stack)' \cup Popped' : flags'[x] = {NOT_PRESERVED}
      BY <1>2, <1>4, <1>7, <1>16, InSlots DEF FlagShape
    <2>4. \A t \in Threads :
            pc'[t] \in {"pushLink", "pushCas"} => flags'[dying'[t]] = {NOT_PRESERVED}
      BY <2>1, <1>4, <1>7, ZenonT(60) DEF FlagShape
    <2>5. \A x \in Unanswered' : READY \notin flags'[x]
      BY <2>2, <1>5 DEF FlagShape
    <2>6. previousRequest \in Slots /\ slot[Main] \in Slots /\ Settled' = Settled
      BY <1>1, <1>2, <1>12 DEF TypeOK, BoxTyped, Settled
    <2> QED
      BY <2>3, <2>4, <2>5, <2>6, <1>2, <1>5, <1>12 DEF FlagShape
  <1>33. HandleShape'
    <2>1. \A x \in Handles' : DISCARDED \notin flags'[x] /\ kind'[x] \in HandleKinds
      BY <1>2, <1>4, <1>21, InSlots DEF HandleShape
    <2>2. \A x \in Handles' \ InQueue' : READY \in flags'[x] /\ NOT_PRESERVED \in flags'[x]
      BY <1>5, <1>18, <1>21, InSlots DEF HandleShape
    <2>3. DISCARDED \in flags'[s]
      BY <1>4
    <2>4. \A x \in InQueue' \ {Dummy} :
            /\ kind'[x] # "none"
            /\ DISCARDED \in flags'[x] \/ x \in Handles'
                 \/ (kind'[x] \in DestroyKinds /\ READY \notin flags'[x])
      BY <2>3, <1>2, <1>5, <1>18, <1>21, InSlots DEF HandleShape
    <2> QED
      BY <2>1, <2>2, <2>4 DEF HandleShape
  <1>34. AnswersOwn' /\ NoLostWakeup'
    <2>1. \A d \in Clients : pc'[d] \in {"collect", "asleep"} =>
             pc[d] = pc'[d] /\ slot'[d] = slot[d] /\ slot[d] \in Slots
      BY <1>1, <1>3, <1>11, <1>12
    <2>2. AnswersOwn'
      BY <2>1, <1>2, <1>5, <1>12, ZenonT(60) DEF AnswersOwn
    <2>3. NoLostWakeup'
      BY <2>1, <1>2, <1>5, <1>12 DEF NoLostWakeup
    <2> QED
      BY <2>2, <2>3
  <1> QED
    BY <1>22, <1>23, <1>24, <1>26, <1>27, <1>28, <1>29, <1>30, <1>31, <1>32, <1>33, <1>34

\* Nothing but the close flag changes, and it only rises.
LEMMA FlagRises ==
  ASSUME SlotInv,
         UNCHANGED <<slotVars, nextFreeSlot, lastQueuedSlot, counters, previousRequest,
                     killRequest, pc, locals, held, hist>>,
         shouldClose => shouldClose'
  PROVE  SlotInv'
  <1> USE DEF SlotInv, ListInv, RoleInv, UserInv
  <1>1. UNCHANGED <<nextSlot, flags, kind, status, answer, nextFreeSlot, lastQueuedSlot,
                    queuedMessages, previousRequest, killRequest, pc, slot, reg, nxt,
                    dying, ret, call, held, stack, fifo>>
    BY DEF slotVars, counters, locals, hist
  <1>2. /\ UNCHANGED <<Appending, Linking, Coming, Taking, LastTaken, Busy, Unanswered>>
        /\ (Settled' => Settled)
    BY <1>1 DEF Appending, Linking, Coming, Taking, LastTaken, Busy, Unanswered, Settled
  <1>3. /\ UNCHANGED <<Popped, Dying, Handles, Chain>>
        /\ \A c : Holds(c)' <=> Holds(c)
    BY <1>1, <1>2 DEF Popped, Dying, Handles, Chain, Holds
  <1>4. InQueue' = InQueue /\ \A i : Place(i)' = Place(i) /\ FreeAt(i)' = FreeAt(i)
    BY <1>1, <1>2, <1>3 DEF InQueue, Place, FreeAt
  <1>5. NoAbort' /\ StackShape' /\ PopShape' /\ PushShape'
    BY <1>1, <1>4 DEF NoAbort, StackShape, PopShape, PushShape, Distinct
  <1>6. QueueShape' /\ AppendShape'
    BY <1>1, <1>2, <1>4 DEF QueueShape, AppendShape
  <1>7. MainShape' /\ Roles' /\ DummyRetired'
    BY <1>1, <1>2, <1>3, <1>4 DEF MainShape, Roles, DummyRetired
  <1>8. FlagShape' /\ HandleShape' /\ HandleOnce'
    BY <1>1, <1>2, <1>3, <1>4 DEF FlagShape, HandleShape, HandleOnce
  <1>9. KillShape' /\ AnswersOwn' /\ NoLostWakeup' /\ NoSlotLost'
    BY <1>1, <1>3, <1>4 DEF KillShape, AnswersOwn, NoLostWakeup, NoSlotLost
  <1> QED
    BY <1>5, <1>6, <1>7, <1>8, <1>9
----------------------------------------------------------------------------
(* Every step keeps the invariant.                                         *)
LEMMA StepKeeps ==
  ASSUME OneSender, TypeOK, PermitsMatchPool, SlotInv, [Next]_vars
  PROVE  SlotInv'
  <1>1. CASE UNCHANGED vars
    BY <1>1, FlagRises DEF vars, boxVars
  <1>2. CASE DestroyMailbox
    BY <1>2, FlagRises DEF DestroyMailbox
  <1>3. ASSUME NEW t \in Threads, DestroyRequest(t) PROVE SlotInv'
    <2>1. CASE Release(t)
      BY <2>1, LoopKeeps, WatchKeeps DEF Threads
    <2> QED
      BY <2>1, <1>3, ClearKeeps, PushLinkKeeps, PushCasKeeps DEF DestroyRequest
  <1>4. CASE MainStep
    <2>1. CASE Decrease \/ CheckClose
      BY <2>1, LoopKeeps
    <2>2. CASE GetNextQueued \/ Lock \/ UnlockPrevious
      BY <2>2, GetNextKeeps, LockKeeps, UnlockKeeps
    <2>3. CASE ActionNotify \/ ActionDestroy \/ MarkKilled
      BY <2>3, MarkKeeps
    <2>4. CASE Dispatch \/ NotifyAll \/ WakeKiller
      BY <2>4, DispatchKeeps, WakeKeeps
    <2>5. CASE DestroyRequest(Main)
      BY <2>5, <1>3, Constants
    <2> QED
      BY <2>1, <2>2, <2>3, <2>4, <2>5, <1>4 DEF MainStep
  <1>5. ASSUME NEW c \in Senders, Send(c) PROVE SlotInv'
    <2>1. CASE \/ \E k \in Kinds, m \in Modes : SendBegin(c, k, m)
               \/ AcquireSlot(c) \/ AcquireFail(c)
      BY <2>1, AskKeeps
    <2>2. CASE LoadFree(c) \/ PopRead(c)
      BY <2>2, LookKeeps
    <2>3. CASE PopCas(c)
      <3>1. CASE HeadUnchanged(c)
        BY <2>3, <3>1, PopKeeps
      <3>2. CASE ~HeadUnchanged(c)
        BY <2>3, <3>2, LookKeeps
      <3> QED
        BY <3>1, <3>2
    <2>4. CASE Exchange(c) \/ LinkPrevious(c) \/ Increase(c)
      BY <2>4, ExchangeKeeps, LinkKeeps, IncreaseKeeps
    <2> QED
      BY <2>1, <2>2, <2>3, <2>4, <1>5 DEF Send
  <1>6. ASSUME NEW c \in Clients, Collect(c) PROVE SlotInv'
    <2>1. CASE DestroyRequest(c)
      BY <2>1, <1>3, Constants
    <2>2. CASE \/ \E s \in Slots, m \in Modes : WaitBegin(c, s, m)
               \/ \E s \in Slots : DiscardBegin(c, s)
               \/ WaitNotReady(c)
      BY <2>2, HolderKeeps
    <2>3. CASE WaitReady(c) \/ ReadStatus(c) \/ WaitSleep(c)
      BY <2>3, WatchKeeps
    <2>4. CASE Discard(c)
      BY <2>4, DiscardKeeps
    <2> QED
      BY <2>1, <2>2, <2>3, <2>4, <1>6 DEF Collect
  <1> QED
    BY <1>1, <1>2, <1>4, <1>5, <1>6 DEF Next

LEMMA InitSlots == Init => SlotInv
  <1> SUFFICES ASSUME Init PROVE SlotInv
    OBVIOUS
  <1> USE Constants
  <1>1. /\ stack = [i \in 1 .. N - 1 |-> i - 1] /\ stack \in Seq(Slots)
        /\ Len(stack) = N - 1 /\ DOMAIN stack = 1 .. N - 1
    <2>1. stack = [i \in 1 .. N - 1 |-> i - 1] /\ stack \in Seq(Slots)
      BY InitialStackType DEF Init
    <2>2. DOMAIN stack = 1 .. N - 1
      BY <2>1
    <2> QED
      BY <2>1, <2>2
  <1>2. /\ nextSlot = [s \in Slots |-> s + 1] /\ flags = [s \in Slots |-> {NOT_PRESERVED}]
        /\ kind = [s \in Slots |-> "none"] /\ pc = [t \in Threads |-> "idle"]
        /\ slot = [t \in Threads |-> Dummy] /\ held = {} /\ fifo = <<>>
        /\ nextFreeSlot = 0 /\ lastQueuedSlot = Dummy /\ queuedMessages = 0
        /\ previousRequest = Dummy /\ killRequest = None
    BY DEF Init
  <1>3. Elems(stack) = Slots \ {Dummy}
    <2>1. \A i \in 1 .. N - 1 : stack[i] = i - 1
      BY <1>1
    <2>2. \A s \in Slots \ {Dummy} : s + 1 \in 1 .. N - 1 /\ (s + 1) - 1 = s
      BY DEF Slots, Dummy
    <2>3. \A i \in 1 .. N - 1 : i - 1 \in Slots \ {Dummy}
      BY DEF Slots, Dummy
    <2>4. Elems(stack) = {i - 1 : i \in 1 .. N - 1}
      BY <2>1, <1>1 DEF Elems
    <2>5. \A s \in Slots \ {Dummy} : \E i \in 1 .. N - 1 : i - 1 = s
      BY <2>2
    <2> QED
      BY <2>3, <2>4, <2>5
  <1>4. /\ \A t \in Threads : pc[t] = "idle"
        /\ \A c \in Clients : pc[c] = "idle" /\ c \in Threads
        /\ \A c \in Senders : pc[c] = "idle" /\ pc[Main] = "idle"
    BY <1>2
  <1>5. Appending = {} /\ Popped = {} /\ Busy = {} /\ Dying = {} /\ ~Linking
    BY <1>4 DEF Appending, Popped, Busy, Dying, Linking, BusyPCs, DestroyPCs
  <1>6. \A c \in Clients : ~Holds(c)
    BY <1>4, <1>5 DEF Holds, WaitPCs
  <1>7. Handles = {}
    BY <1>2, <1>6, HandlesAre
  <1>8. /\ LastTaken = Dummy /\ Coming = 0 /\ Taking = 0 /\ Len(fifo) = 0
        /\ Elems(fifo) = {} /\ Unanswered = {}
    BY <1>2, <1>4, <1>5 DEF LastTaken, Coming, Taking, Elems, Unanswered, Pending, Taken,
                            DestroyPCs
  <1>9. InQueue = {Dummy}
    <2>1. TypeOK
      BY InitType
    <2> QED
      BY <2>1, <1>2, <1>8, Places
  <1>10. StackShape
    <2>1. \A i \in 1 .. N : FreeAt(i) = i - 1
      <3> SUFFICES ASSUME NEW i \in 1 .. N PROVE FreeAt(i) = i - 1
        OBVIOUS
      <3>1. CASE i = N
        BY <3>1, <1>1 DEF FreeAt, Dummy
      <3>2. CASE i # N
        <4>1. i \in 1 .. N - 1 /\ ~(i > N - 1)
          BY <3>2
        <4> QED
          BY <4>1, <1>1 DEF FreeAt
      <3> QED
        BY <3>1, <3>2
    <2>2. Distinct(stack)
      BY <1>1 DEF Distinct
    <2>3. nextFreeSlot = FreeAt(1)
      BY <2>1, <1>2
    <2>4. \A i \in 1 .. Len(stack) : nextSlot[stack[i]] = FreeAt(i + 1)
      <3> SUFFICES ASSUME NEW i \in 1 .. N - 1 PROVE nextSlot[stack[i]] = FreeAt(i + 1)
        BY <1>1
      <3>1. stack[i] = i - 1 /\ i - 1 \in Slots /\ i + 1 \in 1 .. N
        BY <1>1 DEF Slots
      <3>2. nextSlot[i - 1] = (i - 1) + 1
        BY <3>1, <1>2
      <3>3. FreeAt(i + 1) = (i + 1) - 1
        BY <3>1, <2>1
      <3> QED
        BY <3>1, <3>2, <3>3
    <2> QED
      BY <2>2, <2>3, <2>4 DEF StackShape
  <1>11. NoAbort /\ PopShape /\ PushShape /\ AppendShape
    BY <1>4, <1>5 DEF NoAbort, PopShape, PushShape, AppendShape
  <1>12. QueueShape
    BY <1>2, <1>8 DEF QueueShape, Place
  <1>13. MainShape /\ Roles /\ DummyRetired
    BY <1>2, <1>3, <1>4, <1>5, <1>7, <1>8, <1>9
       DEF MainShape, Roles, DummyRetired, Taken, Working, DestroyPCs, READY, DISCARDED,
           NOT_PRESERVED
  <1>14. FlagShape
    BY <1>2, <1>3, <1>4, <1>5, <1>8 DEF FlagShape
  <1>15. HandleShape /\ HandleOnce
    BY <1>2, <1>6, <1>7, <1>9 DEF HandleShape, HandleOnce
  <1>16. KillShape /\ NoLostWakeup
    BY <1>2, <1>4 DEF KillShape, NoLostWakeup
  <1>17. AnswersOwn
    BY <1>2, <1>4 DEF AnswersOwn, READY, NOT_PRESERVED
  <1>18. NoSlotLost
    BY <1>3 DEF NoSlotLost
  <1> QED
    BY <1>10, <1>11, <1>12, <1>13, <1>14, <1>15, <1>16, <1>17, <1>18
       DEF SlotInv, ListInv, RoleInv, UserInv
----------------------------------------------------------------------------
(* The properties follow from the invariant.                               *)
LEMMA SlotsSafe ==
  ASSUME OneSender, TypeOK, SlotInv
  PROVE  SlotExclusive /\ StackLinked /\ QueueLinked /\ ReplyIsOwn
  <1> USE Constants DEF SlotInv, ListInv, RoleInv, UserInv
  <1>1. /\ fifo \in Seq(Slots) /\ Len(fifo) \in Nat /\ Len(Chain) = Len(fifo) + 1
        /\ \A i \in 0 .. Len(fifo) : Chain[i + 1] = Place(i)
        /\ stack \in Seq(Slots) /\ Len(stack) \in Nat
    BY Places, InSlots
  <1>2. Chain \in Seq(Slots) /\ DOMAIN Chain = 1 .. Len(fifo) + 1
    BY <1>1, Places DEF Chain
  <1>3. \A i \in 1 .. Len(fifo) + 1 : i - 1 \in 0 .. Len(fifo) /\ (i - 1) + 1 = i
    BY <1>1
  <1>4. \A i \in 1 .. Len(fifo) + 1 : Chain[i] = Place(i - 1)
    BY <1>1, <1>3
  <1>5. SlotExclusive
    <2>1. Distinct(Chain)
      <3> SUFFICES ASSUME NEW i \in 1 .. Len(fifo) + 1, NEW j \in 1 .. Len(fifo) + 1,
                          Chain[i] = Chain[j]
                   PROVE  i = j
        BY <1>2 DEF Distinct
      <3>1. i - 1 = j - 1
        BY <1>3, <1>4 DEF QueueShape
      <3> QED
        BY <3>1
    <2>2. \A t, u \in Threads :
             {pc[t], pc[u]} \subseteq BusyPCs /\ dying[t] = dying[u] => t = u
      BY DEF Roles, Busy
    <2> QED
      BY <2>1, <2>2 DEF SlotExclusive, StackShape, Roles, BusyPCs
  <1>6. StackLinked
    <2> DEFINE list == Append(stack, Dummy)
    <2>1. \A i \in 1 .. Len(stack) + 1 : list[i] = FreeAt(i)
      <3> SUFFICES ASSUME NEW i \in 1 .. Len(stack) + 1 PROVE list[i] = FreeAt(i)
        OBVIOUS
      <3>1. CASE i = Len(stack) + 1
        BY <3>1, <1>1 DEF FreeAt
      <3>2. CASE i # Len(stack) + 1
        <4>1. i \in 1 .. Len(stack) /\ ~(i > Len(stack))
          BY <3>2, <1>1
        <4> QED
          BY <4>1, <1>1 DEF FreeAt
      <3> QED
        BY <3>1, <3>2
    <2> HIDE DEF list
    <2>2. 1 \in 1 .. Len(stack) + 1 /\ \A i \in 1 .. Len(stack) : i + 1 \in 1 .. Len(stack) + 1
      BY <1>1
    <2>3. nextFreeSlot = list[1] /\ \A i \in 1 .. Len(stack) : nextSlot[stack[i]] = list[i + 1]
      BY <2>1, <2>2 DEF StackShape
    <2> QED
      BY <2>3 DEF StackLinked, list
  <1>7. QueueLinked
    <2>1. Cardinality(Appending) = Coming
      <3>1. CASE Appending = {}
        BY <3>1, FS_EmptySet DEF Coming
      <3>2. CASE Appending # {}
        <4>1. PICK c \in Senders : c \in Appending
          BY <3>2 DEF Appending
        <4>2. Appending = {c}
          BY <4>1 DEF OneSender, Appending
        <4> QED
          BY <4>2, <3>2, FS_Singleton DEF Coming
      <3> QED
        BY <3>1, <3>2
    <2>2. lastQueuedSlot = Chain[Len(Chain)]
      <3>1. Len(fifo) \in 0 .. Len(fifo)
        BY <1>1
      <3> QED
        BY <3>1, <1>1 DEF QueueShape
    <2>3. Len(fifo) = queuedMessages + Cardinality(Appending)
                        + (IF pc[Main] = "getNext" THEN 1 ELSE 0)
      BY <2>1 DEF QueueShape, Taking
    <2>4. \A i \in 1 .. Len(fifo) :
            \/ nextSlot[Chain[i]] = Chain[i + 1]
            \/ i = Len(fifo) /\ \E c \in Senders : pc[c] = "link"
      <3> SUFFICES ASSUME NEW i \in 1 .. Len(fifo)
                   PROVE  \/ nextSlot[Chain[i]] = Chain[i + 1]
                          \/ i = Len(fifo) /\ Linking
        BY DEF Linking
      <3>1. /\ i - 1 \in 0 .. Len(fifo) - 1 /\ (i - 1) + 1 = i /\ i \in 0 .. Len(fifo)
            /\ i - 1 \in 0 .. Len(fifo)
        BY <1>1
      <3>2. Chain[i] = Place(i - 1) /\ Chain[i + 1] = Place(i)
        BY <3>1, <1>1
      <3>3. nextSlot[Place(i - 1)] = Place((i - 1) + 1) \/ ((i - 1) + 1 = Len(fifo) /\ Linking)
        BY <3>1 DEF QueueShape
      <3> QED
        BY <3>1, <3>2, <3>3
    <2> QED
      BY <2>2, <2>3, <2>4 DEF QueueLinked
  <1>8. ReplyIsOwn
    BY DEF ReplyIsOwn, OwnResult, AnswersOwn, TypeOK, LocalsTyped
  <1> QED
    BY <1>5, <1>6, <1>7, <1>8

(* With one sender every reachable state satisfies the invariant.          *)
LEMMA SlotsKept == ASSUME OneSender PROVE Spec => [](TypeOK /\ SlotInv)
  <1>1. Init => SlotInv
    BY InitSlots
  <1>2. TypeOK /\ (NoAbort => PermitsMatchPool) /\ SlotInv /\ [Next]_vars => SlotInv'
    BY StepKeeps DEF SlotInv, ListInv
  <1> QED
    BY <1>1, <1>2, TypeCorrect, PermitsCorrect, PTL DEF Spec

(* With one sender, however many threads wait and discard, no list leads a *)
(* thread out of the slot array: the assertion of get_request holds.       *)
THEOREM NeverAborts == ASSUME OneSender PROVE Spec => []NoAbort
  <1>1. Spec => [](TypeOK /\ SlotInv)
    BY SlotsKept
  <1>2. TypeOK /\ SlotInv => NoAbort
    BY DEF SlotInv, ListInv
  <1> QED
    BY <1>1, <1>2, PTL

(* With one sender a slot plays one role at a time, so that no request is  *)
(* reused while it is queued, in use, or somebody holds its handle.        *)
THEOREM OneRoleEach == ASSUME OneSender PROVE Spec => []SlotExclusive
  <1>1. Spec => [](TypeOK /\ SlotInv)
    BY SlotsKept
  <1>2. TypeOK /\ SlotInv => SlotExclusive
    BY SlotsSafe
  <1> QED
    BY <1>1, <1>2, PTL

(* With one sender no slot but the constructor's dummy is ever lost,       *)
(* whichever of unlock, discard and the handler's action comes last.       *)
THEOREM NothingLost == ASSUME OneSender PROVE Spec => []NoSlotLost
  <1>1. Spec => [](TypeOK /\ SlotInv)
    BY SlotsKept
  <1>2. TypeOK /\ SlotInv => NoSlotLost
    BY DEF SlotInv, UserInv
  <1> QED
    BY <1>1, <1>2, PTL

(* With one sender nextFreeSlot leads through exactly the free slots: a    *)
(* pop never acts on a link that has changed since it was read.            *)
THEOREM PoolIsAList == ASSUME OneSender PROVE Spec => []StackLinked
  <1>1. Spec => [](TypeOK /\ SlotInv)
    BY SlotsKept
  <1>2. TypeOK /\ SlotInv => StackLinked
    BY SlotsSafe
  <1> QED
    BY <1>1, <1>2, PTL

(* With one sender the mailbox thread finds the requests in the order in   *)
(* which they were sent, and as many as queuedMessages tells it.           *)
THEOREM RequestsInOrder == ASSUME OneSender PROVE Spec => []QueueLinked
  <1>1. Spec => [](TypeOK /\ SlotInv)
    BY SlotsKept
  <1>2. TypeOK /\ SlotInv => QueueLinked
    BY SlotsSafe
  <1> QED
    BY <1>1, <1>2, PTL

(* With one sender nobody stays asleep in qtz_wait on an answered request  *)
(* unless the mailbox thread is about to wake it.                          *)
THEOREM SleepersWoken == ASSUME OneSender PROVE Spec => []NoLostWakeup
  <1>1. Spec => [](TypeOK /\ SlotInv)
    BY SlotsKept
  <1>2. TypeOK /\ SlotInv => NoLostWakeup
    BY DEF SlotInv, UserInv
  <1> QED
    BY <1>1, <1>2, PTL

(* With one sender the status that qtz_wait reads was stored by the        *)
(* handler of this very request, for the kinds whose handler stores one.   *)
THEOREM StatusIsOwn == ASSUME OneSender PROVE Spec => []ReplyIsOwn
  <1>1. Spec => [](TypeOK /\ SlotInv)
    BY SlotsKept
  <1>2. TypeOK /\ SlotInv => ReplyIsOwn
    BY SlotsSafe
  <1> QED
    BY <1>1, <1>2, PTL

----------------------------------------------------------------------------
(* The service: each step is the step of RequestService that its comment   *)
(* names, or changes nothing the service shows.                            *)

Handling(s) == s = LastTaken /\ READY \notin flags[s]

\* What PhaseOf tells apart.
SamePlace(s) ==
  /\ s \in Elems(stack)' <=> s \in Elems(stack)
  /\ s \in Popped' <=> s \in Popped
  /\ s \in Elems(fifo)' <=> s \in Elems(fifo)
  /\ Handling(s)' <=> Handling(s)

LEMMA SamePhase ==
  ASSUME NEW s \in Slots, s # Dummy => SamePlace(s)
  PROVE  PhaseOf(s)' = PhaseOf(s)
  BY DEF PhaseOf, SamePlace, Handling

(* A step that moves one slot from one phase to another.                   *)
LEMMA Becomes ==
  ASSUME NEW s \in Slots, NEW a, NEW b, PhaseOf(s) = a, PhaseOf(s)' = b,
         \A x \in Slots \ {s, Dummy} : SamePlace(x), s # Dummy
  PROVE  Service!Become(s, a, b)
  <1>1. \A x \in Slots : x # s => PhaseOf(x)' = PhaseOf(x)
    BY SamePhase
  <1> QED
    BY <1>1 DEF Service!Become

(* A step that the service does not see.                                   *)
LEMMA Stutters ==
  ASSUME UNCHANGED <<Handles, fifo, LastTaken>>,
         \A x \in Slots \ {Dummy} : SamePlace(x)
  PROVE  UNCHANGED Service!vars
  <1>1. \A x \in Slots : PhaseOf(x)' = PhaseOf(x)
    BY SamePhase
  <1> QED
    BY <1>1 DEF Service!vars

LEMMA NextOf ==
  ASSUME NEW s \in Slots,
         \/ Service!Claim(s) \/ Service!Submit(s) \/ Service!Take(s)
         \/ Service!Answer(s) \/ Service!Drop(s) \/ Service!Recycle(s)
  PROVE  Service!Next
  BY DEF Service!Next

ServiceStep == [Service!Next]_(Service!vars)

(* The phases, as the invariant lets one tell them.                        *)
LEMMA Phases ==
  ASSUME TypeOK, SlotInv, NEW s \in Slots, s # Dummy
  PROVE  /\ s \in Elems(stack) => PhaseOf(s) = "free"
         /\ s \in Popped => PhaseOf(s) = "claimed"
         /\ s \in Elems(fifo) => PhaseOf(s) = "queued"
         /\ s = LastTaken =>
              PhaseOf(s) = IF READY \in flags[s] THEN "answered" ELSE "handling"
         /\ s \notin Elems(stack) \cup Popped \cup Elems(fifo) \cup {LastTaken} =>
              PhaseOf(s) = "answered"
  <1>1. InQueue = Elems(fifo) \cup {LastTaken, previousRequest}
    BY Places
  <1>2. LastTaken \notin Elems(fifo)
    BY LastNotQueued DEF SlotInv, ListInv
  <1>3. /\ s \in Popped => s \notin Elems(stack)
        /\ s \in Elems(fifo) \cup {LastTaken} => s \notin Elems(stack) \cup Popped
    BY <1>1 DEF SlotInv, RoleInv, Roles
  <1> QED
    BY <1>2, <1>3 DEF PhaseOf

(* The phase after a step of a slot that is in one place only.             *)
LEMMA PhaseAfter ==
  ASSUME NEW s, s # Dummy
  PROVE  /\ s \notin Elems(stack)' \cup Elems(fifo)' /\ s # LastTaken' /\ s \in Popped' =>
              PhaseOf(s)' = "claimed"
         /\ s \notin Elems(stack)' \cup Popped' /\ s # LastTaken' /\ s \in Elems(fifo)' =>
              PhaseOf(s)' = "queued"
         /\ s \notin Popped' \cup Elems(fifo)' /\ s # LastTaken' /\ s \in Elems(stack)' =>
              PhaseOf(s)' = "free"
         /\ s \notin Elems(stack)' \cup Popped' \cup Elems(fifo)' =>
              PhaseOf(s)' = IF Handling(s)' THEN "handling" ELSE "answered"
  BY DEF PhaseOf, Handling
----------------------------------------------------------------------------
(* Steps that the service does not see.                                    *)

\* The sets of clients' slots stay.
LEMMA UsersStay ==
  ASSUME UNCHANGED held,
         \A c \in Clients : /\ Holds(c)' <=> Holds(c)
                            /\ Holds(c) => slot'[c] = slot[c],
         \A c \in Senders : /\ pc'[c] = "exchange" <=> pc[c] = "exchange"
                            /\ pc[c] = "exchange" => slot'[c] = slot[c]
  PROVE  UNCHANGED <<Handles, Popped>>
  <1>1. Handles' = Handles
    BY SameHandles
  <1>2. Popped' = Popped
    BY DEF Popped
  <1> QED
    BY <1>1, <1>2

LEMMA Unseen ==
  ASSUME TypeOK,
         UNCHANGED <<stack, fifo, Handles, Popped, LastTaken>>,
         READY \in flags'[LastTaken] <=> READY \in flags[LastTaken]
  PROVE  ServiceStep
  <1>1. \A x \in Slots \ {Dummy} : SamePlace(x)
    BY DEF SamePlace, Handling, Elems
  <1> QED
    BY <1>1, Stutters DEF ServiceStep

\* Labels between which a client's move changes no set.
Quiet(a, b) ==
  /\ a # "exchange" /\ b # "exchange"
  /\ (a \in WaitPCs) <=> (b \in WaitPCs)
  /\ (a \in {"link", "increase"}) <=> (b \in {"link", "increase"})

LEMMA ClientUnseen ==
  ASSUME TypeOK, NEW c \in Clients, NEW l, Goto(c, l), Quiet(pc[c], l),
         UNCHANGED <<stack, fifo, held, previousRequest>>,
         READY \in flags'[LastTaken] <=> READY \in flags[LastTaken],
         \A u \in Threads : u # c \/ pc[c] \in WaitPCs \cup {"link", "increase"} =>
            slot'[u] = slot[u],
         \A d \in Clients : d # c \/ pc[c] \in {"link", "increase"} =>
            call'[d] = call[d]
  PROVE  ServiceStep
  <1> USE Constants
  <1>1. /\ c \in Threads /\ pc'[c] = l /\ \A u \in Threads : u # c => pc'[u] = pc[u]
        /\ pc'[Main] = pc[Main] /\ slot'[Main] = slot[Main]
    BY Moves
  <1>2. LastTaken' = LastTaken
    BY <1>1 DEF LastTaken
  <1>3. \A d \in Clients : /\ d \in Appending' <=> d \in Appending
                           /\ pc'[d] \in WaitPCs <=> pc[d] \in WaitPCs
    BY <1>1 DEF Appending, Quiet
  <1>4. \A d \in Clients : /\ Holds(d)' <=> Holds(d)
                           /\ Holds(d) => slot'[d] = slot[d]
    <2> SUFFICES ASSUME NEW d \in Clients
                 PROVE  /\ Holds(d)' <=> Holds(d)
                        /\ Holds(d) => slot'[d] = slot[d]
      OBVIOUS
    <2>1. d \in Appending => pc[d] \in {"link", "increase"}
      BY DEF Appending
    <2> QED
      BY <1>3, <2>1 DEF Holds
  <1>5. \A d \in Senders : /\ pc'[d] = "exchange" <=> pc[d] = "exchange"
                           /\ pc[d] = "exchange" => slot'[d] = slot[d]
    BY <1>1 DEF Quiet
  <1> QED
    BY <1>2, <1>4, <1>5, UsersStay, Unseen

LEMMA MainUnseen ==
  ASSUME TypeOK, SlotInv, NEW l, Goto(Main, l),
         UNCHANGED <<stack, fifo, held, reg, nxt, call, LastTaken>>,
         \A c \in Clients : slot'[c] = slot[c],
         READY \in flags'[LastTaken] <=> READY \in flags[LastTaken]
  PROVE  ServiceStep
  <1>1. \A c \in Clients : pc'[c] = pc[c]
    BY MainGoes
  <1>2. Handles' = Handles /\ Popped' = Popped
    BY <1>1, ClientSets DEF ClientsStay
  <1> QED
    BY <1>2, Unseen
----------------------------------------------------------------------------
(* The sender: a pop claims a slot, the exchange submits its request.      *)

LEMMA AskUnseen ==
  ASSUME TypeOK, SlotInv, NEW c \in Senders,
         \/ \E k \in Kinds, m \in Modes : SendBegin(c, k, m)
         \/ AcquireSlot(c) \/ AcquireFail(c) \/ LoadFree(c) \/ PopRead(c)
         \/ PopCas(c) /\ ~HeadUnchanged(c)
         \/ LinkPrevious(c)
  PROVE  ServiceStep
  <1>1. c \in Clients /\ call \in [Clients -> [kind : AllKinds, mode : Modes]]
    BY Constants DEF TypeOK, LocalsTyped
  <1>2. /\ UNCHANGED <<stack, fifo, held, previousRequest, flags, slot>>
        /\ \A d \in Clients : d # c => call'[d] = call[d]
        /\ pc[c] \in {"link", "increase"} => call'[c] = call[c]
    BY <1>1 DEF SendBegin, AcquireSlot, AcquireFail, LoadFree, PopRead, PopCas,
         LinkPrevious, slotVars, boxVars, hist, Forget
  <1>3. \E l : Goto(c, l) /\ Quiet(pc[c], l)
    BY DEF SendBegin, AcquireSlot, AcquireFail, LoadFree, PopRead, PopCas,
         LinkPrevious, Quiet, WaitPCs
  <1> QED
    BY <1>1, <1>2, <1>3, ClientUnseen

LEMMA PopClaims ==
  ASSUME OneSender, TypeOK, PermitsMatchPool, SlotInv,
         NEW c \in Senders, PopCas(c), HeadUnchanged(c)
  PROVE  ServiceStep
  <1> USE Constants DEF SlotInv, ListInv, RoleInv, UserInv
  <1>1. /\ pc[c] = "popCas" /\ slot \in [Threads -> Slots]
        /\ reg \in [Threads -> 0 .. N] /\ stack \in Seq(Slots)
    BY DEF PopCas, TypeOK, LocalsTyped, HistoryTyped
  <1>0. /\ Len(stack) > 0 /\ nextFreeSlot = stack[1] /\ stack[1] \in Elems(stack)
        /\ stack[1] \in Slots
    BY <1>1, PoolNotEmpty, InSlots
  \* A constant, so that a prime leaves it alone.
  <1>2. PICK s \in Slots : s = stack[1] /\ nextFreeSlot = s /\ s \in Elems(stack)
    BY <1>0
  <1>3. reg[c] = s
    BY <1>2 DEF HeadUnchanged
  <1>4. /\ UNCHANGED <<flags, held, fifo, call, previousRequest>>
        /\ stack' = Rest(stack) /\ Goto(c, "exchange")
        /\ slot' = [slot EXCEPT ![c] = s]
    BY <1>3 DEF PopCas, slotVars, boxVars
  <1>5. /\ c \in Clients /\ c \in Threads /\ pc'[c] = "exchange" /\ slot'[c] = s
        /\ Appending' = Appending /\ Popped = {} /\ Popped' = {s}
    BY <1>1, <1>4, SenderAlone
  <1>6. \A u \in Threads : u # c => slot'[u] = slot[u] /\ pc'[u] = pc[u]
    BY <1>1, <1>4, Moves
  <1>7. Elems(stack)' = Elems(stack) \ {s}
    BY <1>0, <1>1, <1>2, <1>4, ElemsRest DEF StackShape
  <1>8. s # Dummy /\ s \notin Elems(fifo) /\ s # LastTaken
    BY <1>2, Places DEF DummyRetired, Roles
  <1>9. LastTaken' = LastTaken
    BY <1>4, <1>6 DEF LastTaken
  <1>10. Handles' = Handles
    <2>1. \A d \in Clients : /\ Holds(d)' <=> Holds(d)
                             /\ Holds(d) => slot'[d] = slot[d]
      BY <1>1, <1>4, <1>5, <1>6 DEF Holds, WaitPCs, Appending
    <2> QED
      BY <2>1, <1>4, SameHandles
  <1>11. \A x \in Slots \ {s, Dummy} : SamePlace(x)
    BY <1>4, <1>5, <1>7, <1>9 DEF SamePlace, Handling, Elems
  <1>12. PhaseOf(s) = "free"
    BY <1>2, <1>8, Phases
  <1>13. PhaseOf(s)' = "claimed"
    BY <1>4, <1>5, <1>7, <1>8, <1>9, PhaseAfter
  <1>14. Service!Claim(s)
    BY <1>2, <1>4, <1>8, <1>9, <1>10, <1>11, <1>12, <1>13, Becomes DEF Service!Claim
  <1> QED
    BY <1>2, <1>14, NextOf DEF ServiceStep

LEMMA ExchangeSubmits ==
  ASSUME OneSender, TypeOK, SlotInv, NEW c \in Senders, Exchange(c)
  PROVE  ServiceStep
  <1> USE Constants DEF SlotInv, ListInv, RoleInv, UserInv
  <1>0. PICK s \in Slots : s = slot[c]
    BY DEF TypeOK, LocalsTyped
  <1>1. pc[c] = "exchange" /\ fifo \in Seq(Slots)
    BY DEF Exchange, TypeOK, HistoryTyped
  <1>2. /\ UNCHANGED <<flags, held, stack, call, previousRequest, slot>>
        /\ fifo' = Append(fifo, s) /\ Goto(c, "link")
    BY <1>0 DEF Exchange, boxVars
  <1>3. /\ c \in Clients /\ c \in Threads /\ pc'[c] = "link" /\ Senders = {c}
        /\ Appending = {} /\ Appending' = {c} /\ Popped = {s} /\ Popped' = {}
    BY <1>0, <1>1, <1>2, SenderAlone
  <1>4. \A u \in Threads : u # c => pc'[u] = pc[u]
    BY <1>2, <1>3, Moves
  <1>5. Elems(fifo)' = Elems(fifo) \cup {s}
    BY <1>1, <1>2, ElemsAppend
  <1>6. s # Dummy /\ s \notin Elems(stack) /\ s \in Popped /\ s # LastTaken
    BY <1>3, Places DEF DummyRetired, Roles
  <1>7. LastTaken' = LastTaken
    BY <1>2, <1>4, <1>3 DEF LastTaken
  <1>8. Handles' \in {Handles, Handles \cup {s}}
    <2>1. \A d \in Clients : d # c => (Holds(d)' <=> Holds(d))
      BY <1>2, <1>3, <1>4 DEF Holds
    <2>2. ~Holds(c) /\ (Holds(c)' <=> call[c].kind \in HandleKinds)
      BY <1>1, <1>2, <1>3 DEF Holds, WaitPCs
    <2>3. \A x : x \in Handles' <=> x \in held' \/ \E d \in Clients : Holds(d)' /\ slot'[d] = x
      BY Constants DEF Handles, Holds, Appending
    <2>4. \A x : x \in Handles' <=> x \in Handles \/ (x = s /\ call[c].kind \in HandleKinds)
      BY <2>1, <2>2, <2>3, <1>0, <1>2, <1>3, HandlesAre
    <2> QED
      BY <2>4
  <1>9. \A x \in Slots \ {s, Dummy} : SamePlace(x)
    BY <1>2, <1>3, <1>5, <1>7 DEF SamePlace, Handling, Elems
  <1>10. PhaseOf(s) = "claimed"
    BY <1>1, <1>6, Phases
  <1>11. PhaseOf(s)' = "queued"
    BY <1>2, <1>3, <1>5, <1>6, <1>7, PhaseAfter
  <1>12. Service!Submit(s)
    BY <1>1, <1>2, <1>6, <1>7, <1>8, <1>9, <1>10, <1>11, Becomes DEF Service!Submit
  <1> QED
    BY <1>1, <1>12, NextOf DEF ServiceStep

(* The handle passes from the sender to the application.                   *)
LEMMA IncreaseUnseen ==
  ASSUME OneSender, TypeOK, SlotInv, NEW c \in Senders, Increase(c)
  PROVE  ServiceStep
  <1> USE Constants
  <1>1. /\ pc[c] = "increase" /\ slot \in [Threads -> Slots]
        /\ call \in [Clients -> [kind : AllKinds, mode : Modes]]
    BY DEF Increase, TypeOK, LocalsTyped
  <1>2. /\ UNCHANGED <<flags, stack, fifo, previousRequest>>
        /\ Goto(c, "idle") /\ slot' = [slot EXCEPT ![c] = Dummy]
        /\ call' = [call EXCEPT ![c] = NoCall]
        /\ held' = IF call[c].kind \in HandleKinds THEN held \cup {slot[c]} ELSE held
    BY DEF Increase, slotVars, boxVars, hist, Forget
  <1>3. /\ c \in Clients /\ c \in Threads /\ pc'[c] = "idle" /\ Senders = {c}
        /\ Appending = {c} /\ Appending' = {} /\ Popped = {} /\ Popped' = {}
    BY <1>1, <1>2, SenderAlone
  <1>4. \A u \in Threads : u # c => pc'[u] = pc[u] /\ slot'[u] = slot[u]
    BY <1>1, <1>2, <1>3, Moves
  <1>5. LastTaken' = LastTaken
    BY <1>2, <1>3, <1>4 DEF LastTaken
  <1>6. Handles' = Handles
    <2>1. \A d \in Clients : d # c => (Holds(d)' <=> Holds(d)) /\ slot'[d] = slot[d]
      BY <1>1, <1>2, <1>3, <1>4 DEF Holds
    <2>2. (Holds(c) <=> call[c].kind \in HandleKinds) /\ ~Holds(c)'
      BY <1>1, <1>3 DEF Holds, WaitPCs
    <2>3. \A x : x \in Handles' <=> x \in held' \/ \E d \in Clients : Holds(d)' /\ slot'[d] = x
      BY Constants DEF Handles, Holds, Appending
    <2>4. \A x : x \in Handles' <=> x \in Handles
      BY <2>1, <2>2, <2>3, <1>2, <1>3, HandlesAre
    <2> QED
      BY <2>4
  <1> QED
    BY <1>2, <1>3, <1>5, <1>6, Unseen
----------------------------------------------------------------------------
(* Those who wait and discard.                                             *)

LEMMA WatchUnseen ==
  ASSUME TypeOK, SlotInv, NEW c \in Clients,
         WaitReady(c) \/ ReadStatus(c) \/ WaitSleep(c)
  PROVE  ServiceStep
  <1>1. /\ UNCHANGED <<stack, fifo, held, previousRequest, flags, slot>>
        /\ \A d \in Clients : d # c => call'[d] = call[d]
    BY DEF WaitReady, ReadStatus, WaitSleep, slotVars, boxVars, hist, locals, Forget,
           TypeOK, LocalsTyped
  <1>2. \E l : Goto(c, l) /\ Quiet(pc[c], l) /\ pc[c] \in WaitPCs
    BY DEF WaitReady, ReadStatus, WaitSleep, Quiet, WaitPCs
  <1> QED
    BY <1>1, <1>2, ClientUnseen DEF WaitPCs

(* The application and its calls pass a handle to and fro.                 *)
LEMMA HolderUnseen ==
  ASSUME TypeOK, SlotInv, NEW c \in Clients,
         \/ \E s \in Slots, m \in Modes : WaitBegin(c, s, m)
         \/ \E s \in Slots : DiscardBegin(c, s)
         \/ WaitNotReady(c)
  PROVE  ServiceStep
  <1> USE Constants
  <1>1. c \in Threads /\ slot \in [Threads -> Slots] /\ held \subseteq Slots
        /\ call \in [Clients -> [kind : AllKinds, mode : Modes]]
    BY DEF TypeOK, LocalsTyped, BoxTyped
  <1>2. /\ UNCHANGED <<stack, fifo, flags, previousRequest>>
        /\ \A u \in Threads : u # c => slot'[u] = slot[u]
        /\ \A d \in Clients : d # c => call'[d] = call[d]
    BY <1>1 DEF WaitBegin, DiscardBegin, WaitNotReady, slotVars, boxVars, hist, Forget
  <1>3. PICK l : /\ Goto(c, l) /\ l \in {"idle", "wait", "discard"}
                 /\ pc[c] \in {"idle", "wait", "asleep"}
                 /\ pc[c] = "idle" <=> l # "idle"
                 /\ \A x : x \in held' \/ (l # "idle" /\ x = slot'[c]) <=>
                           x \in held \/ (pc[c] # "idle" /\ x = slot[c])
    <2>1. ASSUME NEW s \in Slots, NEW m \in Modes,
                 WaitBegin(c, s, m) \/ DiscardBegin(c, s)
          PROVE  \E l : /\ Goto(c, l) /\ l \in {"wait", "discard"} /\ pc[c] = "idle"
                        /\ held' = held \ {s} /\ s \in held /\ slot'[c] = s
      BY <2>1, <1>1 DEF WaitBegin, DiscardBegin
    <2>2. CASE WaitNotReady(c)
      BY <2>2, <1>1 DEF WaitNotReady
    <2>3. "WAIT" \in Modes
      BY DEF Modes
    <2> QED
      BY <2>1, <2>2, <2>3
  <1>4. /\ pc'[c] = l /\ \A u \in Threads : u # c => pc'[u] = pc[u]
        /\ pc'[Main] = pc[Main] /\ slot'[Main] = slot[Main]
    BY <1>1, <1>2, <1>3, Moves
  <1>5. LastTaken' = LastTaken
    BY <1>2, <1>4 DEF LastTaken
  <1>6. Popped' = Popped
    <2>1. \A d \in Senders : /\ pc'[d] = "exchange" <=> pc[d] = "exchange"
                             /\ pc[d] = "exchange" => slot'[d] = slot[d]
      BY <1>2, <1>3, <1>4
    <2> QED
      BY <2>1 DEF Popped
  <1>7. Handles' = Handles
    <2>1. \A d \in Clients : d # c => (Holds(d)' <=> Holds(d))
      BY <1>2, <1>4 DEF Holds, Appending
    <2>2. (Holds(c) <=> pc[c] # "idle") /\ (Holds(c)' <=> l # "idle")
      BY <1>3, <1>4 DEF Holds, WaitPCs, Appending
    <2>3. \A x : x \in Handles' <=> x \in held' \/ \E d \in Clients : Holds(d)' /\ slot'[d] = x
      BY Constants DEF Handles, Holds, Appending
    <2>4. \A x : x \in Handles' <=> x \in Handles
      BY <2>1, <2>2, <2>3, <1>2, <1>3, HandlesAre
    <2> QED
      BY <2>4
  <1> QED
    BY <1>2, <1>5, <1>6, <1>7, Unseen

LEMMA DiscardDrops ==
  ASSUME TypeOK, SlotInv, NEW c \in Clients, Discard(c)
  PROVE  ServiceStep
  <1> USE Constants DEF SlotInv, RoleInv
  <1>1. /\ pc[c] = "discard" /\ c \in Threads /\ c # Main
        /\ slot \in [Threads -> Slots] /\ flags \in [Slots -> SUBSET FlagBits]
    BY DEF Discard, TypeOK, LocalsTyped, SlotsTyped
  <1>2. PICK s \in Slots : s = slot[c]
    BY <1>1
  <1>3. /\ UNCHANGED <<held, stack, fifo, call, previousRequest>>
        /\ slot' = [slot EXCEPT ![c] = Dummy]
        /\ flags' = [flags EXCEPT ![s] = @ \cup {DISCARDED}]
    BY <1>2 DEF Discard, boxVars, hist, Forget
  <1>4. \A x \in Slots : READY \in flags'[x] <=> READY \in flags[x]
    BY <1>1, <1>3 DEF READY, DISCARDED
  <1>5. PICK l : Goto(c, l) /\ l \in {"clear", "idle"}
    BY DEF Discard, StartDestroy
  <1>6. /\ pc'[c] = l /\ \A u \in Threads : u # c => pc'[u] = pc[u] /\ slot'[u] = slot[u]
        /\ pc'[Main] = pc[Main] /\ slot'[Main] = slot[Main]
    BY <1>1, <1>3, <1>5, Moves
  <1>7. LastTaken' = LastTaken
    BY <1>3, <1>6 DEF LastTaken
  <1>8. Popped' = Popped
    <2>1. \A d \in Senders : /\ pc'[d] = "exchange" <=> pc[d] = "exchange"
                             /\ pc[d] = "exchange" => slot'[d] = slot[d]
      BY <1>1, <1>5, <1>6
    <2> QED
      BY <2>1 DEF Popped
  <1>9. Holds(c) /\ s \in Handles
    BY <1>1, <1>2, HandlesAre DEF Holds, WaitPCs
  <1>10. Handles' = Handles \ {s}
    <2>1. \A d \in Clients : d # c => (Holds(d)' <=> Holds(d)) /\ slot'[d] = slot[d]
      BY <1>3, <1>6 DEF Holds, Appending
    <2>2. ~Holds(c)'
      BY <1>5, <1>6 DEF Holds, WaitPCs, Appending
    <2>3. \A x : x \in Handles' <=> x \in held' \/ \E d \in Clients : Holds(d)' /\ slot'[d] = x
      BY DEF Handles, Holds, Appending
    <2>4. s \notin held /\ \A d \in Clients : Holds(d) /\ slot[d] = s => d = c
      BY <1>2, <1>9 DEF HandleOnce
    <2>5. \A x : x \in Handles' <=> x \in Handles /\ x # s
      BY <2>1, <2>2, <2>3, <2>4, <1>2, <1>3, <1>9, HandlesAre
    <2> QED
      BY <2>5
  <1>11. \A x \in Slots : x # Dummy => SamePlace(x)
    BY <1>3, <1>4, <1>7, <1>8 DEF SamePlace, Handling, Elems
  <1>12. \A x \in Slots : PhaseOf(x)' = PhaseOf(x)
    BY <1>11, SamePhase
  <1>13. Service!Drop(s)
    BY <1>3, <1>7, <1>9, <1>10, <1>12 DEF Service!Drop
  <1> QED
    BY <1>13, NextOf DEF ServiceStep
----------------------------------------------------------------------------
(* destroy_request: the push recycles the slot.                            *)

LEMMA DestroyUnseen ==
  ASSUME TypeOK, SlotInv, NEW t \in Threads,
         Clear(t) \/ PushLink(t) \/ (PushCas(t) /\ ~HeadUnchanged(t)) \/ Release(t)
  PROVE  ServiceStep
  <1> USE Constants
  <1>1. /\ UNCHANGED <<stack, fifo, held, previousRequest, slot, call>>
        /\ pc[t] \in DestroyPCs
    BY DEF Clear, PushLink, PushCas, Release, boxVars, hist, locals, DestroyPCs
  <1>2. READY \in flags'[LastTaken] <=> READY \in flags[LastTaken]
    <2>1. CASE Clear(t)
      <3>1. t \in Busy
        BY <2>1 DEF Clear, Busy, BusyPCs, DestroyPCs
      <3>2. LastTaken \in InQueue /\ LastTaken \in Slots
        BY Places
      <3>3. dying[t] # LastTaken
        BY <3>1, <3>2, DyingAlone
      <3>4. flags \in [Slots -> SUBSET FlagBits]
        BY DEF TypeOK, SlotsTyped
      <3> QED
        BY <2>1, <3>2, <3>3, <3>4 DEF Clear
    <2>2. CASE ~Clear(t)
      BY <2>2 DEF PushLink, PushCas, Release, slotVars
    <2> QED
      BY <2>1, <2>2
  <1>3. PICK l : Goto(t, l) /\ l \in {"pushLink", "pushCas"} \cup {ret[t]}
    BY DEF Clear, PushLink, PushCas, Release
  <1>4. CASE t \in Clients
    <2>1. ret[t] = "idle"
      BY <1>4 DEF TypeOK, RegsTyped
    <2>2. Quiet(pc[t], l)
      BY <1>1, <1>3, <2>1 DEF Quiet, DestroyPCs, WaitPCs
    <2> QED
      BY <1>1, <1>2, <1>3, <1>4, <2>2, ClientUnseen
  <1>5. CASE t = Main
    <2>1. ret[t] \in {"idle", "dispatch", "checkClose"}
      BY DEF TypeOK, RegsTyped
    <2>2. \A c \in Clients : pc'[c] = pc[c]
      BY <1>3, <1>5, MainGoes
    <2>3. pc'[Main] = l
      BY <1>3, <1>5, MainGoes
    <2>4. LastTaken' = LastTaken
      BY <1>1, <1>3, <1>5, <2>1, <2>3 DEF LastTaken, DestroyPCs
    <2>5. Handles' = Handles /\ Popped' = Popped
      <3>1. \A c \in Clients : (Holds(c)' <=> Holds(c)) /\ slot'[c] = slot[c]
        BY <2>2, <1>1 DEF Holds, Appending
      <3> QED
        BY <3>1, <2>2, <1>1, UsersStay
    <2> QED
      BY <1>1, <1>2, <2>4, <2>5, Unseen
  <1> QED
    BY <1>4, <1>5 DEF Threads

LEMMA PushRecycles ==
  ASSUME TypeOK, SlotInv, NEW t \in Threads, PushCas(t), HeadUnchanged(t)
  PROVE  ServiceStep
  <1> USE Constants
  <1>1. /\ t \in Busy /\ pc[t] = "pushCas" /\ stack \in Seq(Slots)
    BY DEF PushCas, Busy, BusyPCs, DestroyPCs, TypeOK, HistoryTyped
  <1>2. PICK s \in Slots : s = dying[t]
    BY DEF TypeOK, LocalsTyped
  <1>3. /\ s # Dummy
        /\ s \notin Elems(stack) \cup Popped \cup Handles \cup InQueue
    BY <1>1, <1>2, DyingAlone
  <1>4. s \notin Elems(fifo) /\ s # LastTaken
    BY <1>3, Places
  <1>5. /\ UNCHANGED <<flags, fifo, held, previousRequest, slot, call>>
        /\ stack' = <<s>> \o stack /\ Goto(t, "release")
    BY <1>2 DEF PushCas, slotVars, boxVars
  <1>6. /\ pc'[t] = "release" /\ \A u \in Threads : u # t => pc'[u] = pc[u]
    BY <1>5, Moves
  <1>7. LastTaken' = LastTaken
    BY <1>1, <1>5, <1>6 DEF LastTaken
  <1>8. Handles' = Handles /\ Popped' = Popped
    <2>1. \A c \in Clients : (Holds(c)' <=> Holds(c)) /\ slot'[c] = slot[c]
      BY <1>1, <1>5, <1>6 DEF Holds, Appending, WaitPCs
    <2>2. \A c \in Senders : pc'[c] = "exchange" <=> pc[c] = "exchange"
      BY <1>1, <1>6
    <2> QED
      BY <2>1, <2>2, <1>5, UsersStay
  <1>9. Elems(stack)' = Elems(stack) \cup {s}
    BY <1>1, <1>5, ElemsPush
  <1>10. \A x \in Slots \ {s, Dummy} : SamePlace(x)
    BY <1>5, <1>7, <1>8, <1>9 DEF SamePlace, Handling, Elems
  <1>11. PhaseOf(s) = "answered"
    BY <1>3, <1>4, Phases
  <1>12. PhaseOf(s)' = "free"
    BY <1>3, <1>4, <1>5, <1>7, <1>8, <1>9, PhaseAfter
  <1>13. Service!Recycle(s)
    BY <1>3, <1>4, <1>5, <1>7, <1>8, <1>10, <1>11, <1>12, Becomes DEF Service!Recycle
  <1> QED
    BY <1>13, NextOf DEF ServiceStep
----------------------------------------------------------------------------
(* The mailbox thread takes the oldest request and answers it.             *)

LEMMA GetNextTakes ==
  ASSUME TypeOK, SlotInv, GetNextQueued
  PROVE  ServiceStep
  <1> USE Constants DEF SlotInv, ListInv, RoleInv
  <1>1. /\ pc[Main] = "getNext" /\ fifo \in Seq(Slots) /\ slot \in [Threads -> Slots]
    BY DEF GetNextQueued, TypeOK, LocalsTyped, HistoryTyped
  <1>2. /\ Len(fifo) > 0 /\ nextSlot[previousRequest] = fifo[1] /\ fifo[1] \in Slots
        /\ LastTaken = previousRequest
    BY <1>1, NextIsOldest
  <1>3. PICK s \in Slots : s = fifo[1]
    BY <1>2
  <1>4. Valid(s) /\ nextSlot[previousRequest] = s
    BY <1>2, <1>3, SlotAssumption DEF Valid, Slots
  <1>5. /\ UNCHANGED <<flags, stack, held, call, reg, nxt, previousRequest>>
        /\ fifo' = Rest(fifo) /\ Goto(Main, "lock")
        /\ slot' = [slot EXCEPT ![Main] = s]
    BY <1>4 DEF GetNextQueued, slotVars, boxVars
  <1>6. pc'[Main] = "lock" /\ \A c \in Clients : pc'[c] = pc[c] /\ slot'[c] = slot[c]
    BY <1>1, <1>5, MainGoes
  <1>7. Handles' = Handles /\ Popped' = Popped
    BY <1>5, <1>6, ClientSets DEF ClientsStay
  <1>8. LastTaken' = s
    BY <1>1, <1>5, <1>6 DEF LastTaken
  <1>9. /\ Distinct(fifo) /\ s \in Elems(fifo) /\ Elems(fifo)' = Elems(fifo) \ {s}
        /\ fifo' = Tail(fifo) /\ s = Head(fifo) /\ fifo # <<>>
    <2>1. Elems(Rest(fifo)) = Elems(fifo) \ {fifo[1]}
      BY <1>1, <1>2, FifoDistinct, ElemsRest
    <2>2. fifo # <<>> /\ Rest(fifo) = Tail(fifo) /\ 1 \in DOMAIN fifo
      BY <1>1, <1>2 DEF Rest
    <2>3. Elems(fifo)' = Elems(fifo') /\ s \in Elems(fifo)
      BY <2>2, <1>3 DEF Elems
    <2> QED
      BY <2>1, <2>2, <2>3, <1>1, <1>2, <1>3, <1>5, FifoDistinct
  <1>10. s # Dummy /\ READY \notin flags[s] /\ s \notin Elems(stack) \cup Popped
    BY <1>9, Places DEF DummyRetired, FlagShape, Unanswered, Roles
  <1>11. previousRequest = Dummy \/ READY \in flags[previousRequest]
    BY <1>1 DEF FlagShape, Settled
  <1>12. \A x \in Slots \ {s, Dummy} : SamePlace(x)
    BY <1>2, <1>5, <1>7, <1>8, <1>9, <1>11 DEF SamePlace, Handling, Elems
  <1>13. PhaseOf(s) = "queued"
    BY <1>9, <1>10, Phases
  <1>14. PhaseOf(s)' = "handling"
    <2>1. Handling(s)'
      BY <1>5, <1>8, <1>10 DEF Handling
    <2>2. Elems(stack)' = Elems(stack)
      BY <1>5 DEF Elems
    <2> QED
      BY <2>1, <2>2, <1>7, <1>9, <1>10, PhaseAfter
  <1>15. Service!Take(s)
    BY <1>7, <1>8, <1>9, <1>10, <1>12, <1>13, <1>14, Becomes DEF Service!Take
  <1> QED
    BY <1>15, NextOf DEF ServiceStep

LEMMA MainStepUnseen ==
  ASSUME TypeOK, SlotInv, Decrease \/ Lock \/ UnlockPrevious \/ Dispatch \/ CheckClose
  PROVE  ServiceStep
  <1> USE Constants
  <1>1. UNCHANGED <<stack, fifo, held, reg, nxt, call>>
    BY DEF Decrease, Lock, UnlockPrevious, Dispatch, CheckClose, boxVars, locals, hist
  <1>2. \A c \in Clients : slot'[c] = slot[c]
    BY DEF Decrease, Lock, UnlockPrevious, Dispatch, CheckClose, locals, Forget,
           TypeOK, LocalsTyped
  <1>3. PICK l : Goto(Main, l)
    BY DEF Decrease, Lock, UnlockPrevious, Dispatch, CheckClose, StartDestroy
  <1>4. pc'[Main] = l
    BY <1>3, MainGoes
  <1>5. LastTaken' = LastTaken
    <2>1. CASE Decrease \/ Dispatch \/ CheckClose
      BY <2>1, <1>4, <1>3, Moves DEF Decrease, Dispatch, CheckClose, boxVars, LastTaken
    <2>2. CASE Lock
      BY <2>2, Moves DEF Lock, LastTaken, locals, boxVars
    <2>3. CASE UnlockPrevious
      <3>1. pc'[Main] \in {"clear", "dispatch"}
        BY <2>3, Moves DEF UnlockPrevious, StartDestroy
      <3> QED
        BY <2>3, <3>1 DEF UnlockPrevious, LastTaken
    <2> QED
      BY <2>1, <2>2, <2>3
  <1>6. READY \in flags'[LastTaken] <=> READY \in flags[LastTaken]
    <2>1. LastTaken \in Slots /\ flags \in [Slots -> SUBSET FlagBits]
      BY Places DEF TypeOK, SlotsTyped
    <2>2. READY # NOT_PRESERVED
      BY DEF READY, NOT_PRESERVED
    <2>3. CASE Decrease \/ Dispatch \/ CheckClose
      BY <2>3 DEF Decrease, Dispatch, CheckClose, slotVars
    <2>4. CASE Lock
      BY <2>1, <2>2, <2>4 DEF Lock
    <2>5. CASE UnlockPrevious
      BY <2>1, <2>2, <2>5 DEF UnlockPrevious
    <2> QED
      BY <2>3, <2>4, <2>5
  <1> QED
    BY <1>1, <1>2, <1>3, <1>5, <1>6, MainUnseen

(* The thread marks a request ready: the one it took last, unless it is    *)
(* the second time (the request that closed the mailbox).                  *)
LEMMA MarkAnswers ==
  ASSUME TypeOK, SlotInv, ActionNotify \/ ActionDestroy \/ MarkKilled
  PROVE  ServiceStep
  <1> USE Constants DEF SlotInv, ListInv, RoleInv, UserInv
  <1>1. /\ previousRequest \in Slots /\ previousRequest # Dummy
        /\ LastTaken = previousRequest
        /\ pc[Main] \in {"notify", "destroy", "closing"}
        /\ IF pc[Main] = "closing" THEN killRequest = previousRequest
                                   ELSE slot[Main] = previousRequest
    BY DEF ActionNotify, ActionDestroy, MarkKilled, MainShape, KillShape, Working,
           LastTaken, TypeOK, BoxTyped
  <1>2. PICK s \in Slots : s = previousRequest
    BY <1>1
  <1>3. /\ UNCHANGED <<stack, fifo, held, slot, call, reg, nxt, previousRequest>>
        /\ \E l \in {"clear", "checkClose", "wake", "wakeKiller"} : Goto(Main, l)
    BY DEF ActionNotify, ActionDestroy, MarkKilled, boxVars, locals, hist, StartDestroy
  <1>4. /\ pc'[Main] \in {"clear", "checkClose", "wake", "wakeKiller"}
        /\ \A c \in Clients : pc'[c] = pc[c]
    BY <1>3, MainGoes
  <1>5. LastTaken' = s /\ LastTaken = s
    BY <1>1, <1>2, <1>3, <1>4 DEF LastTaken
  <1>6. Handles' = Handles /\ Popped' = Popped
    BY <1>3, <1>4, ClientSets DEF ClientsStay
  <1>7. READY \in flags'[s] /\ \A x \in Slots : x # s => flags'[x] = flags[x]
    <2>1. flags \in [Slots -> SUBSET FlagBits]
      BY DEF TypeOK, SlotsTyped
    <2> QED
      BY <2>1, <1>1, <1>2 DEF ActionNotify, ActionDestroy, MarkKilled
  <1>8. \A x \in Slots \ {s, Dummy} : SamePlace(x)
    BY <1>3, <1>5, <1>6, <1>7 DEF SamePlace, Handling, Elems
  <1>9. s # Dummy /\ s \notin Elems(stack) \cup Popped \cup Elems(fifo)
    <2>1. s \notin Elems(fifo)
      BY <1>5, LastNotQueued
    <2> QED
      BY <2>1, <1>1, <1>2, InHand
  <1>10. PhaseOf(s)' = "answered"
    <2>1. ~Handling(s)'
      BY <1>7 DEF Handling
    <2>2. Elems(stack)' = Elems(stack) /\ Elems(fifo)' = Elems(fifo)
      BY <1>3 DEF Elems
    <2> QED
      BY <2>1, <2>2, <1>6, <1>9, PhaseAfter
  <1>11. CASE READY \in flags[s]
    BY <1>11, <1>3, <1>5, <1>6, <1>7, Unseen
  <1>12. CASE READY \notin flags[s]
    <2>1. PhaseOf(s) = "handling"
      BY <1>12, <1>5, <1>9, Phases
    <2>2. Service!Answer(s)
      BY <2>1, <1>3, <1>5, <1>6, <1>8, <1>9, <1>10, Becomes DEF Service!Answer
    <2> QED
      BY <2>2, NextOf DEF ServiceStep
  <1> QED
    BY <1>11, <1>12

LEMMA WakeUnseen ==
  ASSUME TypeOK, SlotInv, NotifyAll \/ WakeKiller
  PROVE  ServiceStep
  <1> USE Constants
  <1>1. /\ UNCHANGED <<stack, fifo, held, flags, slot, call, previousRequest>>
        /\ pc[Main] \in {"wake", "wakeKiller"}
    BY DEF NotifyAll, WakeKiller, slotVars, boxVars, locals, hist
  <1>2. PICK l, s : WakeAll(s, l) /\ l \in {"checkClose", "stopped"}
    BY DEF NotifyAll, WakeKiller
  <1>3. /\ pc'[Main] = l
        /\ \A c \in Clients : pc'[c] = pc[c] \/ (pc[c] = "asleep" /\ pc'[c] = "wait")
    BY <1>2 DEF WakeAll, AsleepOn
  <1>4. LastTaken' = LastTaken
    BY <1>1, <1>2, <1>3 DEF LastTaken
  <1>5. \A c \in Clients : Holds(c)' <=> Holds(c)
    BY <1>1, <1>3 DEF Holds, WaitPCs, Appending
  <1>6. \A c \in Senders : pc'[c] = "exchange" <=> pc[c] = "exchange"
    BY <1>3
  <1> QED
    BY <1>1, <1>4, <1>5, <1>6, UsersStay, Unseen
----------------------------------------------------------------------------
LEMMA StepImplements ==
  ASSUME OneSender, TypeOK, PermitsMatchPool, SlotInv, [Next]_vars
  PROVE  ServiceStep
  <1>0. ASSUME NEW t \in Threads, DestroyRequest(t) PROVE ServiceStep
    <2>1. CASE Clear(t) \/ PushLink(t) \/ Release(t)
      <3>1. Clear(t) \/ PushLink(t) \/ (PushCas(t) /\ ~HeadUnchanged(t)) \/ Release(t)
        BY <2>1
      <3> QED
        BY <3>1, DestroyUnseen
    <2>2. CASE PushCas(t)
      <3>1. CASE HeadUnchanged(t)
        BY <2>2, <3>1, PushRecycles
      <3>2. CASE ~HeadUnchanged(t)
        BY <2>2, <3>2, DestroyUnseen
      <3> QED
        BY <3>1, <3>2
    <2> QED
      BY <1>0, <2>1, <2>2 DEF DestroyRequest
  <1>1. CASE MainStep
    <2>1. CASE GetNextQueued
      BY <2>1, GetNextTakes
    <2>2. CASE \/ Decrease \/ CheckClose \/ Lock \/ UnlockPrevious \/ Dispatch
      BY <2>2, MainStepUnseen
    <2>3. CASE ActionNotify \/ ActionDestroy \/ MarkKilled
      BY <2>3, MarkAnswers
    <2>4. CASE NotifyAll \/ WakeKiller
      BY <2>4, WakeUnseen
    <2>5. CASE DestroyRequest(Main)
      BY <2>5, <1>0, Constants
    <2> QED
      BY <1>1, <2>1, <2>2, <2>3, <2>4, <2>5 DEF MainStep
  <1>2. ASSUME NEW c \in Senders, Send(c) PROVE ServiceStep
    <2>1. CASE \/ \E k \in Kinds, m \in Modes : SendBegin(c, k, m)
               \/ AcquireSlot(c) \/ AcquireFail(c)
      BY <2>1, AskUnseen
    <2>2. CASE LoadFree(c) \/ PopRead(c) \/ LinkPrevious(c)
      BY <2>2, AskUnseen
    <2>3. CASE PopCas(c)
      <3>1. CASE HeadUnchanged(c)
        BY <2>3, <3>1, PopClaims
      <3>2. CASE ~HeadUnchanged(c)
        BY <2>3, <3>2, AskUnseen
      <3> QED
        BY <3>1, <3>2
    <2>4. CASE Exchange(c) \/ Increase(c)
      BY <2>4, ExchangeSubmits, IncreaseUnseen
    <2> QED
      BY <1>2, <2>1, <2>2, <2>3, <2>4 DEF Send
  <1>3. ASSUME NEW c \in Clients, Collect(c) PROVE ServiceStep
    <2>1. CASE DestroyRequest(c)
      BY <2>1, <1>0, Constants
    <2>2. CASE \/ \E s \in Slots, m \in Modes : WaitBegin(c, s, m)
               \/ \E s \in Slots : DiscardBegin(c, s)
               \/ WaitNotReady(c)
      BY <2>2, HolderUnseen
    <2>3. CASE WaitReady(c) \/ ReadStatus(c) \/ WaitSleep(c)
      BY <2>3, WatchUnseen
    <2>4. CASE Discard(c)
      BY <2>4, DiscardDrops
    <2> QED
      BY <1>3, <2>1, <2>2, <2>3, <2>4 DEF Collect
  <1>4. CASE DestroyMailbox \/ UNCHANGED vars
    <2>1. UNCHANGED <<stack, fifo, held, flags, slot, call, previousRequest, pc>>
      BY <1>4 DEF DestroyMailbox, vars, slotVars, boxVars, locals, hist
    <2>2. UNCHANGED <<Handles, Popped, LastTaken>>
      BY <2>1 DEF Handles, Popped, LastTaken, Appending
    <2> QED
      BY <2>1, <2>2, Unseen
  <1> QED
    BY <1>1, <1>2, <1>3, <1>4 DEF Next

LEMMA InitImplements == Init => Service!Init
  <1> SUFFICES ASSUME Init PROVE Service!Init
    OBVIOUS
  <1> USE Constants
  <1>1. /\ fifo = <<>> /\ LastTaken = Dummy /\ stack = [i \in 1 .. N - 1 |-> i - 1]
        /\ \A t \in Threads : pc[t] = "idle"
    BY DEF Init, LastTaken
  <1>2. Handles = {} /\ Popped = {} /\ Elems(fifo) = {}
    BY <1>1 DEF Init, Handles, Popped, Appending, WaitPCs, Elems
  <1>3. \A s \in Slots : s # Dummy => s \in Elems(stack)
    <2> SUFFICES ASSUME NEW s \in Slots, s # Dummy PROVE s \in Elems(stack)
      OBVIOUS
    <2>1. s + 1 \in 1 .. N - 1 /\ (s + 1) - 1 = s
      BY SlotAssumption DEF Slots, Dummy
    <2>2. s + 1 \in DOMAIN stack /\ stack[s + 1] = s
      BY <2>1, <1>1
    <2> QED
      BY <2>2 DEF Elems
  <1>4. \A s \in Slots : PhaseOf(s) = IF s = Dummy THEN "answered" ELSE "free"
    <2> SUFFICES ASSUME NEW s \in Slots
                 PROVE  PhaseOf(s) = IF s = Dummy THEN "answered" ELSE "free"
      OBVIOUS
    <2>1. TypeOK /\ SlotInv
      BY InitType, InitSlots
    <2>2. CASE s = Dummy
      <3>1. s \notin Elems(stack) \cup Popped \cup Elems(fifo)
        BY <2>1, <2>2 DEF SlotInv, RoleInv, DummyRetired
      <3> QED
        BY <3>1, <2>2 DEF PhaseOf
    <2>3. CASE s # Dummy
      BY <2>1, <2>3, <1>3, Phases
    <2> QED
      BY <2>2, <2>3
  <1> QED
    BY <1>1, <1>2, <1>4 DEF Service!Init

(* With one sender, however many threads wait on and discard the requests  *)
(* of however many slots, the mailbox implements RequestService: requests  *)
(* are taken in the order they were sent, each is answered once, and its   *)
(* slot is recycled once, after the answer, when nobody may ask for it any *)
(* more and the mailbox thread has moved on.                               *)
THEOREM ServiceImplemented == ASSUME OneSender PROVE Spec => ImplementsService
  <1>1. Init => Service!Init
    BY InitImplements
  <1>2. TypeOK /\ (NoAbort => PermitsMatchPool) /\ SlotInv /\ [Next]_vars
          => [Service!Next]_(Service!vars)
    BY StepImplements DEF SlotInv, ListInv, ServiceStep
  <1> QED
    BY <1>1, <1>2, SlotsKept, PermitsCorrect, PTL
       DEF Spec, ImplementsService, Service!Spec
=============================================================================
