--------------------------- MODULE LifetimeProofs ---------------------------
(***************************************************************************)
(* Theorems about what comes and goes, and who counts it.                  *)
(*   QuartzInit, for any number of threads and calls: the process gets one *)
(* mailbox.  MailboxFactory, for any threads, any size of the pool and any *)
(* number of mailboxes: references are counted, and memory is given out    *)
(* and taken back once.                                                    *)
(*   Agate2's asyncs and counters, for any threads and any bounds.         *)
(* AsyncData: its types, the exactness of its counts, and which late       *)
(* answers are counted.  ResponseCounter: nobody sleeps on.                *)
(***************************************************************************)
EXTENDS QuartzInit, MailboxFactory, AsyncData, ResponseCounter,
        FiniteSetTheorems, TLAPS

(* qtz_init                                                                *)

(* The lock's one permit is free, with a thread inside, or was taken away  *)
(* by a call with null parameters.                                         *)
OnePermit ==
  isInitializing + Cardinality(Inside) + (IF nullParams THEN 1 ELSE 0) = 1

(* How far the thread inside has come is how far the process has.          *)
StageReached ==
  \A t \in InitThreads :
    /\ initStatus[t] = "success" => processInitialized
    /\ initAt[t] \in {"space", "mailbox", "done"} => ~processInitialized
    /\ initAt[t] \in {"mailbox", "done"} => addressSpaceReady
    /\ initAt[t] = "done" => mailboxReady
    /\ initAt[t] = "atexit" => processInitialized /\ exitHandlers = 0

InitInv == InitTypeOK /\ OnePermit /\ StageReached /\ InitializedOnce
----------------------------------------------------------------------------
LEMMA InsideFinite == IsFiniteSet(Inside) /\ Cardinality(Inside) \in Nat
  <1>1. Inside \in SUBSET InitThreads
    BY DEF Inside
  <1> QED
    BY <1>1, InitAssumption, FS_Subset, FS_CardinalityType

(* Nobody else is inside with a thread.                                    *)
LEMMA Alone ==
  ASSUME InitTypeOK, OnePermit, NEW t \in Inside
  PROVE  Inside = {t} /\ isInitializing = 0 /\ ~nullParams
  <1>1. Cardinality(Inside) # 0
    BY InsideFinite, FS_EmptySet
  <1>2. Cardinality(Inside) = 1 /\ isInitializing = 0 /\ ~nullParams
    BY <1>1, InsideFinite DEF InitTypeOK, OnePermit
  <1>3. \E x : Inside = {x}
    BY <1>2, InsideFinite, FS_Singleton
  <1> QED
    BY <1>2, <1>3

(* A thread that stays inside, goes in, or comes out.                      *)
LEMMA StaysInside ==
  ASSUME InitTypeOK, NEW t \in InitThreads, NEW l, InitGoto(t, l),
         initAt[t] \in {"out", "lock"} <=> l \in {"out", "lock"}
  PROVE  Inside' = Inside
  BY DEF InitTypeOK, InitGoto, Inside

LEMMA GoesIn ==
  ASSUME InitTypeOK, NEW t \in InitThreads, NEW l, InitGoto(t, l),
         initAt[t] \in {"out", "lock"}, l \notin {"out", "lock"}
  PROVE  Cardinality(Inside)' = Cardinality(Inside) + 1
  <1>1. t \notin Inside /\ Inside' = Inside \cup {t}
    BY DEF InitTypeOK, InitGoto, Inside
  <1> QED
    BY <1>1, InsideFinite, FS_AddElement

LEMMA ComesOut ==
  ASSUME InitTypeOK, NEW t \in InitThreads, NEW l, InitGoto(t, l),
         initAt[t] \notin {"out", "lock"}, l \in {"out", "lock"}
  PROVE  Cardinality(Inside)' = Cardinality(Inside) - 1
  <1>1. t \in Inside /\ Inside' = Inside \ {t}
    BY DEF InitTypeOK, InitGoto, Inside
  <1> QED
    BY <1>1, InsideFinite, FS_RemoveElement
----------------------------------------------------------------------------
LEMMA InitInit == StartInit => InitInv
  <1> SUFFICES ASSUME StartInit PROVE InitInv
    OBVIOUS
  <1>1. InitTypeOK
    <2>1. 0 \in 0 .. MaxInitCalls
      BY InitAssumption
    <2>2. initCalls \in [InitThreads -> 0 .. MaxInitCalls]
      BY <2>1 DEF StartInit
    <2> QED
      BY <2>2 DEF StartInit, InitTypeOK, InitStatuses
  <1>2. Inside = {}
    BY DEF StartInit, Inside
  <1> QED
    BY <1>1, <1>2, FS_EmptySet
       DEF StartInit, InitInv, OnePermit, StageReached, InitializedOnce, Registering

LEMMA InitTypeStep == InitInv /\ [StartNext]_initVars => InitTypeOK'
  <1> SUFFICES ASSUME InitInv, [StartNext]_initVars PROVE InitTypeOK'
    OBVIOUS
  <1> USE InitAssumption DEF InitInv, InitTypeOK, InitStatuses, InitGoto, InitReturn, stageVars
  <1>1. ASSUME NEW t \in InitThreads, CallInit(t) PROVE InitTypeOK'
    BY <1>1 DEF CallInit
  <1>2. ASSUME NEW t \in InitThreads, LockInit(t) PROVE InitTypeOK'
    BY <1>2 DEF LockInit
  <1>3. ASSUME NEW t \in InitThreads, NEW isNull \in BOOLEAN, CheckParams(t, isNull)
        PROVE  InitTypeOK'
    BY <1>3 DEF CheckParams
  <1>4. ASSUME NEW t \in InitThreads, InitAddressSpace(t) PROVE InitTypeOK'
    BY <1>4 DEF InitAddressSpace, Fail
  <1>5. ASSUME NEW t \in InitThreads, InitMailbox(t) PROVE InitTypeOK'
    <2>0. mailboxReady' \in BOOLEAN
      BY <1>5, Zenon DEF InitMailbox
    <2>1. mailboxesMade' \in Nat /\ mailboxThreads' \in Nat /\ threadFailures' \in Nat
      BY <1>5 DEF InitMailbox
    <2>2. initAt' \in [InitThreads -> {"out", "lock", "check", "space", "mailbox", "done",
                                      "atexit", "release"}]
      BY <1>5 DEF InitMailbox, Fail
    <2>3. initStatus' \in [InitThreads -> InitStatuses]
      BY <1>5 DEF InitMailbox, Fail
    <2> QED
      BY <1>5, <2>0, <2>1, <2>2, <2>3 DEF InitMailbox
  <1>6. ASSUME NEW t \in InitThreads, PublishInit(t) \/ RegisterExit(t) PROVE InitTypeOK'
    BY <1>6 DEF PublishInit, RegisterExit
  <1>7. ASSUME NEW t \in InitThreads, UnlockInit(t) PROVE InitTypeOK'
    BY <1>7 DEF UnlockInit
  <1>8. CASE UNCHANGED initVars
    BY <1>8 DEF initVars
  <1> QED
    BY <1>1, <1>2, <1>3, <1>4, <1>5, <1>6, <1>7, <1>8 DEF StartNext

LEMMA PermitStep == InitInv /\ [StartNext]_initVars => OnePermit'
  <1> SUFFICES ASSUME InitInv, [StartNext]_initVars PROVE OnePermit'
    OBVIOUS
  <1> USE InsideFinite DEF InitInv, OnePermit, InitReturn
  <1>1. ASSUME NEW t \in InitThreads, CallInit(t) PROVE OnePermit'
    <2>1. Inside' = Inside
      BY <1>1, StaysInside DEF CallInit
    <2> QED
      BY <1>1, <2>1 DEF CallInit
  <1>2. ASSUME NEW t \in InitThreads, LockInit(t) PROVE OnePermit'
    <2>1. CASE isInitializing > 0
      <3>1. Cardinality(Inside)' = Cardinality(Inside) + 1
        BY <1>2, <2>1, GoesIn DEF LockInit
      <3> QED
        BY <1>2, <2>1, <3>1 DEF LockInit, InitTypeOK
    <2>2. CASE ~(isInitializing > 0)
      <3>1. Inside' = Inside
        BY <1>2, <2>2, StaysInside DEF LockInit
      <3> QED
        BY <1>2, <2>2, <3>1 DEF LockInit
    <2> QED
      BY <2>1, <2>2
  <1>3. ASSUME NEW t \in InitThreads, NEW isNull \in BOOLEAN, CheckParams(t, isNull)
        PROVE  OnePermit'
    <2>1. CASE ~processInitialized /\ isNull
      <3>1. Cardinality(Inside)' = Cardinality(Inside) - 1
        BY <1>3, <2>1, ComesOut DEF CheckParams
      <3>2. ~nullParams /\ nullParams'
        <4>1. t \in Inside
          BY <1>3 DEF CheckParams, Inside
        <4> QED
          BY <1>3, <2>1, <4>1, Alone DEF CheckParams
      <3> QED
        BY <1>3, <3>1, <3>2 DEF CheckParams, InitTypeOK
    <2>2. CASE processInitialized \/ ~isNull
      <3>1. Inside' = Inside
        BY <1>3, <2>2, StaysInside DEF CheckParams
      <3> QED
        BY <1>3, <2>2, <3>1 DEF CheckParams
    <2> QED
      BY <2>1, <2>2
  <1>4. ASSUME NEW t \in InitThreads, InitAddressSpace(t) PROVE OnePermit'
    <2>1. Inside' = Inside
      BY <1>4, StaysInside DEF InitAddressSpace, Fail
    <2> QED
      BY <1>4, <2>1 DEF InitAddressSpace
  <1>5. ASSUME NEW t \in InitThreads, InitMailbox(t) PROVE OnePermit'
    <2>1. Inside' = Inside
      BY <1>5, StaysInside DEF InitMailbox, Fail
    <2> QED
      BY <1>5, <2>1 DEF InitMailbox
  <1>6. ASSUME NEW t \in InitThreads, PublishInit(t) \/ RegisterExit(t) PROVE OnePermit'
    <2>1. Inside' = Inside
      BY <1>6, StaysInside DEF PublishInit, RegisterExit
    <2> QED
      BY <1>6, <2>1 DEF PublishInit, RegisterExit
  <1>7. ASSUME NEW t \in InitThreads, UnlockInit(t) PROVE OnePermit'
    <2>1. Cardinality(Inside)' = Cardinality(Inside) - 1
      BY <1>7, ComesOut DEF UnlockInit
    <2> QED
      BY <1>7, <2>1 DEF UnlockInit, InitTypeOK
  <1>8. CASE UNCHANGED initVars
    BY <1>8 DEF initVars, Inside
  <1> QED
    BY <1>1, <1>2, <1>3, <1>4, <1>5, <1>6, <1>7, <1>8 DEF StartNext

(* Only the thread inside makes progress, so that the stages it has passed *)
(* are nobody else's.                                                      *)
LEMMA StageStep == InitInv /\ [StartNext]_initVars => StageReached' /\ InitializedOnce'
  <1> SUFFICES ASSUME InitInv, [StartNext]_initVars PROVE StageReached' /\ InitializedOnce'
    OBVIOUS
  <1> USE DEF InitInv, StageReached, InitializedOnce, Registering, InitGoto, InitReturn,
              stageVars
  <1>0. ASSUME NEW t \in InitThreads, initAt[t] \notin {"out", "lock"}
        PROVE  \A u \in InitThreads \ {t} : initAt[u] \in {"out", "lock"}
    <2>1. t \in Inside
      BY <1>0 DEF Inside
    <2>2. Inside = {t}
      BY <2>1, Alone
    <2> QED
      BY <2>2 DEF Inside
  <1>1. ASSUME NEW t \in InitThreads, CallInit(t) PROVE StageReached' /\ InitializedOnce'
    BY <1>1 DEF CallInit, InitTypeOK
  <1>2. ASSUME NEW t \in InitThreads, LockInit(t) PROVE StageReached' /\ InitializedOnce'
    BY <1>2 DEF LockInit, InitTypeOK
  <1>3. ASSUME NEW t \in InitThreads, NEW isNull \in BOOLEAN, CheckParams(t, isNull)
        PROVE  StageReached' /\ InitializedOnce'
    BY <1>3 DEF CheckParams, InitTypeOK
  <1>4. ASSUME NEW t \in InitThreads, InitAddressSpace(t)
        PROVE  StageReached' /\ InitializedOnce'
    BY <1>4 DEF InitAddressSpace, Fail, InitTypeOK
  <1>5. ASSUME NEW t \in InitThreads, InitMailbox(t) PROVE StageReached' /\ InitializedOnce'
    BY <1>5 DEF InitMailbox, Fail, InitTypeOK
  <1>6. ASSUME NEW t \in InitThreads, PublishInit(t) PROVE StageReached' /\ InitializedOnce'
    <2>1. \A u \in InitThreads \ {t} : initAt[u] \in {"out", "lock"}
      BY <1>0, <1>6 DEF PublishInit
    <2>2. ~processInitialized /\ addressSpaceReady /\ mailboxReady /\ processInitialized'
      BY <1>6 DEF PublishInit
    <2>3. ~Registering /\ exitHandlers = 0 /\ initAt'[t] = "atexit"
      BY <1>6, <2>1, <2>2 DEF PublishInit, InitTypeOK
    <2>4. StageReached'
      BY <1>6, <2>1, <2>2, <2>3 DEF PublishInit, InitTypeOK
    <2> QED
      BY <1>6, <2>2, <2>3, <2>4 DEF PublishInit, InitTypeOK
  <1>9. ASSUME NEW t \in InitThreads, RegisterExit(t)
        PROVE  StageReached' /\ InitializedOnce'
    <2>1. \A u \in InitThreads \ {t} : initAt[u] \in {"out", "lock"}
      BY <1>0, <1>9 DEF RegisterExit
    <2>2. processInitialized /\ exitHandlers' = 1 /\ ~Registering'
      BY <1>9, <2>1 DEF RegisterExit, InitTypeOK
    <2>3. StageReached'
      BY <1>9, <2>1, <2>2 DEF RegisterExit, InitTypeOK
    <2> QED
      BY <1>9, <2>2, <2>3 DEF RegisterExit, InitTypeOK
  <1>7. ASSUME NEW t \in InitThreads, UnlockInit(t) PROVE StageReached' /\ InitializedOnce'
    BY <1>7 DEF UnlockInit, InitTypeOK
  <1>8. CASE UNCHANGED initVars
    BY <1>8 DEF initVars
  <1> QED
    BY <1>1, <1>2, <1>3, <1>4, <1>5, <1>6, <1>7, <1>8, <1>9 DEF StartNext

LEMMA InitInvariant == StartSpec => []InitInv
  <1>1. InitInv /\ [StartNext]_initVars => InitInv'
    BY InitTypeStep, PermitStep, StageStep DEF InitInv
  <1> QED
    BY <1>1, InitInit, PTL DEF StartSpec

(* g_isInitializing is held by at most one thread, and is lost to a call   *)
(* with null parameters only (init.cpp:428-481).                           *)
THEOREM LockCorrect == StartSpec => []InitLockHeld
  <1>1. InitInv => InitLockHeld
    BY InsideFinite DEF InitInv, InitTypeOK, OnePermit, InitLockHeld
  <1> QED
    BY <1>1, InitInvariant, PTL

(* However many threads call qtz_init and whatever fails, success means    *)
(* that both stages are done, with one mailbox thread; the exit handler is *)
(* registered once, by the thread that stored the flag, which others may   *)
(* have read before (init.cpp:421-481).                                    *)
THEOREM InitOnceCorrect == StartSpec => []InitializedOnce
  <1>1. InitInv => InitializedOnce
    BY DEF InitInv
  <1> QED
    BY <1>1, InitInvariant, PTL

----------------------------------------------------------------------------
(* The mailboxes of Agate                                                  *)

FactoryRequests ==
       [op : {"alloc"}, by : Creators, shared : BOOLEAN]
  \cup [op : {"callback"}, by : Creators]
  \cup [op : {"free"}, block : Block]

FactoryTypes ==
  /\ requests \in Seq(FactoryRequests)
  /\ freeBlocks \in Seq(Block)
  /\ blockState \in [Block -> {"free", "raw", "mailbox"}]
  /\ slotArrays \subseteq Block
  /\ refCount \in [Block -> Nat]
  /\ handle \in [Creators -> Block \cup {NoBlock}]
  /\ owns \in [Creators -> BOOLEAN]
  /\ creatorAt \in [Creators -> {"idle", "sync", "async", "asking"}]
  /\ allocStatus \in [Creators -> {"unset", "no_ipc", "success"}]
  /\ answered \in [Creators -> BOOLEAN]
  /\ factoryCrash \in {"none", "pool", "slots", "callback"}

(* The pool's list is the free blocks, each once.                          *)
PoolExact ==
  /\ \A i, j \in DOMAIN freeBlocks : i # j => freeBlocks[i] # freeBlocks[j]
  /\ \A b \in Block : (blockState[b] = "free") = (\E i \in DOMAIN freeBlocks : freeBlocks[i] = b)
  /\ slotArrays = {b \in Block : blockState[b] # "free"}

(* A reference is held from the time the mailbox is constructed, which is  *)
(* before the caller of the asynchronous form knows of it.                 *)
Holds(c)     == owns[c] \/ (creatorAt[c] = "async" /\ answered[c])
HoldersOf(b) == {c \in Creators : Holds(c) /\ handle[c] = b}

HoldersCounted ==
  \A c \in Creators : Holds(c) =>
    /\ handle[c] \in Block
    /\ blockState[handle[c]] = "mailbox"
    /\ refCount[handle[c]] = Cardinality(HoldersOf(handle[c]))

PlacesAgree ==
  /\ \A c \in Creators : owns[c] => creatorAt[c] = "idle"
  /\ \A c \in Creators : answered[c] /\ creatorAt[c] = "sync" => allocStatus[c] # "unset"
  /\ \A c, d \in Creators :
       creatorAt[c] = "async" /\ answered[c] /\ Holds(d) /\ handle[c] = handle[d] => c = d

(* A block that was given out and has no mailbox yet belongs to one        *)
(* creator, who will construct it or have it constructed.                  *)
Awaits(c) ==
  /\ creatorAt[c] # "idle" /\ allocStatus[c] = "success"
  /\ creatorAt[c] = "async" => ~answered[c]
RawOwned ==
  /\ \A c \in Creators : Awaits(c) => handle[c] \in Block /\ blockState[handle[c]] = "raw"
  /\ \A c, d \in Creators : Awaits(c) /\ Awaits(d) /\ handle[c] = handle[d] => c = d

(* What the requests in the queue say of their senders and blocks.         *)
IsAlloc(i)    == requests[i].op = "alloc"
IsCallback(i) == requests[i].op = "callback"
IsFree(i)     == requests[i].op = "free"

AllocsPend ==
  \A i \in DOMAIN requests : IsAlloc(i) =>
    /\ creatorAt[requests[i].by] # "idle" /\ ~answered[requests[i].by]
    /\ allocStatus[requests[i].by] = "unset"
CallbacksPend ==
  \A i \in DOMAIN requests : IsCallback(i) =>
    /\ creatorAt[requests[i].by] = "async" /\ ~answered[requests[i].by]
    /\ allocStatus[requests[i].by] = "unset" =>
         \E j \in DOMAIN requests : j < i /\ IsAlloc(j) /\ requests[j].by = requests[i].by
FreesDue ==
  \A i \in DOMAIN requests : IsFree(i) =>
    /\ blockState[requests[i].block] = "mailbox"
    /\ \A c \in Creators : Holds(c) => handle[c] # requests[i].block
RequestsOnce ==
  \A i, j \in DOMAIN requests :
    \/ IsAlloc(i) /\ IsAlloc(j) /\ requests[i].by = requests[j].by
    \/ IsCallback(i) /\ IsCallback(j) /\ requests[i].by = requests[j].by
    \/ IsFree(i) /\ IsFree(j) /\ requests[i].block = requests[j].block
    => i = j

CrashCause ==
  factoryCrash = "callback" => allocStatus[Head(requests).by] = "no_ipc"

FactoryInv ==
  /\ FactoryTypes /\ PoolExact /\ HoldersCounted /\ PlacesAgree /\ RawOwned
  /\ AllocsPend /\ CallbacksPend /\ FreesDue /\ RequestsOnce /\ CrashCause
QueueInv == AllocsPend /\ CallbacksPend /\ FreesDue /\ RequestsOnce

(* A creator between its two requests has no answer yet, and its alloc     *)
(* request is in the queue until it is handled.                            *)
AllocQueued(c) == \E i \in DOMAIN requests : IsAlloc(i) /\ requests[i].by = c
AsksPend ==
  \A c \in Creators : creatorAt[c] = "asking" =>
    /\ ~answered[c]
    /\ allocStatus[c] = "unset" => AllocQueued(c)
----------------------------------------------------------------------------
(* Counting holders, and the shape of a request.                           *)
LEMMA HandleHoldersFinite ==
  ASSUME NEW b
  PROVE  IsFiniteSet(HoldersOf(b)) /\ Cardinality(HoldersOf(b)) \in Nat
  <1>1. HoldersOf(b) \in SUBSET Creators
    BY DEF HoldersOf
  <1> QED
    BY <1>1, FactoryAssumption, FS_Subset, FS_CardinalityType

LEMMA RequestShape ==
  ASSUME NEW r \in FactoryRequests
  PROVE  /\ r.op \in {"alloc", "callback", "free"}
         /\ r.op = "alloc" => r.by \in Creators /\ r.shared \in BOOLEAN
         /\ r.op = "callback" => r.by \in Creators
         /\ r.op = "free" => r.block \in Block
  BY DEF FactoryRequests

LEMMA RequestShapes ==
  ASSUME FactoryTypes, NEW i \in DOMAIN requests
  PROVE  /\ i \in 1 .. Len(requests) /\ requests[i] \in FactoryRequests
         /\ IsAlloc(i) \/ IsCallback(i) \/ IsFree(i)
         /\ IsAlloc(i) => requests[i].by \in Creators
         /\ IsCallback(i) => requests[i].by \in Creators
         /\ IsFree(i) => requests[i].block \in Block
  <1>1. i \in 1 .. Len(requests) /\ requests[i] \in FactoryRequests
    BY DEF FactoryTypes
  <1> QED
    BY <1>1, RequestShape DEF IsAlloc, IsCallback, IsFree

LEMMA TailOf ==
  ASSUME NEW S, NEW q \in Seq(S), q # <<>>
  PROVE  /\ 1 \in DOMAIN q /\ Head(q) = q[1] /\ Head(q) \in S
         /\ Len(q) \in Nat /\ DOMAIN q = 1 .. Len(q)
         /\ Tail(q) \in Seq(S)
         /\ Len(Tail(q)) = Len(q) - 1 /\ DOMAIN Tail(q) = 1 .. Len(q) - 1
         /\ \A i \in DOMAIN Tail(q) : i + 1 \in DOMAIN q /\ i + 1 # 1 /\ Tail(q)[i] = q[i + 1]
  OBVIOUS

LEMMA AppendTo ==
  ASSUME NEW S, NEW q \in Seq(S), NEW e \in S
  PROVE  /\ Append(q, e) \in Seq(S)
         /\ Len(q) \in Nat /\ DOMAIN q = 1 .. Len(q)
         /\ DOMAIN Append(q, e) = 1 .. Len(q) + 1
         /\ Append(q, e)[Len(q) + 1] = e
         /\ \A i \in DOMAIN q : i \in DOMAIN Append(q, e) /\ Append(q, e)[i] = q[i]
  OBVIOUS
----------------------------------------------------------------------------
LEMMA InitHolds == FactoryInit => FactoryInv
  <1> SUFFICES ASSUME FactoryInit PROVE FactoryInv
    OBVIOUS
  <1>1. FactoryTypes
    <2>1. PoolBlocks \in Nat /\ Block = 1 .. PoolBlocks
      BY FactoryAssumption DEF Block
    <2>2. [i \in Block |-> i] \in Seq(Block)
      BY <2>1
    <2> QED
      BY <2>2 DEF FactoryInit, FactoryTypes
  <1>2. PoolExact
    BY DEF FactoryInit, PoolExact
  <1>3. HoldersCounted /\ PlacesAgree /\ RawOwned
    BY DEF FactoryInit, HoldersCounted, PlacesAgree, RawOwned, Holds, Awaits
  <1>4. DOMAIN requests = {}
    BY DEF FactoryInit
  <1>5. AllocsPend /\ CallbacksPend /\ FreesDue /\ RequestsOnce
    BY <1>4 DEF AllocsPend, CallbacksPend, FreesDue, RequestsOnce
  <1>6. CrashCause
    BY DEF FactoryInit, CrashCause
  <1> QED
    BY <1>1, <1>2, <1>3, <1>5, <1>6 DEF FactoryInv
----------------------------------------------------------------------------
(* A creator that does not await an answer has no request in the queue.    *)
LEMMA NoRequestOf ==
  ASSUME QueueInv, NEW c \in Creators, creatorAt[c] = "idle" \/ answered[c],
         NEW i \in DOMAIN requests, IsAlloc(i) \/ IsCallback(i)
  PROVE  requests[i].by # c
  BY DEF QueueInv, AllocsPend, CallbacksPend

LEMMA CreateHolds ==
  ASSUME FactoryInv, NEW c \in Creators, NEW how \in {"sync", "asking"},
         NEW shared \in BOOLEAN, Create(c, how, shared)
  PROVE  FactoryInv'
  <1> DEFINE a == AllocRequest(c, shared)
             n == Len(requests)
  <1>1. QueueInv /\ FactoryTypes /\ creatorAt[c] = "idle" /\ ~owns[c]
    BY DEF FactoryInv, QueueInv, Create
  <1>2. /\ creatorAt' = [creatorAt EXCEPT ![c] = how]
        /\ answered' = [answered EXCEPT ![c] = FALSE]
        /\ allocStatus' = [allocStatus EXCEPT ![c] = "unset"]
        /\ requests' = Append(requests, a)
        /\ UNCHANGED <<freeBlocks, blockState, slotArrays, refCount, handle, owns, factoryCrash>>
        /\ factoryCrash = "none"
    BY DEF Create, blockVars
  <1>3. a \in FactoryRequests /\ a.op = "alloc" /\ a.by = c
    BY DEF AllocRequest, FactoryRequests
  <1> HIDE DEF a
  <1>4. /\ requests' \in Seq(FactoryRequests) /\ n \in Nat
        /\ DOMAIN requests = 1 .. n /\ DOMAIN requests' = 1 .. n + 1 /\ requests'[n + 1] = a
        /\ \A i \in DOMAIN requests : i \in DOMAIN requests' /\ requests'[i] = requests[i]
    BY <1>1, <1>2, <1>3, AppendTo DEF FactoryTypes
  <1> HIDE DEF n
  <1>5. FactoryTypes'
    <2>1. /\ creatorAt' \in [Creators -> {"idle", "sync", "async", "asking"}]
          /\ answered' \in [Creators -> BOOLEAN]
          /\ allocStatus' \in [Creators -> {"unset", "no_ipc", "success"}]
      BY <1>1, <1>2 DEF FactoryTypes
    <2>2. /\ freeBlocks' \in Seq(Block) /\ slotArrays' \subseteq Block
          /\ blockState' \in [Block -> {"free", "raw", "mailbox"}]
          /\ refCount' \in [Block -> Nat]
      BY <1>1, <1>2 DEF FactoryTypes
    <2>3. /\ handle' \in [Creators -> Block \cup {NoBlock}]
          /\ owns' \in [Creators -> BOOLEAN]
          /\ factoryCrash' \in {"none", "pool", "slots", "callback"}
      BY <1>1, <1>2 DEF FactoryTypes
    <2> QED
      BY <1>4, <2>1, <2>2, <2>3 DEF FactoryTypes
  <1>6. PoolExact' /\ CrashCause'
    <2>1. UNCHANGED <<freeBlocks, blockState, slotArrays>>
      BY <1>2
    <2>2. PoolExact'
      BY <2>1, ZenonT(60) DEF FactoryInv, PoolExact
    <2>3. CrashCause'
      BY <1>2 DEF CrashCause
    <2> QED
      BY <2>2, <2>3
  <1>7. \A d \in Creators : Holds(d)' = Holds(d)
    BY <1>1, <1>2 DEF Holds, FactoryTypes
  <1>8. \A b : HoldersOf(b)' = HoldersOf(b)
    BY <1>2, <1>7 DEF HoldersOf
  <1>9. HoldersCounted'
    BY <1>2, <1>7, <1>8 DEF FactoryInv, HoldersCounted
  <1>10. PlacesAgree'
    BY <1>1, <1>2, <1>7 DEF FactoryInv, PlacesAgree, FactoryTypes
  <1>11. \A d \in Creators : Awaits(d)' => Awaits(d)
    BY <1>1, <1>2 DEF Awaits, FactoryTypes
  <1>12. RawOwned'
    BY <1>2, <1>11 DEF FactoryInv, RawOwned
  <1>13. \A i \in DOMAIN requests' :
           \/ i \in DOMAIN requests /\ requests'[i] = requests[i]
           \/ i = n + 1 /\ requests'[i].op = "alloc" /\ requests'[i].by = c
    BY <1>3, <1>4
  <1>14. \A i \in DOMAIN requests : IsAlloc(i) \/ IsCallback(i) =>
           requests[i].by # c /\ requests[i].by \in Creators
    BY <1>1, NoRequestOf, RequestShapes
  <1>15. /\ creatorAt'[c] = how /\ ~answered'[c] /\ allocStatus'[c] = "unset"
         /\ \A d \in Creators : d # c => /\ creatorAt'[d] = creatorAt[d]
                                         /\ answered'[d] = answered[d]
                                         /\ allocStatus'[d] = allocStatus[d]
    BY <1>1, <1>2 DEF FactoryTypes
  <1>16. AllocsPend'
    BY <1>1, <1>13, <1>14, <1>15 DEF QueueInv, AllocsPend, IsAlloc
  <1>17. CallbacksPend'
    BY <1>1, <1>4, <1>13, <1>14, <1>15 DEF QueueInv, CallbacksPend, IsCallback, IsAlloc
  <1>18. FreesDue'
    BY <1>1, <1>2, <1>7, <1>13 DEF QueueInv, FreesDue, IsFree
  <1>19. RequestsOnce'
    <2> SUFFICES ASSUME NEW i \in DOMAIN requests', NEW j \in DOMAIN requests',
                        \/ IsAlloc(i)' /\ IsAlloc(j)' /\ requests'[i].by = requests'[j].by
                        \/ IsCallback(i)' /\ IsCallback(j)' /\ requests'[i].by = requests'[j].by
                        \/ IsFree(i)' /\ IsFree(j)' /\ requests'[i].block = requests'[j].block
                 PROVE  i = j
      BY DEF RequestsOnce
    <2>1. CASE i \in DOMAIN requests /\ j \in DOMAIN requests
      BY <1>1, <1>4, <2>1 DEF QueueInv, RequestsOnce, IsAlloc, IsCallback, IsFree
    <2>2. CASE i \notin DOMAIN requests \/ j \notin DOMAIN requests
      BY <1>13, <1>14, <2>2 DEF IsAlloc, IsCallback, IsFree
    <2> QED
      BY <2>1, <2>2
  <1> QED
    BY <1>4, <1>5, <1>6, <1>9, <1>10, <1>12, <1>16, <1>17, <1>18, <1>19 DEF FactoryInv

\* The second request of the asynchronous form: its alloc request is still in
\* front of it, or was answered.
LEMMA SendCallbackHolds ==
  ASSUME FactoryInv, AsksPend, NEW c \in Creators, SendCallback(c)
  PROVE  FactoryInv'
  <1> DEFINE k == CallbackRequest(c)
             n == Len(requests)
  <1>1. /\ FactoryTypes /\ PoolExact /\ HoldersCounted /\ PlacesAgree /\ RawOwned
        /\ AllocsPend /\ CallbacksPend /\ FreesDue /\ RequestsOnce /\ CrashCause
    BY DEF FactoryInv
  <1>2. /\ creatorAt[c] = "asking" /\ ~answered[c]
        /\ creatorAt' = [creatorAt EXCEPT ![c] = "async"]
        /\ requests' = Append(requests, k)
        /\ UNCHANGED <<freeBlocks, blockState, slotArrays, refCount, handle, owns, allocStatus,
                       answered, factoryCrash>>
        /\ factoryCrash = "none"
    BY DEF SendCallback, blockVars, AsksPend
  <1>3. k \in FactoryRequests /\ k.op = "callback" /\ k.by = c
    BY DEF CallbackRequest, FactoryRequests
  <1> HIDE DEF k
  <1>4. /\ requests' \in Seq(FactoryRequests) /\ n \in Nat
        /\ DOMAIN requests = 1 .. n /\ DOMAIN requests' = 1 .. n + 1 /\ requests'[n + 1] = k
        /\ \A i \in DOMAIN requests : i \in DOMAIN requests' /\ requests'[i] = requests[i]
    BY <1>1, <1>2, <1>3, AppendTo DEF FactoryTypes
  <1>5. allocStatus[c] = "unset" =>
          \E j \in DOMAIN requests : IsAlloc(j) /\ requests[j].by = c
    BY <1>2 DEF AsksPend, AllocQueued
  <1> HIDE DEF n
  <1>6. /\ creatorAt'[c] = "async"
        /\ \A d \in Creators : d # c => creatorAt'[d] = creatorAt[d]
    BY <1>1, <1>2 DEF FactoryTypes
  <1>7. /\ \A d \in Creators : Holds(d)' <=> Holds(d)
        /\ \A d \in Creators : Awaits(d)' <=> Awaits(d)
    <2>1. ASSUME NEW d \in Creators PROVE (Holds(d)' <=> Holds(d)) /\ (Awaits(d)' <=> Awaits(d))
      BY <1>2, <1>6 DEF Holds, Awaits
    <2> QED
      BY <2>1
  <1>8. FactoryTypes'
    BY <1>1, <1>2, <1>4 DEF FactoryTypes
  <1>9. PoolExact' /\ CrashCause'
    BY <1>1, <1>2, ZenonT(60) DEF PoolExact, CrashCause
  <1>10. \A b : HoldersOf(b)' = HoldersOf(b)
    BY <1>2, <1>7 DEF HoldersOf
  <1>11. HoldersCounted'
    BY <1>1, <1>2, <1>7, <1>10 DEF HoldersCounted
  <1>12. PlacesAgree'
    BY <1>1, <1>2, <1>6, <1>7 DEF PlacesAgree
  <1>13. RawOwned'
    BY <1>1, <1>2, <1>7 DEF RawOwned
  <1>14. \A i \in DOMAIN requests' :
           \/ i \in DOMAIN requests /\ requests'[i] = requests[i]
           \/ i = n + 1 /\ requests'[i].op = "callback" /\ requests'[i].by = c
    BY <1>3, <1>4
  <1>15. \A i \in DOMAIN requests : /\ IsAlloc(i) \/ IsCallback(i) => requests[i].by \in Creators
                                    /\ IsCallback(i) => requests[i].by # c
    BY <1>1, <1>2, RequestShapes DEF CallbacksPend
  <1>16. AllocsPend'
    BY <1>1, <1>2, <1>6, <1>14, <1>15 DEF AllocsPend, IsAlloc
  <1>17. CallbacksPend'
    <2> SUFFICES ASSUME NEW i \in DOMAIN requests', requests'[i].op = "callback"
                 PROVE  /\ creatorAt'[requests'[i].by] = "async" /\ ~answered'[requests'[i].by]
                        /\ allocStatus'[requests'[i].by] = "unset" =>
                             \E j \in DOMAIN requests' : /\ j < i /\ requests'[j].op = "alloc"
                                                         /\ requests'[j].by = requests'[i].by
      BY DEF CallbacksPend, IsCallback, IsAlloc
    <2>1. CASE i \in DOMAIN requests
      <3>1. requests'[i] = requests[i] /\ requests[i].by # c /\ requests[i].by \in Creators
        BY <2>1, <1>4, <1>15 DEF IsCallback
      <3>2. /\ creatorAt[requests[i].by] = "async" /\ ~answered[requests[i].by]
            /\ allocStatus[requests[i].by] = "unset" =>
                 \E j \in DOMAIN requests : /\ j < i /\ requests[j].op = "alloc"
                                            /\ requests[j].by = requests[i].by
        BY <1>1, <2>1, <3>1 DEF CallbacksPend, IsCallback, IsAlloc
      <3> QED
        BY <1>2, <1>4, <1>6, <3>1, <3>2
    <2>2. CASE i \notin DOMAIN requests
      <3>1. i = n + 1 /\ requests'[i].by = c
        BY <2>2, <1>14
      <3>2. \A j \in DOMAIN requests : j < i
        BY <1>4, <3>1
      <3> QED
        BY <1>2, <1>4, <1>5, <1>6, <3>1, <3>2 DEF IsAlloc
    <2> QED
      BY <2>1, <2>2
  <1>18. FreesDue'
    BY <1>1, <1>2, <1>7, <1>14 DEF FreesDue, IsFree
  <1>19. RequestsOnce'
    <2> SUFFICES ASSUME NEW i \in DOMAIN requests', NEW j \in DOMAIN requests',
                        \/ IsAlloc(i)' /\ IsAlloc(j)' /\ requests'[i].by = requests'[j].by
                        \/ IsCallback(i)' /\ IsCallback(j)' /\ requests'[i].by = requests'[j].by
                        \/ IsFree(i)' /\ IsFree(j)' /\ requests'[i].block = requests'[j].block
                 PROVE  i = j
      BY DEF RequestsOnce
    <2>1. CASE i \in DOMAIN requests /\ j \in DOMAIN requests
      BY <1>1, <1>4, <2>1 DEF RequestsOnce, IsAlloc, IsCallback, IsFree
    <2>2. CASE i \notin DOMAIN requests \/ j \notin DOMAIN requests
      BY <1>14, <1>15, <2>2 DEF IsAlloc, IsCallback, IsFree
    <2> QED
      BY <2>1, <2>2
  <1> QED
    BY <1>8, <1>9, <1>11, <1>12, <1>13, <1>16, <1>17, <1>18, <1>19 DEF FactoryInv
----------------------------------------------------------------------------
(* A step of a creator without requests, which sends none.                 *)
LEMMA SameQueue ==
  ASSUME FactoryTypes, QueueInv, NEW c \in Creators, creatorAt[c] = "idle" \/ answered[c],
         requests' = requests,
         \A d \in Creators \ {c} : /\ creatorAt'[d] = creatorAt[d] /\ answered'[d] = answered[d]
                                   /\ allocStatus'[d] = allocStatus[d]
  PROVE  AllocsPend' /\ CallbacksPend' /\ RequestsOnce'
  <1>1. \A i \in DOMAIN requests : IsAlloc(i) \/ IsCallback(i) =>
          requests[i].by \in Creators \ {c}
    BY NoRequestOf, RequestShapes
  <1>2. \A i : /\ IsAlloc(i)' = IsAlloc(i) /\ IsCallback(i)' = IsCallback(i)
               /\ IsFree(i)' = IsFree(i)
    BY DEF IsAlloc, IsCallback, IsFree
  <1>3. AllocsPend'
    BY <1>1, <1>2 DEF QueueInv, AllocsPend
  <1>4. CallbacksPend'
    BY <1>1, <1>2 DEF QueueInv, CallbacksPend
  <1>5. RequestsOnce'
    BY <1>2 DEF QueueInv, RequestsOnce
  <1> QED
    BY <1>3, <1>4, <1>5

(* A block whose mailbox is constructed gets its first holder.             *)
LEMMA FirstHolder ==
  ASSUME FactoryTypes, HoldersCounted, RawOwned, FreesDue,
         NEW c \in Creators, Awaits(c), Construct(handle[c]), handle' = handle,
         \A d \in Creators \ {c} : Holds(d)' = Holds(d), Holds(c)'
  PROVE  /\ HoldersCounted'
         /\ ~Holds(c)
         /\ \A d \in Creators : Holds(d) => handle[d] # handle[c]
  <1> DEFINE b == handle[c]
  <1>1. b \in Block /\ blockState[b] = "raw"
    BY DEF RawOwned
  <1>2. \A d \in Creators : Holds(d) => handle[d] # b /\ handle[d] \in Block
    BY <1>1 DEF HoldersCounted
  <1>3. ~Holds(c)
    BY <1>2
  <1>4. /\ blockState'[b] = "mailbox" /\ refCount'[b] = 1
        /\ \A e \in Block \ {b} : blockState'[e] = blockState[e] /\ refCount'[e] = refCount[e]
    BY <1>1 DEF Construct, FactoryTypes
  <1>5. HoldersOf(b)' = {c}
    BY <1>2, <1>3 DEF HoldersOf
  <1>6. Cardinality(HoldersOf(b)') = 1
    BY <1>5, FS_Singleton
  <1>7. \A e \in Block \ {b} : HoldersOf(e)' = HoldersOf(e)
    BY <1>3 DEF HoldersOf
  <1>8. ASSUME NEW d \in Creators, Holds(d)'
        PROVE  /\ handle'[d] \in Block /\ blockState'[handle'[d]] = "mailbox"
               /\ refCount'[handle'[d]] = Cardinality(HoldersOf(handle[d]))'
    <2>1. CASE d = c
      BY <1>1, <1>4, <1>6, <2>1
    <2>2. CASE d # c
      <3>1. Holds(d) /\ handle[d] # b /\ handle[d] \in Block
        BY <1>2, <1>8, <2>2
      <3>2. /\ blockState[handle[d]] = "mailbox"
            /\ refCount[handle[d]] = Cardinality(HoldersOf(handle[d]))
        BY <3>1 DEF HoldersCounted
      <3> QED
        BY <1>4, <1>7, <3>1, <3>2
    <2> QED
      BY <2>1, <2>2
  <1>9. HoldersCounted'
    BY <1>8 DEF HoldersCounted
  <1> QED
    BY <1>2, <1>3, <1>9

LEMMA CreateReturnsHolds ==
  ASSUME FactoryInv, NEW c \in Creators, CreateReturns(c)
  PROVE  FactoryInv'
  <1>1. /\ FactoryTypes /\ PoolExact /\ HoldersCounted /\ PlacesAgree /\ RawOwned
        /\ QueueInv /\ FreesDue /\ CrashCause
    BY DEF FactoryInv, QueueInv
  <1>2. /\ creatorAt[c] = "sync" /\ answered[c] /\ ~owns[c] /\ factoryCrash = "none"
        /\ creatorAt' = [creatorAt EXCEPT ![c] = "idle"]
        /\ UNCHANGED <<requests, freeBlocks, slotArrays, handle, allocStatus, answered, factoryCrash>>
    BY <1>1 DEF CreateReturns, PlacesAgree
  <1>3. /\ creatorAt'[c] = "idle"
        /\ \A d \in Creators \ {c} : creatorAt'[d] = creatorAt[d]
    BY <1>1, <1>2 DEF FactoryTypes
  <1>4. AllocsPend' /\ CallbacksPend' /\ RequestsOnce' /\ CrashCause'
    BY <1>1, <1>2, <1>3, SameQueue DEF CrashCause
  <1>5. \A i : IsFree(i)' = IsFree(i)
    BY <1>2 DEF IsFree
  <1>6. CASE allocStatus[c] = "success"
    <2>1. Construct(handle[c]) /\ owns' = [owns EXCEPT ![c] = TRUE]
      BY <1>6 DEF CreateReturns
    <2>2. Awaits(c)
      BY <1>2, <1>6 DEF Awaits
    <2>3. Holds(c)' /\ \A d \in Creators \ {c} : Holds(d)' = Holds(d)
      BY <1>1, <1>2, <1>3, <2>1 DEF Holds, FactoryTypes
    <2>4. /\ HoldersCounted' /\ ~Holds(c)
          /\ \A d \in Creators : Holds(d) => handle[d] # handle[c]
      BY <1>1, <1>2, <2>1, <2>2, <2>3, FirstHolder
    <2>5. handle[c] \in Block /\ blockState[handle[c]] = "raw"
      BY <1>1, <2>2 DEF RawOwned
    <2>6. FactoryTypes'
      BY <1>1, <1>2, <2>1, <2>5 DEF FactoryTypes, Construct
    <2>7. /\ blockState'[handle[c]] = "mailbox"
          /\ \A e \in Block \ {handle[c]} : blockState'[e] = blockState[e]
      BY <1>1, <2>1, <2>5 DEF FactoryTypes, Construct
    <2>8. \A e \in Block : (blockState'[e] = "free") = (blockState[e] = "free")
      BY <2>5, <2>7
    <2>9. PoolExact'
      BY <1>1, <1>2, <2>8, ZenonT(60) DEF PoolExact
    <2>10. PlacesAgree'
      <3>1. owns'[c] /\ \A d \in Creators \ {c} : owns'[d] = owns[d]
        BY <1>1, <2>1 DEF FactoryTypes
      <3>2. \A d \in Creators : owns'[d] => creatorAt'[d] = "idle"
        BY <1>1, <1>3, <3>1 DEF PlacesAgree
      <3>3. \A d \in Creators : answered'[d] /\ creatorAt'[d] = "sync" => allocStatus'[d] # "unset"
        BY <1>1, <1>2, <1>3 DEF PlacesAgree
      <3>4. ASSUME NEW d \in Creators, NEW e \in Creators, creatorAt'[d] = "async", answered'[d],
                   Holds(e)', handle'[d] = handle'[e]
            PROVE  d = e
        <4>1. d # c /\ creatorAt[d] = "async" /\ answered[d] /\ handle[d] = handle[e]
          BY <1>2, <1>3, <3>4
        <4>2. Holds(d)
          BY <4>1 DEF Holds
        <4>3. e # c
          BY <4>1, <4>2, <2>4
        <4>4. Holds(e)
          BY <4>3, <3>4, <2>3
        <4> QED
          BY <1>1, <4>1, <4>4 DEF PlacesAgree
      <3> QED
        BY <3>2, <3>3, <3>4 DEF PlacesAgree
    <2>11. \A d \in Creators : Awaits(d)' => Awaits(d) /\ d # c
      BY <1>2, <1>3 DEF Awaits
    <2>12. RawOwned'
      BY <1>1, <1>2, <2>2, <2>7, <2>11 DEF RawOwned
    <2>13. FreesDue'
      <3>1. \A i \in DOMAIN requests : IsFree(i) =>
              requests[i].block \in Block \ {handle[c]}
        BY <1>1, <2>5, RequestShapes DEF FreesDue
      <3> QED
        BY <1>1, <1>2, <1>5, <2>3, <2>7, <3>1 DEF FreesDue
    <2> QED
      BY <1>4, <2>4, <2>6, <2>9, <2>10, <2>12, <2>13 DEF FactoryInv
  <1>7. CASE allocStatus[c] # "success"
    <2>1. UNCHANGED <<blockState, refCount, owns>>
      BY <1>7 DEF CreateReturns
    <2>2. FactoryTypes' /\ PoolExact'
      <3>1. FactoryTypes'
        BY <1>1, <1>2, <2>1 DEF FactoryTypes
      <3>2. PoolExact'
        BY <1>1, <1>2, <2>1 DEF PoolExact
      <3> QED
        BY <3>1, <3>2
    <2>3. \A d \in Creators : Holds(d)' = Holds(d)
      BY <1>1, <1>2, <1>3, <2>1 DEF Holds, FactoryTypes
    <2>4. \A b : HoldersOf(b)' = HoldersOf(b)
      BY <1>2, <2>3 DEF HoldersOf
    <2>5. HoldersCounted' /\ PlacesAgree'
      BY <1>1, <1>2, <1>3, <2>1, <2>3, <2>4 DEF HoldersCounted, PlacesAgree, FactoryTypes
    <2>6. \A d \in Creators : Awaits(d)' => Awaits(d)
      BY <1>2, <1>3 DEF Awaits
    <2>7. RawOwned' /\ FreesDue'
      BY <1>1, <1>2, <1>5, <2>1, <2>3, <2>6 DEF RawOwned, FreesDue
    <2> QED
      BY <1>4, <2>2, <2>5, <2>7 DEF FactoryInv
  <1> QED
    BY <1>6, <1>7

LEMMA AwaitCallbackHolds ==
  ASSUME FactoryInv, NEW c \in Creators, AwaitCallback(c)
  PROVE  FactoryInv'
  <1>1. /\ FactoryTypes /\ PoolExact /\ HoldersCounted /\ PlacesAgree /\ RawOwned
        /\ QueueInv /\ FreesDue /\ CrashCause
    BY DEF FactoryInv, QueueInv
  <1>2. /\ creatorAt[c] = "async" /\ answered[c] /\ factoryCrash = "none"
        /\ creatorAt' = [creatorAt EXCEPT ![c] = "idle"]
        /\ owns' = [owns EXCEPT ![c] = TRUE]
        /\ UNCHANGED <<requests, freeBlocks, blockState, slotArrays, refCount, handle,
                       allocStatus, answered, factoryCrash>>
    BY DEF AwaitCallback, blockVars
  <1>3. /\ creatorAt'[c] = "idle" /\ owns'[c]
        /\ \A d \in Creators \ {c} : creatorAt'[d] = creatorAt[d] /\ owns'[d] = owns[d]
    BY <1>1, <1>2 DEF FactoryTypes
  <1>4. AllocsPend' /\ CallbacksPend' /\ RequestsOnce' /\ CrashCause'
    BY <1>1, <1>2, <1>3, SameQueue DEF CrashCause
  <1>5. \A i : IsFree(i)' = IsFree(i)
    BY <1>2 DEF IsFree
  <1>6. FactoryTypes' /\ PoolExact'
    <2>1. FactoryTypes'
      BY <1>1, <1>2 DEF FactoryTypes
    <2>2. PoolExact'
      BY <1>1, <1>2 DEF PoolExact
    <2> QED
      BY <2>1, <2>2
  <1>7. \A d \in Creators : Holds(d)' <=> Holds(d)
    BY <1>2, <1>3 DEF Holds
  <1>8. \A b : HoldersOf(b)' = HoldersOf(b)
    BY <1>2, <1>7 DEF HoldersOf
  <1>9. HoldersCounted'
    BY <1>1, <1>2, <1>7, <1>8 DEF HoldersCounted
  <1>10. PlacesAgree'
    BY <1>1, <1>2, <1>3, <1>7 DEF PlacesAgree
  <1>11. \A d \in Creators : Awaits(d)' => Awaits(d)
    BY <1>2, <1>3 DEF Awaits
  <1>12. RawOwned' /\ FreesDue'
    BY <1>1, <1>2, <1>5, <1>7, <1>11 DEF RawOwned, FreesDue
  <1> QED
    BY <1>4, <1>6, <1>9, <1>10, <1>12 DEF FactoryInv

LEMMA CopyHolds ==
  ASSUME FactoryInv, NEW c \in Creators, NEW d \in Creators \ {c}, CopyMailbox(c, d)
  PROVE  FactoryInv'
  <1> SUFFICES ASSUME NEW b, b = handle[c] PROVE FactoryInv'
    OBVIOUS
  <1>1. /\ FactoryTypes /\ PoolExact /\ HoldersCounted /\ PlacesAgree /\ RawOwned
        /\ QueueInv /\ FreesDue /\ CrashCause
    BY DEF FactoryInv, QueueInv
  <1>2. /\ owns[c] /\ ~owns[d] /\ creatorAt[d] = "idle" /\ factoryCrash = "none"
        /\ refCount' = [refCount EXCEPT ![b] = @ + 1]
        /\ handle' = [handle EXCEPT ![d] = b]
        /\ owns' = [owns EXCEPT ![d] = TRUE]
        /\ UNCHANGED <<requests, freeBlocks, blockState, slotArrays, creatorAt, allocStatus,
                       answered, factoryCrash>>
    BY DEF CopyMailbox, blockVars
  <1>3. Holds(c) /\ ~Holds(d)
    BY <1>2 DEF Holds
  <1>4. b \in Block /\ blockState[b] = "mailbox" /\ refCount[b] = Cardinality(HoldersOf(b))
    BY <1>1, <1>3 DEF HoldersCounted
  <1>5. /\ owns'[d] /\ handle'[d] = b
        /\ \A e \in Creators \ {d} : handle'[e] = handle[e] /\ owns'[e] = owns[e]
    BY <1>1, <1>2 DEF FactoryTypes
  <1>6. refCount'[b] = refCount[b] + 1 /\ \A e \in Block \ {b} : refCount'[e] = refCount[e]
    BY <1>1, <1>2, <1>4 DEF FactoryTypes
  <1>7. Holds(d)' /\ \A e \in Creators \ {d} : Holds(e)' <=> Holds(e)
    BY <1>2, <1>5 DEF Holds
  <1>8. Cardinality(HoldersOf(b))' = Cardinality(HoldersOf(b)) + 1
    <2>1. d \notin HoldersOf(b) /\ HoldersOf(b)' = HoldersOf(b) \cup {d}
      BY <1>3, <1>5, <1>7 DEF HoldersOf
    <2> QED
      BY <2>1, HandleHoldersFinite, FS_AddElement
  <1>9. \A e \in Block \ {b} : HoldersOf(e)' = HoldersOf(e)
    BY <1>3, <1>5, <1>7 DEF HoldersOf
  <1>10. FactoryTypes'
    BY <1>1, <1>2, <1>4 DEF FactoryTypes
  <1>11. PoolExact' /\ CrashCause'
    BY <1>1, <1>2, ZenonT(60) DEF PoolExact, CrashCause
  <1>12. ASSUME NEW e \in Creators, Holds(e)'
         PROVE  /\ handle'[e] \in Block /\ blockState'[handle'[e]] = "mailbox"
                /\ refCount'[handle'[e]] = Cardinality(HoldersOf(handle[e]))'
    <2> SUFFICES ASSUME NEW h, h = handle'[e]
                 PROVE  /\ h \in Block /\ blockState'[h] = "mailbox"
                        /\ refCount'[h] = Cardinality(HoldersOf(h))'
      OBVIOUS
    <2>1. CASE h = b
      BY <1>2, <1>4, <1>6, <1>8, <2>1
    <2>2. CASE h # b
      <3>1. e # d /\ Holds(e) /\ h = handle[e]
        BY <1>5, <1>7, <1>12, <2>2
      <3>2. h \in Block /\ blockState[h] = "mailbox" /\ refCount[h] = Cardinality(HoldersOf(h))
        BY <1>1, <3>1 DEF HoldersCounted
      <3> QED
        BY <1>2, <1>6, <1>9, <2>2, <3>2
    <2> QED
      BY <2>1, <2>2
  <1>13. HoldersCounted'
    BY <1>12 DEF HoldersCounted
  <1>14. PlacesAgree'
    <2>1. \A e \in Creators : owns'[e] => creatorAt'[e] = "idle"
      BY <1>1, <1>2, <1>5 DEF PlacesAgree
    <2>2. \A e \in Creators : answered'[e] /\ creatorAt'[e] = "sync" => allocStatus'[e] # "unset"
      BY <1>1, <1>2 DEF PlacesAgree
    <2>3. ASSUME NEW e \in Creators, NEW f \in Creators, creatorAt'[e] = "async", answered'[e],
                 Holds(f)', handle'[e] = handle'[f]
          PROVE  e = f
      <3>1. e # d /\ creatorAt[e] = "async" /\ answered[e] /\ handle'[e] = handle[e]
        BY <1>2, <1>5, <2>3
      <3>2. f # d
        \* otherwise e would hold the mailbox that c holds, and c is idle
        <4>1. handle[e] = handle[c] => e = c
          BY <1>1, <1>3, <3>1 DEF PlacesAgree
        <4>2. e # c
          BY <1>1, <1>2, <3>1 DEF PlacesAgree
        <4> QED
          BY <1>5, <2>3, <3>1, <4>1, <4>2 
      <3> QED
        BY <1>1, <1>5, <1>7, <2>3, <3>1, <3>2 DEF PlacesAgree
    <2> QED
      BY <2>1, <2>2, <2>3 DEF PlacesAgree
  <1>15. \A e \in Creators : Awaits(e)' => Awaits(e) /\ e # d
    BY <1>2 DEF Awaits
  <1>16. RawOwned'
    BY <1>1, <1>2, <1>5, <1>15 DEF RawOwned
  <1>17. AllocsPend' /\ CallbacksPend' /\ RequestsOnce'
    BY <1>1, <1>2, SameQueue
  <1>18. FreesDue'
    <2>1. \A i : IsFree(i)' = IsFree(i)
      BY <1>2 DEF IsFree
    <2> QED
      BY <1>1, <1>2, <1>3, <1>5, <1>7, <2>1 DEF FreesDue
  <1> QED
    BY <1>10, <1>11, <1>13, <1>14, <1>16, <1>17, <1>18 DEF FactoryInv

LEMMA CloseHolds ==
  ASSUME FactoryInv, NEW c \in Creators, CloseMailbox(c)
  PROVE  FactoryInv'
  <1> SUFFICES ASSUME NEW b, b = handle[c] PROVE FactoryInv'
    OBVIOUS
  <1> DEFINE last == LastReference(b)
             free == FreeRequest(b)
  <1>1. /\ FactoryTypes /\ PoolExact /\ HoldersCounted /\ PlacesAgree /\ RawOwned
        /\ QueueInv /\ AllocsPend /\ CallbacksPend /\ FreesDue /\ RequestsOnce /\ CrashCause
    BY DEF FactoryInv, QueueInv
  <1>2. /\ owns[c] /\ factoryCrash = "none"
        /\ refCount' = [refCount EXCEPT ![b] = @ - 1]
        /\ owns' = [owns EXCEPT ![c] = FALSE]
        /\ requests' = IF last THEN Append(requests, free) ELSE requests
        /\ UNCHANGED <<freeBlocks, blockState, slotArrays, handle, creatorAt, allocStatus,
                       answered, factoryCrash>>
    BY DEF CloseMailbox, blockVars
  <1>3. Holds(c) /\ creatorAt[c] = "idle"
    BY <1>1, <1>2 DEF Holds, PlacesAgree
  <1>4. b \in Block /\ blockState[b] = "mailbox" /\ refCount[b] = Cardinality(HoldersOf(b))
    BY <1>1, <1>3 DEF HoldersCounted
  <1>5. ~owns'[c] /\ \A e \in Creators \ {c} : owns'[e] = owns[e]
    BY <1>1, <1>2 DEF FactoryTypes
  <1>6. refCount'[b] = refCount[b] - 1 /\ \A e \in Block \ {b} : refCount'[e] = refCount[e]
    BY <1>1, <1>2, <1>4 DEF FactoryTypes
  <1>7. ~Holds(c)' /\ \A e \in Creators \ {c} : Holds(e)' <=> Holds(e)
    BY <1>2, <1>3, <1>5 DEF Holds
  <1>8. c \in HoldersOf(b) /\ HoldersOf(b)' = HoldersOf(b) \ {c}
    BY <1>2, <1>3, <1>7 DEF HoldersOf
  <1>9. /\ Cardinality(HoldersOf(b))' = Cardinality(HoldersOf(b)) - 1
        /\ Cardinality(HoldersOf(b)) # 0 /\ refCount[b] - 1 \in Nat
    <2>1. Cardinality(HoldersOf(b)) # 0
      BY <1>8, HandleHoldersFinite, FS_EmptySet
    <2>2. Cardinality(HoldersOf(b) \ {c}) = Cardinality(HoldersOf(b)) - 1
      BY <1>8, HandleHoldersFinite, FS_RemoveElement
    <2>3. Cardinality(HoldersOf(b)) \in Nat
      BY HandleHoldersFinite
    <2> QED
      BY <1>4, <1>8, <2>1, <2>2, <2>3
  <1>10. \A e \in Block \ {b} : HoldersOf(e)' = HoldersOf(e)
    BY <1>2, <1>3, <1>7 DEF HoldersOf
  <1>11. free \in FactoryRequests /\ free.op = "free" /\ free.block = b
    BY <1>4 DEF FreeRequest, FactoryRequests
  <1> HIDE DEF free
  <1>12. FactoryTypes'
    <2>1. requests' \in Seq(FactoryRequests)
      BY <1>1, <1>2, <1>11, AppendTo DEF FactoryTypes
    <2>2. refCount' \in [Block -> Nat]
      BY <1>1, <1>2, <1>4, <1>9 DEF FactoryTypes
    <2> QED
      BY <1>1, <1>2, <2>1, <2>2 DEF FactoryTypes
  <1>13. PoolExact' /\ CrashCause'
    BY <1>1, <1>2 DEF PoolExact, CrashCause
  <1>14. HoldersCounted'
    <2>1. ASSUME NEW e \in Creators, Holds(e)'
          PROVE  /\ handle'[e] \in Block /\ blockState'[handle'[e]] = "mailbox"
                 /\ refCount'[handle'[e]] = Cardinality(HoldersOf(handle[e]))'
      <3> SUFFICES ASSUME NEW h, h = handle'[e]
                   PROVE  /\ h \in Block /\ blockState'[h] = "mailbox"
                          /\ refCount'[h] = Cardinality(HoldersOf(h))'
        OBVIOUS
      <3>1. h = handle[e] /\ Holds(e)
        BY <1>2, <1>7, <2>1
      <3>2. h \in Block /\ blockState[h] = "mailbox" /\ refCount[h] = Cardinality(HoldersOf(h))
        BY <1>1, <3>1 DEF HoldersCounted
      <3>3. CASE h = b
        BY <1>2, <1>4, <1>6, <1>9, <3>2, <3>3
      <3>4. CASE h # b
        BY <1>2, <1>6, <1>10, <3>2, <3>4
      <3> QED
        BY <3>3, <3>4
    <2> QED
      BY <2>1 DEF HoldersCounted
  <1>15. PlacesAgree'
    BY <1>1, <1>2, <1>5, <1>7 DEF PlacesAgree
  <1>16. \A e \in Creators : Awaits(e)' <=> Awaits(e)
    BY <1>2 DEF Awaits
  <1>17. RawOwned'
    BY <1>1, <1>2, <1>16 DEF RawOwned
  <1>18. CASE ~last
    <2>1. requests' = requests
      BY <1>2, <1>18
    <2>2. AllocsPend' /\ CallbacksPend' /\ RequestsOnce'
      BY <1>1, <1>2, <1>3, <2>1, SameQueue
    <2>3. FreesDue'
      BY <1>1, <1>2, <1>5, <1>7, <2>1 DEF FreesDue, IsFree
    <2> QED
      BY <1>12, <1>13, <1>14, <1>15, <1>17, <2>2, <2>3 DEF FactoryInv
  <1>19. CASE last
    <2>1. \A e \in Creators : Holds(e)' => handle'[e] # b
      <3>1. Cardinality(HoldersOf(b)) = 1
        BY <1>4, <1>19 DEF LastReference
      <3>2. \E x : HoldersOf(b) = {x}
        BY <3>1, HandleHoldersFinite, FS_Singleton
      <3>3. HoldersOf(b) = {c}
        BY <1>8, <3>2
      <3> QED
        BY <1>2, <1>7, <3>3 DEF HoldersOf
    <2> DEFINE n == Len(requests)
    <2>2. /\ n \in Nat /\ DOMAIN requests = 1 .. n /\ DOMAIN requests' = 1 .. n + 1
          /\ requests'[n + 1] = free
          /\ \A i \in DOMAIN requests : i \in DOMAIN requests' /\ requests'[i] = requests[i]
      BY <1>1, <1>2, <1>11, <1>19, AppendTo DEF FactoryTypes
    <2> HIDE DEF n
    <2>3. \A i \in DOMAIN requests' :
            \/ i \in DOMAIN requests /\ requests'[i] = requests[i]
            \/ i = n + 1 /\ requests'[i].op = "free" /\ requests'[i].block = b
      BY <1>11, <2>2
    <2>4. AllocsPend'
      BY <1>1, <1>2, <2>3 DEF AllocsPend, IsAlloc
    <2>5. CallbacksPend'
      BY <1>1, <1>2, <2>2, <2>3 DEF CallbacksPend, IsCallback, IsAlloc
    <2>6. \A i \in DOMAIN requests : IsFree(i) => requests[i].block # b
      BY <1>1, <1>3 DEF FreesDue
    <2>7. FreesDue'
      <3>1. \A i \in DOMAIN requests : IsFree(i) =>
              /\ blockState'[requests[i].block] = "mailbox"
              /\ \A e \in Creators : Holds(e)' => handle'[e] # requests[i].block
        BY <1>1, <1>2, <1>7 DEF FreesDue
      <3>2. blockState'[b] = "mailbox"
        BY <1>2, <1>4
      <3> QED
        BY <2>1, <2>3, <3>1, <3>2 DEF FreesDue, IsFree
    <2>8. RequestsOnce'
      <3> SUFFICES ASSUME NEW i \in DOMAIN requests', NEW j \in DOMAIN requests',
                          \/ IsAlloc(i)' /\ IsAlloc(j)' /\ requests'[i].by = requests'[j].by
                          \/ IsCallback(i)' /\ IsCallback(j)' /\ requests'[i].by = requests'[j].by
                          \/ IsFree(i)' /\ IsFree(j)' /\ requests'[i].block = requests'[j].block
                   PROVE  i = j
        BY DEF RequestsOnce
      <3>1. CASE i \in DOMAIN requests /\ j \in DOMAIN requests
        BY <1>1, <2>2, <3>1 DEF RequestsOnce, IsAlloc, IsCallback, IsFree
      <3>2. CASE i \notin DOMAIN requests \/ j \notin DOMAIN requests
        BY <2>3, <2>6, <3>2 DEF IsAlloc, IsCallback, IsFree
      <3> QED
        BY <3>1, <3>2
    <2> QED
      BY <1>12, <1>13, <1>14, <1>15, <1>17, <2>4, <2>5, <2>7, <2>8 DEF FactoryInv
  <1> QED
    BY <1>18, <1>19
----------------------------------------------------------------------------
(* The mailbox thread takes the request in front.                          *)
LEMMA TailQueue ==
  ASSUME FactoryTypes, QueueInv, requests # <<>>, requests' = Tail(requests),
         \A i \in DOMAIN requests : i # 1 /\ (IsAlloc(i) \/ IsCallback(i)) =>
           LET d == requests[i].by
           IN  /\ creatorAt'[d] = creatorAt[d] /\ (answered'[d] => answered[d])
               /\ allocStatus'[d] = allocStatus[d]
                    \/ (IsCallback(i) /\ allocStatus'[d] # "unset"),
         \A i \in DOMAIN requests : i # 1 /\ IsCallback(i) /\ IsAlloc(1)
           /\ requests[i].by = requests[1].by => allocStatus'[requests[i].by] # "unset"
  PROVE  AllocsPend' /\ CallbacksPend' /\ RequestsOnce'
  <1>1. /\ 1 \in DOMAIN requests /\ Len(requests) \in Nat
        /\ DOMAIN requests = 1 .. Len(requests) /\ DOMAIN requests' = 1 .. Len(requests) - 1
        /\ \A i \in DOMAIN requests' : /\ i + 1 \in DOMAIN requests /\ i + 1 # 1
                                       /\ requests'[i] = requests[i + 1]
    BY TailOf DEF FactoryTypes
  <1>2. \A i \in DOMAIN requests' : /\ IsAlloc(i)' = IsAlloc(i + 1)
                                   /\ IsCallback(i)' = IsCallback(i + 1)
                                   /\ IsFree(i)' = IsFree(i + 1)
    BY <1>1 DEF IsAlloc, IsCallback, IsFree
  <1>3. \A i \in DOMAIN requests : ~(IsAlloc(i) /\ IsCallback(i))
    BY DEF IsAlloc, IsCallback
  <1>4. AllocsPend'
    <2> SUFFICES ASSUME NEW i \in DOMAIN requests', IsAlloc(i)'
                 PROVE  /\ creatorAt'[requests'[i].by] # "idle" /\ ~answered'[requests'[i].by]
                        /\ allocStatus'[requests'[i].by] = "unset"
      BY DEF AllocsPend
    <2> QED
      BY <1>1, <1>2, <1>3 DEF QueueInv, AllocsPend
  <1>5. CallbacksPend'
    <2> SUFFICES ASSUME NEW i \in DOMAIN requests', IsCallback(i)'
                 PROVE  /\ creatorAt'[requests'[i].by] = "async" /\ ~answered'[requests'[i].by]
                        /\ allocStatus'[requests'[i].by] = "unset" =>
                             \E j \in DOMAIN requests' :
                               j < i /\ IsAlloc(j)' /\ requests'[j].by = requests'[i].by
      BY DEF CallbacksPend
    <2> SUFFICES ASSUME NEW d, d = requests'[i].by
                 PROVE  /\ creatorAt'[d] = "async" /\ ~answered'[d]
                        /\ allocStatus'[d] = "unset" =>
                             \E j \in DOMAIN requests' :
                               j < i /\ IsAlloc(j)' /\ requests'[j].by = d
      OBVIOUS
    <2>1. i + 1 \in DOMAIN requests /\ i + 1 # 1 /\ IsCallback(i + 1) /\ d = requests[i + 1].by
      BY <1>1, <1>2
    <2>2. /\ creatorAt[d] = "async" /\ ~answered[d]
          /\ allocStatus[d] = "unset" =>
               \E j \in DOMAIN requests : j < i + 1 /\ IsAlloc(j) /\ requests[j].by = d
      BY <2>1 DEF QueueInv, CallbacksPend
    <2>3. creatorAt'[d] = "async" /\ ~answered'[d]
      BY <2>1, <2>2
    <2>4. ASSUME allocStatus'[d] = "unset"
          PROVE  \E j \in DOMAIN requests' : j < i /\ IsAlloc(j)' /\ requests'[j].by = d
      <3>1. allocStatus[d] = "unset" /\ ~(IsAlloc(1) /\ requests[1].by = d)
        BY <2>1, <2>4
      <3>2. PICK j \in DOMAIN requests : j < i + 1 /\ IsAlloc(j) /\ requests[j].by = d
        BY <2>2, <3>1
      <3>3. j # 1
        BY <3>1, <3>2
      <3>4. j - 1 \in DOMAIN requests' /\ j - 1 < i /\ j - 1 + 1 = j
        BY <1>1, <3>2, <3>3
      <3>5. IsAlloc(j - 1)' /\ requests'[j - 1].by = d
        BY <1>1, <1>2, <3>2, <3>4
      <3> QED
        BY <3>4, <3>5
    <2> QED
      BY <2>3, <2>4
  <1>6. RequestsOnce'
    <2> SUFFICES ASSUME NEW i \in DOMAIN requests', NEW j \in DOMAIN requests',
                        \/ IsAlloc(i)' /\ IsAlloc(j)' /\ requests'[i].by = requests'[j].by
                        \/ IsCallback(i)' /\ IsCallback(j)' /\ requests'[i].by = requests'[j].by
                        \/ IsFree(i)' /\ IsFree(j)' /\ requests'[i].block = requests'[j].block
                 PROVE  i = j
      BY DEF RequestsOnce
    <2>1. i + 1 = j + 1
      BY <1>1, <1>2 DEF QueueInv, RequestsOnce
    <2> QED
      BY <1>1, <2>1
  <1> QED
    BY <1>4, <1>5, <1>6

(* When it crashes, everything else stays as it is.                        *)
LEMMA CrashHolds ==
  ASSUME FactoryInv, NEW why \in {"pool", "slots", "callback"}, Crash(why),
         why = "callback" => allocStatus[Head(requests).by] = "no_ipc"
  PROVE  FactoryInv'
  <1>1. /\ factoryCrash' = why
        /\ UNCHANGED <<requests, freeBlocks, blockState, slotArrays, refCount, handle, owns,
                       creatorAt, allocStatus, answered>>
    BY DEF Crash, blockVars, clientVars
  <1>2. /\ \A c \in Creators : Holds(c)' = Holds(c) /\ Awaits(c)' = Awaits(c)
        /\ \A b : HoldersOf(b)' = HoldersOf(b)
        /\ \A i : IsAlloc(i)' = IsAlloc(i) /\ IsCallback(i)' = IsCallback(i) /\ IsFree(i)' = IsFree(i)
    BY <1>1 DEF Holds, Awaits, HoldersOf, IsAlloc, IsCallback, IsFree
  <1>3. FactoryTypes'
    BY <1>1 DEF FactoryInv, FactoryTypes
  <1>4. PoolExact' /\ CrashCause'
    BY <1>1, ZenonT(60) DEF FactoryInv, PoolExact, CrashCause
  <1>5. HoldersCounted'
    BY <1>1, <1>2 DEF FactoryInv, HoldersCounted
  <1>6. PlacesAgree' /\ RawOwned'
    BY <1>1, <1>2 DEF FactoryInv, PlacesAgree, RawOwned
  <1>7. AllocsPend' /\ CallbacksPend' /\ FreesDue' /\ RequestsOnce'
    BY <1>1, <1>2 DEF FactoryInv, AllocsPend, CallbacksPend, FreesDue, RequestsOnce
  <1> QED
    BY <1>3, <1>4, <1>5, <1>6, <1>7 DEF FactoryInv

(* What is known of the creator whose alloc request is in front.           *)
LEMMA AllocInFront ==
  ASSUME FactoryInv, Handling("alloc"), NEW c, c = Head(requests).by
  PROVE  /\ requests # <<>> /\ 1 \in DOMAIN requests /\ IsAlloc(1) /\ requests[1].by = c
         /\ c \in Creators /\ creatorAt[c] # "idle" /\ ~answered[c] /\ allocStatus[c] = "unset"
         /\ ~owns[c] /\ ~Holds(c) /\ ~Awaits(c) /\ factoryCrash = "none"
  <1>1. FactoryTypes /\ AllocsPend /\ PlacesAgree
    BY DEF FactoryInv
  <1>2. requests # <<>> /\ Head(requests).op = "alloc" /\ factoryCrash = "none"
    BY DEF Handling
  <1>3. 1 \in DOMAIN requests /\ Head(requests) = requests[1]
    BY <1>1, <1>2, TailOf DEF FactoryTypes
  <1>4. IsAlloc(1) /\ requests[1].by = c
    BY <1>2, <1>3 DEF IsAlloc
  <1>5. c \in Creators
    BY <1>1, <1>3, <1>4, RequestShapes
  <1>6. creatorAt[c] # "idle" /\ ~answered[c] /\ allocStatus[c] = "unset"
    BY <1>1, <1>3, <1>4 DEF AllocsPend
  <1>7. ~owns[c]
    BY <1>1, <1>5, <1>6 DEF PlacesAgree
  <1> QED
    BY <1>2, <1>3, <1>4, <1>5, <1>6, <1>7 DEF Holds, Awaits

(* The answer to an alloc request changes nothing of the rest of the       *)
(* queue, and nobody's hold of a mailbox.                                  *)
AllocEffects(c, result) ==
  /\ AllocsPend' /\ CallbacksPend' /\ RequestsOnce' /\ CrashCause'
  /\ requests' \in Seq(FactoryRequests)
  /\ answered' \in [Creators -> BOOLEAN]
  /\ allocStatus' \in [Creators -> {"unset", "no_ipc", "success"}]
  /\ allocStatus'[c] = result
  /\ \A d \in Creators \ {c} : answered'[d] = answered[d] /\ allocStatus'[d] = allocStatus[d]
  /\ creatorAt[c] = "async" => ~answered'[c]
  /\ \A d \in Creators : Holds(d)' <=> Holds(d)
  /\ \A i \in DOMAIN requests' : IsFree(i)' =>
       \E j \in DOMAIN requests : IsFree(j) /\ requests'[i] = requests[j]

LEMMA AllocAnswered ==
  ASSUME FactoryInv, Handling("alloc"), NEW c, c = Head(requests).by,
         NEW result \in {"no_ipc", "success"},
         requests' = Tail(requests),
         allocStatus' = [allocStatus EXCEPT ![c] = result],
         answered' = [answered EXCEPT ![c] = (creatorAt[c] = "sync")],
         UNCHANGED <<owns, creatorAt, factoryCrash>>
  PROVE  AllocEffects(c, result)
  <1>1. /\ FactoryTypes /\ QueueInv /\ AllocsPend /\ CallbacksPend /\ RequestsOnce
    BY DEF FactoryInv, QueueInv
  <1>2. /\ requests # <<>> /\ 1 \in DOMAIN requests /\ IsAlloc(1) /\ requests[1].by = c
        /\ c \in Creators /\ creatorAt[c] # "idle" /\ ~answered[c] /\ allocStatus[c] = "unset"
        /\ ~owns[c] /\ ~Holds(c) /\ factoryCrash = "none"
    BY AllocInFront
  <1>3. /\ allocStatus'[c] = result /\ answered'[c] = (creatorAt[c] = "sync")
        /\ \A d \in Creators \ {c} : answered'[d] = answered[d] /\ allocStatus'[d] = allocStatus[d]
    BY <1>1, <1>2 DEF FactoryTypes
  <1>4. creatorAt[c] = "async" => ~answered'[c]
    BY <1>3
  <1>5. /\ answered' \in [Creators -> BOOLEAN]
        /\ allocStatus' \in [Creators -> {"unset", "no_ipc", "success"}]
    BY <1>1 DEF FactoryTypes
  <1>6. /\ requests' \in Seq(FactoryRequests)
        /\ \A i \in DOMAIN requests' : i + 1 \in DOMAIN requests /\ requests'[i] = requests[i + 1]
    BY <1>1, <1>2, TailOf DEF FactoryTypes
  <1>7. ASSUME NEW i \in DOMAIN requests, i # 1, IsAlloc(i) \/ IsCallback(i),
               NEW d, d = requests[i].by
        PROVE  /\ d \in Creators /\ creatorAt'[d] = creatorAt[d] /\ (answered'[d] => answered[d])
               /\ \/ allocStatus'[d] = allocStatus[d]
                  \/ IsCallback(i) /\ allocStatus'[d] # "unset"
    <2>1. d \in Creators
      BY <1>1, <1>7, RequestShapes
    <2>2. CASE d # c
      BY <1>3, <2>1, <2>2
    <2>3. CASE d = c
      <3>1. IsCallback(i)
        BY <1>1, <1>2, <1>7, <2>3 DEF RequestsOnce
      <3>2. creatorAt[c] = "async"
        BY <1>1, <1>7, <2>3, <3>1 DEF CallbacksPend
      <3> QED
        BY <1>3, <1>4, <2>1, <2>3, <3>1, <3>2
    <2> QED
      BY <2>2, <2>3
  <1>8. AllocsPend' /\ CallbacksPend' /\ RequestsOnce'
    <2>1. \A i \in DOMAIN requests : i # 1 /\ IsCallback(i) /\ IsAlloc(1)
            /\ requests[i].by = requests[1].by => allocStatus'[requests[i].by] # "unset"
      BY <1>2, <1>3
    <2> QED
      BY <1>1, <1>2, <1>7, <2>1, TailQueue
  <1>9. \A d \in Creators : Holds(d)' <=> Holds(d)
    <2>1. Holds(c)' <=> Holds(c)
      BY <1>2, <1>4 DEF Holds
    <2>2. ASSUME NEW d \in Creators \ {c} PROVE Holds(d)' <=> Holds(d)
      BY <1>3 DEF Holds
    <2> QED
      BY <2>1, <2>2
  <1>10. CrashCause'
    BY <1>2 DEF CrashCause
  <1>11. \A i \in DOMAIN requests' : IsFree(i)' =>
           \E j \in DOMAIN requests : IsFree(j) /\ requests'[i] = requests[j]
    BY <1>6 DEF IsFree
  <1> QED
    BY <1>3, <1>4, <1>5, <1>6, <1>8, <1>9, <1>10, <1>11 DEF AllocEffects

LEMMA RefusedHolds ==
  ASSUME FactoryInv, Handling("alloc"), NEW c, c = Head(requests).by,
         requests' = Tail(requests),
         allocStatus' = [allocStatus EXCEPT ![c] = "no_ipc"],
         answered' = [answered EXCEPT ![c] = (creatorAt[c] = "sync")],
         UNCHANGED <<freeBlocks, blockState, slotArrays, refCount, handle, owns, creatorAt,
                     factoryCrash>>
  PROVE  FactoryInv'
  <1>1. FactoryTypes /\ HoldersCounted /\ PlacesAgree /\ RawOwned /\ FreesDue /\ PoolExact
    BY DEF FactoryInv
  <1>2. c \in Creators /\ ~owns[c] /\ ~Holds(c)
    BY AllocInFront
  <1>3. /\ AllocsPend' /\ CallbacksPend' /\ RequestsOnce' /\ CrashCause'
        /\ requests' \in Seq(FactoryRequests)
        /\ answered' \in [Creators -> BOOLEAN]
        /\ allocStatus' \in [Creators -> {"unset", "no_ipc", "success"}]
        /\ allocStatus'[c] = "no_ipc"
        /\ \A d \in Creators \ {c} : answered'[d] = answered[d] /\ allocStatus'[d] = allocStatus[d]
        /\ creatorAt[c] = "async" => ~answered'[c]
        /\ \A d \in Creators : Holds(d)' <=> Holds(d)
        /\ \A i \in DOMAIN requests' : IsFree(i)' =>
             \E j \in DOMAIN requests : IsFree(j) /\ requests'[i] = requests[j]
    <2> SUFFICES ASSUME NEW result \in {"no_ipc", "success"}, result = "no_ipc"
                 PROVE  AllocEffects(c, result)
      BY Zenon DEF AllocEffects
    <2> QED
      BY AllocAnswered
  <1>4. FactoryTypes'
    BY <1>1, <1>3 DEF FactoryTypes
  <1>5. PoolExact'
    BY <1>1, ZenonT(60) DEF PoolExact
  <1>6. \A b : HoldersOf(b)' = HoldersOf(b)
    BY <1>3 DEF HoldersOf
  <1>7. HoldersCounted'
    BY <1>1, <1>3, <1>6 DEF HoldersCounted
  <1>8. PlacesAgree'
    BY <1>1, <1>2, <1>3 DEF PlacesAgree
  <1>9. \A d \in Creators : Awaits(d)' => Awaits(d)
    BY <1>3 DEF Awaits
  <1>10. RawOwned'
    BY <1>1, <1>9 DEF RawOwned
  <1>11. FreesDue'
    BY <1>1, <1>3 DEF FreesDue
  <1> QED
    BY <1>3, <1>4, <1>5, <1>7, <1>8, <1>10, <1>11 DEF FactoryInv

LEMMA GivenHolds ==
  ASSUME FactoryInv, Handling("alloc"), NEW c, c = Head(requests).by,
         freeBlocks # <<>>, NEW b, b = Head(freeBlocks),
         requests' = Tail(requests),
         freeBlocks' = Tail(freeBlocks),
         blockState' = [blockState EXCEPT ![b] = "raw"],
         slotArrays' = slotArrays \union {b},
         handle' = [handle EXCEPT ![c] = b],
         allocStatus' = [allocStatus EXCEPT ![c] = "success"],
         answered' = [answered EXCEPT ![c] = (creatorAt[c] = "sync")],
         UNCHANGED <<refCount, owns, creatorAt, factoryCrash>>
  PROVE  FactoryInv'
  <1>1. FactoryTypes /\ HoldersCounted /\ PlacesAgree /\ RawOwned /\ FreesDue /\ PoolExact
    BY DEF FactoryInv
  <1>2. c \in Creators /\ ~owns[c] /\ ~Holds(c) /\ ~Awaits(c) /\ creatorAt[c] # "idle"
    BY AllocInFront
  <1>3. /\ AllocsPend' /\ CallbacksPend' /\ RequestsOnce' /\ CrashCause'
        /\ requests' \in Seq(FactoryRequests)
        /\ answered' \in [Creators -> BOOLEAN]
        /\ allocStatus' \in [Creators -> {"unset", "no_ipc", "success"}]
        /\ allocStatus'[c] = "success"
        /\ \A d \in Creators \ {c} : answered'[d] = answered[d] /\ allocStatus'[d] = allocStatus[d]
        /\ creatorAt[c] = "async" => ~answered'[c]
        /\ \A d \in Creators : Holds(d)' <=> Holds(d)
        /\ \A i \in DOMAIN requests' : IsFree(i)' =>
             \E j \in DOMAIN requests : IsFree(j) /\ requests'[i] = requests[j]
    <2> SUFFICES ASSUME NEW result \in {"no_ipc", "success"}, result = "success"
                 PROVE  AllocEffects(c, result)
      BY Zenon DEF AllocEffects
    <2> QED
      BY AllocAnswered
  <1>4. /\ 1 \in DOMAIN freeBlocks /\ b = freeBlocks[1] /\ b \in Block
        /\ freeBlocks' \in Seq(Block) /\ Len(freeBlocks) \in Nat
        /\ DOMAIN freeBlocks = 1 .. Len(freeBlocks)
        /\ DOMAIN freeBlocks' = 1 .. Len(freeBlocks) - 1
        /\ \A i \in DOMAIN freeBlocks' : /\ i + 1 \in DOMAIN freeBlocks /\ i + 1 # 1
                                         /\ freeBlocks'[i] = freeBlocks[i + 1]
    BY <1>1, TailOf DEF FactoryTypes
  <1>5. blockState[b] = "free"
    BY <1>1, <1>4 DEF PoolExact
  <1>6. blockState'[b] = "raw" /\ \A e \in Block \ {b} : blockState'[e] = blockState[e]
    BY <1>1, <1>4 DEF FactoryTypes
  <1>7. handle'[c] = b /\ \A d \in Creators \ {c} : handle'[d] = handle[d]
    BY <1>1, <1>2 DEF FactoryTypes
  <1>8. FactoryTypes'
    BY <1>1, <1>3, <1>4 DEF FactoryTypes
  <1>9. PoolExact'
    <2>1. \A i, j \in DOMAIN freeBlocks' : i # j => freeBlocks'[i] # freeBlocks'[j]
      <3> SUFFICES ASSUME NEW i \in DOMAIN freeBlocks', NEW j \in DOMAIN freeBlocks', i # j
                   PROVE  freeBlocks'[i] # freeBlocks'[j]
        OBVIOUS
      <3>1. i + 1 # j + 1
        BY <1>4
      <3> QED
        BY <1>1, <1>4, <3>1 DEF PoolExact
    <2>2. \A i \in DOMAIN freeBlocks' : freeBlocks'[i] # b
      BY <1>1, <1>4 DEF PoolExact
    <2>3. ASSUME NEW e \in Block
          PROVE  (blockState'[e] = "free") = (\E i \in DOMAIN freeBlocks' : freeBlocks'[i] = e)
      <3>1. CASE e = b
        BY <1>6, <2>2, <3>1
      <3>2. CASE e # b
        <4>1. (blockState'[e] = "free") <=> (\E i \in DOMAIN freeBlocks : freeBlocks[i] = e)
          BY <1>1, <1>6, <3>2 DEF PoolExact
        <4>2. ASSUME NEW i \in DOMAIN freeBlocks, freeBlocks[i] = e
              PROVE  \E j \in DOMAIN freeBlocks' : freeBlocks'[j] = e
          <5>1. i # 1
            BY <1>4, <3>2, <4>2
          <5>2. i - 1 \in DOMAIN freeBlocks' /\ i - 1 + 1 = i
            BY <1>4, <5>1
          <5> QED
            BY <1>4, <4>2, <5>2
        <4>3. (\E i \in DOMAIN freeBlocks' : freeBlocks'[i] = e)
                => \E i \in DOMAIN freeBlocks : freeBlocks[i] = e
          BY <1>4
        <4> QED
          BY <4>1, <4>2, <4>3
      <3> QED
        BY <3>1, <3>2
    <2>4. slotArrays' = {e \in Block : blockState'[e] # "free"}
      BY <1>1, <1>4, <1>6 DEF PoolExact
    <2> QED
      BY <2>1, <2>3, <2>4 DEF PoolExact
  <1>10. \A d \in Creators : Holds(d) => d # c /\ handle[d] \in Block \ {b}
    BY <1>1, <1>2, <1>5 DEF HoldersCounted
  <1>11. \A e : HoldersOf(e)' = HoldersOf(e)
    BY <1>3, <1>7, <1>10 DEF HoldersOf
  <1>12. HoldersCounted'
    BY <1>1, <1>3, <1>6, <1>7, <1>10, <1>11 DEF HoldersCounted
  <1>13. PlacesAgree'
    BY <1>1, <1>2, <1>3, <1>7, <1>10 DEF PlacesAgree
  <1>14. \A d \in Creators \ {c} : Awaits(d)' => Awaits(d)
    BY <1>3 DEF Awaits
  <1>15. \A d \in Creators \ {c} : Awaits(d)' => handle'[d] \in Block \ {b}
    BY <1>1, <1>5, <1>7, <1>14 DEF RawOwned
  <1>16. RawOwned'
    <2>1. \A d \in Creators : Awaits(d)' => handle'[d] \in Block /\ blockState'[handle'[d]] = "raw"
      BY <1>1, <1>4, <1>6, <1>7, <1>14, <1>15 DEF RawOwned
    <2>2. ASSUME NEW d \in Creators, NEW e \in Creators, Awaits(d)', Awaits(e)', handle'[d] = handle'[e]
          PROVE  d = e
      <3>1. CASE d = c \/ e = c
        BY <1>7, <1>15, <2>2, <3>1
      <3>2. CASE d # c /\ e # c
        BY <1>1, <1>7, <1>14, <2>2, <3>2 DEF RawOwned
      <3> QED
        BY <3>1, <3>2
    <2> QED
      BY <2>1, <2>2 DEF RawOwned
  <1>17. FreesDue'
    <2>1. \A j \in DOMAIN requests : IsFree(j) => requests[j].block \in Block \ {b}
      BY <1>1, <1>5, RequestShapes DEF FreesDue
    <2>2. \A j \in DOMAIN requests : IsFree(j) =>
            /\ blockState'[requests[j].block] = "mailbox"
            /\ \A d \in Creators : Holds(d)' => handle'[d] # requests[j].block
      BY <1>1, <1>3, <1>6, <1>7, <1>10, <2>1 DEF FreesDue
    <2> QED
      BY <1>3, <2>2 DEF FreesDue
  <1> QED
    BY <1>3, <1>8, <1>9, <1>12, <1>13, <1>16, <1>17 DEF FactoryInv

LEMMA AllocHolds == FactoryInv /\ AllocMailbox => FactoryInv'
  <1> SUFFICES ASSUME FactoryInv, AllocMailbox PROVE FactoryInv'
    OBVIOUS
  <1> SUFFICES ASSUME NEW c, c = Head(requests).by, NEW b, b = Head(freeBlocks)
               PROVE  FactoryInv'
    OBVIOUS
  <1>1. Handling("alloc")
    BY DEF AllocMailbox
  <1>2. \/ Crash("pool") \/ Crash("slots")
        \/ /\ requests' = Tail(requests)
           /\ allocStatus' = [allocStatus EXCEPT ![c] = "no_ipc"]
           /\ answered' = [answered EXCEPT ![c] = (creatorAt[c] = "sync")]
           /\ UNCHANGED <<freeBlocks, blockState, slotArrays, refCount, handle, owns, creatorAt,
                          factoryCrash>>
        \/ /\ freeBlocks # <<>>
           /\ requests' = Tail(requests)
           /\ freeBlocks' = Tail(freeBlocks)
           /\ blockState' = [blockState EXCEPT ![b] = "raw"]
           /\ slotArrays' = slotArrays \union {b}
           /\ handle' = [handle EXCEPT ![c] = b]
           /\ allocStatus' = [allocStatus EXCEPT ![c] = "success"]
           /\ answered' = [answered EXCEPT ![c] = (creatorAt[c] = "sync")]
           /\ UNCHANGED <<refCount, owns, creatorAt, factoryCrash>>
    BY DEF AllocMailbox, blockVars, clientVars
  <1> QED
    BY <1>1, <1>2, CrashHolds, RefusedHolds, GivenHolds

\* What is put in front of a list pushes the rest up.
LEMMA PutFirst ==
  ASSUME NEW S, NEW q \in Seq(S), NEW b \in S
  PROVE  LET r == <<b>> \o q
         IN  /\ r \in Seq(S) /\ Len(q) \in Nat
             /\ DOMAIN q = 1 .. Len(q) /\ DOMAIN r = 1 .. Len(q) + 1
             /\ r[1] = b
             /\ \A i \in DOMAIN q : i + 1 \in DOMAIN r /\ r[i + 1] = q[i]
             /\ \A i \in DOMAIN r : i = 1 \/ (i - 1 \in DOMAIN q /\ r[i] = q[i - 1])
  <1> DEFINE r == <<b>> \o q
  <1>1. r \in Seq(S) /\ Len(q) \in Nat /\ Len(r) = Len(q) + 1
    OBVIOUS
  <1>2. DOMAIN q = 1 .. Len(q) /\ DOMAIN r = 1 .. Len(q) + 1
    BY <1>1
  <1>3. r[1] = b
    OBVIOUS
  <1>4. \A i \in 1 .. Len(q) : r[i + 1] = q[i]
    OBVIOUS
  <1>5. \A i \in DOMAIN q : i + 1 \in DOMAIN r /\ r[i + 1] = q[i]
    BY <1>1, <1>2, <1>4
  <1> HIDE DEF r
  <1>6. ASSUME NEW i \in DOMAIN r, i # 1
        PROVE  i - 1 \in DOMAIN q /\ r[i] = q[i - 1]
    <2>1. i - 1 \in 1 .. Len(q) /\ (i - 1) + 1 = i
      BY <1>1, <1>2, <1>6
    <2> QED
      BY <1>2, <1>4, <2>1
  <1> QED
    BY <1>1, <1>2, <1>3, <1>5, <1>6 DEF r

LEMMA CallbackHolds == FactoryInv /\ RunCallback => FactoryInv'
  <1> SUFFICES ASSUME FactoryInv, RunCallback, NEW c, c = Head(requests).by
               PROVE  FactoryInv'
    OBVIOUS
  <1>1. /\ FactoryTypes /\ PoolExact /\ HoldersCounted /\ PlacesAgree /\ RawOwned
        /\ QueueInv /\ AllocsPend /\ CallbacksPend /\ FreesDue /\ RequestsOnce /\ CrashCause
    BY DEF FactoryInv, QueueInv
  <1>2. requests # <<>> /\ Head(requests).op = "callback" /\ factoryCrash = "none"
    BY DEF RunCallback, Handling
  <1>3. /\ 1 \in DOMAIN requests /\ Head(requests) = requests[1]
        /\ DOMAIN requests = 1 .. Len(requests)
        /\ requests' = Tail(requests) =>
             /\ requests' \in Seq(FactoryRequests)
             /\ \A i \in DOMAIN requests' : /\ i + 1 \in DOMAIN requests /\ i + 1 # 1
                                            /\ requests'[i] = requests[i + 1]
    <2>1. requests \in Seq(FactoryRequests)
      BY <1>1 DEF FactoryTypes
    <2>2. 1 \in DOMAIN requests /\ Head(requests) = requests[1] /\ DOMAIN requests = 1 .. Len(requests)
      BY <1>2, <2>1, TailOf
    <2>3. ASSUME requests' = Tail(requests)
          PROVE  /\ requests' \in Seq(FactoryRequests)
                 /\ \A i \in DOMAIN requests' : /\ i + 1 \in DOMAIN requests /\ i + 1 # 1
                                                /\ requests'[i] = requests[i + 1]
      BY <1>2, <2>1, <2>3, TailOf
    <2> QED
      BY <2>2, <2>3
  <1>4. IsCallback(1) /\ ~IsAlloc(1) /\ requests[1].by = c /\ c \in Creators
    BY <1>1, <1>2, <1>3, RequestShapes DEF IsCallback, IsAlloc
  <1>5. creatorAt[c] = "async" /\ ~answered[c] /\ allocStatus[c] # "unset"
    <2>1. \A j \in DOMAIN requests : ~(j < 1)
      BY <1>3
    <2> QED
      BY <1>1, <1>3, <1>4, <2>1 DEF CallbacksPend
  <1>6. CASE allocStatus[c] = "success"
    <2>1. Awaits(c)
      BY <1>5, <1>6 DEF Awaits
    <2>2. handle[c] \in Block /\ blockState[handle[c]] = "raw"
      BY <1>1, <1>4, <2>1 DEF RawOwned
    <2>3. /\ Construct(handle[c])
          /\ requests' = Tail(requests)
          /\ answered' = [answered EXCEPT ![c] = TRUE]
          /\ UNCHANGED <<freeBlocks, slotArrays, handle, owns, creatorAt, allocStatus, factoryCrash>>
      BY <1>6, <2>2 DEF RunCallback, clientVars
    <2>4. answered'[c] /\ \A d \in Creators \ {c} : answered'[d] = answered[d]
      BY <1>1, <1>4, <2>3 DEF FactoryTypes
    <2>5. Holds(c)' /\ \A d \in Creators \ {c} : Holds(d)' = Holds(d)
      <3>1. Holds(c)'
        BY <1>5, <2>3, <2>4 DEF Holds
      <3>2. \A d \in Creators \ {c} : Holds(d)' = Holds(d)
        BY <2>3, <2>4 DEF Holds
      <3> QED
        BY <3>1, <3>2
    <2>6. /\ HoldersCounted' /\ ~Holds(c)
          /\ \A d \in Creators : Holds(d) => handle[d] # handle[c]
      BY <1>1, <1>4, <2>1, <2>3, <2>5, FirstHolder
    <2>7. FactoryTypes'
      BY <1>1, <1>3, <1>4, <2>2, <2>3 DEF FactoryTypes, Construct
    <2>8. /\ blockState'[handle[c]] = "mailbox"
          /\ \A e \in Block \ {handle[c]} : blockState'[e] = blockState[e]
      BY <1>1, <2>2, <2>3 DEF FactoryTypes, Construct
    <2>9. \A e \in Block : (blockState'[e] = "free") = (blockState[e] = "free")
      BY <2>2, <2>8
    <2>10. PoolExact'
      BY <1>1, <2>3, <2>9, ZenonT(60) DEF PoolExact
    <2>11. PlacesAgree'
      <3>1. \A d \in Creators : owns'[d] => creatorAt'[d] = "idle"
        BY <1>1, <2>3 DEF PlacesAgree
      <3>2. \A d \in Creators : answered'[d] /\ creatorAt'[d] = "sync" => allocStatus'[d] # "unset"
        BY <1>1, <1>5, <2>3, <2>4 DEF PlacesAgree
      <3>3. ASSUME NEW d \in Creators, NEW e \in Creators, creatorAt'[d] = "async", answered'[d],
                   Holds(e)', handle'[d] = handle'[e]
            PROVE  d = e
        <4>1. CASE d = c \/ e = c
          <5>1. d # c => Holds(d)
            BY <2>3, <2>4, <3>3 DEF Holds
          <5>2. e # c => Holds(e)
            BY <2>5, <3>3
          <5> QED
            BY <2>3, <2>6, <3>3, <4>1, <5>1, <5>2
        <4>2. CASE d # c /\ e # c
          BY <1>1, <2>3, <2>4, <2>5, <3>3, <4>2 DEF PlacesAgree
        <4> QED
          BY <4>1, <4>2
      <3> QED
        BY <3>1, <3>2, <3>3 DEF PlacesAgree
    <2>12. \A d \in Creators : Awaits(d)' => Awaits(d) /\ d # c
      BY <1>5, <2>3, <2>4 DEF Awaits
    <2>13. RawOwned'
      BY <1>1, <1>4, <2>1, <2>3, <2>8, <2>12 DEF RawOwned
    <2>14. AllocsPend' /\ CallbacksPend' /\ RequestsOnce'
      <3>1. ASSUME NEW i \in DOMAIN requests, i # 1, IsAlloc(i) \/ IsCallback(i)
            PROVE  requests[i].by \in Creators \ {c}
        <4>1. requests[i].by \in Creators
          BY <1>1, <3>1, RequestShapes
        <4>2. IsAlloc(i) => requests[i].by # c
          BY <1>1, <1>5 DEF AllocsPend
        <4>3. IsCallback(i) => requests[i].by # c
          BY <1>1, <1>3, <1>4, <3>1 DEF RequestsOnce
        <4> QED
          BY <3>1, <4>1, <4>2, <4>3
      <3> QED
        BY <1>1, <1>2, <1>4, <2>3, <2>4, <3>1, TailQueue
    <2>15. FreesDue'
      <3>1. \A j \in DOMAIN requests : IsFree(j) =>
              /\ requests[j].block \in Block \ {handle[c]}
              /\ blockState'[requests[j].block] = "mailbox"
              /\ \A d \in Creators : Holds(d)' => handle'[d] # requests[j].block
        <4>1. \A j \in DOMAIN requests : IsFree(j) => requests[j].block \in Block \ {handle[c]}
          BY <1>1, <2>2, RequestShapes DEF FreesDue
        <4> QED
          BY <1>1, <2>3, <2>5, <2>8, <4>1 DEF FreesDue
      <3>2. \A i \in DOMAIN requests' : IsFree(i)' =>
              \E j \in DOMAIN requests : IsFree(j) /\ requests'[i] = requests[j]
        BY <1>3, <2>3 DEF IsFree
      <3> QED
        BY <3>1, <3>2 DEF FreesDue
    <2>16. CrashCause'
      BY <1>2, <2>3 DEF CrashCause
    <2> QED
      BY <2>6, <2>7, <2>10, <2>11, <2>13, <2>14, <2>15, <2>16 DEF FactoryInv
  <1>7. CASE allocStatus[c] # "success"
    <2>1. Crash("callback")
      BY <1>7 DEF RunCallback
    <2>2. allocStatus[c] = "no_ipc"
      BY <1>1, <1>4, <1>5, <1>7 DEF FactoryTypes
    <2>3. ASSUME NEW why \in {"pool", "slots", "callback"}, why = "callback" PROVE FactoryInv'
      BY <2>1, <2>2, <2>3, CrashHolds
    <2> QED
      BY <2>3
  <1> QED
    BY <1>6, <1>7

LEMMA FreeHolds == FactoryInv /\ FreeMailbox => FactoryInv'
  <1> SUFFICES ASSUME FactoryInv, FreeMailbox, NEW b, b = Head(requests).block
               PROVE  FactoryInv'
    OBVIOUS
  <1>1. /\ FactoryTypes /\ PoolExact /\ HoldersCounted /\ PlacesAgree /\ RawOwned
        /\ QueueInv /\ AllocsPend /\ CallbacksPend /\ FreesDue /\ RequestsOnce /\ CrashCause
    BY DEF FactoryInv, QueueInv
  <1>2. /\ requests # <<>> /\ Head(requests).op = "free" /\ factoryCrash = "none"
        /\ requests' = Tail(requests)
        /\ freeBlocks' = <<b>> \o freeBlocks
        /\ blockState' = [blockState EXCEPT ![b] = "free"]
        /\ slotArrays' = slotArrays \ {b}
        /\ UNCHANGED <<refCount, handle, owns, creatorAt, allocStatus, answered, factoryCrash>>
    BY DEF FreeMailbox, Handling, clientVars
  <1>3. /\ 1 \in DOMAIN requests /\ Head(requests) = requests[1]
        /\ requests' \in Seq(FactoryRequests)
        /\ \A i \in DOMAIN requests' : /\ i + 1 \in DOMAIN requests /\ i + 1 # 1
                                       /\ requests'[i] = requests[i + 1]
    BY <1>1, <1>2, TailOf DEF FactoryTypes
  <1>4. IsFree(1) /\ ~IsAlloc(1) /\ requests[1].block = b /\ b \in Block
    BY <1>1, <1>2, <1>3, RequestShapes DEF IsFree, IsAlloc
  <1>5. blockState[b] = "mailbox" /\ \A d \in Creators : Holds(d) => handle[d] # b
    BY <1>1, <1>3, <1>4 DEF FreesDue
  <1>6. blockState'[b] = "free" /\ \A e \in Block \ {b} : blockState'[e] = blockState[e]
    BY <1>1, <1>2, <1>4 DEF FactoryTypes
  <1>7. /\ \A d \in Creators : Holds(d)' = Holds(d) /\ Awaits(d)' = Awaits(d)
        /\ \A e : HoldersOf(e)' = HoldersOf(e)
    BY <1>2 DEF Holds, Awaits, HoldersOf
  <1>8. /\ freeBlocks' \in Seq(Block) /\ Len(freeBlocks) \in Nat
        /\ DOMAIN freeBlocks = 1 .. Len(freeBlocks)
        /\ DOMAIN freeBlocks' = 1 .. Len(freeBlocks) + 1
        /\ freeBlocks'[1] = b
        /\ \A i \in DOMAIN freeBlocks : i + 1 \in DOMAIN freeBlocks' /\ freeBlocks'[i + 1] = freeBlocks[i]
        /\ \A i \in DOMAIN freeBlocks' : i = 1 \/ (i - 1 \in DOMAIN freeBlocks /\ freeBlocks'[i] = freeBlocks[i - 1])
    <2>1. freeBlocks \in Seq(Block)
      BY <1>1 DEF FactoryTypes
    <2> QED
      BY <1>2, <1>4, <2>1, PutFirst
  <1>9. FactoryTypes'
    BY <1>1, <1>2, <1>3, <1>4, <1>8 DEF FactoryTypes
  <1>10. PoolExact'
    <2>1. \A i \in DOMAIN freeBlocks : freeBlocks[i] # b
      BY <1>1, <1>4, <1>5 DEF PoolExact
    <2>2. \A i, j \in DOMAIN freeBlocks' : i # j => freeBlocks'[i] # freeBlocks'[j]
      <3> SUFFICES ASSUME NEW i \in DOMAIN freeBlocks', NEW j \in DOMAIN freeBlocks', i # j
                   PROVE  freeBlocks'[i] # freeBlocks'[j]
        OBVIOUS
      <3>1. CASE i = 1 \/ j = 1
        BY <1>8, <2>1, <3>1
      <3>2. CASE i # 1 /\ j # 1
        <4>1. i - 1 # j - 1
          BY <1>8
        <4> QED
          BY <1>1, <1>8, <3>2, <4>1 DEF PoolExact
      <3> QED
        BY <3>1, <3>2
    <2>3. ASSUME NEW e \in Block
          PROVE  (blockState'[e] = "free") = (\E i \in DOMAIN freeBlocks' : freeBlocks'[i] = e)
      <3>1. CASE e = b
        <4>1. 1 \in DOMAIN freeBlocks'
          BY <1>8
        <4> QED
          BY <1>6, <1>8, <3>1, <4>1
      <3>2. CASE e # b
        <4>1. (blockState'[e] = "free") <=> (\E i \in DOMAIN freeBlocks : freeBlocks[i] = e)
          BY <1>1, <1>6, <3>2 DEF PoolExact
        <4>2. (\E i \in DOMAIN freeBlocks' : freeBlocks'[i] = e)
                <=> \E i \in DOMAIN freeBlocks : freeBlocks[i] = e
          BY <1>8, <3>2
        <4> QED
          BY <4>1, <4>2
      <3> QED
        BY <3>1, <3>2
    <2>4. slotArrays' = {e \in Block : blockState'[e] # "free"}
      BY <1>1, <1>2, <1>4, <1>6 DEF PoolExact
    <2> QED
      BY <2>2, <2>3, <2>4 DEF PoolExact
  <1>11. HoldersCounted'
    BY <1>1, <1>2, <1>5, <1>6, <1>7 DEF HoldersCounted
  <1>12. PlacesAgree'
    BY <1>1, <1>2, <1>7 DEF PlacesAgree
  <1>13. RawOwned'
    BY <1>1, <1>2, <1>5, <1>6, <1>7 DEF RawOwned
  <1>14. AllocsPend' /\ CallbacksPend' /\ RequestsOnce'
    BY <1>1, <1>2, <1>4, TailQueue
  <1>15. FreesDue'
    <2>1. ASSUME NEW j \in DOMAIN requests, j # 1, IsFree(j)
          PROVE  /\ blockState'[requests[j].block] = "mailbox"
                 /\ \A d \in Creators : Holds(d)' => handle'[d] # requests[j].block
      <3>1. requests[j].block \in Block \ {b}
        BY <1>1, <1>3, <1>4, <2>1, RequestShapes DEF RequestsOnce
      <3> QED
        BY <1>1, <1>2, <1>6, <1>7, <2>1, <3>1 DEF FreesDue
    <2>2. \A i \in DOMAIN requests' : IsFree(i)' =>
            \E j \in DOMAIN requests : j # 1 /\ IsFree(j) /\ requests'[i] = requests[j]
      BY <1>3 DEF IsFree
    <2> QED
      BY <2>1, <2>2 DEF FreesDue
  <1>16. CrashCause'
    BY <1>2 DEF CrashCause
  <1> QED
    BY <1>9, <1>10, <1>11, <1>12, <1>13, <1>14, <1>15, <1>16 DEF FactoryInv
----------------------------------------------------------------------------
LEMMA StutterHolds == FactoryInv /\ UNCHANGED factoryVars => FactoryInv'
  <1> SUFFICES ASSUME FactoryInv, UNCHANGED factoryVars PROVE FactoryInv'
    OBVIOUS
  <1>1. UNCHANGED <<requests, freeBlocks, blockState, slotArrays, refCount, handle, owns,
                    creatorAt, allocStatus, answered, factoryCrash>>
    BY DEF factoryVars, blockVars, clientVars
  <1>2. /\ \A c \in Creators : Holds(c)' = Holds(c) /\ Awaits(c)' = Awaits(c)
        /\ \A b : HoldersOf(b)' = HoldersOf(b)
        /\ \A i : IsAlloc(i)' = IsAlloc(i) /\ IsCallback(i)' = IsCallback(i) /\ IsFree(i)' = IsFree(i)
    BY <1>1 DEF Holds, Awaits, HoldersOf, IsAlloc, IsCallback, IsFree
  <1>3. FactoryTypes'
    BY <1>1 DEF FactoryInv, FactoryTypes
  <1>4. PoolExact' /\ CrashCause'
    BY <1>1, ZenonT(60) DEF FactoryInv, PoolExact, CrashCause
  <1>5. HoldersCounted'
    BY <1>1, <1>2 DEF FactoryInv, HoldersCounted
  <1>6. PlacesAgree' /\ RawOwned'
    BY <1>1, <1>2 DEF FactoryInv, PlacesAgree, RawOwned
  <1>7. AllocsPend' /\ CallbacksPend' /\ FreesDue' /\ RequestsOnce'
    BY <1>1, <1>2 DEF FactoryInv, AllocsPend, CallbacksPend, FreesDue, RequestsOnce
  <1> QED
    BY <1>3, <1>4, <1>5, <1>6, <1>7 DEF FactoryInv

\* A creator's step keeps the requests that are in the queue.
LEMMA AsksKept ==
  ASSUME AsksPend,
         \A i \in DOMAIN requests : i \in DOMAIN requests' /\ requests'[i] = requests[i],
         \A d \in Creators : creatorAt'[d] = "asking" =>
           \/ AllocQueued(d)' /\ ~answered'[d]
           \/ creatorAt[d] = "asking" /\ answered'[d] = answered[d]
                /\ allocStatus'[d] = allocStatus[d]
  PROVE  AsksPend'
  <1> SUFFICES ASSUME NEW d \in Creators, creatorAt'[d] = "asking"
               PROVE  ~answered'[d] /\ (allocStatus'[d] = "unset" => AllocQueued(d)')
    BY DEF AsksPend
  <1>1. AllocQueued(d) => AllocQueued(d)'
    BY DEF AllocQueued, IsAlloc
  <1> QED
    BY <1>1 DEF AsksPend

\* The mailbox thread's step takes the request in front away.
LEMMA AsksTail ==
  ASSUME FactoryTypes, AsksPend, requests # <<>>, requests' = Tail(requests),
         \A d \in Creators : creatorAt'[d] = "asking" =>
           /\ creatorAt[d] = "asking" /\ (answered'[d] => answered[d])
           /\ allocStatus'[d] = "unset" =>
                allocStatus[d] = "unset" /\ ~(IsAlloc(1) /\ requests[1].by = d)
  PROVE  AsksPend'
  <1>1. /\ DOMAIN requests = 1 .. Len(requests) /\ Len(requests) \in Nat
        /\ DOMAIN requests' = 1 .. Len(requests) - 1
        /\ \A i \in DOMAIN requests' : requests'[i] = requests[i + 1]
    BY TailOf DEF FactoryTypes
  <1> SUFFICES ASSUME NEW d \in Creators, creatorAt'[d] = "asking"
               PROVE  ~answered'[d] /\ (allocStatus'[d] = "unset" => AllocQueued(d)')
    BY DEF AsksPend
  <1>2. ~answered'[d]
    BY DEF AsksPend
  <1>3. ASSUME allocStatus'[d] = "unset" PROVE AllocQueued(d)'
    <2>1. PICK i \in DOMAIN requests : IsAlloc(i) /\ requests[i].by = d
      BY <1>3 DEF AsksPend, AllocQueued
    <2>2. i # 1
      BY <1>3, <2>1
    <2>3. i - 1 \in DOMAIN requests' /\ (i - 1) + 1 = i
      BY <1>1, <2>1, <2>2
    <2>4. IsAlloc(i - 1)' /\ requests'[i - 1].by = d
      BY <1>1, <2>1, <2>3 DEF IsAlloc
    <2> QED
      BY <2>3, <2>4 DEF AllocQueued
  <1> QED
    BY <1>2, <1>3

LEMMA AsksStep == FactoryInv /\ AsksPend /\ [FactoryNext]_factoryVars => AsksPend'
  <1> SUFFICES ASSUME FactoryInv, AsksPend, [FactoryNext]_factoryVars PROVE AsksPend'
    OBVIOUS
  <1>1. FactoryTypes /\ QueueInv /\ AllocsPend /\ CallbacksPend
    BY DEF FactoryInv, QueueInv
  <1>2. ASSUME NEW c \in Creators, NEW how \in {"sync", "asking"}, NEW shared \in BOOLEAN,
               Create(c, how, shared)
        PROVE  AsksPend'
    <2> DEFINE a == AllocRequest(c, shared)
    <2>1. a \in FactoryRequests /\ a.op = "alloc" /\ a.by = c /\ requests' = Append(requests, a)
      BY <1>2 DEF AllocRequest, FactoryRequests, Create
    <2> HIDE DEF a
    <2>2. /\ Len(requests) + 1 \in DOMAIN requests' /\ requests'[Len(requests) + 1] = a
          /\ \A i \in DOMAIN requests : i \in DOMAIN requests' /\ requests'[i] = requests[i]
      BY <1>1, <2>1, AppendTo DEF FactoryTypes
    <2>3. AllocQueued(c)'
      BY <2>1, <2>2 DEF AllocQueued, IsAlloc
    <2>4. /\ ~answered'[c]
          /\ \A d \in Creators \ {c} : /\ creatorAt'[d] = creatorAt[d]
                                       /\ answered'[d] = answered[d]
                                       /\ allocStatus'[d] = allocStatus[d]
      BY <1>1, <1>2 DEF Create, FactoryTypes
    <2> QED
      BY <2>2, <2>3, <2>4, AsksKept
  <1>3. ASSUME NEW c \in Creators, SendCallback(c) PROVE AsksPend'
    <2> DEFINE k == CallbackRequest(c)
    <2>1. k \in FactoryRequests /\ requests' = Append(requests, k)
      BY <1>3 DEF CallbackRequest, FactoryRequests, SendCallback
    <2> HIDE DEF k
    <2>2. \A i \in DOMAIN requests : i \in DOMAIN requests' /\ requests'[i] = requests[i]
      BY <1>1, <2>1, AppendTo DEF FactoryTypes
    <2>3. \A d \in Creators : creatorAt'[d] = "asking" => creatorAt[d] = "asking"
      BY <1>1, <1>3 DEF SendCallback, FactoryTypes
    <2> QED
      BY <1>3, <2>2, <2>3, AsksKept DEF SendCallback
  <1>4. ASSUME NEW c \in Creators, CreateReturns(c) \/ AwaitCallback(c) PROVE AsksPend'
    <2>1. \A d \in Creators : creatorAt'[d] = "asking" => creatorAt[d] = "asking"
      BY <1>1, <1>4 DEF CreateReturns, AwaitCallback, FactoryTypes
    <2> QED
      BY <1>4, <2>1, AsksKept DEF CreateReturns, AwaitCallback
  <1>5. ASSUME NEW c \in Creators, CloseMailbox(c) PROVE AsksPend'
    <2> DEFINE f == FreeRequest(handle[c])
    <2>1. \/ requests' = requests
          \/ handle[c] \in Block /\ requests' = Append(requests, f)
      BY <1>5 DEF CloseMailbox, FactoryInv, HoldersCounted, Holds
    <2>2. handle[c] \in Block => f \in FactoryRequests
      BY DEF FreeRequest, FactoryRequests
    <2> HIDE DEF f
    <2>3. \A i \in DOMAIN requests : i \in DOMAIN requests' /\ requests'[i] = requests[i]
      BY <1>1, <2>1, <2>2, AppendTo DEF FactoryTypes
    <2> QED
      BY <1>5, <2>3, AsksKept DEF CloseMailbox
  <1>6. ASSUME NEW c \in Creators, NEW d \in Creators \ {c}, CopyMailbox(c, d) PROVE AsksPend'
    BY <1>6, AsksKept DEF CopyMailbox
  <1>7. CASE AllocMailbox
    <2> SUFFICES ASSUME NEW c, c = Head(requests).by PROVE AsksPend'
      OBVIOUS
    <2>1. /\ requests # <<>> /\ IsAlloc(1) /\ requests[1].by = c /\ c \in Creators
      BY <1>7, AllocInFront DEF AllocMailbox
    <2>2. \/ UNCHANGED <<requests, creatorAt, answered, allocStatus>>
          \/ /\ requests' = Tail(requests) /\ creatorAt' = creatorAt
             /\ answered' = [answered EXCEPT ![c] = (creatorAt[c] = "sync")]
             /\ \E result \in {"no_ipc", "success"} :
                  allocStatus' = [allocStatus EXCEPT ![c] = result]
      BY <1>7 DEF AllocMailbox, Crash, clientVars
    <2>3. CASE UNCHANGED <<requests, creatorAt, answered, allocStatus>>
      BY <2>3, AsksKept
    <2>4. ASSUME NEW result \in {"no_ipc", "success"},
                 requests' = Tail(requests), creatorAt' = creatorAt,
                 answered' = [answered EXCEPT ![c] = (creatorAt[c] = "sync")],
                 allocStatus' = [allocStatus EXCEPT ![c] = result]
          PROVE  AsksPend'
      <3>1. /\ answered'[c] = (creatorAt[c] = "sync") /\ allocStatus'[c] = result
            /\ \A d \in Creators \ {c} : /\ answered'[d] = answered[d]
                                         /\ allocStatus'[d] = allocStatus[d]
        BY <1>1, <2>1, <2>4 DEF FactoryTypes
      <3>2. ASSUME NEW d \in Creators, creatorAt'[d] = "asking"
            PROVE  /\ creatorAt[d] = "asking" /\ (answered'[d] => answered[d])
                   /\ allocStatus'[d] = "unset" =>
                        allocStatus[d] = "unset" /\ ~(IsAlloc(1) /\ requests[1].by = d)
        BY <2>1, <2>4, <3>1, <3>2
      <3> QED
        BY <1>1, <2>1, <2>4, <3>2, AsksTail
    <2> QED
      BY <2>2, <2>3, <2>4
  <1>8. CASE RunCallback
    <2> SUFFICES ASSUME NEW c, c = Head(requests).by PROVE AsksPend'
      OBVIOUS
    <2>1. requests # <<>> /\ Head(requests).op = "callback"
      BY <1>8 DEF RunCallback, Handling
    <2>2. 1 \in DOMAIN requests /\ Head(requests) = requests[1]
      BY <1>1, <2>1, TailOf DEF FactoryTypes
    <2>3. creatorAt[c] = "async" /\ ~IsAlloc(1)
      BY <1>1, <2>1, <2>2 DEF CallbacksPend, IsCallback, IsAlloc
    <2>4. \/ UNCHANGED <<requests, creatorAt, answered, allocStatus>>
          \/ /\ requests' = Tail(requests) /\ UNCHANGED <<creatorAt, allocStatus>>
             /\ answered' = [answered EXCEPT ![c] = TRUE]
      BY <1>8 DEF RunCallback, Crash, clientVars
    <2>5. CASE UNCHANGED <<requests, creatorAt, answered, allocStatus>>
      BY <2>5, AsksKept
    <2>6. CASE /\ requests' = Tail(requests) /\ UNCHANGED <<creatorAt, allocStatus>>
               /\ answered' = [answered EXCEPT ![c] = TRUE]
      <3>1. \A d \in Creators : d # c => answered'[d] = answered[d]
        BY <1>1, <2>6 DEF FactoryTypes
      <3> QED
        BY <1>1, <2>1, <2>3, <2>6, <3>1, AsksTail
    <2> QED
      BY <2>4, <2>5, <2>6
  <1>9. CASE FreeMailbox
    <2>1. /\ requests # <<>> /\ Head(requests).op = "free" /\ requests' = Tail(requests)
          /\ UNCHANGED <<creatorAt, answered, allocStatus>>
      BY <1>9 DEF FreeMailbox, Handling, clientVars
    <2>2. ~IsAlloc(1)
      BY <1>1, <2>1, TailOf DEF FactoryTypes, IsAlloc
    <2> QED
      BY <1>1, <2>1, <2>2, AsksTail
  <1>10. CASE UNCHANGED factoryVars
    BY <1>10, AsksKept DEF factoryVars, clientVars
  <1> QED
    BY <1>2, <1>3, <1>4, <1>5, <1>6, <1>7, <1>8, <1>9, <1>10 DEF FactoryNext

LEMMA FactoryStep == FactoryInv /\ AsksPend /\ [FactoryNext]_factoryVars => FactoryInv'
  <1> SUFFICES ASSUME FactoryInv, AsksPend, [FactoryNext]_factoryVars PROVE FactoryInv'
    OBVIOUS
  <1>1. ASSUME NEW c \in Creators, NEW how \in {"sync", "asking"}, NEW shared \in BOOLEAN,
               Create(c, how, shared)
        PROVE  FactoryInv'
    BY <1>1, CreateHolds
  <1>2. ASSUME NEW c \in Creators, CreateReturns(c) PROVE FactoryInv'
    BY <1>2, CreateReturnsHolds
  <1>3. ASSUME NEW c \in Creators, AwaitCallback(c) PROVE FactoryInv'
    BY <1>3, AwaitCallbackHolds
  <1>4. ASSUME NEW c \in Creators, CloseMailbox(c) PROVE FactoryInv'
    BY <1>4, CloseHolds
  <1>5. ASSUME NEW c \in Creators, NEW d \in Creators \ {c}, CopyMailbox(c, d) PROVE FactoryInv'
    BY <1>5, CopyHolds
  <1>6. ASSUME NEW c \in Creators, SendCallback(c) PROVE FactoryInv'
    BY <1>6, SendCallbackHolds
  <1>7. CASE AllocMailbox \/ RunCallback \/ FreeMailbox
    BY <1>7, AllocHolds, CallbackHolds, FreeHolds
  <1>8. CASE UNCHANGED factoryVars
    BY <1>8, StutterHolds
  <1> QED
    BY <1>1, <1>2, <1>3, <1>4, <1>5, <1>6, <1>7, <1>8 DEF FactoryNext

(* Whoever may use a handle is counted, and counted once.                  *)
LEMMA InvImpliesLive == FactoryInv => HandlesLive
  <1> SUFFICES ASSUME FactoryInv PROVE HandlesLive
    OBVIOUS
  <1>1. ASSUME NEW c \in Creators, owns[c]
        PROVE  /\ blockState[handle[c]] = "mailbox" /\ handle[c] \in slotArrays
               /\ refCount[handle[c]] = Cardinality({d \in Creators : owns[d] /\ handle[d] = handle[c]})
    <2>1. Holds(c) /\ creatorAt[c] = "idle"
      BY <1>1 DEF Holds, FactoryInv, PlacesAgree
    <2>2. /\ handle[c] \in Block /\ blockState[handle[c]] = "mailbox"
          /\ refCount[handle[c]] = Cardinality(HoldersOf(handle[c]))
      BY <2>1 DEF FactoryInv, HoldersCounted
    <2>3. handle[c] \in slotArrays
      BY <2>2 DEF FactoryInv, PoolExact
    <2>4. \A d \in Creators : creatorAt[d] = "async" /\ answered[d] => handle[d] # handle[c]
      BY <2>1 DEF FactoryInv, PlacesAgree
    <2>5. HoldersOf(handle[c]) = {d \in Creators : owns[d] /\ handle[d] = handle[c]}
      BY <2>4 DEF HoldersOf, Holds
    <2> QED
      BY <2>2, <2>3, <2>5
  <1> QED
    BY <1>1 DEF HandlesLive, FactoryInv, PoolExact, CrashCause

(* A thread that may use its handle finds a constructed mailbox with its   *)
(* slots, counted once for each such thread, and the memory of a mailbox   *)
(* goes back to the pool once (agt_copy_mailbox, agt_close_mailbox,        *)
(* proc_alloc_mailbox, proc_free_mailbox, fixed_size_pool).                *)
THEOREM HandlesCorrect == FactorySpec => []HandlesLive
  <1>1. FactoryInit => FactoryInv /\ AsksPend
    <2>1. FactoryInit => AsksPend
      BY DEF FactoryInit, AsksPend
    <2> QED
      BY <2>1, InitHolds
  <1>2. FactoryInv /\ AsksPend /\ [FactoryNext]_factoryVars => FactoryInv' /\ AsksPend'
    BY FactoryStep, AsksStep
  <1>3. FactoryInv => HandlesLive
    BY InvImpliesLive
  <1> QED
    BY <1>1, <1>2, <1>3, PTL DEF FactorySpec

----------------------------------------------------------------------------
(* AsyncData, ResponseCounter                                              *)

(* What the counts rest on: waiterRefCount in the middle of a reset and    *)
(* after destruction, which WaitersExact says nothing about.               *)
WaiterClaimed ==
  /\ async.at = "resetting" => data.waiters = 1
  /\ async.at = "destroyed" => data.waiters = 0

CountsInv == AsyncTypeOK /\ RefsExact /\ WaitersExact /\ WaiterClaimed

(* Whoever is past the comparison holds the present key, or was past it    *)
(* when the key was changed.                                               *)
PassedInTime ==
  \A r \in Receivers :
    message[r].at = "passed" => message[r].key = data.key \/ r \in inFlight

LateInv == AsyncTypeOK /\ StaleOnlyInFlight /\ PassedInTime
----------------------------------------------------------------------------
(* What attaching and releasing do to the data, with their types.          *)
LEMMA AttachedData ==
  ASSUME NEW d \in Datas, NEW r \in Receivers
  PROVE  /\ Attached(d, r) \in Datas
         /\ Attached(d, r).refs = d.refs + 1
         /\ Attached(d, r).waiters = d.waiters /\ Attached(d, r).freed = d.freed
         /\ Attached(d, r).key = d.key
  <1> DEFINE n == d.refs + 1
             b == d.shared \/ r \in Foreign
  <1>1. n \in Nat /\ b \in BOOLEAN
    BY DEF Datas
  <1>2. Attached(d, r) = [d EXCEPT !.refs = n, !.shared = b]
    BY DEF Attached
  <1> HIDE DEF n, b
  <1>3. Attached(d, r) \in Datas
    BY <1>1, <1>2 DEF Datas
  <1>4. /\ Attached(d, r).refs = n /\ Attached(d, r).waiters = d.waiters
        /\ Attached(d, r).freed = d.freed /\ Attached(d, r).key = d.key
    BY <1>1, <1>2 DEF Datas
  <1> QED
    BY <1>3, <1>4 DEF n

LEMMA ReleasedData ==
  ASSUME NEW d \in Datas, d.refs > 0
  PROVE  /\ Released(d) \in Datas
         /\ Released(d).refs = d.refs - 1
         /\ Released(d).waiters = d.waiters /\ Released(d).key = d.key
         /\ Released(d).freed = d.freed \/ d.refs = 1
         /\ d.refs = 1 => Released(d).freed # "no"
  <1> DEFINE n == d.refs - 1
             f == IF d.refs # 1 THEN d.freed
                  ELSE IF d.shared THEN "by_reference" ELSE "locally"
  <1>1. n \in Nat /\ f \in {"no", "locally", "by_reference"}
    BY DEF Datas
  <1>2. (f = d.freed \/ d.refs = 1) /\ (d.refs = 1 => f # "no")
    OBVIOUS
  <1>3. Released(d) = [d EXCEPT !.refs = n, !.freed = f]
    BY DEF Released
  <1> HIDE DEF n, f
  <1>4. Released(d) \in Datas
    BY <1>1, <1>3 DEF Datas
  <1>5. /\ Released(d).refs = n /\ Released(d).waiters = d.waiters
        /\ Released(d).key = d.key /\ Released(d).freed = f
    BY <1>1, <1>3 DEF Datas
  <1> QED
    BY <1>2, <1>4, <1>5 DEF n

(* The owner that waits is counted, so it can be discounted.               *)
LEMMA UnwaitedData ==
  ASSUME AsyncTypeOK, WaitersExact, async.at = "ready"
  PROVE  /\ Unwaited(data) \in Datas /\ Unwaited(data).waiters = 0
         /\ Unwaited(data).refs = data.refs /\ Unwaited(data).freed = data.freed
         /\ Unwaited(data).key = data.key
  <1>1. CASE "waiting" \in async.flags
    <2>1. data.waiters = 1
      BY <1>1 DEF WaitersExact
    <2>2. Unwaited(data) = [data EXCEPT !.waiters = 0]
      BY <1>1, <2>1 DEF Unwaited
    <2> QED
      BY <2>2 DEF AsyncTypeOK, Datas
  <1>2. CASE "waiting" \notin async.flags
    BY <1>2 DEF Unwaited, WaitersExact, AsyncTypeOK
  <1> QED
    BY <1>1, <1>2
----------------------------------------------------------------------------
(* The receivers' references before and after one of them takes or gives   *)
(* up its message.                                                         *)
LEMMA HoldersFinite == IsFiniteSet(Holders) /\ Cardinality(Holders) \in Nat
  <1>1. Holders \in SUBSET Receivers
    BY DEF Holders
  <1> QED
    BY <1>1, ReceiverAssumption, FS_Subset, FS_CardinalityType

LEMMA OneMoreHolder ==
  ASSUME NEW r \in Receivers, r \notin Holders, Holders' = Holders \cup {r}
  PROVE  Cardinality(Holders)' = Cardinality(Holders) + 1
  BY HoldersFinite, FS_AddElement

LEMMA OneHolderLess ==
  ASSUME NEW r \in Receivers, r \in Holders, Holders' = Holders \ {r}
  PROVE  Cardinality(Holders)' = Cardinality(Holders) - 1 /\ Cardinality(Holders) > 0
  <1>1. Cardinality(Holders) # 0
    BY HoldersFinite, FS_EmptySet
  <1> QED
    BY <1>1, HoldersFinite, FS_RemoveElement
----------------------------------------------------------------------------
LEMMA CountsInit == AsyncInit => CountsInv
  <1> SUFFICES ASSUME AsyncInit PROVE CountsInv
    OBVIOUS
  <1>1. AsyncTypeOK
    BY DEF AsyncInit, AsyncTypeOK, AsyncMessages, Datas, Asyncs, NoMessage
  <1>2. Holders = {}
    BY DEF AsyncInit, Holders, NoMessage
  <1>3. RefsExact
    BY <1>2, FS_EmptySet DEF AsyncInit, RefsExact, Alive
  <1> QED
    BY <1>1, <1>3 DEF AsyncInit, CountsInv, WaitersExact, WaiterClaimed

(* A step of a receiver, or a message sent to it.                          *)
LEMMA ReceiverCounts ==
  ASSUME CountsInv, NEW r \in Receivers,
         Send(r) \/ CompareKey(r) \/ CountResponse(r) \/ ReleaseData(r)
  PROVE  CountsInv'
  <1> USE DEF CountsInv
  <1>1. CASE Send(r)
    <2>1. AsyncTypeOK'
      BY <1>1, AttachedData DEF Send, AsyncTypeOK, AsyncMessages, Datas
    <2>2. r \notin Holders /\ Holders' = Holders \cup {r}
      BY <1>1 DEF Send, Holders, AsyncTypeOK
    <2>3. data'.refs = data.refs + 1 /\ data'.freed = data.freed /\ data'.waiters = data.waiters
      BY <1>1, AttachedData DEF Send, AsyncTypeOK
    <2>4. async' = async /\ Alive /\ Alive'
      BY <1>1 DEF Send, Alive
    <2>5. RefsExact'
      <3>1. data.refs = Cardinality(Holders) + 1 /\ data.freed = "no"
        BY <2>4, HoldersFinite DEF RefsExact
      <3>2. Cardinality(Holders)' = Cardinality(Holders) + 1
        BY <2>2, OneMoreHolder
      <3>3. data'.refs = Cardinality(Holders)' + 1 /\ data'.refs > 0
        BY <2>3, <3>1, <3>2, HoldersFinite
      <3> QED
        BY <2>3, <2>4, <3>1, <3>3 DEF RefsExact
    <2> QED
      BY <2>1, <2>3, <2>4, <2>5 DEF WaitersExact, WaiterClaimed
  <1>2. CASE CompareKey(r)
    <2>1. AsyncTypeOK' /\ Holders' = Holders
      BY <1>2 DEF CompareKey, AsyncTypeOK, AsyncMessages, Holders
    <2> QED
      BY <1>2, <2>1 DEF CompareKey, RefsExact, WaitersExact, WaiterClaimed, Alive
  <1>3. CASE CountResponse(r)
    <2>1. AsyncTypeOK' /\ Holders' = Holders
      BY <1>3 DEF CountResponse, AsyncTypeOK, AsyncMessages, Datas, Holders
    <2>2. data'.refs = data.refs /\ data'.freed = data.freed /\ data'.waiters = data.waiters
      BY <1>3 DEF CountResponse, AsyncTypeOK, Datas
    <2> QED
      BY <1>3, <2>1, <2>2 DEF CountResponse, RefsExact, WaitersExact, WaiterClaimed, Alive
  <1>4. CASE ReleaseData(r)
    <2>1. r \in Holders /\ Holders' = Holders \ {r}
      BY <1>4 DEF ReleaseData, Holders, AsyncTypeOK, NoMessage
    <2>2. data.refs > 0
      BY <2>1, OneHolderLess, HoldersFinite DEF RefsExact
    <2>3. /\ data'.refs = data.refs - 1 /\ data'.waiters = data.waiters
          /\ data'.freed = "no" <=> data.refs # 1
          /\ data' \in Datas
      BY <1>4, <2>2, ReleasedData DEF ReleaseData, RefsExact, AsyncTypeOK
    <2>4. async' = async
      BY <1>4 DEF ReleaseData
    <2>5. AsyncTypeOK'
      BY <1>4, <2>3 DEF ReleaseData, AsyncTypeOK, AsyncMessages, NoMessage
    <2>6. RefsExact'
      <3>1. Cardinality(Holders)' = Cardinality(Holders) - 1 /\ Cardinality(Holders) > 0
        BY <2>1, OneHolderLess
      <3> QED
        BY <2>2, <2>3, <2>4, <3>1, HoldersFinite DEF RefsExact, Alive
    <2>7. data'.freed # "no" => async.at = "destroyed"
      BY <2>3, <2>1, OneHolderLess, HoldersFinite DEF RefsExact, Alive, AsyncTypeOK
    <2> QED
      BY <2>3, <2>4, <2>5, <2>6, <2>7 DEF WaitersExact, WaiterClaimed
  <1> QED
    BY <1>1, <1>2, <1>3, <1>4

(* A call of the owner.                                                    *)
LEMMA OwnerCounts ==
  ASSUME CountsInv,
         \/ \E n \in ResponseCounts : BeginReset(n)
         \/ EndReset \/ AsyncClear \/ AsyncDestroy
  PROVE  CountsInv'
  <1> USE ResetAssumption DEF CountsInv
  <1>1. ASSUME NEW max \in ResponseCounts, BeginReset(max) PROVE CountsInv'
    <2>1. AsyncTypeOK'
      <3> DEFINE n == data.key + 1
      <3>1. n \in Nat /\ max \in Nat
        BY DEF AsyncTypeOK, Datas
      <3>2. data' = [data EXCEPT !.waiters = 1, !.key = n, !.attached = max]
        BY <1>1 DEF BeginReset
      <3> HIDE DEF n
      <3>3. data' \in Datas
        BY <3>1, <3>2 DEF AsyncTypeOK, Datas
      <3> QED
        BY <1>1, <3>3 DEF BeginReset, AsyncTypeOK, Asyncs
    <2>2. /\ Holders' = Holders /\ data'.refs = data.refs /\ data'.freed = data.freed
          /\ data'.waiters = 1 /\ async'.at = "resetting" /\ async.at = "ready"
      BY <1>1 DEF BeginReset, Holders, AsyncTypeOK, Datas, Asyncs
    <2>3. RefsExact'
      BY <2>2 DEF RefsExact, Alive
    <2>4. data.freed = "no"
      BY <2>2, HoldersFinite DEF RefsExact, Alive
    <2> QED
      BY <2>1, <2>2, <2>3, <2>4 DEF WaitersExact, WaiterClaimed
  <1>2. CASE EndReset
    <2>1. AsyncTypeOK'
      BY <1>2 DEF EndReset, AsyncTypeOK, Datas, Asyncs
    <2>2. /\ Holders' = Holders /\ data'.refs = data.refs /\ data'.freed = data.freed
          /\ data'.waiters = data.waiters /\ async.at = "resetting"
          /\ async'.at = "ready" /\ async'.flags = {"bound", "waiting"}
      BY <1>2 DEF EndReset, Holders, AsyncTypeOK, Datas
    <2>3. RefsExact'
      BY <2>2 DEF RefsExact, Alive
    <2>4. data.freed = "no"
      BY <2>2, HoldersFinite DEF RefsExact, Alive
    <2> QED
      BY <2>1, <2>2, <2>3, <2>4 DEF WaitersExact, WaiterClaimed
  <1>3. CASE AsyncClear
    <2>1. /\ Holders' = Holders /\ async.at = "ready" /\ async'.at = "ready"
          /\ "waiting" \notin async'.flags
      BY <1>3 DEF AsyncClear, ClearedAsyncFlags, Holders, AsyncTypeOK, Asyncs
    <2>2. /\ data'.refs = data.refs /\ data'.freed = data.freed
          /\ data'.waiters = 0 /\ AsyncTypeOK'
      BY <1>3, <2>1, UnwaitedData DEF AsyncClear, ClearedAsyncFlags, AsyncTypeOK, Asyncs
    <2> QED
      BY <2>1, <2>2 DEF RefsExact, WaitersExact, WaiterClaimed, Alive
  <1>4. CASE AsyncDestroy
    <2>1. Holders' = Holders /\ async.at = "ready" /\ async'.at = "destroyed"
      BY <1>4 DEF AsyncDestroy, Holders, AsyncTypeOK, Asyncs
    <2>2. data.refs = Cardinality(Holders) + 1 /\ data.refs > 0
      BY <2>1, HoldersFinite DEF RefsExact, Alive
    <2>3. /\ data'.refs = data.refs - 1 /\ data'.waiters = 0
          /\ data'.freed = "no" <=> data.refs # 1
          /\ data' \in Datas
      BY <1>4, <2>1, <2>2, UnwaitedData, ReleasedData DEF AsyncDestroy, RefsExact
    <2>4. AsyncTypeOK'
      BY <1>4, <2>3 DEF AsyncDestroy, AsyncTypeOK, Asyncs
    <2>5. RefsExact'
      BY <2>1, <2>2, <2>3, HoldersFinite DEF RefsExact, Alive
    <2> QED
      BY <2>1, <2>3, <2>4, <2>5 DEF WaitersExact, WaiterClaimed
  <1> QED
    BY <1>1, <1>2, <1>3, <1>4

LEMMA CountsStep == CountsInv /\ [AsyncNext]_asyncVars => CountsInv'
  <1>1. ASSUME CountsInv, UNCHANGED asyncVars PROVE CountsInv'
    BY <1>1 DEF CountsInv, asyncVars, AsyncTypeOK, RefsExact, WaitersExact, WaiterClaimed,
                Holders, Alive
  <1> QED
    BY <1>1, ReceiverCounts, OwnerCounts DEF AsyncNext

(* Every reachable state is well typed: in particular no count of the data *)
(* is ever lowered below zero (async.cpp:382-448).                         *)
THEOREM AsyncTypeCorrect == AsyncSpec => []AsyncTypeOK
  <1>1. CountsInv => AsyncTypeOK
    BY DEF CountsInv
  <1> QED
    BY <1>1, CountsInit, CountsStep, PTL DEF AsyncSpec

(* refCount and waiterRefCount are exact: the data are freed by the last   *)
(* of owner and messages to let go, once, and nobody waits then.           *)
THEOREM CountsCorrect == AsyncSpec => []CountsExact
  <1>1. CountsInv => CountsExact
    BY DEF CountsInv, CountsExact
  <1> QED
    BY <1>1, CountsInit, CountsStep, PTL DEF AsyncSpec
----------------------------------------------------------------------------
LEMMA LateInit == AsyncInit => LateInv
  <1> SUFFICES ASSUME AsyncInit PROVE LateInv
    OBVIOUS
  <1>1. AsyncTypeOK
    BY CountsInit DEF CountsInv
  <1> QED
    BY <1>1 DEF AsyncInit, LateInv, StaleOnlyInFlight, PassedInTime, NoMessage

LEMMA LateStep ==
  LateInv /\ AsyncTypeOK' /\ [AsyncNext]_asyncVars => LateInv'
  <1> SUFFICES ASSUME LateInv, AsyncTypeOK', [AsyncNext]_asyncVars
               PROVE  StaleOnlyInFlight' /\ PassedInTime'
    BY DEF LateInv
  <1> USE DEF LateInv, StaleOnlyInFlight, PassedInTime
  <1>1. ASSUME NEW r \in Receivers, Send(r) PROVE StaleOnlyInFlight' /\ PassedInTime'
    BY <1>1 DEF Send, Attached, AsyncTypeOK
  <1>2. ASSUME NEW r \in Receivers, CompareKey(r) PROVE StaleOnlyInFlight' /\ PassedInTime'
    BY <1>2 DEF CompareKey, AsyncTypeOK
  <1>3. ASSUME NEW r \in Receivers, CountResponse(r) PROVE StaleOnlyInFlight' /\ PassedInTime'
    BY <1>3 DEF CountResponse, AsyncTypeOK, Datas
  <1>4. ASSUME NEW r \in Receivers, ReleaseData(r) PROVE StaleOnlyInFlight' /\ PassedInTime'
    BY <1>4 DEF ReleaseData, Released, AsyncTypeOK, NoMessage
  <1>5. ASSUME NEW max \in ResponseCounts, BeginReset(max)
        PROVE  StaleOnlyInFlight' /\ PassedInTime'
    BY <1>5 DEF BeginReset, AsyncTypeOK
  <1>6. CASE EndReset
    BY <1>6 DEF EndReset, AsyncTypeOK
  <1>7. CASE AsyncClear
    BY <1>7 DEF AsyncClear, Unwaited, AsyncTypeOK
  <1>8. CASE AsyncDestroy
    BY <1>8 DEF AsyncDestroy, Released, Unwaited, AsyncTypeOK
  <1>9. CASE UNCHANGED asyncVars
    BY <1>9 DEF asyncVars
  <1> QED
    BY <1>1, <1>2, <1>3, <1>4, <1>5, <1>6, <1>7, <1>8, <1>9 DEF AsyncNext

(* An answer of an earlier use is counted for the present one only when it *)
(* was between the comparison of keys and the increment at the reset       *)
(* (async.cpp:392-395 against 270-306).                                    *)
THEOREM LateAnswersKnown == AsyncSpec => []StaleOnlyInFlight
  <1>1. LateInv => StaleOnlyInFlight
    BY DEF LateInv
  <1> QED
    BY <1>1, LateInit, LateStep, AsyncTypeCorrect, PTL DEF AsyncSpec
----------------------------------------------------------------------------
(* ResponseCounter                                                         *)

EnlistedAt == {"sleep", "asleep", "leave", "give_up"}
Enlisted   == {w \in Waiters : at[w] \in EnlistedAt}

(* The queue of the operating system holds the threads asleep, once each.  *)
Places     == 1 .. Len(asleepOn)
QueueExact ==
  /\ \A w \in Waiters : at[w] = "asleep" <=> \E i \in Places : asleepOn[i] = w
  /\ \A i, j \in Places : asleepOn[i] = asleepOn[j] => i = j

\* The places of those who went to sleep on an earlier value.
Outdated == {i \in Places : captured[asleepOn[i]] # count}

(* The argument: those asleep on an earlier value are about to be woken,   *)
(* all of them, or the only one, who is first in the queue.                *)
Alarm ==
  \/ Outdated = {}
  \/ \E c \in Counters : at[c] \in {"look", "wake_all"}
  \/ Outdated = {1} /\ \E c \in Counters : at[c] = "wake_one"

StillShort ==
  \A w \in Waiters :
    at[w] \in {"enlist", "sleep", "asleep"} => captured[w] < Expected[w]

WaitersAt == {"test", "enlist", "sleep", "asleep", "leave", "give_up", "reached", "late"}

RolesKept ==
  /\ \A c \in Counters : at[c] \in {"idle", "look", "wake_one", "wake_all"}
  /\ \A w \in Waiters : at[w] \in WaitersAt

SleepersCounted == deepSleepers = Cardinality(Enlisted)

CounterInv ==
  /\ CounterTypeOK /\ RolesKept /\ SleepersCounted /\ QueueExact /\ StillShort
  /\ Alarm
----------------------------------------------------------------------------
LEMMA EnlistedFinite == IsFiniteSet(Enlisted) /\ Cardinality(Enlisted) \in Nat
  <1>1. Enlisted \in SUBSET Waiters
    BY DEF Enlisted
  <1> QED
    BY <1>1, CounterAssumption, FS_Subset, FS_CardinalityType

LEMMA CounterStart == CounterInit => CounterInv
  <1> SUFFICES ASSUME CounterInit PROVE CounterInv
    OBVIOUS
  <1> USE CounterAssumption DEF CounterInit, Threads
  <1>1. CounterTypeOK
    <2>1. captured \in [Waiters -> 0 .. MaxCount]
      OBVIOUS
    <2> QED
      BY <2>1 DEF CounterTypeOK
  <1>2. RolesKept
    BY DEF RolesKept, WaitersAt
  <1>3. SleepersCounted
    <2>1. Enlisted = {}
      BY DEF Enlisted, EnlistedAt
    <2> QED
      BY <2>1, FS_EmptySet DEF SleepersCounted
  <1>4. QueueExact /\ Alarm
    BY DEF QueueExact, Alarm, Outdated, Places
  <1>5. StillShort
    BY DEF StillShort
  <1> QED
    BY <1>1, <1>2, <1>3, <1>4, <1>5 DEF CounterInv
----------------------------------------------------------------------------
(* What one thread that moves does to the set of those enlisted.           *)
LEMMA SameEnlisted ==
  ASSUME CounterTypeOK, NEW t \in Threads, NEW l, Move(t, at[t], l),
         at[t] \in EnlistedAt <=> l \in EnlistedAt
  PROVE  Enlisted' = Enlisted
  BY DEF CounterTypeOK, Move, Enlisted, Threads

LEMMA CounterTypeStep == CounterInv /\ [CounterNext]_counterVars => CounterTypeOK' /\ RolesKept'
  <1> SUFFICES ASSUME CounterInv, [CounterNext]_counterVars
               PROVE  CounterTypeOK' /\ RolesKept'
    OBVIOUS
  <1> USE CounterAssumption
      DEF CounterInv, CounterTypeOK, RolesKept, WaitersAt, Threads, Move
  <1>1. ASSUME NEW c \in Counters, Increment(c) PROVE CounterTypeOK' /\ RolesKept'
    BY <1>1 DEF Increment
  <1>2. ASSUME NEW c \in Counters, LookForSleepers(c) PROVE CounterTypeOK' /\ RolesKept'
    BY <1>2 DEF LookForSleepers, WakeKind
  <1>3. ASSUME NEW c \in Counters, WakeOne(c) PROVE CounterTypeOK' /\ RolesKept'
    <2>1. CASE asleepOn = <<>>
      BY <1>3, <2>1 DEF WakeOne
    <2>2. CASE asleepOn # <<>>
      <3>1. Head(asleepOn) \in Waiters /\ Tail(asleepOn) \in Seq(Waiters)
        BY <2>2
      <3> QED
        BY <1>3, <2>2, <3>1 DEF WakeOne
    <2> QED
      BY <2>1, <2>2
  <1>4. ASSUME NEW c \in Counters, WakeAll(c) PROVE CounterTypeOK' /\ RolesKept'
    BY <1>4 DEF WakeAll
  <1>5. ASSUME NEW w \in Waiters, TestCount(w) PROVE CounterTypeOK' /\ RolesKept'
    BY <1>5 DEF TestCount
  <1>6. ASSUME NEW w \in Waiters, SpinAgain(w) PROVE CounterTypeOK' /\ RolesKept'
    BY <1>6 DEF SpinAgain
  <1>7. ASSUME NEW w \in Waiters, Enlist(w) PROVE CounterTypeOK' /\ RolesKept'
    BY <1>7 DEF Enlist
  <1>8. ASSUME NEW w \in Waiters, SleepOnCount(w) PROVE CounterTypeOK' /\ RolesKept'
    <2>1. Append(asleepOn, w) \in Seq(Waiters)
      OBVIOUS
    <2>2. asleepOn' \in Seq(Waiters) /\ UNCHANGED <<count, deepSleepers, captured>>
      BY <1>8, <2>1 DEF SleepOnCount
    <2>3. Move(w, "sleep", "asleep") \/ Move(w, "sleep", "leave")
      BY <1>8 DEF SleepOnCount
    <2> QED
      BY <2>2, <2>3
  <1>9. ASSUME NEW w \in Waiters, TimeOut(w) PROVE CounterTypeOK' /\ RolesKept'
    <2>1. PICK i \in 1 .. Len(asleepOn) : asleepOn' = Without(i)
      BY <1>9 DEF TimeOut
    <2>2. Len(asleepOn) - 1 \in Nat
      BY <2>1
    <2>3. \A j \in 1 .. Len(asleepOn) - 1 : asleepOn[IF j < i THEN j ELSE j + 1] \in Waiters
      BY <2>1, SMTT(30)
    <2>4. asleepOn' \in Seq(Waiters)
      BY <2>1, <2>2, <2>3 DEF Without
    <2> QED
      BY <1>9, <2>4 DEF TimeOut
  <1>10. ASSUME NEW w \in Waiters, Delist(w) PROVE CounterTypeOK' /\ RolesKept'
    <2>1. w \in Enlisted
      BY <1>10 DEF Delist, Enlisted, EnlistedAt
    <2>2. deepSleepers # 0
      BY <2>1, EnlistedFinite, FS_EmptySet DEF SleepersCounted
    <2> QED
      BY <1>10, <2>2, SMTT(30) DEF Delist
  <1>11. ASSUME NEW w \in Waiters, WaitAgain(w) PROVE CounterTypeOK' /\ RolesKept'
    BY <1>11 DEF WaitAgain
  <1>12. CASE UNCHANGED counterVars
    BY <1>12 DEF counterVars
  <1> QED
    BY <1>1, <1>2, <1>3, <1>4, <1>5, <1>6, <1>7, <1>8, <1>9, <1>10, <1>11, <1>12
       DEF CounterNext
----------------------------------------------------------------------------
LEMMA CountedStep == CounterInv /\ [CounterNext]_counterVars => SleepersCounted'
  <1> SUFFICES ASSUME CounterInv, [CounterNext]_counterVars PROVE SleepersCounted'
    OBVIOUS
  <1> USE DEF CounterInv, SleepersCounted
  <1>1. ASSUME Enlisted' = Enlisted, UNCHANGED deepSleepers PROVE SleepersCounted'
    BY <1>1
  <1>2. ASSUME NEW c \in Counters, NEW l, Move(c, at[c], l), UNCHANGED deepSleepers
        PROVE  SleepersCounted'
    <2>1. Enlisted' = Enlisted
      BY <1>2, CounterAssumption DEF CounterTypeOK, Move, Enlisted, Threads
    <2> QED
      BY <1>2, <2>1
  <1>3. ASSUME NEW w \in Waiters, NEW l, Move(w, at[w], l), UNCHANGED deepSleepers,
               at[w] \in EnlistedAt <=> l \in EnlistedAt
        PROVE  SleepersCounted'
    BY <1>1, <1>3, SameEnlisted DEF Threads
  <1>4. ASSUME NEW c \in Counters, Increment(c) PROVE SleepersCounted'
    BY <1>2, <1>4 DEF Increment, Move
  <1>5. ASSUME NEW c \in Counters, LookForSleepers(c) PROVE SleepersCounted'
    BY <1>2, <1>5 DEF LookForSleepers, Move
  <1>6. ASSUME NEW c \in Counters, WakeOne(c) PROVE SleepersCounted'
    <2>1. CASE asleepOn = <<>>
      BY <1>2, <1>6, <2>1 DEF WakeOne, Move
    <2>2. CASE asleepOn # <<>>
      <3>1. Head(asleepOn) \in Waiters /\ at[Head(asleepOn)] = "asleep"
        <4>1. 1 \in Places /\ Head(asleepOn) = asleepOn[1] /\ asleepOn[1] \in Waiters
          BY <2>2 DEF CounterTypeOK, Places
        <4> QED
          BY <4>1 DEF QueueExact
      <3>2. at' = [at EXCEPT ![c] = "idle", ![Head(asleepOn)] = "leave"]
        BY <1>6, <2>2 DEF WakeOne
      <3>3. Enlisted' = Enlisted
        BY <3>1, <3>2, CounterAssumption
           DEF CounterTypeOK, Threads, Enlisted, EnlistedAt
      <3> QED
        BY <1>1, <1>6, <3>3 DEF WakeOne
    <2> QED
      BY <2>1, <2>2
  <1>7. ASSUME NEW c \in Counters, WakeAll(c) PROVE SleepersCounted'
    <2>1. Enlisted' = Enlisted
      BY <1>7, CounterAssumption DEF WakeAll, CounterTypeOK, Threads, Enlisted, EnlistedAt
    <2> QED
      BY <1>1, <1>7, <2>1 DEF WakeAll
  <1>8. ASSUME NEW w \in Waiters, TestCount(w) PROVE SleepersCounted'
    BY <1>3, <1>8 DEF TestCount, Move, EnlistedAt
  <1>9. ASSUME NEW w \in Waiters, SpinAgain(w) PROVE SleepersCounted'
    BY <1>3, <1>9 DEF SpinAgain, Move, EnlistedAt
  <1>10. ASSUME NEW w \in Waiters, Enlist(w) PROVE SleepersCounted'
    <2>1. w \notin Enlisted /\ Enlisted' = Enlisted \cup {w}
      BY <1>10 DEF Enlist, Move, CounterTypeOK, Threads, Enlisted, EnlistedAt
    <2> QED
      BY <1>10, <2>1, EnlistedFinite, FS_AddElement DEF Enlist
  <1>11. ASSUME NEW w \in Waiters, SleepOnCount(w) PROVE SleepersCounted'
    BY <1>3, <1>11 DEF SleepOnCount, Move, EnlistedAt
  <1>12. ASSUME NEW w \in Waiters, TimeOut(w) PROVE SleepersCounted'
    BY <1>3, <1>12 DEF TimeOut, Move, EnlistedAt
  <1>13. ASSUME NEW w \in Waiters, Delist(w) PROVE SleepersCounted'
    <2>1. w \in Enlisted /\ Enlisted' = Enlisted \ {w}
      BY <1>13 DEF Delist, Move, CounterTypeOK, Threads, Enlisted, EnlistedAt
    <2> QED
      BY <1>13, <2>1, EnlistedFinite, FS_RemoveElement DEF Delist
  <1>14. ASSUME NEW w \in Waiters, WaitAgain(w) PROVE SleepersCounted'
    BY <1>3, <1>14 DEF WaitAgain, Move, EnlistedAt
  <1>15. CASE UNCHANGED counterVars
    BY <1>15 DEF counterVars, Enlisted
  <1> QED
    BY <1>4, <1>5, <1>6, <1>7, <1>8, <1>9, <1>10, <1>11, <1>12, <1>13, <1>14, <1>15
       DEF CounterNext

(* The queue stays exact when the thread at place i leaves it.             *)
LEMMA OneLeaves ==
  ASSUME CounterTypeOK, QueueExact, NEW i \in Places,
         Len(asleepOn') = Len(asleepOn) - 1,
         \A j \in 1 .. Len(asleepOn) - 1 :
           asleepOn'[j] = asleepOn[IF j < i THEN j ELSE j + 1],
         \A u \in Waiters : at'[u] = "asleep" <=> at[u] = "asleep" /\ u # asleepOn[i]
  PROVE  QueueExact'
  <1>1. PICK n \in Nat : n = Len(asleepOn)
    BY DEF CounterTypeOK
  <1>2. /\ i \in 1 .. n /\ Places = 1 .. n /\ Places' = 1 .. n - 1
        /\ \A j \in 1 .. n - 1 : asleepOn'[j] = asleepOn[IF j < i THEN j ELSE j + 1]
    BY <1>1 DEF Places
  <1>3. \A j, k \in 1 .. n : asleepOn[j] = asleepOn[k] => j = k
    BY <1>2 DEF QueueExact
  <1>4. ASSUME NEW j \in 1 .. n - 1
        PROVE  \E k \in 1 .. n : k # i /\ asleepOn'[j] = asleepOn[k]
    <2>1. CASE j < i
      <3>1. j \in 1 .. n /\ j # i /\ asleepOn'[j] = asleepOn[j]
        BY <1>2, <2>1
      <3> QED
        BY <3>1
    <2>2. CASE ~(j < i)
      <3>1. j + 1 \in 1 .. n /\ j + 1 # i /\ asleepOn'[j] = asleepOn[j + 1]
        BY <1>2, <2>2
      <3> QED
        BY <3>1
    <2> QED
      BY <2>1, <2>2
  <1>5. ASSUME NEW k \in 1 .. n, k # i
        PROVE  \E j \in 1 .. n - 1 : asleepOn'[j] = asleepOn[k]
    <2>1. CASE k < i
      <3>1. k \in 1 .. n - 1 /\ asleepOn'[k] = asleepOn[k]
        BY <1>2, <2>1
      <3> QED
        BY <3>1
    <2>2. CASE ~(k < i)
      <3>1. PICK j \in Int : j = k - 1
        OBVIOUS
      <3>2. j \in 1 .. n - 1 /\ ~(j < i) /\ j + 1 = k
        BY <1>2, <1>5, <2>2, <3>1
      <3>3. asleepOn'[j] = asleepOn[k]
        BY <1>2, <3>2
      <3> QED
        BY <3>2, <3>3
    <2> QED
      BY <2>1, <2>2
  <1>6. ASSUME NEW u \in Waiters
        PROVE  at'[u] = "asleep" <=> \E j \in Places' : asleepOn'[j] = u
    <2>1. at[u] = "asleep" <=> \E k \in 1 .. n : asleepOn[k] = u
      BY <1>2 DEF QueueExact
    <2>2. (\E j \in 1 .. n - 1 : asleepOn'[j] = u) <=> \E k \in 1 .. n : k # i /\ asleepOn[k] = u
      <3>1. ASSUME NEW j \in 1 .. n - 1, asleepOn'[j] = u
            PROVE  \E k \in 1 .. n : k # i /\ asleepOn[k] = u
        <4>1. PICK k \in 1 .. n : k # i /\ asleepOn'[j] = asleepOn[k]
          BY <1>4
        <4> QED
          BY <3>1, <4>1
      <3>2. ASSUME NEW k \in 1 .. n, k # i, asleepOn[k] = u
            PROVE  \E j \in 1 .. n - 1 : asleepOn'[j] = u
        <4>1. PICK j \in 1 .. n - 1 : asleepOn'[j] = asleepOn[k]
          BY <1>5, <3>2
        <4> QED
          BY <3>2, <4>1
      <3> QED
        BY <3>1, <3>2, Zenon
    <2>3. (\E k \in 1 .. n : k # i /\ asleepOn[k] = u)
            <=> (\E k \in 1 .. n : asleepOn[k] = u) /\ u # asleepOn[i]
      BY <1>2, <1>3
    <2> QED
      BY <1>2, <2>1, <2>2, <2>3
  <1>7. ASSUME NEW j \in 1 .. n - 1, NEW k \in 1 .. n - 1, asleepOn'[j] = asleepOn'[k]
        PROVE  j = k
    <2>1. \A m \in 1 .. n - 1 : m \in 1 .. n /\ m + 1 \in 1 .. n
      OBVIOUS
    <2>2. (IF j < i THEN j ELSE j + 1) \in 1 .. n /\ (IF k < i THEN k ELSE k + 1) \in 1 .. n
      BY <2>1
    <2>3. (IF j < i THEN j ELSE j + 1) = (IF k < i THEN k ELSE k + 1)
      BY <1>2, <1>3, <1>7, <2>2
    <2> QED
      BY <1>2, <2>3
  <1> QED
    BY <1>2, <1>6, <1>7 DEF QueueExact

LEMMA QueueStep == CounterInv /\ [CounterNext]_counterVars => QueueExact' /\ StillShort'
  <1> SUFFICES ASSUME CounterInv, [CounterNext]_counterVars PROVE QueueExact' /\ StillShort'
    OBVIOUS
  <1> USE CounterAssumption
      DEF CounterInv, CounterTypeOK, RolesKept, QueueExact, StillShort, Places, Threads
  \* A move that no queue is concerned with.
  <1>1. ASSUME NEW t \in Threads, NEW l, Move(t, at[t], l), at[t] # "asleep", l # "asleep",
               UNCHANGED <<count, asleepOn, captured>>,
               l \in {"enlist", "sleep"} => at[t] = "enlist"
        PROVE  QueueExact' /\ StillShort'
    <2>1. \A w \in Waiters : at'[w] = "asleep" <=> at[w] = "asleep"
      BY <1>1 DEF Move
    <2>2. QueueExact'
      BY <1>1, <2>1
    <2>3. StillShort'
      BY <1>1 DEF Move
    <2> QED
      BY <2>2, <2>3
  <1>2. ASSUME NEW c \in Counters, Increment(c) PROVE QueueExact' /\ StillShort'
    <2>1. UNCHANGED <<asleepOn, captured>> /\ \A w \in Waiters : at'[w] = at[w]
      BY <1>2 DEF Increment, Move
    <2> QED
      BY <2>1
  <1>3. ASSUME NEW c \in Counters, LookForSleepers(c) PROVE QueueExact' /\ StillShort'
    BY <1>1, <1>3 DEF LookForSleepers, Move, WakeKind
  <1>4. ASSUME NEW c \in Counters, WakeOne(c) PROVE QueueExact' /\ StillShort'
    <2>1. CASE asleepOn = <<>>
      BY <1>1, <1>4, <2>1 DEF WakeOne, Move
    <2>2. CASE asleepOn # <<>>
      <3> DEFINE h == asleepOn[1]
      <3>1. /\ h \in Waiters
            /\ at' = [at EXCEPT ![c] = "idle", ![h] = "leave"]
            /\ asleepOn' = Tail(asleepOn)
        BY <1>4, <2>2 DEF WakeOne
      <3>2. /\ 1 \in Places /\ Len(asleepOn') = Len(asleepOn) - 1
            /\ \A j \in 1 .. Len(asleepOn) - 1 :
                 asleepOn'[j] = asleepOn[IF j < 1 THEN j ELSE j + 1]
        BY <2>2, <3>1, SMTT(30)
      <3>3. \A w \in Waiters : at'[w] = "asleep" <=> at[w] = "asleep" /\ w # h
        BY <3>1
      <3>6. QueueExact'
        BY <3>2, <3>3, OneLeaves, ZenonT(60)
      <3>7. StillShort'
        BY <1>4, <3>1 DEF WakeOne
      <3> QED
        BY <3>6, <3>7
    <2> QED
      BY <2>1, <2>2
  <1>5. ASSUME NEW c \in Counters, WakeAll(c) PROVE QueueExact' /\ StillShort'
    <2>1. QueueExact'
      BY <1>5 DEF WakeAll
    <2>2. StillShort'
      BY <1>5 DEF WakeAll
    <2> QED
      BY <2>1, <2>2
  <1>6. ASSUME NEW w \in Waiters, TestCount(w) PROVE QueueExact' /\ StillShort'
    <2>1. \A u \in Waiters : at'[u] = "asleep" <=> at[u] = "asleep"
      BY <1>6 DEF TestCount, Move
    <2>2. QueueExact'
      BY <1>6, <2>1 DEF TestCount
    <2>3. StillShort'
      BY <1>6 DEF TestCount, Move
    <2> QED
      BY <2>2, <2>3
  <1>7. ASSUME NEW w \in Waiters, SpinAgain(w) PROVE QueueExact' /\ StillShort'
    BY <1>1, <1>7, SMTT(30) DEF SpinAgain, Move
  <1>8. ASSUME NEW w \in Waiters, Enlist(w) PROVE QueueExact' /\ StillShort'
    BY <1>1, <1>8, SMTT(30) DEF Enlist, Move
  <1>9. ASSUME NEW w \in Waiters, SleepOnCount(w) PROVE QueueExact' /\ StillShort'
    <2>1. CASE count = captured[w]
      <3>1. Move(w, "sleep", "asleep") /\ asleepOn' = Append(asleepOn, w) /\ UNCHANGED captured
        BY <1>9, <2>1 DEF SleepOnCount
      <3>2. /\ Len(asleepOn') = Len(asleepOn) + 1 /\ asleepOn'[Len(asleepOn) + 1] = w
            /\ \A i \in 1 .. Len(asleepOn) : asleepOn'[i] = asleepOn[i]
        BY <3>1
      <3>3. \A u \in Waiters : at'[u] = "asleep" <=> at[u] = "asleep" \/ u = w
        BY <3>1 DEF Move
      <3>4. \A i \in 1 .. Len(asleepOn) : asleepOn[i] # w
        BY <3>1 DEF Move
      <3>7. PICK n \in Nat : n = Len(asleepOn)
        OBVIOUS
      <3>8. Len(asleepOn') = n + 1 /\ \A i \in 1 .. n + 1 : i \in 1 .. n \/ i = n + 1
        BY <3>2, <3>7, SMTT(30)
      <3>11. /\ n + 1 \in 1 .. n + 1 /\ asleepOn'[n + 1] = w
             /\ \A i \in 1 .. n : i \in 1 .. n + 1 /\ asleepOn'[i] = asleepOn[i]
             /\ \A i \in 1 .. n : asleepOn[i] # w
        BY <3>2, <3>4, <3>7
      <3>12. /\ \A i, j \in 1 .. n : asleepOn[i] = asleepOn[j] => i = j
             /\ \A u \in Waiters : at[u] = "asleep" <=> \E i \in 1 .. n : asleepOn[i] = u
        BY <3>7
      <3>9. ASSUME NEW u \in Waiters
            PROVE  at'[u] = "asleep" <=> \E i \in 1 .. n + 1 : asleepOn'[i] = u
        <4>1. CASE u = w
          BY <3>3, <3>11, <4>1
        <4>2. ASSUME u # w, NEW i \in 1 .. n + 1, asleepOn'[i] = u
              PROVE  \E k \in 1 .. n : asleepOn[k] = u
          <5>1. i \in 1 .. n
            BY <3>8, <3>11, <4>2
          <5> QED
            BY <3>11, <4>2, <5>1
        <4>3. ASSUME NEW k \in 1 .. n, asleepOn[k] = u
              PROVE  \E i \in 1 .. n + 1 : asleepOn'[i] = u
          <5>1. k \in 1 .. n + 1 /\ asleepOn'[k] = u
            BY <3>11, <4>3
          <5> QED
            BY <5>1
        <4> QED
          BY <3>3, <3>12, <4>1, <4>2, <4>3, Zenon
      <3>10. ASSUME NEW i \in 1 .. n + 1, NEW j \in 1 .. n + 1, asleepOn'[i] = asleepOn'[j]
             PROVE  i = j
        <4>1. (i \in 1 .. n \/ i = n + 1) /\ (j \in 1 .. n \/ j = n + 1)
          BY <3>8
        <4>2. CASE i \in 1 .. n /\ j \in 1 .. n
          <5>1. asleepOn[i] = asleepOn[j]
            BY <3>10, <3>11, <4>2, Zenon
          <5> QED
            BY <3>12, <4>2, <5>1, Zenon
        <4>3. CASE i \in 1 .. n /\ j = n + 1
          BY <3>10, <3>11, <4>3, Zenon
        <4>4. CASE i = n + 1 /\ j \in 1 .. n
          BY <3>10, <3>11, <4>4, Zenon
        <4> QED
          BY <4>1, <4>2, <4>3, <4>4, Zenon
      <3>5. QueueExact'
        BY <3>8, <3>9, <3>10
      <3>6. StillShort'
        BY <3>1 DEF Move
      <3> QED
        BY <3>5, <3>6
    <2>2. CASE count # captured[w]
      BY <1>1, <1>9, <2>2 DEF SleepOnCount, Move
    <2> QED
      BY <2>1, <2>2
  <1>10. ASSUME NEW w \in Waiters, TimeOut(w) PROVE QueueExact' /\ StillShort'
    <2>1. PICK i \in 1 .. Len(asleepOn) : asleepOn[i] = w /\ asleepOn' = Without(i)
      BY <1>10 DEF TimeOut
    <2>2. /\ Len(asleepOn) \in Nat /\ Len(asleepOn') = Len(asleepOn) - 1
          /\ \A j \in 1 .. Len(asleepOn) - 1 :
               asleepOn'[j] = asleepOn[IF j < i THEN j ELSE j + 1]
      BY <2>1 DEF Without
    <2>3. \A u \in Waiters : at'[u] = "asleep" <=> at[u] = "asleep" /\ u # asleepOn[i]
      BY <1>10, <2>1 DEF TimeOut, Move
    <2>4. i \in Places /\ CounterTypeOK /\ QueueExact
      BY <2>1
    <2>7. QueueExact'
      <3> HIDE DEF CounterTypeOK, QueueExact, Places
      <3> QED
        BY <2>2, <2>3, <2>4, OneLeaves
    <2>8. StillShort'
      BY <1>10 DEF TimeOut, Move
    <2> QED
      BY <2>7, <2>8
  <1>11. ASSUME NEW w \in Waiters, Delist(w) PROVE QueueExact' /\ StillShort'
    BY <1>1, <1>11, SMTT(30) DEF Delist, Move
  <1>12. ASSUME NEW w \in Waiters, WaitAgain(w) PROVE QueueExact' /\ StillShort'
    BY <1>1, <1>12, SMTT(30) DEF WaitAgain, Move
  <1>13. CASE UNCHANGED counterVars
    BY <1>13 DEF counterVars
  <1> QED
    BY <1>2, <1>3, <1>4, <1>5, <1>6, <1>7, <1>8, <1>9, <1>10, <1>11, <1>12, <1>13
       DEF CounterNext
----------------------------------------------------------------------------
LEMMA QueueEnlisted ==
  ASSUME CounterTypeOK, QueueExact, NEW i \in Places
  PROVE  asleepOn[i] \in Waiters /\ at[asleepOn[i]] = "asleep" /\ asleepOn[i] \in Enlisted
  <1>1. asleepOn[i] \in Waiters
    BY DEF CounterTypeOK, Places
  <1>2. at[asleepOn[i]] = "asleep"
    BY <1>1 DEF QueueExact
  <1> QED
    BY <1>1, <1>2 DEF Enlisted, EnlistedAt

(* One thread enlisted leaves place for one sleeper only, none for none.   *)
LEMMA ShortQueue ==
  ASSUME CounterInv
  PROVE  /\ deepSleepers = 0 => Places = {}
         /\ deepSleepers = 1 => Places \subseteq {1}
  <1> USE DEF CounterInv
  <1>1. ASSUME deepSleepers = 0 PROVE Places = {}
    <2>1. Enlisted = {}
      BY <1>1, EnlistedFinite, FS_EmptySet DEF SleepersCounted
    <2> QED
      BY <2>1, QueueEnlisted
  <1>2. ASSUME deepSleepers = 1, NEW i \in Places PROVE i = 1
    <2>1. PICK u : Enlisted = {u}
      BY <1>2, EnlistedFinite, FS_Singleton DEF SleepersCounted
    <2>2. 1 \in Places
      BY DEF Places, CounterTypeOK
    <2>3. asleepOn[1] = u /\ asleepOn[i] = u
      BY <2>1, <2>2, QueueEnlisted
    <2> QED
      BY <2>2, <2>3 DEF QueueExact
  <1> QED
    BY <1>1, <1>2

(* What the departure of the thread at place i does to the outdated ones.  *)
LEMMA OutdatedLeaves ==
  ASSUME CounterTypeOK, NEW i \in Places, UNCHANGED <<count, captured>>,
         Len(asleepOn') = Len(asleepOn) - 1,
         \A j \in 1 .. Len(asleepOn) - 1 :
           asleepOn'[j] = asleepOn[IF j < i THEN j ELSE j + 1]
  PROVE  /\ Outdated = {} => Outdated' = {}
         /\ Outdated = {1} => Outdated' = {} \/ (i # 1 /\ Outdated' = {1})
  <1>1. PICK n \in Nat : n = Len(asleepOn)
    BY DEF CounterTypeOK
  <1>2. /\ i \in 1 .. n /\ Places = 1 .. n /\ Places' = 1 .. n - 1
        /\ \A j \in 1 .. n - 1 : asleepOn'[j] = asleepOn[IF j < i THEN j ELSE j + 1]
    BY <1>1 DEF Places
  <1>3. ASSUME NEW j \in 1 .. n - 1
        PROVE  /\ j < i => j \in 1 .. n /\ (j \in Outdated' <=> j \in Outdated)
               /\ ~(j < i) => j + 1 \in 1 .. n /\ (j \in Outdated' <=> j + 1 \in Outdated)
    <2>1. j \in 1 .. n /\ j + 1 \in 1 .. n
      OBVIOUS
    <2>2. j \in Outdated' <=> captured[asleepOn'[j]] # count
      BY <1>2 DEF Outdated
    <2>3. CASE j < i
      <3>1. asleepOn'[j] = asleepOn[j]
        BY <1>2, <2>3
      <3>2. j \in Outdated <=> captured[asleepOn[j]] # count
        BY <1>2, <2>1 DEF Outdated
      <3> QED
        BY <2>1, <2>2, <2>3, <3>1, <3>2
    <2>4. CASE ~(j < i)
      <3>1. asleepOn'[j] = asleepOn[j + 1]
        BY <1>2, <2>4
      <3>2. j + 1 \in Outdated <=> captured[asleepOn[j + 1]] # count
        BY <1>2, <2>1 DEF Outdated
      <3> QED
        BY <2>1, <2>2, <2>4, <3>1, <3>2
    <2> QED
      BY <2>3, <2>4
  <1>4. Outdated' \subseteq 1 .. n - 1
    BY <1>2 DEF Outdated
  <1>5. ASSUME Outdated = {} PROVE Outdated' = {}
    BY <1>3, <1>4, <1>5
  <1>6. ASSUME Outdated = {1}, i = 1 PROVE Outdated' = {}
    <2>1. ASSUME NEW j \in 1 .. n - 1 PROVE j \notin Outdated'
      BY <1>3, <1>6, <2>1
    <2> QED
      BY <1>4, <2>1
  <1>7. ASSUME Outdated = {1}, i # 1 PROVE Outdated' = {1}
    <2>1. ASSUME NEW j \in 1 .. n - 1 PROVE j \in Outdated' <=> j = 1
      BY <1>2, <1>3, <1>7, <2>1
    <2>2. 1 \in 1 .. n - 1
      BY <1>2, <1>7
    <2> QED
      BY <1>4, <2>1, <2>2
  <1> QED
    BY <1>5, <1>6, <1>7

LEMMA AlarmStep == CounterInv /\ [CounterNext]_counterVars => Alarm'
  <1> SUFFICES ASSUME CounterInv, [CounterNext]_counterVars PROVE Alarm'
    OBVIOUS
  <1> USE CounterAssumption DEF CounterInv
  \* A move that leaves the queue and the counters where they are.
  <1>1. ASSUME NEW w \in Waiters, NEW l, Move(w, at[w], l), UNCHANGED <<count, asleepOn>>,
               \A i \in Places : captured'[asleepOn[i]] = captured[asleepOn[i]]
        PROVE  Alarm'
    <2>1. Outdated' = Outdated
      BY <1>1 DEF Outdated, Places
    <2>2. \A c \in Counters : at'[c] = at[c]
      BY <1>1 DEF Move, CounterTypeOK, Threads
    <2> QED
      BY <2>1, <2>2 DEF Alarm
  <1>2. ASSUME NEW c \in Counters, Increment(c) PROVE Alarm'
    <2>1. at'[c] = "look"
      BY <1>2 DEF Increment, Move, CounterTypeOK, Threads
    <2> QED
      BY <2>1 DEF Alarm
  <1>3. ASSUME NEW c \in Counters, LookForSleepers(c) PROVE Alarm'
    <2>1. Outdated' = Outdated /\ Outdated \subseteq Places /\ at'[c] = WakeKind
      BY <1>3 DEF LookForSleepers, Outdated, Places, Move, CounterTypeOK, Threads
    <2>2. CASE deepSleepers = 0
      BY <2>1, <2>2, ShortQueue DEF Alarm
    <2>3. CASE deepSleepers = 1
      <3>1. at'[c] = "wake_one" /\ (Outdated = {} \/ Outdated = {1})
        BY <2>1, <2>3, ShortQueue DEF WakeKind
      <3> QED
        BY <2>1, <3>1 DEF Alarm
    <2>4. CASE deepSleepers # 0 /\ deepSleepers # 1
      <3>1. at'[c] = "wake_all"
        BY <2>1, <2>4 DEF WakeKind
      <3> QED
        BY <3>1 DEF Alarm
    <2> QED
      BY <2>2, <2>3, <2>4
  <1>4. ASSUME NEW c \in Counters, WakeOne(c) PROVE Alarm'
    <2>1. CASE asleepOn = <<>>
      <3>1. asleepOn' = <<>>
        BY <1>4, <2>1 DEF WakeOne
      <3> QED
        BY <3>1 DEF Alarm, Outdated, Places
    <2>2. CASE asleepOn # <<>>
      <3> DEFINE h == asleepOn[1]
      <3>1. /\ h \in Waiters /\ at[c] = "wake_one"
            /\ at' = [at EXCEPT ![c] = "idle", ![h] = "leave"]
            /\ asleepOn' = Tail(asleepOn) /\ UNCHANGED <<count, captured>>
        BY <1>4, <2>2 DEF WakeOne, CounterTypeOK
      <3>2. /\ 1 \in Places /\ Len(asleepOn') = Len(asleepOn) - 1
            /\ \A j \in 1 .. Len(asleepOn) - 1 :
                 asleepOn'[j] = asleepOn[IF j < 1 THEN j ELSE j + 1]
        BY <2>2, <3>1 DEF Places, CounterTypeOK
      <3>3. /\ Outdated = {} => Outdated' = {}
            /\ Outdated = {1} => Outdated' = {}
        BY <3>1, <3>2, OutdatedLeaves
      <3>4. \A d \in Counters : at[d] \in {"look", "wake_all"} => at'[d] = at[d]
        BY <3>1 DEF CounterTypeOK, Threads
      <3> QED
        BY <3>3, <3>4 DEF Alarm
    <2> QED
      BY <2>1, <2>2
  <1>5. ASSUME NEW c \in Counters, WakeAll(c) PROVE Alarm'
    BY <1>5 DEF WakeAll, Alarm, Outdated, Places
  <1>6. ASSUME NEW w \in Waiters, TestCount(w) PROVE Alarm'
    <2>1. /\ at[w] = "test" /\ UNCHANGED <<count, asleepOn>>
          /\ captured' = [captured EXCEPT ![w] = count]
      BY <1>6 DEF TestCount, Move
    <2>2. \A i \in Places : captured'[asleepOn[i]] = captured[asleepOn[i]]
      BY <2>1, QueueEnlisted DEF CounterTypeOK
    <2> QED
      BY <1>1, <1>6, <2>1, <2>2 DEF TestCount, Move
  <1>7. ASSUME NEW w \in Waiters, SpinAgain(w) PROVE Alarm'
    BY <1>1, <1>7 DEF SpinAgain, Move
  <1>8. ASSUME NEW w \in Waiters, Enlist(w) PROVE Alarm'
    BY <1>1, <1>8 DEF Enlist, Move
  <1>9. ASSUME NEW w \in Waiters, SleepOnCount(w) PROVE Alarm'
    <2>1. CASE count = captured[w]
      <3>1. PICK n \in Nat : n = Len(asleepOn)
        BY DEF CounterTypeOK
      <3>2. /\ at' = [at EXCEPT ![w] = "asleep"] /\ asleepOn' = Append(asleepOn, w)
            /\ UNCHANGED <<count, captured>>
        BY <1>9, <2>1 DEF SleepOnCount, Move
      <3>3. /\ Places = 1 .. n /\ Places' = 1 .. n + 1 /\ asleepOn'[n + 1] = w
            /\ \A i \in 1 .. n : asleepOn'[i] = asleepOn[i]
        BY <3>1, <3>2 DEF Places, CounterTypeOK
      <3>4. n + 1 \notin Outdated' /\ Outdated' \subseteq 1 .. n + 1 /\ Outdated \subseteq 1 .. n
        BY <2>1, <3>2, <3>3 DEF Outdated
      <3>5. ASSUME NEW i \in 1 .. n
            PROVE  i \in 1 .. n + 1 /\ (i \in Outdated' <=> i \in Outdated)
        <4>1. i \in 1 .. n + 1 /\ asleepOn'[i] = asleepOn[i]
          BY <3>3
        <4>2. i \in Outdated' <=> captured'[asleepOn'[i]] # count'
          BY <3>3, <4>1 DEF Outdated
        <4>3. i \in Outdated <=> captured[asleepOn[i]] # count
          BY <3>3 DEF Outdated
        <4> QED
          BY <3>2, <4>1, <4>2, <4>3
      <3>6. \A i \in 1 .. n + 1 : i \in 1 .. n \/ i = n + 1
        OBVIOUS
      <3>7. Outdated' = Outdated
        BY <3>4, <3>5, <3>6
      <3>8. \A c \in Counters : at'[c] = at[c]
        BY <3>2 DEF CounterTypeOK, Threads
      <3> QED
        BY <3>7, <3>8 DEF Alarm
    <2>2. CASE count # captured[w]
      BY <1>1, <1>9, <2>2 DEF SleepOnCount, Move
    <2> QED
      BY <2>1, <2>2
  <1>10. ASSUME NEW w \in Waiters, TimeOut(w) PROVE Alarm'
    <2>1. PICK i \in 1 .. Len(asleepOn) : asleepOn[i] = w /\ asleepOn' = Without(i)
      BY <1>10 DEF TimeOut
    <2>2. /\ i \in Places /\ Len(asleepOn') = Len(asleepOn) - 1
          /\ \A j \in 1 .. Len(asleepOn) - 1 :
               asleepOn'[j] = asleepOn[IF j < i THEN j ELSE j + 1]
      BY <2>1 DEF Without, Places, CounterTypeOK
    <2>3. /\ Outdated = {} => Outdated' = {}
          /\ Outdated = {1} => Outdated' = {} \/ Outdated' = {1}
      BY <1>10, <2>2, OutdatedLeaves DEF TimeOut
    <2>4. \A c \in Counters : at'[c] = at[c]
      BY <1>10 DEF TimeOut, Move, CounterTypeOK, Threads
    <2> QED
      BY <2>3, <2>4 DEF Alarm
  <1>11. ASSUME NEW w \in Waiters, Delist(w) PROVE Alarm'
    BY <1>1, <1>11 DEF Delist, Move
  <1>12. ASSUME NEW w \in Waiters, WaitAgain(w) PROVE Alarm'
    BY <1>1, <1>12 DEF WaitAgain, Move
  <1>13. CASE UNCHANGED counterVars
    BY <1>13 DEF counterVars, Alarm, Outdated, Places
  <1> QED
    BY <1>2, <1>3, <1>4, <1>5, <1>6, <1>7, <1>8, <1>9, <1>10, <1>11, <1>12, <1>13
       DEF CounterNext
----------------------------------------------------------------------------
LEMMA CounterInvStep == CounterInv /\ [CounterNext]_counterVars => CounterInv'
  <1> SUFFICES ASSUME CounterInv, [CounterNext]_counterVars PROVE CounterInv'
    OBVIOUS
  <1>1. CounterTypeOK' /\ RolesKept'
    BY CounterTypeStep
  <1>2. SleepersCounted'
    BY CountedStep
  <1>3. QueueExact' /\ StillShort'
    BY QueueStep
  <1>4. Alarm'
    BY AlarmStep
  <1> QED
    BY <1>1, <1>2, <1>3, <1>4 DEF CounterInv

LEMMA AlarmSuffices == CounterInv => NoSleeperMissed
  <1> SUFFICES ASSUME CounterInv, NEW w \in Waiters, at[w] = "asleep", count >= Expected[w]
               PROVE  \E c \in Counters : at[c] \in {"look", "wake_one", "wake_all"}
    BY DEF NoSleeperMissed
  <1> USE DEF CounterInv
  <1>1. PICK i \in Places : asleepOn[i] = w
    BY DEF QueueExact
  <1>2. captured[w] < Expected[w]
    BY DEF StillShort
  <1>3. captured[w] # count
    BY <1>2, CounterAssumption DEF CounterTypeOK
  <1>4. i \in Outdated
    BY <1>1, <1>3 DEF Outdated
  <1> QED
    BY <1>4 DEF Alarm

(* The counter, the number of sleepers and the queue of the threads asleep *)
(* keep their types, whatever the threads do (AtomicMonotonicCounter).     *)
THEOREM CounterTypeCorrect == CounterSpec => []CounterTypeOK
  <1>1. CounterInv => CounterTypeOK
    BY DEF CounterInv
  <1> QED
    BY CounterStart, CounterInvStep, <1>1, PTL DEF CounterSpec

(* No waiter sleeps through the response it waits for, for any number of   *)
(* waiters and of counting threads: operator++ need not wake more than one *)
(* thread when deepSleepers_ is 1.                                         *)
THEOREM NoSleeperMissedCorrect == CounterSpec => []NoSleeperMissed
  BY CounterStart, CounterInvStep, AlarmSuffices, PTL DEF CounterSpec
=============================================================================
