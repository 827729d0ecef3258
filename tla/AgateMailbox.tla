---------------------------- MODULE AgateMailbox ----------------------------
(***************************************************************************)
(* The local mailboxes of Agate and the life of a message in them.         *)
(*                                                                         *)
(* A mailbox owns N message slots.  Free slots and queued messages form    *)
(* two lists threaded through the same field, next.  A producer acquires   *)
(* a slot and sends it; a consumer receives it and replies; the holders of *)
(* its signal wait for the reply or discard it.  The message is returned   *)
(* to the free list when it is condemned (nobody wants it any more) and no *)
(* longer in use (a later message has been received), by whichever thread  *)
(* makes the second of the two true.                                       *)
(*                                                                         *)
(* The four kinds differ in how a slot is taken from the free list, a      *)
(* message appended and received, and a slot returned.  Semaphores and     *)
(* counters are atomic here, and isReady.wait is a guard.                  *)
(***************************************************************************)
EXTENDS Naturals, Sequences, FiniteSets

CONSTANTS
  N,          \* slotCount
  Kinds,      \* the kinds of mailbox to consider
  Producers, Consumers,
  Waiters,    \* the threads that use signals
  SendFlags,  \* the flag sets that agt_send is called with
  Results,    \* the statuses that agt_reply is called with
  MaxHandles  \* bound: handles of one signal

AllKinds == {"spsc", "spmc", "mpsc", "mpmc"}

IGNORE    == "IGNORE"     \* message_ignore_result
FAST      == "FAST"       \* message_fast_cleanup
IN_USE    == "IN_USE"     \* message_in_use
CONDEMNED == "CONDEMNED"  \* message_is_condemned

ASSUME SlotAssumption   == N \in Nat /\ N >= 3
ASSUME KindAssumption   == Kinds \subseteq AllKinds /\ Kinds # {}
ASSUME ThreadAssumption ==
  /\ IsFiniteSet(Producers) /\ IsFiniteSet(Consumers) /\ IsFiniteSet(Waiters)
  /\ Producers \cap Consumers = {}
  /\ Waiters \cap (Producers \cup Consumers) = {}
  /\ Kinds \cap {"spsc", "spmc"} # {} => \A p, q \in Producers : p = q
  /\ Kinds \cap {"spsc", "mpsc"} # {} => \A c, d \in Consumers : c = d
ASSUME FlagAssumption   == SendFlags \subseteq SUBSET {IGNORE, FAST}
ASSUME ResultAssumption == Results # {} /\ "NOT_SET" \notin Results
ASSUME HandleAssumption == MaxHandles \in Nat \ {0}

Threads == Producers \cup Consumers \cup Waiters
Slots   == 0 .. N - 1
Dummy   == N - 1   \* lastMessage: the first message "received"

VARIABLES
  kind,                                           \* of the mailbox
  next, flags, isReady, openHandles, status,      \* fields of each message
  nextFreeSlot, lastFreeSlot, lastQueuedSlot, previousReceived,
  slotSemaphore, queuedMessages,
  pc,      \* where each thread is
  msg,     \* the message a thread works on
  old,     \* the message a thread frees, condemns or returns
  reg,     \* the list end a thread last read
  nxt,     \* the link a thread read behind it
  ret,     \* what a thread does next: after returning a message, or with
           \* the signal of the message it sends
  holders, \* how many handles of each signal the application has
  \* History variables: recorded, never read by a step.
  phase,   \* what each slot is used for
  fifo,    \* the messages appended and not yet received, oldest first
  answer   \* the status that the present message of a slot was replied with

msgVars  == <<next, flags, isReady, openHandles, status>>
ends     == <<nextFreeSlot, lastFreeSlot, lastQueuedSlot, previousReceived>>
counters == <<slotSemaphore, queuedMessages>>
locals   == <<msg, old, reg, nxt, ret>>
hist     == <<phase, fifo, answer>>
vars     == <<kind, msgVars, ends, counters, pc, locals, holders, hist>>

Permits(k) == IF k \in {"spsc", "mpmc"} THEN N - 1 ELSE N - 2

(* init_slots, and the four make_local_*_mailbox.  The last slot is the    *)
(* message received before the first; the others are free.                 *)
Init ==
  /\ kind \in Kinds
  /\ next        = [s \in Slots |-> s + 1]
  /\ flags       = [s \in Slots |-> {}]
  /\ isReady     = [s \in Slots |-> FALSE]
  /\ openHandles = [s \in Slots |-> 1]
  /\ status      = [s \in Slots |-> "NOT_SET"]
  /\ nextFreeSlot     = 0
  /\ lastFreeSlot     = N - 2
  /\ lastQueuedSlot   = Dummy
  /\ previousReceived = Dummy
  /\ slotSemaphore    = Permits(kind)
  /\ queuedMessages   = 0
  /\ pc  = [t \in Threads |-> "idle"]
  /\ msg = [t \in Threads |-> Dummy]
  /\ old = [t \in Threads |-> Dummy]
  /\ reg = [t \in Threads |-> Dummy]
  /\ nxt = [t \in Threads |-> Dummy]
  /\ ret = [t \in Threads |-> "idle"]
  /\ holders = [s \in Slots |-> 0]
  /\ phase   = [s \in Slots |-> IF s = Dummy THEN "answered" ELSE "free"]
  /\ fifo    = <<>>
  /\ answer  = [s \in Slots |-> "NOT_SET"]

SingleProducer == kind \in {"spsc", "spmc"}
SingleConsumer == kind \in {"spsc", "mpsc"}

Goto(t, label)  == pc' = [pc EXCEPT ![t] = label]
Become(s, what) == phase' = [phase EXCEPT ![s] = what]
\* A slot is taken for a new message, which nobody has replied to.
Claim(s) ==
  /\ Become(s, "claimed")
  /\ answer' = [answer EXCEPT ![s] = "NOT_SET"]
\* A local that is dead is reset, so that states differ only where they must.
Forget(f, t)    == [f EXCEPT ![t] = Dummy]
\* The address behind the last slot is no message: a thread that follows it
\* is in undefined behaviour, where the model stops it.
Reach(t, s, label) == Goto(t, IF s \in Slots THEN label ELSE "wild")
----------------------------------------------------------------------------
(* acquire_slot and get_free_slot.  A failed or timed-out acquire changes  *)
(* nothing.                                                                *)

PermitFree == slotSemaphore > 0

AcquireSlot(p) ==
  /\ pc[p] = "idle" /\ p \in Producers
  /\ PermitFree
  /\ slotSemaphore' = slotSemaphore - 1
  /\ Goto(p, IF SingleProducer THEN "pop" ELSE "loadFree")
  /\ UNCHANGED <<kind, msgVars, ends, queuedMessages, locals, holders, hist>>

(* One producer: the list head is its own. *)
PopSingle(p) ==
  /\ pc[p] = "pop"
  /\ Reach(p, nextFreeSlot, "send")
  /\ IF nextFreeSlot \in Slots
     THEN /\ msg' = [msg EXCEPT ![p] = nextFreeSlot]
          /\ nextFreeSlot' = next[nextFreeSlot]
          /\ Claim(nextFreeSlot)
     ELSE UNCHANGED <<msg, nextFreeSlot, phase, answer>>
  /\ UNCHANGED <<kind, msgVars, lastFreeSlot, lastQueuedSlot, previousReceived,
                 counters, old, reg, nxt, ret, holders, fifo>>

LoadFree(p) ==
  /\ pc[p] = "loadFree"
  /\ reg' = [reg EXCEPT ![p] = nextFreeSlot]
  /\ Goto(p, "popRead")
  /\ UNCHANGED <<kind, msgVars, ends, counters, msg, old, nxt, ret, holders,
                 hist>>

PopRead(p) ==
  /\ pc[p] = "popRead"
  /\ Reach(p, reg[p], "popCas")
  /\ nxt' = IF reg[p] \in Slots THEN [nxt EXCEPT ![p] = next[reg[p]]] ELSE nxt
  /\ UNCHANGED <<kind, msgVars, ends, counters, msg, old, reg, ret, holders,
                 hist>>

PopCas(p) ==
  /\ pc[p] = "popCas"
  /\ IF nextFreeSlot = reg[p]
     THEN /\ nextFreeSlot' = nxt[p]
          /\ msg' = [msg EXCEPT ![p] = reg[p]]
          /\ reg' = Forget(reg, p)
          /\ Claim(reg[p])
          /\ Goto(p, "send")
     ELSE /\ reg' = [reg EXCEPT ![p] = nextFreeSlot]
          /\ Goto(p, "popRead")
          /\ UNCHANGED <<nextFreeSlot, msg, phase, answer>>
  /\ nxt' = Forget(nxt, p)
  /\ UNCHANGED <<kind, msgVars, lastFreeSlot, lastQueuedSlot, previousReceived,
                 counters, old, ret, holders, fifo>>
----------------------------------------------------------------------------
(* send.  Nobody else knows the slot before it is linked, so its flags are *)
(* set in the step that first touches the queue.                           *)

Flagged(s, f)   == [flags EXCEPT ![s] = @ \cup f \cup {IN_USE}]
NotLinked(s, m) == next   \* mutant: the predecessor is not linked
Linked(s, m)    == [next EXCEPT ![s] = m]
Signal(f)       == IF IGNORE \in f THEN "ignore" ELSE "keep"

(* One producer: nobody sees the links it writes before they are counted.  *)
SendSingle(p, f) ==
  /\ pc[p] = "send" /\ SingleProducer
  /\ flags' = Flagged(msg[p], f)
  /\ next'  = Linked(lastQueuedSlot, msg[p])
  /\ lastQueuedSlot' = msg[p]
  /\ fifo' = Append(fifo, msg[p])
  /\ Become(msg[p], "queued")
  /\ ret' = [ret EXCEPT ![p] = Signal(f)]
  /\ Goto(p, "count")
  /\ UNCHANGED <<kind, isReady, openHandles, status, nextFreeSlot, lastFreeSlot,
                 previousReceived, counters, msg, old, reg, nxt, holders,
                 answer>>

SendLoad(p, f) ==
  /\ pc[p] = "send" /\ ~SingleProducer
  /\ flags' = Flagged(msg[p], f)
  /\ reg' = [reg EXCEPT ![p] = lastQueuedSlot]
  /\ ret' = [ret EXCEPT ![p] = Signal(f)]
  /\ Goto(p, "sendLink")
  /\ UNCHANGED <<kind, next, isReady, openHandles, status, ends, counters, msg,
                 old, nxt, holders, hist>>

SendLink(p) ==
  /\ pc[p] = "sendLink"
  /\ next' = Linked(reg[p], msg[p])
  /\ Goto(p, "sendCas")
  /\ UNCHANGED <<kind, flags, isReady, openHandles, status, ends, counters,
                 locals, holders, hist>>

SendCas(p) ==
  /\ pc[p] = "sendCas"
  /\ IF lastQueuedSlot = reg[p]
     THEN /\ lastQueuedSlot' = msg[p]
          /\ reg' = Forget(reg, p)
          /\ fifo' = Append(fifo, msg[p])
          /\ Become(msg[p], "queued")
          /\ Goto(p, "count")
     ELSE /\ reg' = [reg EXCEPT ![p] = lastQueuedSlot]
          /\ Goto(p, "sendLink")
          /\ UNCHANGED <<lastQueuedSlot, phase, fifo>>
  /\ UNCHANGED <<kind, msgVars, nextFreeSlot, lastFreeSlot, previousReceived,
                 counters, msg, old, nxt, ret, holders, answer>>

(* The message is counted, and its signal returned unless the result is    *)
(* ignored.                                                                *)
Count(p) ==
  /\ pc[p] = "count"
  /\ queuedMessages' = queuedMessages + 1
  /\ holders' = IF ret[p] = "keep" THEN [holders EXCEPT ![msg[p]] = @ + 1]
                ELSE holders
  /\ Goto(p, "idle")
  /\ ret' = [ret EXCEPT ![p] = "idle"]
  /\ msg' = Forget(msg, p)
  /\ UNCHANGED <<kind, msgVars, ends, slotSemaphore, old, reg, nxt, hist>>
----------------------------------------------------------------------------
(* receive and get_queued_message.                                         *)

TakeQueued(c) ==
  /\ pc[c] = "idle" /\ c \in Consumers
  /\ queuedMessages > 0
  /\ queuedMessages' = queuedMessages - 1
  /\ Goto(c, IF SingleConsumer THEN "fetch" ELSE "recvLoad")
  /\ UNCHANGED <<kind, msgVars, ends, slotSemaphore, locals, holders, hist>>

Rest(q) == IF q = <<>> THEN q ELSE Tail(q)
\* Message m, which follows message s, is received by c: the oldest leaves fifo.
Receive(c, s, m) ==
  /\ previousReceived' = m
  /\ msg'  = [msg EXCEPT ![c] = m]
  /\ old'  = [old EXCEPT ![c] = s]
  /\ fifo' = Rest(fifo)
  /\ Become(m, "handling")
  /\ Goto(c, "freeHold")

(* One consumer: previousReceived is its own.  The code stores it after    *)
(* free_hold, which nobody can tell from storing it here.                  *)
Fetch(c) ==
  /\ pc[c] = "fetch"
  /\ LET m == next[previousReceived] IN
       IF m \in Slots THEN Receive(c, previousReceived, m)
       ELSE Goto(c, "wild") /\ UNCHANGED <<previousReceived, msg, old, phase, fifo>>
  /\ UNCHANGED <<kind, msgVars, nextFreeSlot, lastFreeSlot, lastQueuedSlot,
                 counters, reg, nxt, ret, holders, answer>>

RecvLoad(c) ==
  /\ pc[c] = "recvLoad"
  /\ reg' = [reg EXCEPT ![c] = previousReceived]
  /\ Goto(c, "recvRead")
  /\ UNCHANGED <<kind, msgVars, ends, counters, msg, old, nxt, ret, holders,
                 hist>>

RecvRead(c) ==
  /\ pc[c] = "recvRead"
  /\ Reach(c, next[reg[c]], "recvCas")
  /\ nxt' = IF next[reg[c]] \in Slots THEN [nxt EXCEPT ![c] = next[reg[c]]]
            ELSE nxt
  /\ UNCHANGED <<kind, msgVars, ends, counters, msg, old, reg, ret, holders,
                 hist>>

RecvCas(c) ==
  /\ pc[c] = "recvCas"
  /\ nxt' = Forget(nxt, c)
  /\ IF previousReceived = reg[c]
     THEN Receive(c, reg[c], nxt[c]) /\ reg' = Forget(reg, c)
     ELSE /\ reg' = [reg EXCEPT ![c] = previousReceived]
          /\ Goto(c, "recvRead")
          /\ UNCHANGED <<previousReceived, msg, old, phase, fifo>>
  /\ UNCHANGED <<kind, msgVars, nextFreeSlot, lastFreeSlot, lastQueuedSlot,
                 counters, ret, holders, answer>>

\* Thread t returns message old[t], and then continues at label.
Destroy(t, label) ==
  /\ Goto(t, "cleanup")
  /\ ret' = [ret EXCEPT ![t] = label]

AlwaysUnwanted(s) == TRUE   \* mutant: condemned is not tested
NeverUnwanted(s)  == FALSE  \* mutant: the message is not returned
Unwanted(s) == CONDEMNED \in flags[s]
(* free_hold: the message received before is no longer in use.             *)
FreeHold(c) ==
  /\ pc[c] = "freeHold"
  /\ flags' = [flags EXCEPT ![old[c]] = @ \ {IN_USE}]
  /\ IF Unwanted(old[c])
     THEN Destroy(c, "handle") /\ UNCHANGED <<old, phase>>
     ELSE /\ Goto(c, "handle")
          /\ old' = Forget(old, c)
          \* The first message received needs no destruction.
          /\ phase' = IF IN_USE \in flags[old[c]] THEN phase
                      ELSE [phase EXCEPT ![old[c]] = "free"]
          /\ UNCHANGED ret
  /\ UNCHANGED <<kind, next, isReady, openHandles, status, ends, counters, msg,
                 reg, nxt, holders, fifo, answer>>
----------------------------------------------------------------------------
(* agt_reply.                                                              *)

NotInUse(s) == FALSE   \* mutant: in_use is not tested
InUse(s) == IN_USE \in flags[s]
\* condemn: t then continues at label, at once or after destroying old[t].
CondemnBy(t, s, label) ==
  /\ flags' = [flags EXCEPT ![s] = @ \cup {CONDEMNED}]
  /\ IF InUse(s)
     THEN /\ Goto(t, label)
          /\ old' = Forget(old, t)
          /\ UNCHANGED ret
     ELSE /\ Destroy(t, label)
          /\ old' = [old EXCEPT ![t] = s]

ReplyIgnored(c) ==
  /\ pc[c] = "handle"
  /\ IGNORE \in flags[msg[c]]
  /\ CondemnBy(c, msg[c], "idle")
  /\ Become(msg[c], "answered")
  /\ msg' = Forget(msg, c)
  /\ UNCHANGED <<kind, next, isReady, openHandles, status, ends, counters, reg,
                 nxt, holders, fifo, answer>>

ReplyStatus(c, result) ==
  /\ pc[c] = "handle"
  /\ IGNORE \notin flags[msg[c]]
  /\ status' = [status EXCEPT ![msg[c]] = result]
  /\ answer' = [answer EXCEPT ![msg[c]] = result]
  /\ Goto(c, "setReady")
  /\ UNCHANGED <<kind, next, flags, isReady, openHandles, ends, counters, locals,
                 holders, phase, fifo>>

SetReady(c) ==
  /\ pc[c] = "setReady"
  /\ isReady' = [isReady EXCEPT ![msg[c]] = TRUE]
  /\ Become(msg[c], "answered")
  /\ Goto(c, "idle")
  /\ msg' = Forget(msg, c)
  /\ UNCHANGED <<kind, next, flags, openHandles, status, ends, counters, old,
                 reg, nxt, ret, holders, fifo, answer>>
----------------------------------------------------------------------------
(* agt_signal_copy, agt_signal_wait and agt_signal_discard.  A caller has  *)
(* a handle and gives it up, but for a wait that fails, which changes      *)
(* nothing.                                                                *)

Copy(w, s) ==
  /\ pc[w] = "idle" /\ w \in Waiters
  /\ holders[s] \in 1 .. MaxHandles - 1
  /\ openHandles' = [openHandles EXCEPT ![s] = @ + 1]
  /\ holders' = [holders EXCEPT ![s] = @ + 1]
  /\ UNCHANGED <<kind, next, flags, isReady, status, ends, counters, pc, locals,
                 hist>>

UseHandle(w, s, label) ==
  /\ pc[w] = "idle" /\ w \in Waiters
  /\ holders[s] > 0
  /\ holders' = [holders EXCEPT ![s] = @ - 1]
  /\ msg' = [msg EXCEPT ![w] = s]
  /\ Goto(w, label)
  /\ UNCHANGED <<kind, msgVars, ends, counters, old, reg, nxt, ret, hist>>

WaitReady(w, s) == isReady[s] /\ UseHandle(w, s, "collect")
Discard(w, s)   == UseHandle(w, s, "drop")

(* The status is read. *)
Collect(w) ==
  /\ pc[w] = "collect"
  /\ Goto(w, "drop")
  /\ UNCHANGED <<kind, msgVars, ends, counters, locals, holders, hist>>

DropHandle(w) ==
  /\ pc[w] = "drop"
  /\ openHandles' = [openHandles EXCEPT ![msg[w]] = @ - 1]
  /\ IF openHandles[msg[w]] = 1
     THEN Goto(w, "condemn") /\ UNCHANGED msg
     ELSE Goto(w, "idle") /\ msg' = Forget(msg, w)
  /\ UNCHANGED <<kind, next, flags, isReady, status, ends, counters, old, reg,
                 nxt, ret, holders, hist>>

Condemn(w) ==
  /\ pc[w] = "condemn"
  /\ CondemnBy(w, msg[w], "idle")
  /\ msg' = Forget(msg, w)
  /\ UNCHANGED <<kind, next, isReady, openHandles, status, ends, counters, reg,
                 nxt, holders, hist>>
----------------------------------------------------------------------------
(* cleanup_message: nobody else knows the message now.                     *)

StaleReady(s) == isReady   \* mutant: isReady is not reset
NotReady(s)   == [isReady EXCEPT ![s] = FALSE]

StaleHandles(s) == openHandles   \* mutant: openHandles is not restored
OneHandle(s)    == [openHandles EXCEPT ![s] = 1]

Cleanup(t) ==
  /\ pc[t] = "cleanup"
  /\ LET s == old[t] IN
     /\ isReady' = NotReady(s)
     /\ openHandles' = OneHandle(s)
     /\ flags' = [flags EXCEPT ![s] = {}]
     /\ status' = IF FAST \in flags[s] THEN status
                  ELSE [status EXCEPT ![s] = "NOT_SET"]
  /\ Goto(t, "return")
  /\ UNCHANGED <<kind, next, ends, counters, locals, holders, hist>>

(* return_message of spsc and spmc: the message goes to the end of the     *)
(* free list, and is then linked.                                          *)
ReturnSwap(t) ==
  /\ pc[t] = "return" /\ SingleProducer
  /\ reg' = [reg EXCEPT ![t] = lastFreeSlot]
  /\ lastFreeSlot' = old[t]
  /\ Become(old[t], "free")
  /\ Goto(t, "returnLink")
  /\ UNCHANGED <<kind, msgVars, nextFreeSlot, lastQueuedSlot, previousReceived,
                 counters, msg, old, nxt, ret, holders, fifo, answer>>

ReturnLink(t) ==
  /\ pc[t] = "returnLink"
  /\ next' = Linked(reg[t], old[t])
  /\ reg' = Forget(reg, t)
  /\ Goto(t, "release")
  /\ UNCHANGED <<kind, flags, isReady, openHandles, status, ends, counters, msg,
                 old, nxt, ret, holders, hist>>

(* return_message of mpsc and mpmc: both loop on a compare-exchange, mpsc  *)
(* at the end of the free list and mpmc at its head.                       *)
AtEnd   == kind = "mpsc"
FreeEnd == IF AtEnd THEN lastFreeSlot ELSE nextFreeSlot

ReturnLoad(t) ==
  /\ pc[t] = "return" /\ ~SingleProducer
  /\ reg' = [reg EXCEPT ![t] = FreeEnd]
  /\ Goto(t, "returnStore")
  /\ UNCHANGED <<kind, msgVars, ends, counters, msg, old, nxt, ret, holders,
                 hist>>

ReturnStore(t) ==
  /\ pc[t] = "returnStore"
  /\ next' = IF AtEnd THEN Linked(reg[t], old[t]) ELSE Linked(old[t], reg[t])
  /\ Goto(t, "returnCas")
  /\ UNCHANGED <<kind, flags, isReady, openHandles, status, ends, counters,
                 locals, holders, hist>>

\* mpsc stores the link once more when it has succeeded.
ReturnCas(t) ==
  /\ pc[t] = "returnCas"
  /\ IF FreeEnd # reg[t]
     THEN /\ reg' = [reg EXCEPT ![t] = FreeEnd]
          /\ Goto(t, "returnStore")
          /\ UNCHANGED <<nextFreeSlot, lastFreeSlot, phase>>
     ELSE /\ Become(old[t], "free")
          /\ IF AtEnd
             THEN /\ lastFreeSlot' = old[t]
                  /\ Goto(t, "returnLink")
                  /\ UNCHANGED <<nextFreeSlot, reg>>
             ELSE /\ nextFreeSlot' = old[t]
                  /\ Goto(t, "release")
                  /\ reg' = Forget(reg, t)
                  /\ UNCHANGED lastFreeSlot
  /\ UNCHANGED <<kind, msgVars, lastQueuedSlot, previousReceived, counters, msg,
                 old, nxt, ret, holders, fifo, answer>>

Release(t) ==
  /\ pc[t] = "release"
  /\ slotSemaphore' = slotSemaphore + 1
  /\ old' = Forget(old, t)
  /\ ret' = [ret EXCEPT ![t] = "idle"]
  /\ Goto(t, ret[t])
  /\ UNCHANGED <<kind, msgVars, ends, queuedMessages, msg, reg, nxt, holders,
                 hist>>
----------------------------------------------------------------------------
Return(t) ==
  \/ Cleanup(t) \/ ReturnSwap(t) \/ ReturnLoad(t) \/ ReturnStore(t)
  \/ ReturnCas(t) \/ ReturnLink(t) \/ Release(t)

Produce(p) ==
  \/ AcquireSlot(p) \/ PopSingle(p) \/ LoadFree(p) \/ PopRead(p) \/ PopCas(p)
  \/ \E f \in SendFlags : SendSingle(p, f) \/ SendLoad(p, f)
  \/ SendLink(p) \/ SendCas(p) \/ Count(p)

Consume(c) ==
  \/ TakeQueued(c) \/ Fetch(c) \/ RecvLoad(c) \/ RecvRead(c) \/ RecvCas(c)
  \/ FreeHold(c) \/ ReplyIgnored(c) \/ SetReady(c) \/ Return(c)
  \/ \E result \in Results : ReplyStatus(c, result)

\* The steps of a call on a signal, and the calls.
Finish(w) == Collect(w) \/ DropHandle(w) \/ Condemn(w) \/ Return(w)
Await(w)  ==
  \E s \in Slots : Copy(w, s) \/ WaitReady(w, s) \/ Discard(w, s)

Next ==
  /\ \A t \in Threads : pc[t] # "wild"
  /\ \/ \E p \in Producers : Produce(p)
     \/ \E c \in Consumers : Consume(c)
     \/ \E w \in Waiters   : Await(w) \/ Finish(w)

Spec == Init /\ [][Next]_vars
----------------------------------------------------------------------------
ReturnPCs   == {"cleanup", "return", "returnStore", "returnCas", "returnLink",
                "release"}
PopPCs      == {"pop", "loadFree", "popRead", "popCas"}
ProducerPCs == {"idle", "wild", "send", "sendLink", "sendCas", "count"} \cup PopPCs
ConsumerPCs == {"idle", "wild", "fetch", "recvLoad", "recvRead", "recvCas",
                "freeHold", "handle", "setReady"} \cup ReturnPCs
WaiterPCs   == {"idle", "collect", "drop", "condemn"} \cup ReturnPCs

(* Every variable has its type.  In particular no counter is decreased     *)
(* below zero, and nextFreeSlot stays inside the slots or just behind      *)
(* them.                                                                   *)
TypeOK ==
  /\ kind \in Kinds
  /\ next        \in [Slots -> 0 .. N]
  /\ flags       \in [Slots -> SUBSET {IGNORE, FAST, IN_USE, CONDEMNED}]
  /\ isReady     \in [Slots -> BOOLEAN]
  /\ openHandles \in [Slots -> Nat]
  /\ status      \in [Slots -> Results \cup {"NOT_SET"}]
  /\ nextFreeSlot \in 0 .. N
  /\ {lastFreeSlot, lastQueuedSlot, previousReceived} \subseteq Slots
  /\ {slotSemaphore, queuedMessages} \subseteq Nat
  /\ pc \in [Threads -> ProducerPCs \cup ConsumerPCs \cup WaiterPCs]
  /\ \A p \in Producers : pc[p] \in ProducerPCs
  /\ \A c \in Consumers : pc[c] \in ConsumerPCs
  /\ \A w \in Waiters   : pc[w] \in WaiterPCs
  /\ {msg, old} \subseteq [Threads -> Slots]
  /\ {reg, nxt} \subseteq [Threads -> 0 .. N]
  /\ ret \in [Threads -> {"idle", "handle", "keep", "ignore"}]
  /\ holders \in [Slots -> Nat]
  /\ phase  \in [Slots -> {"free", "claimed", "queued", "handling", "answered"}]
  /\ fifo   \in Seq(Slots)
  /\ answer \in [Slots -> Results \cup {"NOT_SET"}]
----------------------------------------------------------------------------
Distinct(q) == \A i, j \in DOMAIN q : q[i] = q[j] => i = j

Popping   == {p \in Producers : pc[p] \in PopPCs}
Releasing == {t \in Threads : pc[t] \in {"returnLink", "release"}}
Free      == {s \in Slots : phase[s] = "free"}

(* A thread with a permit finds a slot: the free list is linked at least   *)
(* as far as there are permits, given out or not, and every slot on that   *)
(* stretch is free.  The code never tests for the end of the list.         *)
PermitsBacked ==
  LET permits == slotSemaphore + Cardinality(Popping)
  IN \E list \in [1 .. permits -> Free] :
       /\ Distinct(list)
       /\ permits > 0 => list[1] = nextFreeSlot
       /\ \A i \in 1 .. permits - 1 : list[i + 1] = next[list[i]]

\* Somebody has, or is about to have, a handle of the message's signal.
Kept(s) ==
  \/ holders[s] > 0
  \/ \E w \in Waiters : msg[w] = s /\ pc[w] \in {"collect", "drop", "condemn"}
  \/ \E p \in Producers : msg[p] = s /\ pc[p] = "count" /\ ret[p] = "keep"

\* No later message was received, or it was and free_hold is still to come.
Held(s) ==
  s = previousReceived \/ \E c \in Consumers : pc[c] = "freeHold" /\ old[c] = s

InHand(c) ==
  \/ pc[c] \in {"freeHold", "handle", "setReady"}
  \/ pc[c] \in ReturnPCs /\ ret[c] = "handle"

Returners(s) ==
  {t \in Threads : old[t] = s /\ pc[t] \in {"cleanup", "return", "returnStore",
                                            "returnCas"}}

(* No slot is lost and none returned twice.  The free slots are those that *)
(* permits stand for, those about to be released, and the one or two that  *)
(* the constructor keeps back.  Every other slot is in somebody's hands: a *)
(* producer fills it, it waits in the queue, or a consumer handles it; and *)
(* once it was answered, exactly one thread returns it as soon as it is    *)
(* neither kept for a signal nor held by the mailbox, and none before.     *)
SlotsConserved ==
  /\ \E spare \in N - 1 - Permits(kind) .. N - Permits(kind) :
       Cardinality(Free) = slotSemaphore + Cardinality(Popping)
                             + Cardinality(Releasing) + spare
  /\ \A s \in Slots :
       /\ phase[s] = "claimed" =>
            \E p \in Producers : msg[p] = s /\ pc[p] \in {"send", "sendLink", "sendCas"}
       /\ phase[s] = "queued" => \E i \in DOMAIN fifo : fifo[i] = s
       /\ phase[s] = "handling" => \E c \in Consumers : msg[c] = s /\ InHand(c)
       /\ phase[s] = "answered" =>
            IF Kept(s) \/ Held(s) THEN Returners(s) = {}
            ELSE \E t \in Threads : Returners(s) = {t}

(* A receive that follows next finds the messages in the order in which    *)
(* they were appended, and each counted message is there.                  *)
QueueLinked ==
  LET chain == <<previousReceived>> \o fifo
  IN /\ \A i \in 1 .. Len(fifo) : next[chain[i]] = chain[i + 1]
     /\ queuedMessages <= Len(fifo)

(* The status that agt_signal_wait returns is one that a consumer replied  *)
(* with to this very message: neither what an earlier message in the slot  *)
(* left there, nor what is there before the reply.                         *)
ReplyIsOwn ==
  \A w \in Waiters :
    pc[w] = "collect" =>
      answer[msg[w]] # "NOT_SET" /\ status[msg[w]] = answer[msg[w]]

(* openHandles is the number of handles that somebody will still let go    *)
(* of, as long as there is one: so the last of them, and no other,         *)
(* condemns the message.                                                   *)
HandlesCounted ==
  \A s \in Slots :
    LET users == {w \in Waiters : msg[w] = s /\ pc[w] \in {"collect", "drop"}}
        open  == holders[s] + Cardinality(users)
    IN open > 0 => openHandles[s] = open
=============================================================================
