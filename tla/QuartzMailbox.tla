--------------------------- MODULE QuartzMailbox ---------------------------
(***************************************************************************)
(* The process mailbox of Quartz (struct qtz_mailbox, qtz_request and the  *)
(* functions qtz_send, qtz_wait, qtz_discard).                             *)
(*                                                                         *)
(* A mailbox owns N request slots.  Free slots form a lock-free stack      *)
(* threaded through nextSlot, guarded by slotSemaphore.  A sender pops a   *)
(* slot, fills it and appends it to a queue threaded through the same      *)
(* nextSlot fields; the mailbox thread follows the links.  Three flag bits *)
(* decide which thread returns a slot to the stack.                        *)
(*                                                                         *)
(* Every access to memory that two threads share is a step of its own.     *)
(* slotSemaphore and queuedMessages are taken as atomic counters here.     *)
(***************************************************************************)
EXTENDS Naturals, Sequences, FiniteSets

CONSTANTS
  N,        \* totalSlotCount
  Clients,  \* application threads
  Senders,  \* the clients that call qtz_send
  Main,     \* the mailbox thread, qtz_mailbox_main_thread_proc
  Kinds,    \* the kinds of message the clients send
  Outcomes, \* the statuses the handler of "alloc" may store
  AtExit,   \* whether the process may run its exit hook, destroyMailbox
  None      \* the null request

ReplyKinds   == {"alloc", "callback"}   \* handler ends in NOTIFY_SENDER
DestroyKinds == {"log"}                 \* handler ends in DESTROY
AllKinds     == ReplyKinds \cup DestroyKinds \cup {"kill"}
\* The kinds whose handle the sender keeps and later waits on or discards.
HandleKinds  == ReplyKinds \cup {"kill"}

ASSUME SlotAssumption   == N \in Nat \ {0, 1}
ASSUME ThreadAssumption == /\ Senders \subseteq Clients
                           /\ Main \notin Clients
                           /\ IsFiniteSet(Clients)
ASSUME KindAssumption   == Kinds \subseteq AllKinds /\ AtExit \in BOOLEAN
ASSUME OutcomeAssumption == Outcomes \subseteq {"SUCCESS", "ERROR"}
ASSUME NoneAssumption   == None \notin Nat

Threads  == Clients \cup {Main}
Slots    == 0 .. N - 1
Dummy    == N - 1              \* the first previousRequest; never in the pool
Statuses == {"SUCCESS", "ERROR"}
Modes    == {"WAIT", "TIMED", "TRY"}

READY         == "READY"          \* QTZ_MESSAGE_IS_READY
DISCARDED     == "DISCARDED"      \* QTZ_MESSAGE_IS_DISCARDED
NOT_PRESERVED == "NOT_PRESERVED"  \* QTZ_MESSAGE_NOT_PRESERVED
FlagBits      == {READY, DISCARDED, NOT_PRESERVED}

VARIABLES
  nextSlot, flags, kind, status,  \* fields of each qtz_request
  nextFreeSlot, lastQueuedSlot,   \* heads of the two lists
  slotSemaphore, queuedMessages,  \* the two counters
  previousRequest, killRequest, shouldClose,
  exitHook, \* whether destroyMailbox has run
  pc,       \* where each thread is
  slot,     \* the request a thread works on
  reg,      \* the slot index a thread last read from a list head
  nxt,      \* a sender's local nextSlot in get_free_request_slot
  dying,    \* the argument of a thread's destroy_request
  ret,      \* where a thread continues after destroy_request
  call,     \* arguments of a client's current call
  held,     \* handles the application still has to wait on or discard
  \* History variables: recorded, never read by a step.
  stack,    \* the free slots, top first
  fifo,     \* the requests appended and not yet taken, oldest first
  answer    \* the outcome of handling the request in each slot

slotVars == <<nextSlot, flags, kind, status>>
counters == <<slotSemaphore, queuedMessages>>
boxVars  == <<previousRequest, killRequest, shouldClose, exitHook>>
locals   == <<slot, reg, nxt, dying, ret, call>>
hist     == <<stack, fifo, answer>>
vars == <<slotVars, nextFreeSlot, lastQueuedSlot, counters, boxVars, pc,
          locals, held, hist>>
----------------------------------------------------------------------------
NoCall == [kind |-> "log", mode |-> "WAIT"]

InitialPermits == N - 1

(* The constructor qtz_mailbox and qtz_request::init.  A local variable    *)
(* that is out of scope keeps the value it has here.                       *)
Init ==
  /\ nextSlot = [s \in Slots |-> s + 1]
  /\ flags    = [s \in Slots |-> {NOT_PRESERVED}]
  /\ kind     = [s \in Slots |-> "none"]
  /\ status   = [s \in Slots |-> "SUCCESS"]
  /\ nextFreeSlot    = 0
  /\ lastQueuedSlot  = Dummy
  /\ slotSemaphore   = InitialPermits
  /\ queuedMessages  = 0
  /\ previousRequest = Dummy
  /\ killRequest     = None
  /\ shouldClose     = FALSE
  /\ exitHook        = FALSE
  /\ pc    = [t \in Threads |-> "idle"]
  /\ slot  = [t \in Threads |-> Dummy]
  /\ reg   = [t \in Threads |-> 0]
  /\ nxt   = [t \in Threads |-> 0]
  /\ dying = [t \in Threads |-> Dummy]
  /\ ret   = [t \in Threads |-> "idle"]
  /\ call  = [c \in Clients |-> NoCall]
  /\ held  = {}
  /\ stack  = [i \in 1 .. N - 1 |-> i - 1]
  /\ fifo   = <<>>
  /\ answer = [s \in Slots |-> "none"]

Goto(t, label) == pc' = [pc EXCEPT ![t] = label]
Forget(local, t, init) == local' = [local EXCEPT ![t] = init]

(* The assertion of get_request: an index outside the slot array stops the *)
(* process.                                                                *)
Valid(i) == i < N

Rest(q) == IF q = <<>> THEN q ELSE Tail(q)

Ready(s) == READY \in flags[s]
----------------------------------------------------------------------------
(* qtz_send, first half: acquire_slot and get_free_request_slot. *)

SendBegin(c, k, m) ==
  /\ pc[c] = "idle"
  /\ call' = [call EXCEPT ![c] = [kind |-> k, mode |-> m]]
  /\ Goto(c, "acquire")
  /\ UNCHANGED <<slotVars, nextFreeSlot, lastQueuedSlot, counters, boxVars,
                 slot, reg, nxt, dying, ret, held, hist>>

NoPermitCheck == TRUE     \* mutant: the semaphore is not tested
PermitFree    == slotSemaphore > 0

AcquireSlot(c) ==
  /\ pc[c] = "acquire"
  /\ PermitFree
  /\ slotSemaphore' = slotSemaphore - 1
  /\ call' = [call EXCEPT ![c].mode = "WAIT"]
  /\ Goto(c, "loadFree")
  /\ UNCHANGED <<slotVars, nextFreeSlot, lastQueuedSlot, queuedMessages,
                 boxVars, slot, reg, nxt, dying, ret, held, hist>>

PermitReturned == slotSemaphore + 1   \* mutant: a failed call releases
PermitsAfterFailure == slotSemaphore

(* A timed acquire gives up on an exhausted pool; try_acquire also when    *)
(* its only compare_exchange_weak fails.  qtz_send returns null.           *)
AcquireFail(c) ==
  /\ pc[c] = "acquire"
  /\ \/ call[c].mode = "TRY"
     \/ call[c].mode = "TIMED" /\ slotSemaphore = 0
  /\ slotSemaphore' = PermitsAfterFailure
  /\ Forget(call, c, NoCall)
  /\ Goto(c, "idle")
  /\ UNCHANGED <<slotVars, nextFreeSlot, lastQueuedSlot, queuedMessages,
                 boxVars, slot, reg, nxt, dying, ret, held, hist>>

LoadFree(c) ==
  /\ pc[c] = "loadFree"
  /\ reg' = [reg EXCEPT ![c] = nextFreeSlot]
  /\ Goto(c, "popRead")
  /\ UNCHANGED <<slotVars, nextFreeSlot, lastQueuedSlot, counters, boxVars,
                 slot, nxt, dying, ret, call, held, hist>>

PopRead(c) ==
  /\ pc[c] = "popRead"
  /\ IF Valid(reg[c])
     THEN /\ nxt' = [nxt EXCEPT ![c] = nextSlot[reg[c]]]
          /\ Goto(c, "popCas")
     ELSE /\ Goto(c, "aborted")
          /\ UNCHANGED nxt
  /\ UNCHANGED <<slotVars, nextFreeSlot, lastQueuedSlot, counters, boxVars,
                 slot, reg, dying, ret, call, held, hist>>

PlainStore(t) == TRUE     \* mutant: a store where there is a CAS
HeadUnchanged(t) == nextFreeSlot = reg[t]

PopCas(c) ==
  /\ pc[c] = "popCas"
  /\ IF HeadUnchanged(c)
     THEN /\ nextFreeSlot' = nxt[c]
          /\ slot' = [slot EXCEPT ![c] = reg[c]]
          /\ stack' = Rest(stack)
          /\ Goto(c, "exchange")
          /\ Forget(reg, c, 0)
     ELSE /\ reg' = [reg EXCEPT ![c] = nextFreeSlot]
          /\ Goto(c, "popRead")
          /\ UNCHANGED <<nextFreeSlot, slot, stack>>
  /\ Forget(nxt, c, 0)
  /\ UNCHANGED <<slotVars, lastQueuedSlot, counters, boxVars, dying, ret,
                 call, held, fifo, answer>>

(* qtz_send, second half: the fields are filled in, then enqueue_request   *)
(* exchanges lastQueuedSlot, links the predecessor and counts the message. *)

Exchange(c) ==
  /\ pc[c] = "exchange"
  /\ kind' = [kind EXCEPT ![slot[c]] = call[c].kind]
  /\ reg' = [reg EXCEPT ![c] = lastQueuedSlot]
  /\ lastQueuedSlot' = slot[c]
  /\ fifo' = Append(fifo, slot[c])
  /\ Goto(c, "link")
  /\ UNCHANGED <<nextSlot, flags, status, nextFreeSlot, counters, boxVars,
                 slot, nxt, dying, ret, call, held, stack, answer>>

Unlinked(c) == nextSlot   \* mutant: the predecessor is not linked
Linked(c)   == [nextSlot EXCEPT ![reg[c]] = slot[c]]

LinkPrevious(c) ==
  /\ pc[c] = "link"
  /\ nextSlot' = Linked(c)
  /\ Goto(c, "increase")
  /\ Forget(reg, c, 0)
  /\ UNCHANGED <<flags, kind, status, nextFreeSlot, lastQueuedSlot, counters,
                 boxVars, slot, nxt, dying, ret, call, held, hist>>

(* qtz_send returns the handle, which the sender of a message that gets no *)
(* answer drops.                                                           *)
Increase(c) ==
  /\ pc[c] = "increase"
  /\ queuedMessages' = queuedMessages + 1
  /\ held' = IF call[c].kind \in HandleKinds THEN held \cup {slot[c]} ELSE held
  /\ Goto(c, "idle")
  /\ Forget(slot, c, Dummy)
  /\ Forget(call, c, NoCall)
  /\ UNCHANGED <<slotVars, nextFreeSlot, lastQueuedSlot, slotSemaphore,
                 boxVars, reg, nxt, dying, ret, hist>>
----------------------------------------------------------------------------
(* destroy_request, run by whichever thread sees all three flags. *)

StartDestroy(t, s, after) ==
  /\ dying' = [dying EXCEPT ![t] = s]
  /\ ret' = [ret EXCEPT ![t] = after]
  /\ Goto(t, "clear")

\* mutant: the flag is reset instead of the word being cleared to it, the bug
\* that a note in destroy_request remembers
ResetFlags(s)   == flags[s] \ {NOT_PRESERVED}
ClearedFlags(s) == {NOT_PRESERVED}

Clear(t) ==
  /\ pc[t] = "clear"
  /\ flags' = [flags EXCEPT ![dying[t]] = ClearedFlags(dying[t])]
  /\ kind'  = [kind EXCEPT ![dying[t]] = "none"]
  /\ answer' = [answer EXCEPT ![dying[t]] = "none"]
  /\ reg' = [reg EXCEPT ![t] = nextFreeSlot]
  /\ Goto(t, "pushLink")
  /\ UNCHANGED <<nextSlot, status, nextFreeSlot, lastQueuedSlot, counters,
                 boxVars, slot, nxt, dying, ret, call, held, stack, fifo>>

PushLink(t) ==
  /\ pc[t] = "pushLink"
  /\ nextSlot' = [nextSlot EXCEPT ![dying[t]] = reg[t]]
  /\ Goto(t, "pushCas")
  /\ UNCHANGED <<flags, kind, status, nextFreeSlot, lastQueuedSlot, counters,
                 boxVars, locals, held, hist>>

PushCas(t) ==
  /\ pc[t] = "pushCas"
  /\ IF HeadUnchanged(t)
     THEN /\ nextFreeSlot' = dying[t]
          /\ stack' = <<dying[t]>> \o stack
          /\ Goto(t, "release")
          /\ Forget(reg, t, 0)
          /\ Forget(dying, t, Dummy)
     ELSE /\ reg' = [reg EXCEPT ![t] = nextFreeSlot]
          /\ Goto(t, "pushLink")
          /\ UNCHANGED <<nextFreeSlot, stack, dying>>
  /\ UNCHANGED <<slotVars, lastQueuedSlot, counters, boxVars, slot, nxt, ret,
                 call, held, fifo, answer>>

Release(t) ==
  /\ pc[t] = "release"
  /\ slotSemaphore' = slotSemaphore + 1
  /\ Goto(t, ret[t])
  /\ Forget(ret, t, "idle")
  /\ UNCHANGED <<slotVars, nextFreeSlot, lastQueuedSlot, queuedMessages,
                 boxVars, slot, reg, nxt, dying, call, held, hist>>
----------------------------------------------------------------------------
(* The mailbox thread: acquire_next_queued_request. *)

Decrease ==
  /\ pc[Main] = "idle"
  /\ queuedMessages > 0
  /\ queuedMessages' = queuedMessages - 1
  /\ Goto(Main, "getNext")
  /\ UNCHANGED <<slotVars, nextFreeSlot, lastQueuedSlot, slotSemaphore,
                 boxVars, locals, held, hist>>

GetNextQueued ==
  /\ pc[Main] = "getNext"
  /\ LET request == nextSlot[previousRequest] IN
     IF Valid(request)
     THEN /\ slot' = [slot EXCEPT ![Main] = request]
          /\ fifo' = Rest(fifo)
          /\ Goto(Main, "lock")
     ELSE /\ Goto(Main, "aborted")
          /\ UNCHANGED <<slot, fifo>>
  /\ UNCHANGED <<slotVars, nextFreeSlot, lastQueuedSlot, counters, boxVars,
                 reg, nxt, dying, ret, call, held, stack, answer>>

Lock ==
  /\ pc[Main] = "lock"
  /\ flags' = [flags EXCEPT ![slot[Main]] = @ \ {NOT_PRESERVED}]
  /\ Goto(Main, "unlock")
  /\ UNCHANGED <<nextSlot, kind, status, nextFreeSlot, lastQueuedSlot,
                 counters, boxVars, locals, held, hist>>

KeepOnUnlock(s)    == FALSE  \* mutant: unlock never destroys
DestroyOnUnlock(s) == {READY, DISCARDED} \subseteq flags[s]

(* previousRequest is the mailbox thread's own: it advances in the step    *)
(* that unlocks its old value.                                             *)
UnlockPrevious ==
  /\ pc[Main] = "unlock"
  /\ flags' = [flags EXCEPT ![previousRequest] = @ \cup {NOT_PRESERVED}]
  /\ IF DestroyOnUnlock(previousRequest)
     THEN StartDestroy(Main, previousRequest, "dispatch")
     ELSE Goto(Main, "dispatch") /\ UNCHANGED <<dying, ret>>
  /\ previousRequest' = slot[Main]
  /\ UNCHANGED <<nextSlot, kind, status, nextFreeSlot, lastQueuedSlot,
                 counters, killRequest, shouldClose, exitHook, slot, reg, nxt,
                 call, held, hist>>

StatusKept(s, st)   == status      \* mutant: the handler stores no status
StatusStored(s, st) == [status EXCEPT ![s] = st]

RequestForgotten(s) == killRequest \* mutant: proc_kill keeps no request
RequestKept(s)      == s

(* process_next_message: the handler of the request's kind runs.  Handlers *)
(* differ in the status they store and the action they return;             *)
(* proc_execute_callback stores no status.                                 *)
Dispatch ==
  LET request == slot[Main] IN
  /\ pc[Main] = "dispatch"
  /\ \/ /\ kind[request] = "alloc"
        /\ \E st \in Outcomes :
             /\ status' = StatusStored(request, st)
             /\ answer' = [answer EXCEPT ![request] = st]
        /\ Goto(Main, "notify")
        /\ UNCHANGED boxVars
     \/ /\ kind[request] = "callback"
        /\ answer' = [answer EXCEPT ![request] = "SUCCESS"]
        /\ Goto(Main, "notify")
        /\ UNCHANGED <<status, boxVars>>
     \/ /\ kind[request] \in DestroyKinds
        /\ Goto(Main, "destroy")
        /\ UNCHANGED <<status, answer, boxVars>>
     \/ /\ kind[request] = "kill"
        /\ shouldClose' = TRUE
        /\ killRequest' = RequestKept(request)
        /\ Goto(Main, "checkClose")
        /\ UNCHANGED <<status, answer, previousRequest, exitHook>>
  /\ UNCHANGED <<nextSlot, flags, kind, nextFreeSlot, lastQueuedSlot,
                 counters, locals, held, stack, fifo>>

(* qtz_request::action_notify_sender *)
ActionNotify ==
  LET request == slot[Main] IN
  /\ pc[Main] = "notify"
  /\ flags' = [flags EXCEPT ![request] = @ \cup {READY}]
  /\ IF {NOT_PRESERVED, DISCARDED} \subseteq flags[request]
     THEN StartDestroy(Main, request, "checkClose")
     ELSE /\ Goto(Main, IF DISCARDED \in flags[request]
                        THEN "checkClose" ELSE "wake")
          /\ UNCHANGED <<dying, ret>>
  /\ UNCHANGED <<nextSlot, kind, status, nextFreeSlot, lastQueuedSlot,
                 counters, boxVars, slot, reg, nxt, call, held, hist>>

NoneAsleep(s) == {}       \* mutant: nobody is notified
AsleepOn(s)   == {c \in Clients : pc[c] = "asleep" /\ slot[c] = s}

(* flags.notify_all: the threads asleep on this request look again. *)
WakeAll(s, label) ==
  pc' = [t \in Threads |-> IF t = Main THEN label
                           ELSE IF t \in AsleepOn(s) THEN "wait" ELSE pc[t]]

NotifyAll ==
  /\ pc[Main] = "wake"
  /\ WakeAll(slot[Main], "checkClose")
  /\ UNCHANGED <<slotVars, nextFreeSlot, lastQueuedSlot, counters, boxVars,
                 locals, held, hist>>

(* qtz_request::action_destroy *)
ActionDestroy ==
  LET request == slot[Main] IN
  /\ pc[Main] = "destroy"
  /\ flags' = [flags EXCEPT ![request] = @ \cup {READY, DISCARDED}]
  /\ IF NOT_PRESERVED \in flags[request]
     THEN StartDestroy(Main, request, "checkClose")
     ELSE Goto(Main, "checkClose") /\ UNCHANGED <<dying, ret>>
  /\ UNCHANGED <<nextSlot, kind, status, nextFreeSlot, lastQueuedSlot,
                 counters, boxVars, slot, reg, nxt, call, held, hist>>

(* The loop of qtz_mailbox_main_thread_proc.  Closing reads killRequest,   *)
(* which is null unless proc_kill has run, and marks it ready.             *)
CheckClose ==
  /\ pc[Main] = "checkClose"
  /\ Goto(Main, IF ~shouldClose THEN "idle"
                ELSE IF killRequest = None THEN "crashed" ELSE "closing")
  /\ Forget(slot, Main, Dummy)
  /\ UNCHANGED <<slotVars, nextFreeSlot, lastQueuedSlot, counters, boxVars,
                 reg, nxt, dying, ret, call, held, hist>>

MarkKilled ==
  /\ pc[Main] = "closing"
  /\ flags' = [flags EXCEPT ![killRequest] = @ \cup {READY}]
  /\ Goto(Main, "wakeKiller")
  /\ UNCHANGED <<nextSlot, kind, status, nextFreeSlot, lastQueuedSlot,
                 counters, boxVars, locals, held, hist>>

WakeKiller ==
  /\ pc[Main] = "wakeKiller"
  /\ WakeAll(killRequest, "stopped")
  /\ UNCHANGED <<slotVars, nextFreeSlot, lastQueuedSlot, counters, boxVars,
                 locals, held, hist>>
----------------------------------------------------------------------------
(* qtz_wait and qtz_discard.  Each handle is waited on successfully, or    *)
(* discarded, once; any client may do it.                                  *)

WaitBegin(c, s, m) ==
  /\ pc[c] = "idle"
  /\ s \in held
  /\ held' = held \ {s}
  /\ slot' = [slot EXCEPT ![c] = s]
  /\ call' = [call EXCEPT ![c].mode = m]
  /\ Goto(c, "wait")
  /\ UNCHANGED <<slotVars, nextFreeSlot, lastQueuedSlot, counters, boxVars,
                 reg, nxt, dying, ret, hist>>

WaitReady(c) ==
  /\ pc[c] = "wait"
  /\ Ready(slot[c])
  /\ Forget(call, c, NoCall)
  /\ Goto(c, "collect")
  /\ UNCHANGED <<slotVars, nextFreeSlot, lastQueuedSlot, counters, boxVars,
                 slot, reg, nxt, dying, ret, held, hist>>

(* status is read; the request is discarded next. *)
ReadStatus(c) ==
  /\ pc[c] = "collect"
  /\ Goto(c, "discard")
  /\ UNCHANGED <<slotVars, nextFreeSlot, lastQueuedSlot, counters, boxVars,
                 locals, held, hist>>

MaySleepAnyway(s) == TRUE  \* mutant: the word is not compared before sleeping
MaySleep(s)       == ~Ready(s)

(* WaitOnAddress sleeps only if flags still has the value just read. *)
WaitSleep(c) ==
  /\ pc[c] = "wait"
  /\ call[c].mode # "TRY"
  /\ MaySleep(slot[c])
  /\ Goto(c, "asleep")
  /\ UNCHANGED <<slotVars, nextFreeSlot, lastQueuedSlot, counters, boxVars,
                 locals, held, hist>>

(* QTZ_NOT_READY: the caller keeps the handle. *)
WaitNotReady(c) ==
  /\ \/ pc[c] = "wait" /\ call[c].mode = "TRY" /\ ~Ready(slot[c])
     \/ pc[c] = "asleep" /\ call[c].mode = "TIMED"
  /\ held' = held \cup {slot[c]}
  /\ Forget(slot, c, Dummy)
  /\ Forget(call, c, NoCall)
  /\ Goto(c, "idle")
  /\ UNCHANGED <<slotVars, nextFreeSlot, lastQueuedSlot, counters, boxVars,
                 reg, nxt, dying, ret, hist>>

DiscardBegin(c, s) ==
  /\ pc[c] = "idle"
  /\ s \in held
  /\ held' = held \ {s}
  /\ slot' = [slot EXCEPT ![c] = s]
  /\ Goto(c, "discard")
  /\ UNCHANGED <<slotVars, nextFreeSlot, lastQueuedSlot, counters, boxVars,
                 reg, nxt, dying, ret, call, hist>>

\* mutant: the mailbox thread's lock is ignored
DestroyEagerly(s)   == READY \in flags[s]
DestroyOnDiscard(s) == {NOT_PRESERVED, READY} \subseteq flags[s]

(* qtz_request::discard *)
Discard(c) ==
  /\ pc[c] = "discard"
  /\ flags' = [flags EXCEPT ![slot[c]] = @ \cup {DISCARDED}]
  /\ IF DestroyOnDiscard(slot[c])
     THEN StartDestroy(c, slot[c], "idle")
     ELSE Goto(c, "idle") /\ UNCHANGED <<dying, ret>>
  /\ Forget(slot, c, Dummy)
  /\ UNCHANGED <<nextSlot, kind, status, nextFreeSlot, lastQueuedSlot,
                 counters, boxVars, reg, nxt, call, held, hist>>

(* destroyMailbox, run by atexit. *)
DestroyMailbox ==
  /\ AtExit /\ ~exitHook
  /\ exitHook' = TRUE
  /\ shouldClose' = TRUE
  /\ UNCHANGED <<slotVars, nextFreeSlot, lastQueuedSlot, counters,
                 previousRequest, killRequest, pc, locals, held, hist>>
----------------------------------------------------------------------------
Send(c) ==
  \/ \E k \in Kinds, m \in Modes : SendBegin(c, k, m)
  \/ AcquireSlot(c) \/ AcquireFail(c) \/ LoadFree(c) \/ PopRead(c)
  \/ PopCas(c) \/ Exchange(c) \/ LinkPrevious(c) \/ Increase(c)

DestroyRequest(t) == Clear(t) \/ PushLink(t) \/ PushCas(t) \/ Release(t)

MainStep ==
  \/ Decrease \/ GetNextQueued \/ Lock \/ UnlockPrevious \/ Dispatch
  \/ ActionNotify \/ NotifyAll \/ ActionDestroy \/ CheckClose
  \/ MarkKilled \/ WakeKiller \/ DestroyRequest(Main)

Collect(c) ==
  \/ \E s \in Slots : \/ \E m \in Modes : WaitBegin(c, s, m)
                      \/ DiscardBegin(c, s)
  \/ WaitReady(c) \/ ReadStatus(c) \/ WaitSleep(c) \/ WaitNotReady(c)
  \/ Discard(c) \/ DestroyRequest(c)

(* A failed assertion and a null dereference end the process. *)
Running == \A t \in Threads : pc[t] \notin {"aborted", "crashed"}

Next == /\ Running
        /\ \/ MainStep
           \/ \E c \in Senders : Send(c)
           \/ \E c \in Clients : Collect(c)
           \/ DestroyMailbox

Spec == Init /\ [][Next]_vars
----------------------------------------------------------------------------
SendPCs    == {"acquire", "loadFree", "popRead", "popCas", "exchange", "link",
               "increase"}
DestroyPCs == {"clear", "pushLink", "pushCas", "release"}
WaitPCs    == {"wait", "asleep", "collect", "discard"}
ClientPCs  == {"idle", "aborted"} \cup SendPCs \cup DestroyPCs \cup WaitPCs
MainPCs    == {"idle", "getNext", "lock", "unlock", "dispatch", "notify",
               "wake", "destroy", "checkClose", "closing", "wakeKiller",
               "stopped", "crashed", "aborted"} \cup DestroyPCs

SlotsTyped ==
  /\ nextSlot \in [Slots -> 0 .. N]
  /\ flags    \in [Slots -> SUBSET FlagBits]
  /\ kind     \in [Slots -> AllKinds \cup {"none"}]
  /\ status   \in [Slots -> Statuses]

BoxTyped ==
  /\ nextFreeSlot    \in 0 .. N
  /\ lastQueuedSlot  \in Slots
  /\ slotSemaphore   \in Nat
  /\ queuedMessages  \in Nat
  /\ previousRequest \in Slots
  /\ killRequest     \in Slots \cup {None}
  /\ shouldClose \in BOOLEAN
  /\ exitHook    \in BOOLEAN
  /\ held \subseteq Slots

PcTyped ==
  /\ pc \in [Threads -> ClientPCs \cup MainPCs]
  /\ pc[Main] \in MainPCs
  /\ \A c \in Clients : pc[c] \in ClientPCs

LocalsTyped ==
  /\ slot  \in [Threads -> Slots]
  /\ reg   \in [Threads -> 0 .. N]
  /\ nxt   \in [Threads -> 0 .. N]
  /\ dying \in [Threads -> Slots]
  /\ call  \in [Clients -> [kind : AllKinds, mode : Modes]]

\* The index a sender swaps out of a list has passed get_request.
RegsTyped ==
  /\ \A c \in Clients : pc[c] \in {"popCas", "link"} => reg[c] \in Slots
  /\ ret \in [Threads -> {"idle", "dispatch", "checkClose"}]
  /\ \A c \in Clients : ret[c] = "idle"

HistoryTyped ==
  /\ stack  \in Seq(Slots)
  /\ fifo   \in Seq(Slots)
  /\ answer \in [Slots -> Statuses \cup {"none"}]

(* Every variable has its type: slot indices stay inside the array (but    *)
(* for N, the end mark the constructor leaves in nextSlot).                *)
TypeOK == /\ SlotsTyped /\ BoxTyped /\ PcTyped
          /\ LocalsTyped /\ RegsTyped /\ HistoryTyped
----------------------------------------------------------------------------
Elems(q) == {q[i] : i \in DOMAIN q}

Popped    == {slot[c] : c \in {c \in Senders : pc[c] = "exchange"}}
Dying     == {dying[t] : t \in {t \in Threads :
                                  pc[t] \in DestroyPCs \ {"release"}}}
\* A sender that has appended its request but not returned still owns it.
Appending == {c \in Senders : pc[c] \in {"link", "increase"}}
Handles   == held \cup {slot[c] : c \in {c \in Clients : pc[c] \in WaitPCs}}
                  \cup {slot[c] : c \in {c \in Appending :
                                           call[c].kind \in HandleKinds}}

\* The mailbox thread has taken slot[Main] and not yet unlocked the request
\* before it.
LastTaken == IF pc[Main] \in {"lock", "unlock"} THEN slot[Main]
                                                ELSE previousRequest
\* The request last taken and those queued behind it, in order.
Chain     == <<LastTaken>> \o fifo
InQueue   == Elems(Chain) \cup {previousRequest}

Distinct(q) == \A i, j \in DOMAIN q : q[i] = q[j] => i = j

(* The assertion of get_request never fails: neither list leads a thread   *)
(* out of the slot array.                                                  *)
NoAbort == \A t \in Threads : pc[t] # "aborted"

(* A slot plays one role at a time.  No slot is in the pool twice, or both *)
(* in the pool and queued, in use, or referred to by a handle that is      *)
(* still to be waited on or discarded; and no two threads destroy it.      *)
SlotExclusive ==
  /\ Distinct(stack) /\ Distinct(Chain)
  /\ Elems(stack) \cap (Popped \cup Dying \cup Handles \cup InQueue) = {}
  /\ Dying \cap (Popped \cup Handles \cup InQueue) = {}
  /\ Popped \cap (Handles \cup InQueue) = {}
  /\ \A t, u \in Threads :
       /\ {pc[t], pc[u]} \subseteq DestroyPCs \ {"release"}
       /\ dying[t] = dying[u]
       => t = u

(* No slot is lost: outside the pool it is queued or last taken, being     *)
(* returned, or waiting for the holder of its handle.  Only the            *)
(* constructor's dummy is retired.                                         *)
NoSlotLost ==
  Slots \ {Dummy} \subseteq
     Elems(stack) \cup Popped \cup Dying \cup InQueue \cup Handles

(* slotSemaphore counts the free slots: with the permits taken and not yet *)
(* used, and the slots pushed and not yet released, it adds up to the      *)
(* pool, so that a thread with a permit always finds a slot.               *)
PermitsMatchPool ==
  Len(stack) =
    slotSemaphore
      + Cardinality({c \in Senders : pc[c] \in {"loadFree", "popRead", "popCas"}})
      + Cardinality({t \in Threads : pc[t] = "release"})

(* The pool really is the list that starts at nextFreeSlot. *)
StackLinked ==
  LET list == Append(stack, Dummy) IN
  /\ nextFreeSlot = list[1]
  /\ \A i \in 1 .. Len(stack) : nextSlot[stack[i]] = list[i + 1]

(* What the mailbox thread will read by following nextSlot is the requests *)
(* in the order their senders appended them; only the link a sender is     *)
(* about to write is missing, and that request is not counted yet.         *)
QueueLinked ==
  /\ lastQueuedSlot = Chain[Len(Chain)]
  /\ Len(fifo) = queuedMessages + Cardinality(Appending)
                   + (IF pc[Main] = "getNext" THEN 1 ELSE 0)
  /\ \A i \in 1 .. Len(fifo) :
       \/ nextSlot[Chain[i]] = Chain[i + 1]
       \/ i = Len(fifo) /\ \E c \in Senders : pc[c] = "link"

(* No client sleeps in qtz_wait on a request that is already answered,     *)
(* unless the mailbox thread is just about to wake it.                     *)
NoLostWakeup ==
  \A c \in Clients :
    pc[c] = "asleep" /\ READY \in flags[slot[c]] =>
      \/ pc[Main] = "wake" /\ slot[Main] = slot[c]
      \/ pc[Main] = "wakeKiller" /\ killRequest = slot[c]

OwnResult(c) == status[slot[c]] = answer[slot[c]]

(* The status qtz_wait reads is the one that the handler of this request   *)
(* stored, not what an earlier user of the slot left: for the kinds whose  *)
(* handler stores a status.                                                *)
ReplyIsOwn ==
  \A c \in Clients :
    pc[c] = "collect" /\ kind[slot[c]] = "alloc" => OwnResult(c)

(* quartz.h of qtz_wait: any value but QTZ_NOT_READY is "the result of the *)
(* processed message".  A callback that ran has succeeded.                 *)
WaitReturnsResult ==
  \A c \in Clients :
    pc[c] = "collect" /\ kind[slot[c]] \in ReplyKinds => OwnResult(c)

(* The mailbox thread dereferences a null killRequest only when the exit   *)
(* hook closed the mailbox with no kill request in it.                     *)
CrashOnlyAtExit == pc[Main] = "crashed" => exitHook
=============================================================================
