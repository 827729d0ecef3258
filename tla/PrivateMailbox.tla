--------------------------- MODULE PrivateMailbox ---------------------------
(***************************************************************************)
(* The private mailbox of Agate (private_mailbox.cpp): one thread acquires *)
(* slots, sends, receives and gives messages up in any order; nothing is   *)
(* atomic.  Free slots and queued messages are threaded through next, and  *)
(* the message received last keeps its slot until a later one is received. *)
(*                                                                         *)
(* receive never decreases queuedMessageCount, so the mailbox refuses a    *)
(* receive only before the first send; later, one that finds no message    *)
(* follows whatever link the last message still holds, and there the model *)
(* stops (polled).                                                         *)
(***************************************************************************)
EXTENDS Naturals, Sequences, FiniteSets

CONSTANTS
  SlotCount,
  MaxSends    \* bound on queuedMessageCount, which only grows

ASSUME PrivateAssumption == SlotCount \in Nat \ {0} /\ MaxSends \in Nat

Messages == 0 .. SlotCount - 1
LastOne  == SlotCount - 1

VARIABLES
  box,       \* private_mailbox
  link,      \* next of each message; SlotCount is the address behind the last
  staged,    \* the slots acquired and not yet sent
  held,      \* the messages in use (message_in_use)
  wanted,    \* the messages sent that somebody still wants
  doomed,    \* the messages condemned while in use (message_is_condemned)
  waiting,   \* history: the messages sent and not yet received, oldest first
  misread,   \* history: receive returned another than the oldest of them
  polled     \* history: it was called when there was none

privateVars ==
  <<box, link, staged, held, wanted, doomed, waiting, misread, polled>>

\* make_private_mailbox, init_slots
PrivateInit ==
  /\ box = [available |-> SlotCount - 1, queued |-> 0, nextFree |-> 0,
            received |-> LastOne, lastQueued |-> LastOne, claimed |-> {}]
  /\ link = [s \in Messages |-> s + 1]
  /\ staged = {} /\ held = {} /\ wanted = {} /\ doomed = {}
  /\ waiting = <<>> /\ misread = FALSE /\ polled = FALSE
----------------------------------------------------------------------------
\* private_connect
Attach(role) ==
  /\ role \notin box.claimed
  /\ box' = [box EXCEPT !.claimed = @ \cup {role}]
  /\ UNCHANGED <<link, staged, held, wanted, doomed, waiting, misread, polled>>

Detach(role) ==
  /\ box' = [box EXCEPT !.claimed = @ \ {role}]
  /\ UNCHANGED <<link, staged, held, wanted, doomed, waiting, misread, polled>>

\* private_acquire_slot
AcquirePrivate ==
  /\ box.available > 0
  /\ box' = [box EXCEPT !.available = @ - 1, !.nextFree = link[@]]
  /\ staged' = staged \cup {box.nextFree}
  /\ UNCHANGED <<link, held, wanted, doomed, waiting, misread, polled>>

LinkQueued(s)   == [link EXCEPT ![box.lastQueued] = s]

\* private_send
SendPrivate(s) ==
  /\ s \in staged /\ box.queued < MaxSends
  /\ box'  = [box EXCEPT !.lastQueued = s, !.queued = @ + 1]
  /\ link' = LinkQueued(s)
  /\ staged'  = staged \ {s}
  /\ held'    = held \cup {s}
  /\ wanted'  = wanted \cup {s}
  /\ waiting' = Append(waiting, s)
  /\ UNCHANGED <<doomed, misread, polled>>

\* private_return_message
GivenBack(b, s) == [b EXCEPT !.available = @ + 1, !.nextFree = s]
LinkFree(s)     == [link EXCEPT ![s] = box.nextFree]

\* private_receive of a message, and free_hold of the one received before
ReceivePrivate ==
  LET last    == box.received
      message == link[last]
      ahead   == [box EXCEPT !.received = message]
  IN  /\ box.queued > 0 /\ waiting # <<>>
      /\ IF last \in doomed
         THEN box' = GivenBack(ahead, last) /\ link' = LinkFree(last)
         ELSE box' = ahead /\ UNCHANGED link
      /\ held'    = held \ {last}
      /\ doomed'  = doomed \ {last}
      /\ waiting' = Tail(waiting)
      /\ misread' = (misread \/ message # Head(waiting))
      /\ UNCHANGED <<staged, wanted, polled>>

\* private_receive when all messages have been received
PollPrivate ==
  /\ box.queued > 0 /\ waiting = <<>>
  /\ polled' = TRUE
  /\ UNCHANGED <<box, link, staged, held, wanted, doomed, waiting, misread>>

\* Mutant: message_in_use is not tested.
NeverHeld(s) == FALSE
StillHeld(s) == s \in held

\* condemn: by the reply to a message whose result is ignored, or by whoever
\* gives up the last signal of it.
CondemnPrivate(s) ==
  /\ s \in wanted
  /\ wanted' = wanted \ {s}
  /\ IF StillHeld(s)
     THEN doomed' = doomed \cup {s} /\ UNCHANGED <<box, link>>
     ELSE /\ box' = GivenBack(box, s) /\ link' = LinkFree(s)
          /\ UNCHANGED doomed
  /\ UNCHANGED <<staged, held, waiting, misread, polled>>

PrivateNext ==
  /\ ~polled
  /\ \/ \E role \in {"sender", "receiver"} : Attach(role) \/ Detach(role)
     \/ AcquirePrivate \/ ReceivePrivate \/ PollPrivate
     \/ \E s \in Messages : SendPrivate(s) \/ CondemnPrivate(s)

PrivateSpec == PrivateInit /\ [][PrivateNext]_privateVars
----------------------------------------------------------------------------
PrivateTypeOK ==
  /\ box \in [available : Nat, queued : 0 .. MaxSends, nextFree : 0 .. SlotCount,
              received : 0 .. SlotCount, lastQueued : Messages,
              claimed : SUBSET {"sender", "receiver"}]
  /\ link \in [Messages -> 0 .. SlotCount]
  /\ staged \subseteq Messages /\ held \subseteq Messages
  /\ wanted \subseteq Messages /\ doomed \subseteq Messages
  /\ waiting \in Seq(Messages)
  /\ misread \in BOOLEAN /\ polled \in BOOLEAN

Busy == staged \cup wanted \cup doomed

(* Unless somebody receives from the empty mailbox, messages are received  *)
(* in the order in which they were sent, and every slot that is counted as *)
(* available is on the free list, once, and used for nothing else.         *)
PrivateInOrder ==
  /\ ~misread
  /\ box.available + Cardinality(Busy) = SlotCount - 1
  /\ \E free \in [1 .. box.available -> Messages \ Busy] :
       /\ \A i, j \in DOMAIN free : free[i] = free[j] => i = j
       /\ box.available > 0 => free[1] = box.nextFree
       /\ \A i \in 1 .. box.available - 1 : free[i + 1] = link[free[i]]
=============================================================================
