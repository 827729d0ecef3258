--------------------------- MODULE MCAgateMailbox ---------------------------
(***************************************************************************)
(* The Agate mailboxes shown to implement RequestService, and the          *)
(* liveness of their slots.                                                *)
(***************************************************************************)
EXTENDS AgateMailbox, TLC

IgnoreAll == {{IGNORE}, {IGNORE, FAST}}
\* A message that is cleaned up fast leaves its status in the slot.
LeaveStatus == {{FAST}}

\* Sound in the runs without fairness, whose properties are all safety.
Interchangeable == Permutations(Waiters)

\* The messages of which the application has a signal, or will be given it.
Signalled ==
  {s \in Slots : holders[s] > 0}
    \cup {msg[w] : w \in {w \in Waiters : pc[w] \in {"collect", "drop"}}}
    \cup {msg[p] : p \in {p \in Producers : pc[p] = "count" /\ ret[p] = "keep"}}

Service == INSTANCE RequestService WITH
             wanted <- Signalled,
             queue  <- fifo,
             last   <- previousReceived

(* The mailbox implements RequestService: messages are received first in,  *)
(* first out, and a slot is recycled once, after the reply, when nobody    *)
(* has a signal of it any more and a later message has been received.      *)
ImplementsService == Service!Spec

(* agate.h of local_mpsc_mailbox: "send is atomic with respect to itself". *)
(* However sends interleave, their messages take effect one after another: *)
(* each receive yields the oldest message not yet received.                *)
Receiving(c)    == pc[c] \in {"fetch", "recvCas"} /\ pc'[c] \in {"freeHold", "wild"}
ReceivedInOrder ==
  [][\A c \in Consumers :
       Receiving(c) => fifo # <<>> /\ previousReceived' = Head(fifo)]_vars
----------------------------------------------------------------------------
(* The scheduler runs every thread that can run, a producer sends the slot *)
(* it acquired, a consumer goes on receiving and replying, and an          *)
(* application lets go of the handles it has.                              *)
Sending(p)   == pc[p] # "idle" /\ Produce(p)
LettingGo(w) == \E s \in Slots : WaitReady(w, s) \/ Discard(w, s)

FairSpec ==
  /\ Spec
  /\ \A p \in Producers : WF_vars(Sending(p))
  /\ \A c \in Consumers : WF_vars(Consume(c))
  /\ \A w \in Waiters   : WF_vars(LettingGo(w)) /\ WF_vars(Finish(w))

(* A producer that finds the mailbox full is not refused for ever: slots   *)
(* come back, although the message received last is kept until another one *)
(* is received.                                                            *)
PermitReturns == slotSemaphore = 0 ~> slotSemaphore > 0
=============================================================================
