-------------------------- MODULE MCQuartzMailbox --------------------------
(***************************************************************************)
(* The mailbox shown to implement RequestService, and the properties of    *)
(* its fair behaviours.                                                    *)
(***************************************************************************)
EXTENDS QuartzMailbox

PhaseOf(s) ==
  IF s = Dummy
    THEN "answered"
    ELSE CASE s \in Elems(stack)  -> "free"
           [] s \in Popped        -> "claimed"
           [] s \in Elems(fifo)   -> "queued"
           [] s = LastTaken /\ READY \notin flags[s] -> "handling"
           [] OTHER               -> "answered"

Service == INSTANCE RequestService WITH
             phase  <- [s \in Slots |-> PhaseOf(s)],
             wanted <- Handles,
             queue  <- fifo,
             last   <- LastTaken

(* With one sending thread the mailbox implements RequestService: requests *)
(* are taken first in, first out, and a slot is recycled once, after its   *)
(* answer, when nobody can ask for it any more and the queue has passed it.*)
ImplementsService == Service!Spec
----------------------------------------------------------------------------
(* The scheduler runs every thread that can run: the mailbox thread, each  *)
(* call in progress, and the application's collection of its handles (its  *)
(* callers wait on or discard the handle of every request they send).  No  *)
(* client is obliged to send.                                              *)
Progress(c) ==
  /\ Running
  /\ \/ AcquireSlot(c) \/ LoadFree(c) \/ PopRead(c) \/ PopCas(c)
     \/ Exchange(c) \/ LinkPrevious(c) \/ Increase(c)
     \/ WaitReady(c) \/ ReadStatus(c) \/ WaitSleep(c)
     \/ WaitNotReady(c) \/ Discard(c) \/ DestroyRequest(c)

CollectSome(c) ==
  Running /\ \E s \in Slots : DiscardBegin(c, s) \/ WaitBegin(c, s, "WAIT")

FairSpec ==
  /\ Spec
  /\ WF_vars(Running /\ MainStep)
  /\ \A c \in Clients : WF_vars(Progress(c)) /\ WF_vars(CollectSome(c))

(* A blocking qtz_send always gets a slot: slots come back to the pool as  *)
(* long as the clients collect their handles, although the mailbox thread  *)
(* keeps the request it took last locked until it takes the next one.      *)
SendReturns == \A c \in Senders : pc[c] = "acquire" ~> pc[c] # "acquire"

(* A client in qtz_wait is woken once its request has been handled. *)
WaitReturns == \A c \in Clients : pc[c] = "asleep" ~> pc[c] # "asleep"

(* The client whose kill request closed the mailbox returns from qtz_wait, *)
(* although the mailbox thread has destroyed the mailbox by then.          *)
KillerReturns ==
  \A c \in Clients :
    (pc[c] \in {"wait", "asleep"} /\ slot[c] = killRequest)
      ~> ~(pc[c] \in {"wait", "asleep"} /\ slot[c] = killRequest)
=============================================================================
