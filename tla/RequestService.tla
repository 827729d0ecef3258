--------------------------- MODULE RequestService ---------------------------
(***************************************************************************)
(* What a mailbox promises to those who send, wait and discard, without    *)
(* its lists, flags and counters: the Quartz mailbox to the callers of     *)
(* qtz_send, qtz_wait and qtz_discard, an Agate mailbox to those of        *)
(* agt_send, agt_signal_wait and agt_signal_discard.                       *)
(*                                                                         *)
(* Requests live in slots.  They are taken in the order in which they were *)
(* submitted, each one once.  A slot is recycled only after its request    *)
(* has been answered, nobody wants the answer any more, and the mailbox    *)
(* has moved on to a later request.                                        *)
(***************************************************************************)
EXTENDS Sequences

CONSTANTS Slots, Dummy

VARIABLES
  phase,  \* what each slot is used for
  wanted, \* the slots whose answer a client may still ask for
  queue,  \* the submitted requests not yet taken, oldest first
  last    \* the request taken last

vars == <<phase, wanted, queue, last>>

Phases == {"free", "claimed", "queued", "handling", "answered"}

Init ==
  /\ phase  = [s \in Slots |-> IF s = Dummy THEN "answered" ELSE "free"]
  /\ wanted = {}
  /\ queue  = <<>>
  /\ last   = Dummy

Become(s, old, new) ==
  /\ phase[s] = old
  /\ phase' = [phase EXCEPT ![s] = new]

Claim(s) == Become(s, "free", "claimed") /\ UNCHANGED <<wanted, queue, last>>

Submit(s) ==
  /\ Become(s, "claimed", "queued")
  /\ queue' = Append(queue, s)
  /\ wanted' \in {wanted, wanted \cup {s}}
  /\ UNCHANGED last

Take(s) ==
  /\ queue # <<>> /\ s = Head(queue)
  /\ Become(s, "queued", "handling")
  /\ queue' = Tail(queue)
  /\ last' = s
  /\ UNCHANGED wanted

Answer(s) ==
  /\ Become(s, "handling", "answered")
  /\ UNCHANGED <<wanted, queue, last>>

(* The client has its answer, or gives it up. *)
Drop(s) ==
  /\ s \in wanted
  /\ wanted' = wanted \ {s}
  /\ UNCHANGED <<phase, queue, last>>

Recycle(s) ==
  /\ s \notin wanted
  /\ s # last
  /\ Become(s, "answered", "free")
  /\ UNCHANGED <<wanted, queue, last>>

Next == \E s \in Slots : \/ Claim(s) \/ Submit(s) \/ Take(s)
                         \/ Answer(s) \/ Drop(s) \/ Recycle(s)

Spec == Init /\ [][Next]_vars
=============================================================================
