---------------------------- MODULE MCComponents ----------------------------
(***************************************************************************)
(* The components that share no state, checked side by side: one of them,  *)
(* the subject, runs, and the others stay in an initial state.  Their      *)
(* states add up instead of multiplying.                                   *)
(***************************************************************************)
EXTENDS TLC, AsyncData, ResponseCounter, RequestQueue, BufferedLog,
        BigBufferedLog, QuartzInit, MailboxFactory, Dictionary, PrivateMailbox

VARIABLE subject

\* One waits for a single response, the others for two.
Awaited == [w \in Waiters |-> IF w = "w1" THEN 1 ELSE 2]

\* Two keys with one hash, one with the same bucket in a table of four, and two
\* more.
Hashes == ("k1" :> 1) @@ ("k2" :> 1) @@ ("k3" :> 5) @@ ("k4" :> 2) @@ ("k5" :> 7)

Subjects == {"async", "counter", "queue", "log", "ring", "init", "factory",
             "dictionary", "private"}

ComponentsInit ==
  /\ subject \in Subjects
  /\ AsyncInit /\ CounterInit /\ QueueInit /\ LogInit /\ RingInit /\ StartInit
  /\ FactoryInit /\ DictInit /\ PrivateInit
  \* The other subjects start from one initial state only.
  /\ subject = "dictionary" \/ (Size(table) = 2 /\ ~garbage)

\* Everything but the component named stays as it is.
Rest(who, v) == IF subject = who THEN TRUE ELSE UNCHANGED v

OthersStay ==
  /\ Rest("async", asyncVars)
  /\ Rest("counter", counterVars)
  /\ Rest("queue", queueVars)
  /\ Rest("log", logVars)
  /\ Rest("ring", ringVars)
  /\ Rest("init", initVars)
  /\ Rest("factory", factoryVars)
  /\ Rest("dictionary", dictVars)
  /\ Rest("private", privateVars)
  /\ UNCHANGED subject

ComponentsNext ==
  \/ subject = "async"      /\ AsyncNext   /\ OthersStay
  \/ subject = "counter"    /\ CounterNext /\ OthersStay
  \/ subject = "queue"      /\ QueueNext   /\ OthersStay
  \/ subject = "log"        /\ LogNext     /\ OthersStay
  \/ subject = "ring"       /\ RingNext    /\ OthersStay
  \/ subject = "init"       /\ StartNext   /\ OthersStay
  \/ subject = "factory"    /\ FactoryNext /\ OthersStay
  \/ subject = "dictionary" /\ DictNext    /\ OthersStay
  \/ subject = "private"    /\ PrivateNext /\ OthersStay

componentsVars ==
  <<asyncVars, counterVars, queueVars, logVars, ringVars, initVars, factoryVars,
    dictVars, privateVars, subject>>

ComponentsSpec == ComponentsInit /\ [][ComponentsNext]_componentsVars

ComponentsTypeOK ==
  /\ AsyncTypeOK /\ CounterTypeOK /\ InitTypeOK /\ DictTypeOK /\ PrivateTypeOK
=============================================================================
