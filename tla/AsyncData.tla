------------------------------ MODULE AsyncData ------------------------------
(***************************************************************************)
(* An asynchronous result of agate2 (AgtAsync, async.cpp) and the          *)
(* reference-counted data behind it.  Its owner resets, sends with, clears *)
(* and destroys the async; each message it sends carries a reference to    *)
(* the data and the key of the reset it belongs to, and whoever receives   *)
(* the message arrives (or drops it), in any thread and at any time, also  *)
(* after the owner has reset the async for its next use.                   *)
(*                                                                         *)
(* agtCopyAsync is an empty stub, so one AgtAsync refers to the data: the  *)
(* compare-exchanges of asyncReset on waiterRefCount succeed at once       *)
(* (WaitersExact), and its branch for data that others wait on is left out.*)
(*                                                                         *)
(* asyncWait changes nothing and never sleeps: eAsyncReady holds the bit   *)
(* of eAsyncBound (line 33), so that it returns success at once when the   *)
(* async is bound and an error when it is not (lines 470-474).  It is no   *)
(* action here, and neither what it would set nor the count it would wait  *)
(* for is kept.                                                            *)
(***************************************************************************)
EXTENDS Naturals, FiniteSets

CONSTANTS
  Receivers,      \* each handles one message at a time
  Foreign,        \* those of another context
  MaxResets,      \* bound on the key, which is a 32-bit counter
  MaxResponses,   \* bound on the responses to one reset
  ResponseCounts  \* the expected counts of asyncReset

ASSUME ReceiverAssumption ==
  IsFiniteSet(Receivers) /\ Foreign \subseteq Receivers
ASSUME ResetAssumption ==
  MaxResets \in Nat /\ MaxResponses \in Nat /\ ResponseCounts \subseteq Nat

VARIABLES
  async,      \* the owner's AgtAsync_st, and where the owner is
  data,       \* AgtAsyncData_st
  message,    \* the message in each receiver's hands
  lateCount,  \* history: receivers counted since the reset under an older key
  inFlight    \* history: receivers past the key test when a reset began

asyncVars == <<async, data, message, lateCount, inFlight>>

NoMessage == [at |-> "none", key |-> 0]

\* createAsync, createUnboundAsyncData
AsyncInit ==
  /\ async = [flags |-> {}, at |-> "ready"]
  /\ data  = [refs |-> 1, waiters |-> 0, attached |-> 0, responses |-> 0,
              key |-> 0, shared |-> FALSE, freed |-> "no"]
  /\ message   = [r \in Receivers |-> NoMessage]
  /\ lateCount = {}
  /\ inFlight  = {}

Holders == {r \in Receivers : message[r].at # "none"}
Alive   == async.at # "destroyed"
----------------------------------------------------------------------------
\* The last reference frees the data, in its context or through its owner's.
Released(d) ==
  [d EXCEPT !.refs  = @ - 1,
            !.freed = IF d.refs # 1 THEN @
                      ELSE IF d.shared THEN "by_reference" ELSE "locally"]

\* Mutant: attaching takes no reference, as it does no attachedRefCount.
Referenced(d, r) ==
  [d EXCEPT !.shared = @ \/ r \in Foreign]

\* asyncDataAttach
Attached(d, r) ==
  [d EXCEPT !.refs = @ + 1, !.shared = @ \/ r \in Foreign]

\* agtSend with the async, and the receiver's getting the message.
Send(r) ==
  /\ async.at = "ready" /\ message[r].at = "none"
  /\ data.responses < MaxResponses
  /\ data'    = Attached(data, r)
  /\ message' = [message EXCEPT ![r] = [at |-> "received", key |-> data.key]]
  /\ UNCHANGED <<async, lateCount, inFlight>>

\* asyncReset: claims the data as a waiter and begins a new key...
BeginReset(max) ==
  /\ async.at = "ready" /\ data.key < MaxResets
  /\ data'  = [data EXCEPT !.waiters = 1, !.key = @ + 1, !.attached = max]
  /\ async' = [async EXCEPT !.at = "resetting"]
  /\ inFlight' = {r \in Receivers : message[r].at = "passed"}
  /\ lateCount' = {}
  /\ UNCHANGED message

\* ... then puts a new counter over responseCount.
EndReset ==
  /\ async.at = "resetting"
  /\ data'  = [data EXCEPT !.responses = 0]
  /\ async' = [flags |-> {"bound", "waiting"}, at |-> "ready"]
  /\ lateCount' = {}
  /\ UNCHANGED <<message, inFlight>>

\* --waiterRefCount, if the async waits
Unwaited(d) ==
  IF "waiting" \in async.flags THEN [d EXCEPT !.waiters = @ - 1] ELSE d

\* Mutant: the flag says that the async still waits.
FlagsKept == async.flags

\* flags & eAsyncBound
ClearedAsyncFlags == async.flags \cap {"bound"}

AsyncClear ==
  /\ async.at = "ready"
  /\ data'  = Unwaited(data)
  /\ async' = [async EXCEPT !.flags = ClearedAsyncFlags]
  /\ UNCHANGED <<message, lateCount, inFlight>>

AsyncDestroy ==
  /\ async.at = "ready"
  /\ data'  = Released(Unwaited(data))
  /\ async' = [async EXCEPT !.at = "destroyed"]
  /\ UNCHANGED <<message, lateCount, inFlight>>
----------------------------------------------------------------------------
\* Mutant: every arrival counts.
CompareNothing(r) ==
  /\ message[r].at = "received"
  /\ message' = [message EXCEPT ![r].at = "passed"]
  /\ UNCHANGED <<async, data, lateCount, inFlight>>

\* asyncDataArrive and asyncDataDrop: compare the keys, count, release.
CompareKey(r) ==
  /\ message[r].at = "received"
  /\ message' = [message EXCEPT ![r].at =
                   IF data.key = message[r].key THEN "passed" ELSE "leaving"]
  /\ UNCHANGED <<async, data, lateCount, inFlight>>

CountResponse(r) ==
  /\ message[r].at = "passed"
  /\ data'      = [data EXCEPT !.responses = @ + 1]
  /\ message'   = [message EXCEPT ![r].at = "leaving"]
  /\ lateCount' = IF message[r].key = data.key THEN lateCount
                  ELSE lateCount \cup {r}
  /\ UNCHANGED <<async, inFlight>>

ReleaseData(r) ==
  /\ message[r].at = "leaving"
  /\ data'    = Released(data)
  /\ message' = [message EXCEPT ![r] = NoMessage]
  /\ UNCHANGED <<async, lateCount, inFlight>>
----------------------------------------------------------------------------
AsyncNext ==
  \/ \E max \in ResponseCounts : BeginReset(max)
  \/ EndReset \/ AsyncClear \/ AsyncDestroy
  \/ \E r \in Receivers :
       Send(r) \/ CompareKey(r) \/ CountResponse(r) \/ ReleaseData(r)

AsyncSpec == AsyncInit /\ [][AsyncNext]_asyncVars
----------------------------------------------------------------------------
Asyncs == [flags : SUBSET {"bound", "waiting"}, at : {"ready", "resetting", "destroyed"}]
Datas == [refs : Nat, waiters : Nat, attached : Nat, responses : Nat, key : Nat,
          shared : BOOLEAN, freed : {"no", "locally", "by_reference"}]
AsyncMessages == [at : {"none", "received", "passed", "leaving"}, key : Nat]

AsyncTypeOK ==
  /\ async \in Asyncs /\ data \in Datas /\ message \in [Receivers -> AsyncMessages]
  /\ lateCount \subseteq Receivers /\ inFlight \subseteq Receivers

\* The data live exactly as long as the async or a message refers to them.
RefsExact ==
  /\ data.refs = Cardinality(Holders) + (IF Alive THEN 1 ELSE 0)
  /\ data.freed = "no" <=> data.refs > 0

\* waiterRefCount is 1 while the async waits and 0 otherwise.
WaitersExact ==
  /\ async.at = "ready" =>
       data.waiters = IF "waiting" \in async.flags THEN 1 ELSE 0
  /\ data.freed # "no" => data.waiters = 0

(* The counts packed into refCount are exact: the data are not freed under *)
(* a late arrival, the last one out frees them, whoever it is, and then    *)
(* nobody waits, as asyncDataDestroy asserts, in whatever order the async  *)
(* was sent with, reset, cleared and destroyed.                            *)
CountsExact == RefsExact /\ WaitersExact

(* An answer to an earlier use of the async is counted for the present one *)
(* only if it had passed the comparison of the keys when a reset began.    *)
StaleOnlyInFlight == lateCount \subseteq inFlight
=============================================================================
