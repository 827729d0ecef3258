----------------------------- MODULE QuartzInit -----------------------------
(***************************************************************************)
(* qtz_init (quartz/init.cpp) called by several threads, again after it    *)
(* failed: a double-checked flag, a lock with a time-out, and two stages   *)
(* that each remember that they were done.                                 *)
(***************************************************************************)
EXTENDS Naturals, FiniteSets

CONSTANTS
  InitThreads,
  MaxInitCalls    \* bound on the calls of one thread

ASSUME InitAssumption == IsFiniteSet(InitThreads) /\ MaxInitCalls \in Nat

InitStatuses == {"none", "success", "unknown", "invalid", "bad_alloc"}

VARIABLES
  processInitialized,   \* g_processIsInitialized
  isInitializing,       \* g_isInitializing, a binary semaphore
  addressSpaceReady,    \* g_addressSpaceIsInitialized
  mailboxReady,         \* g_mailboxIsInitialized
  mailboxesMade,        \* history: mailboxes constructed
  mailboxThreads,       \* history: mailbox threads created
  exitHandlers,         \* history: destroyMailbox registered with atexit
  threadFailures,       \* history: CreateThread failed
  initAt,               \* thread -> where it is in qtz_init
  initStatus,           \* thread -> what its last call returned
  initCalls,            \* thread -> its calls
  nullParams            \* history: null parameters were refused under the lock

stageVars == <<addressSpaceReady, mailboxReady, mailboxesMade, mailboxThreads, threadFailures>>
initVars == <<processInitialized, isInitializing, stageVars, exitHandlers, initAt,
              initStatus, initCalls, nullParams>>

StartInit ==
  /\ processInitialized = FALSE /\ isInitializing = 1
  /\ addressSpaceReady = FALSE /\ mailboxReady = FALSE
  /\ mailboxesMade = 0 /\ mailboxThreads = 0 /\ exitHandlers = 0 /\ threadFailures = 0
  /\ initAt = [t \in InitThreads |-> "out"]
  /\ initStatus = [t \in InitThreads |-> "none"]
  /\ initCalls = [t \in InitThreads |-> 0]
  /\ nullParams = FALSE

InitGoto(t, where) == initAt' = [initAt EXCEPT ![t] = where]
InitReturn(t, status) == InitGoto(t, "out") /\ initStatus' = [initStatus EXCEPT ![t] = status]

\* The first test of the flag.
CallInit(t) ==
  /\ initAt[t] = "out" /\ initCalls[t] < MaxInitCalls
  /\ initCalls' = [initCalls EXCEPT ![t] = @ + 1]
  /\ IF processInitialized THEN InitReturn(t, "success")
                           ELSE InitGoto(t, "lock") /\ UNCHANGED initStatus
  /\ UNCHANGED <<processInitialized, isInitializing, stageVars, exitHandlers, nullParams>>

\* g_isInitializing.try_acquire_for: half a second may pass while it is held.
LockInit(t) ==
  /\ initAt[t] = "lock"
  /\ IF isInitializing > 0
       THEN isInitializing' = isInitializing - 1 /\ InitGoto(t, "check") /\ UNCHANGED initStatus
       ELSE InitReturn(t, "unknown") /\ UNCHANGED isInitializing
  /\ UNCHANGED <<processInitialized, stageVars, exitHandlers, initCalls, nullParams>>

\* Mutant of CheckParams: the flag is not tested again under the lock.
CheckParamsOnce(t, isNull) ==
  /\ initAt[t] = "check"
  /\ IF isNull THEN InitReturn(t, "invalid") /\ nullParams' = TRUE
       ELSE InitGoto(t, "space") /\ UNCHANGED <<initStatus, nullParams>>
  /\ UNCHANGED <<processInitialized, isInitializing, stageVars, exitHandlers, initCalls>>

\* The second test; null parameters return with the lock held.
CheckParams(t, isNull) ==
  /\ initAt[t] = "check"
  /\ IF processInitialized
       THEN InitGoto(t, "release") /\ initStatus' = [initStatus EXCEPT ![t] = "success"]
            /\ UNCHANGED nullParams
       ELSE IF isNull THEN InitReturn(t, "invalid") /\ nullParams' = TRUE
       ELSE InitGoto(t, "space") /\ UNCHANGED <<initStatus, nullParams>>
  /\ UNCHANGED <<processInitialized, isInitializing, stageVars, exitHandlers, initCalls>>

\* Mutant of Fail: returns with the lock held.
FailLocked(t, status) == InitReturn(t, status)
\* A stage failed: the lock is released and the status returned.
Fail(t, status) ==
  /\ InitGoto(t, "release") /\ initStatus' = [initStatus EXCEPT ![t] = status]

\* initAddressSpace, unless an earlier call did it
InitAddressSpace(t) ==
  /\ initAt[t] = "space"
  /\ \/ addressSpaceReady' = TRUE /\ InitGoto(t, "mailbox") /\ UNCHANGED initStatus
     \/ ~addressSpaceReady /\ Fail(t, "bad_alloc") /\ UNCHANGED addressSpaceReady
  /\ UNCHANGED <<processInitialized, isInitializing, mailboxReady, mailboxesMade,
                 mailboxThreads, threadFailures, exitHandlers, initCalls, nullParams>>

\* initMailbox, unless an earlier call did it: the mapping may fail, and the
\* thread when the mailbox has been constructed, which is not undone.
InitMailbox(t) ==
  /\ initAt[t] = "mailbox"
  /\ \/ mailboxReady /\ InitGoto(t, "done")
        /\ UNCHANGED <<initStatus, mailboxReady, mailboxesMade, mailboxThreads, threadFailures>>
     \/ ~mailboxReady /\ Fail(t, "bad_alloc")
        /\ UNCHANGED <<mailboxReady, mailboxesMade, mailboxThreads, threadFailures>>
     \/ ~mailboxReady /\ Fail(t, "unknown") /\ mailboxesMade' = mailboxesMade + 1
        /\ threadFailures' = threadFailures + 1 /\ UNCHANGED <<mailboxReady, mailboxThreads>>
     \/ ~mailboxReady /\ InitGoto(t, "done") /\ mailboxReady' = TRUE
        /\ mailboxesMade' = mailboxesMade + 1 /\ mailboxThreads' = mailboxThreads + 1
        /\ UNCHANGED <<initStatus, threadFailures>>
  /\ UNCHANGED <<processInitialized, isInitializing, addressSpaceReady, exitHandlers,
                 initCalls, nullParams>>

\* The flag is stored first: from here other calls return success.
PublishInit(t) ==
  /\ initAt[t] = "done" /\ InitGoto(t, "atexit")
  /\ processInitialized' = (addressSpaceReady /\ mailboxReady)
  /\ UNCHANGED <<isInitializing, stageVars, exitHandlers, initStatus, initCalls, nullParams>>

RegisterExit(t) ==
  /\ initAt[t] = "atexit" /\ InitGoto(t, "release")
  /\ exitHandlers' = exitHandlers + 1
  /\ initStatus' = [initStatus EXCEPT ![t] = "success"]
  /\ UNCHANGED <<processInitialized, isInitializing, stageVars, initCalls, nullParams>>

UnlockInit(t) ==
  /\ initAt[t] = "release"
  /\ isInitializing' = isInitializing + 1 /\ InitGoto(t, "out")
  /\ UNCHANGED <<processInitialized, stageVars, exitHandlers, initStatus, initCalls, nullParams>>

StartNext ==
  \E t \in InitThreads :
    \/ CallInit(t) \/ LockInit(t)
    \/ \E isNull \in BOOLEAN : CheckParams(t, isNull)
    \/ InitAddressSpace(t) \/ InitMailbox(t)
    \/ PublishInit(t) \/ RegisterExit(t) \/ UnlockInit(t)

StartSpec == StartInit /\ [][StartNext]_initVars
----------------------------------------------------------------------------
InitTypeOK ==
  /\ processInitialized \in BOOLEAN /\ isInitializing \in Nat
  /\ addressSpaceReady \in BOOLEAN /\ mailboxReady \in BOOLEAN
  /\ mailboxesMade \in Nat /\ mailboxThreads \in Nat /\ exitHandlers \in Nat
  /\ threadFailures \in Nat /\ nullParams \in BOOLEAN
  /\ initAt \in [InitThreads -> {"out", "lock", "check", "space", "mailbox", "done",
                                 "atexit", "release"}]
  /\ initStatus \in [InitThreads -> InitStatuses]
  /\ initCalls \in [InitThreads -> 0 .. MaxInitCalls]

\* the flag is stored, the exit handler is not yet registered
Registering == \E t \in InitThreads : initAt[t] = "atexit"

(* A thread told of success has an initialized process: both stages done   *)
(* and one mailbox thread, however many threads initialize at once and     *)
(* whatever failed before.  The exit handler comes after the flag, so it   *)
(* is not promised to that thread: it is registered once, as soon as the   *)
(* thread that stored the flag gets there (init.cpp:470-476).  Of the      *)
(* mailboxes it says no more than the code gives: one is left behind for   *)
(* each thread that could not be created.                                  *)
InitializedOnce ==
  /\ \A t \in InitThreads :
       initStatus[t] = "success" /\ initAt[t] = "out" => processInitialized
  /\ processInitialized => addressSpaceReady /\ mailboxReady
  /\ exitHandlers = IF processInitialized /\ ~Registering THEN 1 ELSE 0
  /\ mailboxThreads = IF mailboxReady THEN 1 ELSE 0
  /\ mailboxesMade = mailboxThreads + threadFailures

Inside == {t \in InitThreads : initAt[t] \notin {"out", "lock"}}

(* The lock is held by one thread, or by none, unless a call with null     *)
(* parameters took it away.                                                *)
InitLockHeld ==
  IF nullParams THEN isInitializing = 0 ELSE isInitializing + Cardinality(Inside) = 1
=============================================================================
