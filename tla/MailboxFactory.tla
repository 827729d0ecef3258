--------------------------- MODULE MailboxFactory ---------------------------
(***************************************************************************)
(* Creating, copying and closing Agate mailboxes (agate/agate.cpp) through *)
(* the requests the Quartz mailbox answers in order (quartz/mailbox.cpp),  *)
(* which takes their memory from a pool of blocks (support/allocator.hpp). *)
(* The request queue keeps the order of the sends, as RequestService says. *)
(***************************************************************************)
EXTENDS Naturals, Sequences, FiniteSets

CONSTANTS
  Creators,     \* threads that create mailboxes, each with one handle variable
  PoolBlocks,   \* blocksPerSlab of mailboxPool
  MaxCreates    \* bound on the mailboxes asked for

ASSUME FactoryAssumption ==
  IsFiniteSet(Creators) /\ PoolBlocks \in Nat \ {0} /\ MaxCreates \in Nat

Block == 1 .. PoolBlocks
NoBlock == 0

VARIABLES
  requests,      \* the requests sent and not yet handled
  freeBlocks,    \* the pool's list of free blocks
  blockState,    \* block -> "free", "raw" (it holds the slots' address), "mailbox"
  slotArrays,    \* the blocks whose slot array is allocated
  refCount,      \* block -> refCount of the mailbox in it
  handle,        \* creator -> *pMailbox, which nothing resets
  owns,          \* creator -> whether a reference is its own to use
  creatorAt,     \* creator -> "idle"; "sync" or "async" while it waits;
                 \* "asking" between the two requests of the asynchronous form
  allocStatus,   \* creator -> status of its alloc request
  answered,      \* creator -> the request it waits for has been handled
  creates,       \* history: mailboxes asked for
  factoryCrash   \* "none", or what the process died of

clientVars == <<handle, owns, creatorAt, creates>>
blockVars == <<freeBlocks, blockState, slotArrays>>
factoryVars == <<requests, blockVars, refCount, clientVars, allocStatus, answered, factoryCrash>>

FactoryInit ==
  /\ requests = <<>>
  /\ freeBlocks = [i \in Block |-> i] /\ blockState = [b \in Block |-> "free"]
  /\ slotArrays = {} /\ refCount = [b \in Block |-> 0]
  /\ handle = [c \in Creators |-> NoBlock] /\ owns = [c \in Creators |-> FALSE]
  /\ creatorAt = [c \in Creators |-> "idle"]
  /\ allocStatus = [c \in Creators |-> "unset"]
  /\ answered = [c \in Creators |-> FALSE]
  /\ creates = 0 /\ factoryCrash = "none"

AllocRequest(c, shared) == [op |-> "alloc", by |-> c, shared |-> shared]
CallbackRequest(c) == [op |-> "callback", by |-> c]
FreeRequest(b)     == [op |-> "free", block |-> b]
----------------------------------------------------------------------------
(* The threads.                                                            *)

\* agt_create_mailbox: alloc_mailbox, after which the synchronous form waits
\* and the other has discarded the request and sends the callback next.
Create(c, how, shared) ==
  /\ factoryCrash = "none"
  /\ creatorAt[c] = "idle" /\ ~owns[c] /\ creates < MaxCreates
  /\ creates' = creates + 1
  /\ requests' = Append(requests, AllocRequest(c, shared))
  /\ creatorAt' = [creatorAt EXCEPT ![c] = how]
  /\ answered' = [answered EXCEPT ![c] = FALSE]
  /\ allocStatus' = [allocStatus EXCEPT ![c] = "unset"]
  /\ UNCHANGED <<blockVars, refCount, handle, owns, factoryCrash>>

\* async_create_mailbox: by now the first request may have been handled, and
\* other threads may have sent theirs.
SendCallback(c) ==
  /\ factoryCrash = "none"
  /\ creatorAt[c] = "asking"
  /\ creatorAt' = [creatorAt EXCEPT ![c] = "async"]
  /\ requests' = Append(requests, CallbackRequest(c))
  /\ UNCHANGED <<blockVars, refCount, handle, owns, allocStatus, answered, creates, factoryCrash>>

\* init_mailbox in the block: the first word gave the address of the slots.
Construct(b) ==
  /\ blockState' = [blockState EXCEPT ![b] = "mailbox"]
  /\ refCount' = [refCount EXCEPT ![b] = 1]

\* The synchronous form goes on from qtz_wait.
CreateReturns(c) ==
  /\ factoryCrash = "none"
  /\ creatorAt[c] = "sync" /\ answered[c]
  /\ creatorAt' = [creatorAt EXCEPT ![c] = "idle"]
  /\ IF allocStatus[c] = "success"
       THEN Construct(handle[c]) /\ owns' = [owns EXCEPT ![c] = TRUE]
       ELSE UNCHANGED <<blockState, refCount, owns>>
  /\ UNCHANGED <<requests, freeBlocks, slotArrays, handle, allocStatus, answered, creates,
                 factoryCrash>>

\* The caller of the asynchronous form waits for the callback's request.
AwaitCallback(c) ==
  /\ factoryCrash = "none"
  /\ creatorAt[c] = "async" /\ answered[c]
  /\ creatorAt' = [creatorAt EXCEPT ![c] = "idle"]
  /\ owns' = [owns EXCEPT ![c] = TRUE]
  /\ UNCHANGED <<requests, blockVars, refCount, handle, allocStatus, answered, creates,
                 factoryCrash>>

\* agt_copy_mailbox, the copy being for another thread
CopyMailbox(c, d) ==
  /\ factoryCrash = "none"
  /\ owns[c] /\ ~owns[d] /\ creatorAt[d] = "idle"
  /\ refCount' = [refCount EXCEPT ![handle[c]] = @ + 1]
  /\ handle' = [handle EXCEPT ![d] = handle[c]]
  /\ owns' = [owns EXCEPT ![d] = TRUE]
  /\ UNCHANGED <<requests, blockVars, creatorAt, allocStatus, answered, creates, factoryCrash>>

\* Mutant of LastReference: the first close destroys the mailbox.
AnyReference(b) == TRUE
LastReference(b) == refCount[b] = 1

\* agt_close_mailbox, and destroy_mailbox
CloseMailbox(c) ==
  /\ factoryCrash = "none"
  /\ owns[c]
  /\ refCount' = [refCount EXCEPT ![handle[c]] = @ - 1]
  /\ owns' = [owns EXCEPT ![c] = FALSE]
  /\ requests' = IF LastReference(handle[c]) THEN Append(requests, FreeRequest(handle[c]))
                                             ELSE requests
  /\ UNCHANGED <<blockVars, handle, creatorAt, allocStatus, answered, creates, factoryCrash>>
----------------------------------------------------------------------------
(* The mailbox thread, for the request at the head of the queue.           *)

Crash(why) ==
  /\ factoryCrash' = why
  /\ UNCHANGED <<requests, blockVars, refCount, clientVars, allocStatus, answered>>

Handling(op) == factoryCrash = "none" /\ requests # <<>> /\ Head(requests).op = op

\* proc_alloc_mailbox.  An exhausted pool does not refuse: findAllocSlab goes
\* on to the entry past the only slab.  Nor is a lack of memory for the slots
\* reported: they are cleared before the address is looked at.
AllocMailbox ==
  LET r == Head(requests)
      c == r.by
      b == Head(freeBlocks)
  IN  /\ Handling("alloc")
      /\ \/ /\ r.shared
            /\ requests' = Tail(requests)
            /\ allocStatus' = [allocStatus EXCEPT ![c] = "no_ipc"]
            /\ answered' = [answered EXCEPT ![c] = (creatorAt[c] = "sync")]
            /\ UNCHANGED <<blockVars, refCount, clientVars, factoryCrash>>
         \/ ~r.shared /\ freeBlocks = <<>> /\ Crash("pool")
         \/ ~r.shared /\ freeBlocks # <<>> /\ Crash("slots")
         \/ /\ ~r.shared /\ freeBlocks # <<>>
            /\ requests' = Tail(requests)
            /\ freeBlocks' = Tail(freeBlocks)
            /\ blockState' = [blockState EXCEPT ![b] = "raw"]
            /\ slotArrays' = slotArrays \union {b}
            /\ handle' = [handle EXCEPT ![c] = b]
            /\ allocStatus' = [allocStatus EXCEPT ![c] = "success"]
            /\ answered' = [answered EXCEPT ![c] = (creatorAt[c] = "sync")]
            /\ UNCHANGED <<refCount, owns, creatorAt, creates, factoryCrash>>

\* proc_execute_callback_with_buffer: create_mailbox_callback follows the
\* handle, whether the discarded request set it or not; what it does to a
\* null, stale or taken block is not followed up.
RunCallback ==
  LET c == Head(requests).by
  IN  /\ Handling("callback")
      /\ IF allocStatus[c] = "success" /\ blockState[handle[c]] = "raw"
           THEN /\ Construct(handle[c])
                /\ requests' = Tail(requests)
                /\ answered' = [answered EXCEPT ![c] = TRUE]
                /\ UNCHANGED <<freeBlocks, slotArrays, clientVars, allocStatus, factoryCrash>>
           ELSE Crash("callback")

\* proc_free_mailbox: free_block puts the block in front.
FreeMailbox ==
  LET b == Head(requests).block
  IN  /\ Handling("free")
      /\ requests' = Tail(requests)
      /\ freeBlocks' = <<b>> \o freeBlocks
      /\ blockState' = [blockState EXCEPT ![b] = "free"]
      /\ slotArrays' = slotArrays \ {b}
      /\ UNCHANGED <<refCount, clientVars, allocStatus, answered, factoryCrash>>

FactoryNext ==
  \/ \E c \in Creators :
       \/ \E how \in {"sync", "asking"}, shared \in BOOLEAN : Create(c, how, shared)
       \/ SendCallback(c) \/ CreateReturns(c) \/ AwaitCallback(c) \/ CloseMailbox(c)
       \/ \E d \in Creators \ {c} : CopyMailbox(c, d)
  \/ AllocMailbox \/ RunCallback \/ FreeMailbox

FactorySpec == FactoryInit /\ [][FactoryNext]_factoryVars
----------------------------------------------------------------------------
(* A thread that may use its handle finds a constructed mailbox with its   *)
(* slots, counted once for each such thread, until the last of them closes *)
(* it; the memory of a mailbox goes back to the pool once; and the         *)
(* callback of an asynchronous create follows a handle that was not set    *)
(* only when the mailbox asked for was a shared one.                       *)
HandlesLive ==
  /\ \A c \in Creators : owns[c] =>
       /\ blockState[handle[c]] = "mailbox" /\ handle[c] \in slotArrays
       /\ refCount[handle[c]] = Cardinality({d \in Creators : owns[d] /\ handle[d] = handle[c]})
  /\ \A i, j \in DOMAIN freeBlocks : i # j => freeBlocks[i] # freeBlocks[j]
  /\ \A b \in Block : (blockState[b] = "free") = (\E i \in DOMAIN freeBlocks : freeBlocks[i] = b)
  /\ slotArrays = {b \in Block : blockState[b] # "free"}
  /\ factoryCrash = "callback" => allocStatus[Head(requests).by] = "no_ipc"
=============================================================================
