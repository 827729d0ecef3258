# Verification of jemsys

TLA+ models of the concurrent core of jemsys, the TLC runs that check them on
small instances, and theorems that hold for every instance. The models are
translated from the code under `src/src`; `PROJECT.json` maps each definition
to its lines.

jemsys is a set of C++ libraries for message passing between threads. *Quartz*
runs one process-wide thread, the mailbox thread, that serves requests
(allocate or free a mailbox, run a callback, write a log). *Agate* builds
mailboxes and agents on it. *Agate2* is a rewrite of Agate in progress.
*Silica*, *Opal*, *Quartz2*, *Silica2* are other or future libraries.

## Inventory

| Component | State | Operations | What is hard | What makes it correct |
|---|---|---|---|---|
| **Quartz mailbox** (`quartz/internal.hpp`, `quartz/mailbox.cpp`) | request slots (`nextSlot`, `flags`, kind, `status`), the lock-free free list `nextFreeSlot`, the queue end `lastQueuedSlot`, `slotSemaphore`, `queuedMessages`, `previousRequest`, `killRequest`, `shouldClose` | `qtz_send`, `qtz_wait`, `qtz_discard`; the mailbox thread's receive, handlers, notify, destroy, close | lock-free stack and queue through one field; three flags raced by three functions decide who frees a slot; the last request taken stays locked; sleeping on `flags` | no slot in two roles or lost; permits match the pool; requests taken first in, first out, once; answers are the request's own; nobody sleeps for ever |
| **Quartz start-up and exit** (`quartz/init.cpp`, `jemsys.cpp`) | `g_qtzGlobalMailbox`, `g_isInitializing`, the thread handle | `qtz_init`, `destroyMailbox` (atexit), the thread's loop | racing and failing initialisers; an exit hook while requests are queued | one mailbox per process; a failed start can be retried; the killer's wait returns |
| **Quartz log buffers** (`quartz/internal.hpp`) | `async_buffered_output_log`: a pool of buffers, a queue of full ones, a thread that prints; `big_buffered_log`: a ring mapped twice, an end mark, a thread that prints | write, newline, flush, clear, destructor | buffers recycled while others are printed; wrap-around; the thread's stop racing the last push | what is pushed is printed once, in order, as it was written; the destructor's join returns |
| **Quartz types, memory, kernel** (`internal.hpp`, `types.hpp`, `mm.hpp`, `kernel.*`) | `request_priority_queue`: a heap in a circular array; page tables | insert, pop, peek | the heap moves with its head | what was inserted is popped, most urgent first |
| **Synchronisation primitives** (`support/atomicutils.hpp`) | `semaphore_t`, `shared_semaphore_t`, `binary_semaphore_t`, `mpsc_counter_t`, `atomic_flags` | acquire, try, timed acquire, release; wait and notify | load-then-sleep windows; releases of several permits; timeouts | permits conserved; no sleeper stranded with a permit free |
| **Agate mailboxes** (`agate/*_mailbox.cpp`, `agate/common.hpp`) | message slots (`next`, `signal`), free-list ends, `lastQueuedSlot`, `previousReceivedMessage`, two semaphores | connect, acquire, send, receive, return | two lists, four concurrency contracts; returner is whoever is last | as for Quartz; each contract of `agate.h` |
| **Agate creation and signals** (`agate/agate.cpp`, `message.cpp`, `vtable.cpp`) | `isReady`, `openHandles`, `status`, flags; the mailbox's `refCount` | create, copy, close; `agt_reply`, `agt_signal_copy`, `_wait`, `_discard` | handles let go of in any order, replies racing discards | the message lives while anybody can use it, and no longer |
| **Agents, handles, deputies** (`agate/agent.cpp`, `handle.cpp`, `deputy.cpp`) | agent kinds and dispatch tables | create, close, dispatch | lifetime of the agent a message names | a message's sender outlives it |
| **Agate2 async and signals** (`agate2/async.cpp`, `signal.cpp`, `atomic.hpp`) | counts of references and waiters in one word, the key of the current use, monotonic counters | reset, clear, destroy, attach, arrive, wait, drop | reuse of data while answers to an earlier use are under way; sleepers that wait for different counts | data freed once, after the last reference; answers of an old use ignored; who waits for a count is woken at it |
| **Agate2 channels and messages** (`agate2/channels.cpp`, `message.cpp`, `objects.cpp`) | slot lists of each channel kind | acquire, push, pop, release, connect | as Agate mailboxes | as Agate mailboxes |
| **Agate2 context, pages, pools** (`agate2/context.cpp`, `pool.hpp`) | stacks of full and free slabs, page lists | alloc, free, grow | moving a slab between stacks at the boundary | a block has one owner |
| **Object manager, allocator** (`support/object_manager.cpp`, `support/allocator.hpp`) | pages and free lists | alloc, free, lookup | the first full slab; release of empty pages at the limit | a cell has one owner |
| **Containers, environment** (`support/*.hpp`) | vectors, `dictionary` (a hash table), the environment block | insert, erase, find, grow | probing past other keys and tombstones | finds what was inserted and not erased |
| **Ipc** (`ipc/*`) | shared segments, offset pointers | send, receive | peers in other processes | – |
| **Silica**, **Opal**, **Quartz2**, **Silica2** | – | console interface; stubs | – | – |

Calls and shared state: clients call `qtz_send`, which puts a request in the
mailbox's memory; the mailbox thread alone dispatches; they meet in the slot
lists, the two counters and each request's `flags`. `agt_create_mailbox` is a
Quartz request that allocates and then one that runs the constructor; after that an Agate
mailbox lives without Quartz until it is freed.

## Modules

* `RequestService` – abstract: what a mailbox promises, with slots that are
  free, claimed, queued, handling or answered, the set of answers still
  wanted, a queue and the request taken last. No lists, flags or counters.
* `QuartzMailbox` – the Quartz mailbox, one action per access to memory that
  two threads share. `pc` is where each thread is in the code; `slot`, `reg`,
  `nxt`, `dying` are its local variables. `SendBegin` … `Increase` are
  `qtz_send`; `Clear` … `Release` are `destroy_request`; `Decrease` …
  `WakeKiller` are the mailbox thread; `WaitBegin` … `Discard` are `qtz_wait`
  and `qtz_discard`; `DestroyMailbox` is the exit hook. `stack`, `fifo` and
  `answer` are history variables that no step reads. A request is reduced to
  its kind, by what its handler does: store a status and notify ("alloc"),
  notify without a status ("callback"), destroy ("log"), close ("kill").
* `MCQuartzMailbox` – refinement mapping to `RequestService`, fairness, liveness.
* `AgateMailbox` – the four local Agate mailboxes (`kind` selects one) and
  their signals. `AcquireSlot` … `Count` are acquire and send; `TakeQueued` …
  `FreeHold` receive; `ReplyIgnored`, `ReplyStatus`, `SetReady` `agt_reply`;
  `Copy` … `Condemn` the signal functions; `Cleanup` … `Release`
  `destroy_message`. `phase`, `fifo` and `answer` are history variables; `answer` is
  what the present message of a slot was replied with, and is reset when the slot is taken.
* `MCAgateMailbox` – refinement mapping to `RequestService`, fairness, liveness.
* `Semaphores` – the four counting primitives (`kind` selects one), one step
  per access to the word, for calls of one or several permits that block, try
  or have a deadline, with the number of waiters of the shared semaphore. The
  two mailboxes use the primitives as single steps; this module is why they may.

The smaller components share no state with each other, and `MCComponents`
checks them side by side, one at a time:

* `AsyncData` – the owner's async (reset, clear, destroy), the messages
  that carry a reference and a key, and the receivers that arrive or drop.
  `asyncWait` is no step of it: it tests `flags & eAsyncReady`, which holds the
  bit of `eAsyncBound`, so it returns at once whenever it is called and changes
  nothing (`async.cpp:470`). A reset stores the greatest number of responses in
  `attachedRefCount` (`attached`) and nothing lowers it, so that the assertion of
  `asyncDataDestroy` that it is zero (`async.cpp:320`) fails later; that is plain
  from the code, and no run is spent on it.
* `ResponseCounter` – `AtomicMonotonicCounter`: counting, and waiting with
  `deepSleepers_`.
* `RequestQueue` – `request_priority_queue` against a count of what it holds of
  each priority. Each of its loops is a function from the loop's variables to
  their next values (`RaiseBody`, `HeapifyBody`, …), repeated (`Loop`), so that the
  theorem about it can be an invariant of the loop. `InsertTwo` has the three cases
  of `append_n`: the entries end before the array does, the last one falls behind
  its end ("end"), or they go on at its start ("wrap"). The last two copy past the
  array or the requests; what is copied from there is any of `Junk`, and the model
  follows nothing after it (`queueOverrun`).
* `BufferedLog`, `BigBufferedLog` – the two logs: writer, printing thread,
  destructor. A character or a buffer's text is its position in what was written.
* `QuartzInit` – `qtz_init` with its lock, its failures and retries. `PublishInit`
  stores the flag and `RegisterExit` then registers the exit hook: a call in between
  returns success before there is a hook.
* `MailboxFactory` – creating (synchronously or not), copying and closing
  mailboxes, with the requests that Quartz handles in order (as
  `RequestService` promises), the constructor callback and the block pool. The
  asynchronous form sends its two requests in two steps (`Create`, `SendCallback`).
* `Dictionary` – the hash table: probing, tombstones, growth, memory that is not cleared.
* `PrivateMailbox` – the mailbox of one thread, whole.

Proofs: `QuartzMailboxProofs` (type, exit, permits), `QuartzSlotProofs` (the
slots and the refinement of `RequestService`, with one sender),
`SemaphoresProofs`, `LogProofs` (both logs), `LifetimeProofs` (`QuartzInit`,
`MailboxFactory`, `AsyncData`, `ResponseCounter`), `AgateMailboxProofs` (the `mpmc`
mailbox with one producer and one consumer: its invariants, the refinement, the
order), `AgateIgnoredProofs` (the same for the other three kinds, when results are
ignored), `ContainersProofs`
(`PrivateMailbox`, `Dictionary`, `RequestQueue`, and `MCComponents`).

Abstractions common to all. A `compare_exchange_weak` fails only when the
value differs, except where the code gives up at a failure (`try_acquire`); a
spurious failure elsewhere would only repeat the load. Memory is sequentially
consistent. Payloads, sizes and ids are left out. `WaitOnAddress` compares and
sleeps in one step, and `WakeByAddressSingle` wakes the thread that has slept
longest, as Windows documents. An index or address that leaves its
array stops the model ("aborted": an assertion; "wild", "crashed",
`factoryCrash`, `polled`: undefined behaviour).

## Runs

| Run | Question | Bounds |
|---|---|---|
| `quartz_pool` | do pool, queue, semaphores and sleepers stay consistent, without deadlock? | N=4, one sending client, one collecting client, kinds callback and log |
| `quartz_live` | does it implement `RequestService`; do blocking sends and waits return? | N=3, kinds alloc and log, two outcomes |
| `quartz_shutdown` | does closing wake the killer, and when does the null dereference happen? | N=3, kinds callback and kill, exit hook |
| `quartz_two_senders` | violation: two sending threads | N=3, two senders |
| `quartz_status` | violation: status of a callback request | N=3 |
| `agate_signals` | is every answered message returned by exactly one of consumer and signal holders, and no slot lost; is a status one's own; does the last handle condemn; does it implement `RequestService`? | mpmc, N=4, one producer, one consumer, two waiters, up to two handles per signal, fast cleanup |
| `agate_ignored` | do the lists of all four kinds stay linked, and slots come back? | N=4, one producer, one consumer, results ignored |
| `agate_senders` | violation: two producers | mpsc, N=4 |
| `primitives` | do the four primitives keep their permits; is every sleeper woken? | 3 acquirers, one of them trying or with a deadline; 1 releaser; 2 permits; 1 or 2 at a time |
| `components` | do the nine smaller components keep their invariants? | see below |
| `queue_heap` | violation: `is_valid_heap` after a pop | 8 places, 2 priorities |
| `queue_wrap` | violation: requests that go on at the start of the array are in the queue | 8 places, 2 priorities |

Why the bounds are enough. The last request taken stays locked, and one slot
of a Quartz mailbox is the constructor's dummy, so N=2 gives one usable slot
that is never returned; N=3 lets a request be queued behind a locked one, and
N=4 lets two slots be destroyed while a third is popped. In Agate, N=3 lets
one message be held while another is reused; N=4 lets consumer and waiter
return two messages at once. The messages of `agate_signals` are cleaned up fast,
which leaves the old status in the slot: the cleanup that overwrites it could not
show one that is read too late. The code makes at least 16 slots
(`get_slot_count`), and `bit_ceil` slots in Quartz; nothing in the lists
depends on their number beyond that. `MaxHandles` bounds copies. The other
counters of the mailboxes are bounded by N. In Quartz any client may wait on
or discard any handle, so two clients cover a handle passed between threads.
Three acquirers are the fewest of which two sleep while a third
interferes, and two permits let a release serve both.

In `components`: two receivers (one in another context) and three resets let an
answer be two uses late; three waiters for counts 1 and 2, one with a
deadline, let one wake-up meet the wrong sleeper; a queue array of eight holds the six
requests at which the heap breaks, and wraps (there, one value stands for
what lies behind the requests to append; it is no priority); four buffers of four characters
make the pool run empty, and three pushes and the destructor's
recycle one; a ring of eight with writes of one and three, fourteen characters in
all, wraps and ends at every offset, and lets the printing thread miss a wrap; three threads with two calls each retry
a failed `qtz_init` while another waits; three creators, two blocks and three
creations make a block be reused and the pool overflow; five keys, three with
colliding buckets, in tables of two and four make the table grow and clear its
tombstones; four slots and six sends wrap the private mailbox's lists.
`MaxResets`, `MaxResponses`, `MaxCount`, `MaxLogPushes`, `MaxChars`,
`MaxInitCalls`, `MaxCreates`, `MaxSends` and `ArraySize` are the bounds; each
is a counter the code leaves to grow.

Deadlock is checked except where the system may stop: in `quartz_shutdown` the
mailbox thread ends; in `components`, `queue_heap` and `queue_wrap` every
component comes to the end of a bounded life (its log closed, its calls made);
in `quartz_two_senders` a failed assertion ends the process.

What the violations say.

* `quartz_two_senders`, `agate_senders`: both mailboxes link a message in a way
  that breaks with a second sender. Quartz exchanges the queue end, then
  links, then counts: another sender can count in between and the mailbox
  thread follows an unwritten link (`test/quartz/init.cpp` does send
  from ten threads). Agate's `mpsc` and `mpmc` link before their
  compare-exchange: the loser has overwritten the winner's link and a message
  is lost (`agate.h` promises sends atomic to each other). So every passing
  run has one sender, and what they check holds for one sender.
* `quartz_status`: a callback's handler stores no status, and `qtz_wait`
  returns what an earlier request left in the slot.
* `queue_heap`: `rebalance_after_pop` sinks an entry along left children only,
  so with six requests the queue need not be a heap after a pop.
  `ShortQueueOrdered`, which passes, says how far it can be relied on: while it
  has not held more than five requests, and none was copied past the end of the
  array, it is ordered.
* `queue_wrap`: `append_n` takes the index where the array ends for the number of
  entries before it. If the entries wrap, it copies too much to the end and the
  wrong memory to the start of the array, and the requests that belong there are
  lost; its own picture (`internal.hpp:948-983`) shows them there. One cell
  earlier, when the last entry belongs to cell 0, it takes the
  requests to fit and writes that one behind the array (line 988).

Fairness. Weak fairness for the mailbox thread, for each consumer, for every
call in progress, and for the application's collecting its handles: the
operating system runs every runnable thread, and a handle never waited on or
discarded keeps its slot. Nobody is obliged to send in Quartz. In Agate a
producer that acquired a slot goes on to send it; liveness is checked without
signals, because a caller that copies and discards for ever lets nothing go. In
`Semaphores` every thread's call goes on, and a releaser that holds
permits releases them in the end, as a mailbox's receiving side does; nobody is obliged to
acquire. The components are checked for safety only: that a log's destructor
returns is stated as `ClearedLogStops` (the state in which it never would), and
that a counter's waiter wakes as `NoSleeperMissed`.

With one sender ABA cannot occur on a pop (`PoolIsAList`); with more, other faults
come first, and no run is about it. With two Agate consumers, the
receive of the next message frees the hold on one that another consumer still
handles; this is listed as a hazard and not run, since no text says whose
duty it is. Also not run: a consumer and a waiter returning to an `spsc`,
`spmc` or `mpsc` mailbox at once; `mpsc_mailbox.cpp:81` itself doubts its
second store, and the model shows why: a stale first store comes after it. Nor is
an `spsc` mailbox that keeps results: it gives a permit for every slot but the
constructor's and appends to its free list, so the list needs an element that is never
popped; a message returned before an older one lets the producer pop that
element, and `PermitsBacked` fails. No text says what should hold there; it is a hazard
(`agate.cpp:65`).

## Theorems

They hold for every value of the constants under the assumptions their modules name
(`SlotAssumption`, `ThreadAssumption`, `AmountAssumption`, …), all of which
TLC evaluates in a passing run: sets of threads are finite, numbers are naturals,
a Quartz mailbox has at least two slots, an Agate mailbox three.

* `TypeCorrect` (Quartz): `TypeOK` is inductive as stated; its part `RegsTyped`
  records that a thread about to write through an index has passed the
  assertion of `get_request`. One lemma per group of actions, one step per action.
* `PermitsCorrect`: `Spec => [](NoAbort => PermitsMatchPool)`. Until an
  assertion stops the process the free slots are as many as the permits, given
  out or not, for any number of senders: the semaphore's arithmetic survives where the
  queue does not. It rests on lemmas that count the threads at a set of labels
  before and after one of them moves.
* `CrashCorrect`: the null `killRequest` is dereferenced only after the exit
  hook ran. Strengthened by `ClosedForReason`: a mailbox that should close has
  a kill request or was told to by the hook.
* `NeverAborts`, `OneRoleEach`, `NothingLost`, `PoolIsAList`, `RequestsInOrder`,
  `SleepersWoken`, `StatusIsOwn`: `NoAbort`, `SlotExclusive`, `NoSlotLost`,
  `StackLinked`, `QueueLinked`, `NoLostWakeup` and `ReplyIsOwn` for every number
  of slots and of threads that wait and discard, if one thread sends
  (`OneSender`). The assumption is needed: with two senders `NoAbort` fails (run
  `quartz_two_senders`). They lean on each other (a list is a
  list because no slot is on two of them, and conversely), so they share one
  inductive invariant, `SlotInv`:
  * the lists: `StackShape` and `QueueShape` follow the links of the pool and
    of the queue; `PopShape`, `PushShape` and `AppendShape` say that what
    a thread in the middle of a pop, push or append has read is still so, as
    one sender alone pops, and the mailbox thread never follows the link
    that is being written;
  * `Roles`: free, popped, queued, held or dying, a slot is one of them only;
    `HandleOnce`, `HandleShape`: each handle has one owner, and its flags say
    whether the handler or the owner comes next; `FlagShape` is the protocol of
    NOT_PRESERVED, READY and DISCARDED: whoever comes last of unlock, discard
    and the handler's action returns the slot, and nobody else does; `DummyRetired` is the
    exception to "every slot comes back";
  * `MainShape`, `KillShape`, `AnswersOwn`: what the mailbox thread has in hand,
    the kill request it remembers, and whose answer a status is.

  A pop needs that the pool is not empty, which is where `PermitsCorrect` comes
  in. Frame lemmas say what a step of one thread leaves alone, then there is one
  lemma per group of actions, with one step per part of the invariant.
* `ServiceImplemented`: `Spec => ImplementsService`, with one sender. From
  `SlotInv` and the refinement mapping of `MCQuartzMailbox` (`PhaseOf`), each
  action is shown to be the service's step its comment names, or to leave what
  the service shows alone. The service's "recycle" is the step in which a slot
  becomes owed to the pool (`Clear`), so the argument is that of `FlagShape` again: whoever
  comes there finds the request answered, not wanted and not the last one taken.
* `SemaphoreTypeCorrect`, `WaitersCorrect`, `NoStrandedCorrect`,
  `PermitsConservedCorrect`: permits are neither lost nor made; the shared
  semaphore counts every waiter, and no thread sleeps beside a free permit
  with nobody on the way to wake it or take it (but after
  `semaphore_t::release` of several, which wakes one). The invariant behind the last is
  `Covered`: the permits are at most the threads that are looking for one and
  the wake-ups that are coming; for the counter, with its one consumer,
  `ConsumerTold`.
* `AsyncTypeCorrect`, `CountsCorrect`, `LateAnswersKnown`: the reference count
  is the references, the data are freed by the last of them (`RefsExact`,
  `WaitersExact`); an answer to an earlier use is counted for a
  later one only if it had passed the comparison of keys before the reset
  (`WaiterClaimed`, `PassedInTime`).
* `CounterTypeCorrect`, `NoSleeperMissedCorrect`: a sleeper whose count has
  been reached is about to be woken. The invariant `Alarm` says who still owes
  the wake-up; `Outdated`, that whoever sleeps on an old value is first in the queue,
  which is why waking one suffices when one is enlisted; `SleepersCounted`, that
  deep sleepers are enlisted.
* `PrintedInOrderCorrect`: the queue of full buffers, the pool and what both
  threads have in hand are disjoint lists along `bufNext` (`LogInv`); a buffer's text
  is its place in the queue, and tokens and queued buffers are counted by them.
* `PrintedAsWrittenCorrect`, `ClearedLogStopsCorrect`: `RingInv`. `InStep` says that
  each cursor and each end is the number of characters it stands for but for whole turns
  of the ring, that an end is stored or read at most one turn ahead of
  the printing thread's cursor, and that the ring holds what is still to be printed.
  The attempt to prove it showed that "no full ring waits" is not enough: the
  thread moves its cursor back by a ring whenever the end is behind the cursor
  (`internal.hpp:674`), and nobody tells it of a wrap. When the writer wraps in a
  write that stores no end, or the thread misses an end, text that is pending
  may begin in the turn before; the cursor then comes to be in front of the buffer, or
  the number of characters negative, and nothing is printed right from then on, however
  prompt the thread is. `LeftBehind` names these cases, and the theorem says there are no others.
* `LockCorrect`, `InitOnceCorrect`: one thread at a time inside `qtz_init`
  (`OnePermit`), and success only after the mailbox was made (`StageReached`: where a
  thread is, the stages before it are done). The exit hook is registered once, but
  after the flag is stored: whoever reads the flag in between is told of success first
  (`Registering`).
* `HandlesCorrect`: who may use a handle finds a constructed mailbox. The
  invariant `FactoryInv` follows a block through the pool, the alloc request that holds
  it, the callback that constructs in it and the free request: `HoldersCounted`
  (the reference count is those who hold or await it), `PoolExact` (the list
  of free blocks is the free blocks, each once), `AllocsPend`, `CallbacksPend`,
  `FreesDue`, `RequestsOnce` (whose request may be in the queue, and once),
  `CrashCause` (the callback fails only after a refused allocation).

* Agate: `TypeCorrect`, `SlotsConservedCorrect`, `PermitsBackedCorrect`,
  `ReplyIsOwnCorrect`, `HandlesCountedCorrect`, `QueueLinkedCorrect`,
  `ServiceImplemented`, `ReceivedInOrderCorrect`: for the `mpmc` mailbox and any
  number of slots, signal holders, handles, flags and statuses, if at most one thread
  sends and at most one receives (`OneEach`). Not even `TypeOK` is inductive
  by itself, as an index read from a link is an index only while the slot has one
  owner, so all of them share one invariant, `AgateInv`:
  * `PoolShape`: the links from `nextFreeSlot` lead through the free slots, which are
    as many as the permits with those of threads that are popping or about to release; the
    constructor's slot ends that list. `PopShape`, `SendShape`: what the
    producer has read is still so. A returner may push while the producer is
    popping, but it changes `nextFreeSlot`, and the compare-exchange fails;
  * `QueueShape`: the links from `previousReceivedMessage` lead through the
    messages sent, in order, and those are the tokens counted, about to be counted, or
    taken by the receiver. `RecvShape`: what the consumer has in hand;
  * `FieldShape`: what a free, sent or answered slot holds in its flags, its count of
    handles and its `isReady`, above all that a slot is blank when it is popped;
  * `DyingShape`: a message being returned is in nobody else's hands, which is
    what IN_USE (the receiver's hold) and CONDEMNED (the signal's end) are for: the
    later of the two returns it. `HandleShape`: the handles of a signal are
    counted, and one of its holders at most finds the count at zero.

  This says that what is returned is nobody's, which leaves open that something is
  nobody's and never returned. `SlotsConserved` excludes that, slot by slot, and it
  takes three more invariants, proved on top of `AgateInv`: `Placed` (what is being filled
  or handled is in a thread's hands), `Accounted` (a message that was sent is kept for
  its signal unless its flags say that it was condemned or its result ignored; one that was
  answered is held by the mailbox, or being returned, or has neither IN_USE nor
  CONDEMNED, so that a signal still keeps it), and
  `Wanted` (a status is stored only for a message whose result is not ignored). So
  neither `condemn` nor `free_hold` leaves a message to the other after the other
  has passed it by.
  `ReplyIsOwnCorrect` compares the status read with the reply to this message:
  `answer` is reset when the slot is taken (`Claim`), so what an earlier message left
  in the slot does not pass.

  `ServiceImplemented` has one lemma per group of steps: the pop, the send's
  and the receive's compare-exchange are the service's claim, submit and take, the
  two ways to reply its answer, the last handle dropped its drop, and the push of a
  returned slot, or the release of the constructor's, its recycle; the rest is unseen.
  `ReceivedInOrderCorrect` is the property that the run `agate_senders`
  refutes with a second producer: the assumption is where the two differ.
* `IgnoredTypeCorrect`, `IgnoredSlotsConserved`, `IgnoredPermitsBacked`,
  `IgnoredQueueLinked`, `IgnoredService`, `IgnoredInOrder`: the same for `spsc`,
  `spmc` and `mpsc`, any number of slots, if at most one thread sends, at most one
  receives, and every result is ignored (`Ignoring`). A `kind` never changes, so a choice
  of kinds that includes `mpmc` is covered by the two hypotheses together. These kinds
  return a message to the end of the list. `spsc` and `spmc` move `lastFreeSlot` and then
  link what was the end; `mpsc` links it before, and once more after.
  `IgnoredInv` describes the two lists as one ring:
  * `RingShape`: the links from `nextFreeSlot` lead through the free slots, and the link of
    the last one leads to the message that will be returned next (`Oldest`), since a
    message that is returned still has its link to the one received after it. What
    `lastFreeSlot` points to, or what the consumer in the middle of a return
    remembers of it, is the end of that ring (`RingEnd`). When all free slots have been
    taken, that end is the newest message (`Newest`): a return writes into its link,
    and the next send overwrites it. The constructor's message is freed without being
    returned, behind `lastFreeSlot` (`extra`, `EndOf`): the next return links over it, and it is lost
    (`Bypassed`), unless no free slot precedes it;
  * `QueueShape` is the one of `AgateInv`; `HandShape`, `SupplyShape`: what the
    consumer and the producer have in hand and have read; `MarksShape`: the flags say
    who returns a message.

  For `IgnoredSlotsConserved`, `IgnoredPlaced` and `IgnoredAnswered` say where each slot is
  that is not free: here only the consumer returns messages, the last one received
  when it receives the next.
* `PrivateInOrderCorrect`: the private mailbox, for any number of slots and sends.
  `PrivateInOrder` says less than its induction needs: the free list, followed
  from `nextFree`, is the slots that nobody has, each once, but for the one the
  constructor received (`FreeShape`); the links from the message received last lead
  through those that wait, in order (`WaitingShape`); and a slot has one use, and is
  held while it waits or was received last (`UseShape`).
* `FindsExactlyCorrect`, `DictTypeCorrect`: the dictionary, for every set of keys,
  every hash function, and first tables whose size is a power of two. `DictInv`: every key in
  the table is in one bucket, and no hole comes before it on its way (`OnTheWay`); there is a
  hole; items and tombstones are counted. That a search ends needs that the
  probes meet every bucket, hence the hole (`ProbesApart`): two triangular numbers below
  the n-th differ by no multiple of n, if n is a power of two. It fails for other
  sizes, and a table grows by doubling (`PowerDoubles`). That rehashing loses
  nothing is an invariant of its loop: after i buckets the new table is sound and
  holds the keys of the first i.
* `ShortQueueOrderedCorrect`: the priority queue, for every capacity that is a power
  of two. That nothing is lost or doubled holds at any length until `append_n` copies past
  the end of the array (`queueOverrun`; run `queue_wrap`), since the loops only swap
  entries below the end (`SameEntries`). That the queue is a heap while it has
  held at most five is proved round by round: `OrderedBut` (a heap but at the entry
  that rises), `OrderedFromBut` (a heap from an entry on, but at the one that
  sinks), and for a pop, sizes up to four, where sinking along left children is
  enough. With six it is not (run `queue_heap`), so the bound in the theorem is sharp.
* `ComponentsRun`, `ComponentsTypeOKCorrect`: a run of `MCComponents` is a run of each
  of its components, so their theorems hold there, and their types among them.

The prover does no induction over an operator's values. `ContainersProofs` puts
a set in its place: `LeastNat`, every nonempty set of naturals has a least element, from
the library's theorem that the order of the naturals is well-founded, and `Induct`, that a
set with 0 and all successors holds every natural. With these, a recursive
function is what its equation says (`RepeatRuns`), and invariants of loops can be proved.

Only model-checked: liveness (`SendReturns`, `WaitReturns`, `KillerReturns`,
`PermitReturns`, `SleeperWakes`: fairness and ENABLED are out of the prover's reach).

## Plan

1. When the source gains them: Agate2 channels, contexts, the shared mailboxes.
2. The contracts of Agate's `mpsc`, `spmc` and `mpmc` with more than one sender or
   receiver, when sends and receives are atomic to each other.

## Not modelled

* Agate2 channels: `acquireSlot` of the local channels has an empty body, no constructor
  sets the lists, and connect returns "not yet implemented": no state
  in which a channel carries a message can be reached. `send` and `receive`
  repeat the modelled mailboxes.
* Agate2 context and pools: `createCtx` returns "not yet implemented". The pool
  searches its slabs as `allocator.hpp` does, which `MailboxFactory` models
  up to the read past the slab stack.
* The generic wait loops of `agate2/atomic.hpp`: they have the form of the
  counter's; those of its `AtomicFlags` do not compile when instantiated.
* `connect` of the local Agate mailboxes: one acquire or release of a
  semaphore, which `Semaphores` models. The shared mailboxes are unimplemented.
* `agate/handle.cpp`, `deputy.cpp`: not in the build; `agent.cpp` is a
  thread-local pointer.
* `object_manager.cpp`: no caller, and `lookup_cell` asserts a bound nothing raises.
* `vector.hpp` (its growth path does not compile), `pointer_set.hpp` (its large
  form is missing), `heaputils.hpp` (incomplete), `handles.hpp` (no caller);
  `simple_mutex` and `atomic_flag` (one-word wrappers).
* `quartz/types.hpp` does not compile and nothing includes it; `kernel.cpp` is not
  in the build; `mm.hpp` and `environment.hpp` wrap operating-system calls.
* Ipc (the operating system's shared memory; no caller), Silica (a sequential
  builder, mostly stubs), Opal, Quartz2, Silica2 (empty).
