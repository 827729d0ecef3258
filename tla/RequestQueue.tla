---------------------------- MODULE RequestQueue ----------------------------
(***************************************************************************)
(* request_priority_queue (quartz/internal.hpp): a heap of requests, the   *)
(* lowest queuePriority first, in a circular array whose head moves on     *)
(* with each pop, so that every entry takes the place before its own.      *)
(* A request is identified with its priority.                              *)
(***************************************************************************)
EXTENDS Naturals, FiniteSets

CONSTANTS
  ArraySize,    \* bit_ceil(maxSize), a power of two: & indexMask is % ArraySize
  Priorities,
  Junk          \* what may lie in memory behind the requests to append

ASSUME ArrayAssumption ==
  /\ ArraySize \in Nat \ {0}
  /\ \A d \in 2 .. ArraySize : ArraySize % d = 0 => d % 2 = 0
  /\ Priorities \subseteq Nat /\ Junk \subseteq Nat

VARIABLES
  entryArray,   \* 0 .. ArraySize - 1 -> priority; 0 where nothing was written
  headIndex,    \* queueHeadIndex
  queueSize,
  queued,       \* history: how many of each were inserted and not popped
  longest,      \* history: the greatest size since the queue was empty
  queueOverrun  \* whether append_n has copied past the "end" of the array, or
                \* wrongly behind a "wrap": nothing is followed after that

queueVars == <<entryArray, headIndex, queueSize, queued, longest, queueOverrun>>

QueueInit ==
  /\ entryArray = [i \in 0 .. ArraySize - 1 |-> 0]
  /\ headIndex = 0 /\ queueSize = 0
  /\ queued = [p \in Priorities |-> 0] /\ longest = 0 /\ queueOverrun = "none"

\* indexMask & (queueHeadIndex + i)
At(head, i)    == (head + i) % ArraySize
Lookup(i)      == entryArray[At(headIndex, i)]
Parent(i)      == i \div 2

\* The array seen from a head: entry 1 is the next to pop.
View(head)     == [i \in 1 .. ArraySize |-> entryArray[At(head, i)]]
\* ... and written back.
Written(head, h) ==
  [j \in 0 .. ArraySize - 1 |->
     h[CHOOSE i \in 1 .. ArraySize : At(head, i) = j]]

Swapped(h, i, j) == [h EXCEPT ![i] = h[j], ![j] = h[i]]

Arrays  == [1 .. ArraySize -> Nat]
Indices == 0 .. 2 * ArraySize + 1

\* A loop, whose body is a function of its variables that changes nothing once
\* the loop has ended.  No loop here goes round more often than n = ArraySize.
Repeat(body, start, n) ==
  LET after[k \in 0 .. n] == IF k = 0 THEN start ELSE body[after[k - 1]]
  IN  after[n]
Loop(body, start) == Repeat(body, start, ArraySize)[1]
----------------------------------------------------------------------------
\* rebalance_after_insert
RaiseBody ==
  [s \in Arrays \X Indices |->
     LET h == s[1]  node == s[2]  i == Parent(node)
     IN  IF i = 0 \/ h[node] >= h[i] THEN s ELSE <<Swapped(h, i, node), i>>]
Raise(h, node) == Loop(RaiseBody, <<h, node>>)

Insert(p) ==
  LET size == queueSize + 1
      h    == [View(headIndex) EXCEPT ![size] = p]
  IN  /\ queueOverrun = "none" /\ queueSize < ArraySize
      /\ queueSize'  = size
      /\ entryArray' = Written(headIndex, Raise(h, size))
      /\ queued'     = [queued EXCEPT ![p] = @ + 1]
      /\ longest'    = IF longest > size THEN longest ELSE size
      /\ UNCHANGED <<headIndex, queueOverrun>>

\* heapify; the entry that has just sunk to an only child has none itself.
HeapifyBody(size) ==
  [s \in Arrays \X Indices |->
     LET h == s[1]  i == s[2]  l == 2 * i
         c == IF l + 1 > size \/ h[l] < h[l + 1] THEN l ELSE l + 1
     IN  IF l > size \/ h[c] >= h[i] THEN s ELSE <<Swapped(h, c, i), c>>]
Heapify(h, size, i) == Loop(HeapifyBody(size), <<h, i>>)

\* Mutant: the last parent of a heap that begins at 0.
LastParentFromZero(size) == Parent(size) - 1
LastParent(size)         == Parent(size)

\* build_heap
BuildBody(size) ==
  [s \in Arrays \X Indices |->
     IF s[2] = 0 THEN s ELSE <<Heapify(s[1], size, s[2]), s[2] - 1>>]
BuildHeap(h, size) == Loop(BuildBody(size), <<h, LastParent(size)>>)

\* The second branch of append_n, for requests p and q the last of which goes
\* to cell end.  It copies ArraySize * 2 bytes, not entries (which are of eight
\* bytes), to where p belongs, and then as many entries as end tells from what
\* lies ArraySize entries behind p to the start of the array.
AppendedWrong(q, end, junk) ==
  LET copied == (ArraySize * 2) \div 8
  IN  [j \in 0 .. ArraySize - 1 |->
         IF j < end \/ (end < j /\ j < end - 1 + copied) THEN junk[j]
         ELSE IF j = end /\ copied > 1 THEN q ELSE entryArray[j]]

\* insert_n of two requests, the last of which belongs to cell headIndex + size.
\* append_n takes it to fit when that is the array's size: q is then written
\* behind the array.
InsertTwo(p, q) ==
  LET size == queueSize + 2
      next == headIndex + size
      h    == [View(headIndex) EXCEPT ![size - 1] = p]
      one  == [queued EXCEPT ![p] = @ + 1]
  IN  /\ queueOverrun = "none" /\ size <= ArraySize
      /\ queueSize'  = size
      /\ queued'     = [one EXCEPT ![q] = @ + 1]
      /\ longest'    = IF longest > size THEN longest ELSE size
      /\ UNCHANGED headIndex
      /\ \/ /\ next < ArraySize
            /\ entryArray' = Written(headIndex, BuildHeap([h EXCEPT ![size] = q], size))
            /\ UNCHANGED queueOverrun
         \/ /\ next = ArraySize
            /\ entryArray' = Written(headIndex, BuildHeap(h, size))
            /\ queueOverrun' = "end"
         \/ /\ next > ArraySize
            /\ \E junk \in [0 .. ArraySize - 1 -> Junk] :
                 LET w == AppendedWrong(q, next - ArraySize, junk)
                     g == [i \in 1 .. ArraySize |-> w[At(headIndex, i)]]
                 IN  entryArray' = Written(headIndex, BuildHeap(g, size))
            /\ queueOverrun' = "wrap"
----------------------------------------------------------------------------
\* The inner loop of rebalance_after_pop: lets entry p sink along the left
\* children, from node on and no further than entry i.
SinkBody(i) ==
  [s \in Arrays \X Indices \X Indices |->
     LET h == s[1]  p == s[2]  node == s[3]
     IN  IF node > i \/ h[p] < h[node] THEN s
         ELSE <<Swapped(h, p, node), node, 2 * node>>]
SinkLeft(h, p, node, i) == Loop(SinkBody(i), <<h, p, node>>)

\* The middle loop: from leaf i up to the first right child.
ClimbBody(i) ==
  [s \in Arrays \X Indices |->
     LET h == s[1]  j == s[2]
     IN  IF j % 2 = 1 THEN s ELSE <<SinkLeft(h, Parent(j), j, i), Parent(j)>>]
ClimbLeft(h, i) == Loop(ClimbBody(i), <<h, i>>)

\* i = parent(queueSize); i |= 0x1; ++i
FirstLeftLeaf(size) ==
  LET i == Parent(size) IN IF i % 2 = 1 THEN i + 1 ELSE i + 2

RebalanceBody(size) ==
  [s \in Arrays \X Indices |->
     IF s[2] > size THEN s ELSE <<ClimbLeft(s[1], s[2]), s[2] + 2>>]
Rebalance(h, size) == Loop(RebalanceBody(size), <<h, FirstLeftLeaf(size)>>)

Pop ==
  LET head == At(headIndex, 1)
      size == queueSize - 1
  IN  /\ queueOverrun = "none" /\ queueSize > 0
      /\ headIndex'  = head
      /\ queueSize'  = size
      /\ entryArray' = Written(head, Rebalance(View(head), size))
      /\ queued'     = [queued EXCEPT ![Lookup(1)] = @ - 1]
      /\ longest'    = IF size = 0 THEN 0 ELSE longest
      /\ UNCHANGED queueOverrun

QueueNext ==
  \/ \E p \in Priorities : Insert(p)
  \/ \E p, q \in Priorities : InsertTwo(p, q)
  \/ Pop

QueueSpec == QueueInit /\ [][QueueNext]_queueVars
----------------------------------------------------------------------------
\* Sinking and climbing only swap entries.
EntriesKept ==
  \A p \in Priorities :
    queued[p] = Cardinality({i \in 1 .. queueSize : Lookup(i) = p})

(* is_valid_heap: no entry comes before its parent, in an array that       *)
(* append_n has not overrun.                                               *)
IsValidHeap ==
  queueOverrun = "none" => \A i \in 2 .. queueSize : Lookup(Parent(i)) <= Lookup(i)

(* Until append_n copies past the end of the array no request is lost or   *)
(* doubled, and a queue that has held at most five since it was empty is a *)
(* valid heap, so that pop returns the most urgent one.  A longer queue    *)
(* need not be, since an entry sinks along left children only.             *)
ShortQueueOrdered ==
  queueOverrun = "none" => EntriesKept /\ (longest <= 5 => IsValidHeap)

(* append_n's own picture (internal.hpp:948-983): requests that go on at   *)
(* the start of the array are all in the queue then.                       *)
WrapKept == queueOverrun = "wrap" => EntriesKept
=============================================================================
