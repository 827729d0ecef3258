---------------------------- MODULE BufferedLog ----------------------------
(***************************************************************************)
(* async_buffered_output_log (quartz/internal.hpp): one thread writes into *)
(* its current buffer and pushes it when it is full or at a newline; a     *)
(* printing thread pops the pushed buffers in order, prints them and gives *)
(* them back to a pool, a stack of buffers counted by a semaphore.  The    *)
(* queue is linked through `next` behind a dummy, the last buffer printed. *)
(* The text of a buffer is the number of its push.                         *)
(***************************************************************************)
EXTENDS Naturals, Sequences

CONSTANTS
  BufferCount,    \* totalBufferCount
  BufSize,
  MaxLogPushes       \* bound on the buffers pushed before the destructor's

ASSUME LogAssumption ==
  BufferCount \in Nat /\ BufferCount > 2 /\ BufSize \in Nat \ {0} /\ MaxLogPushes \in Nat

LogBuffer == 0 .. BufferCount - 1
NoBuf == BufferCount

VARIABLES
  bufNext,           \* buffer -> the next in its list
  bufText,           \* buffer -> the push that filled it
  poolTokens, bufferListHead,
  queuedBuffers, queueTail,
  currentBuffer,
  bufFill,           \* currentCursor - currentBuffer->data
  bufPending,        \* what is to be written once the buffer has been pushed
  bufPushes,         \* history: buffers pushed
  logWriter,         \* where the writing thread is
  poppedBuf,         \* the oldHead of its acquire_from_pool
  logPrinter,        \* where the printing thread is
  printBuf,            \* its buffer: the dummy of the queue
  freedBuf, poolHead,    \* release_to_pool's buf and currListHead
  isPostMortem, stopRequested,
  logPrinted         \* history: the texts printed

logVars == <<bufNext, bufText, poolTokens, bufferListHead, queuedBuffers, queueTail,
             currentBuffer, bufFill, bufPending, bufPushes, logWriter, poppedBuf, logPrinter, printBuf,
             freedBuf, poolHead, isPostMortem, stopRequested, logPrinted>>
poolVars == <<poolTokens, bufferListHead>>
writerVars == <<queueTail, currentBuffer, bufFill, bufPending, bufPushes, logWriter, poppedBuf,
                stopRequested, bufText>>
printerVars == <<logPrinter, printBuf, freedBuf, poolHead, isPostMortem, logPrinted>>

InitialTokens == BufferCount - 2

\* The constructor and initialize: buffer 0 is the dummy, 1 the current one.
LogInit ==
  /\ bufNext = [b \in LogBuffer |-> b + 1]
  /\ bufText = [b \in LogBuffer |-> 0]
  /\ poolTokens = InitialTokens /\ bufferListHead = 2
  /\ queuedBuffers = 0 /\ queueTail = 0
  /\ currentBuffer = 1 /\ bufFill = 0 /\ bufPending = 0 /\ bufPushes = 0
  /\ logWriter = "idle" /\ poppedBuf = NoBuf
  /\ logPrinter = "pop" /\ printBuf = 0 /\ freedBuf = NoBuf /\ poolHead = NoBuf
  /\ isPostMortem = FALSE /\ stopRequested = FALSE /\ logPrinted = <<>>
----------------------------------------------------------------------------
(* The writing thread.                                                     *)

\* push_to_queue begins: what comes after it is `then` characters.
PushToQueue(then) ==
  /\ bufPushes < MaxLogPushes
  /\ logWriter' = "acquire" /\ bufPending' = then
  /\ UNCHANGED <<bufFill, bufNext, bufText, poolVars, queuedBuffers, queueTail,
                 currentBuffer,
                 bufPushes, poppedBuf, stopRequested, printerVars>>

MoveCursor(n, where) ==
  /\ bufFill' = bufFill + n /\ logWriter' = where
  /\ UNCHANGED <<bufNext, bufText, poolVars, queuedBuffers, queueTail,
                 currentBuffer, bufPending,
                 bufPushes, poppedBuf, stopRequested, printerVars>>

\* write_bytes copies first and asserts that there was room afterwards.
WriteBytes(n) ==
  /\ logWriter = "idle"
  /\ MoveCursor(n, IF bufFill + n <= BufSize THEN "idle" ELSE "aborted")

\* write_number, write_hex_number: what does not fit goes to the next buffer.
WriteNumber(n) ==
  /\ logWriter = "idle"
  /\ IF bufFill + n <= BufSize THEN MoveCursor(n, "idle") ELSE PushToQueue(n)

\* newline, which keeps the buffer when less than a quarter of it is left;
\* written behind the end of a full buffer, the character is out of bounds.
LogNewline ==
  /\ logWriter = "idle"
  /\ \/ bufFill = BufSize /\ MoveCursor(1, "aborted")
     \/ bufFill < BufSize /\ BufSize - bufFill - 1 < BufSize \div 4 /\ MoveCursor(1, "idle")
     \/ bufFill < BufSize /\ BufSize - bufFill - 1 >= BufSize \div 4 /\ PushToQueue(0)

\* flush, and write_char of a newline
LogFlush == logWriter = "idle" /\ PushToQueue(0)

\* The destructor's push.
DestroyLog ==
  /\ logWriter = "idle"
  /\ logWriter' = "acquire" /\ bufPending' = BufSize + 1
  /\ UNCHANGED <<bufFill, bufNext, bufText, poolVars, queuedBuffers, queueTail,
                 currentBuffer,
                 bufPushes, poppedBuf, stopRequested, printerVars>>

\* acquire_from_pool: poolTokens.acquire()
AcquireToken ==
  /\ logWriter = "acquire" /\ poolTokens > 0
  /\ poolTokens' = poolTokens - 1 /\ logWriter' = "load"
  /\ UNCHANGED <<bufNext, bufText, bufferListHead, queuedBuffers, queueTail,
                 currentBuffer, bufFill,
                 bufPending, bufPushes, poppedBuf, stopRequested, printerVars>>

\* ... oldHead and oldHead->next; an empty list fails the assertion
LoadPoolHead ==
  /\ logWriter = "load"
  /\ poppedBuf' = bufferListHead
  /\ logWriter' = IF bufferListHead = NoBuf THEN "aborted" ELSE "cas"
  /\ UNCHANGED <<bufNext, bufText, poolVars, queuedBuffers, queueTail,
                 currentBuffer, bufFill,
                 bufPending, bufPushes, stopRequested, printerVars>>

PopHead ==
  /\ logWriter = "cas"
  /\ IF bufferListHead = poppedBuf
       THEN bufferListHead' = bufNext[poppedBuf] /\ logWriter' = "link" /\ UNCHANGED poppedBuf
       ELSE poppedBuf' = bufferListHead /\ UNCHANGED <<bufferListHead, logWriter>>
  /\ UNCHANGED <<bufNext, bufText, poolTokens, queuedBuffers, queueTail,
                 currentBuffer, bufFill,
                 bufPending, bufPushes, stopRequested, printerVars>>

\* The rest of push_to_queue up to the counter.
LinkBuffer ==
  /\ logWriter = "link"
  /\ bufText' = [bufText EXCEPT ![currentBuffer] = bufPushes + 1]
  /\ bufNext' = [bufNext EXCEPT ![queueTail] = currentBuffer]
  /\ queueTail' = currentBuffer /\ currentBuffer' = poppedBuf
  /\ bufPushes' = bufPushes + 1 /\ logWriter' = "count"
  /\ UNCHANGED <<poolVars, queuedBuffers, bufFill, bufPending, poppedBuf,
                 stopRequested, printerVars>>

\* queuedBuffers.increase(1); after the destructor's push, ~jthread's stop.
CountBuffer ==
  /\ logWriter = "count"
  /\ queuedBuffers' = queuedBuffers + 1
  /\ IF bufPending > BufSize THEN logWriter' = "stop" /\ bufFill' = 0
                             ELSE logWriter' = "idle" /\ bufFill' = bufPending
  /\ bufPending' = 0
  /\ UNCHANGED <<bufNext, bufText, poolVars, queueTail, currentBuffer, bufPushes,
                 poppedBuf,
                 stopRequested, printerVars>>

RequestStop ==
  /\ logWriter = "stop"
  /\ stopRequested' = TRUE /\ logWriter' = "join"
  /\ UNCHANGED <<bufNext, bufText, poolVars, queuedBuffers, queueTail,
                 currentBuffer, bufFill,
                 bufPending, bufPushes, poppedBuf, printerVars>>
----------------------------------------------------------------------------
(* The printing thread.                                                    *)

\* try_decrease_for(1, 100 ms) or, after the stop, try_decrease(1)
PopQueued ==
  /\ logPrinter = "pop" /\ queuedBuffers > 0
  /\ queuedBuffers' = queuedBuffers - 1
  /\ freedBuf' = printBuf /\ printBuf' = bufNext[printBuf] /\ logPrinter' = "release"
  /\ UNCHANGED <<bufNext, poolVars, writerVars, poolHead, isPostMortem, logPrinted>>

\* It timed out, and stop_requested is read after that ...
PopTimesOut ==
  /\ logPrinter = "pop" /\ queuedBuffers = 0 /\ ~isPostMortem
  /\ logPrinter' = "timeout"
  /\ UNCHANGED <<bufNext, poolVars, writerVars, queuedBuffers, printBuf, freedBuf,
                 poolHead, isPostMortem, logPrinted>>

\* Mutant of ReadStop: the thread ends without draining the queue.
ReadStopAndEnd ==
  /\ logPrinter = "timeout"
  /\ isPostMortem' = stopRequested
  /\ logPrinter' = IF stopRequested THEN "ended" ELSE "pop"
  /\ UNCHANGED <<bufNext, poolVars, writerVars, queuedBuffers, printBuf, freedBuf, poolHead,
                 logPrinted>>

ReadStop ==
  /\ logPrinter = "timeout"
  /\ isPostMortem' = stopRequested /\ logPrinter' = "pop"
  /\ UNCHANGED <<bufNext, poolVars, writerVars, queuedBuffers, printBuf, freedBuf,
                 poolHead, logPrinted>>

\* ... so that the queue is drained before the buffers are deleted.
EndThread ==
  /\ logPrinter = "pop" /\ queuedBuffers = 0 /\ isPostMortem
  /\ logPrinter' = "ended"
  /\ UNCHANGED <<bufNext, poolVars, writerVars, queuedBuffers, printBuf, freedBuf,
                 poolHead, isPostMortem, logPrinted>>

\* release_to_pool of the former dummy
LoadListHead ==
  /\ logPrinter = "release"
  /\ poolHead' = bufferListHead /\ bufNext' = [bufNext EXCEPT ![freedBuf] = bufferListHead]
  /\ logPrinter' = "push"
  /\ UNCHANGED <<poolVars, writerVars, queuedBuffers, printBuf, freedBuf,
                 isPostMortem, logPrinted>>

PushFreed ==
  /\ logPrinter = "push"
  /\ IF bufferListHead = poolHead
       THEN bufferListHead' = freedBuf /\ logPrinter' = "token" /\ UNCHANGED <<bufNext, poolHead>>
       ELSE poolHead' = bufferListHead /\ bufNext' = [bufNext EXCEPT ![freedBuf] = bufferListHead]
            /\ UNCHANGED <<bufferListHead, logPrinter>>
  /\ UNCHANGED <<poolTokens, writerVars, queuedBuffers, printBuf, freedBuf,
                 isPostMortem, logPrinted>>

ReleaseToken ==
  /\ logPrinter = "token"
  /\ poolTokens' = poolTokens + 1 /\ logPrinter' = "print"
  /\ UNCHANGED <<bufNext, bufferListHead, writerVars, queuedBuffers, printBuf,
                 freedBuf, poolHead,
                 isPostMortem, logPrinted>>

PrintBuffer ==
  /\ logPrinter = "print"
  /\ logPrinted' = Append(logPrinted, bufText[printBuf]) /\ logPrinter' = "pop"
  /\ UNCHANGED <<bufNext, poolVars, writerVars, queuedBuffers, printBuf, freedBuf,
                 poolHead, isPostMortem>>
----------------------------------------------------------------------------
LogNext ==
  \/ \E n \in 1 .. BufSize : WriteBytes(n) \/ WriteNumber(n)
  \/ LogNewline \/ LogFlush \/ DestroyLog
  \/ AcquireToken \/ LoadPoolHead \/ PopHead \/ LinkBuffer \/ CountBuffer \/ RequestStop
  \/ PopQueued \/ PopTimesOut \/ ReadStop \/ EndThread
  \/ LoadListHead \/ PushFreed \/ ReleaseToken \/ PrintBuffer

LogSpec == LogInit /\ [][LogNext]_logVars
----------------------------------------------------------------------------
(* Every pushed buffer is printed once, in the order of the pushes, with   *)
(* the text it was pushed with: none is handed back to the writer before   *)
(* it is printed, and the one the destructor pushes is not left behind.    *)
(* A token stands for a buffer in the list, as acquire_from_pool asserts.  *)
PrintedInOrder ==
  /\ logPrinted = [i \in 1 .. Len(logPrinted) |-> i]
  /\ logPrinter = "ended" => Len(logPrinted) = bufPushes
  /\ logWriter = "load" => bufferListHead # NoBuf
=============================================================================
