--------------------------- MODULE BigBufferedLog ---------------------------
(***************************************************************************)
(* big_buffered_log (quartz/internal.hpp), the log the library uses: a     *)
(* ring mapped twice in a row, so that the writer may run past its end;    *)
(* the writer stores how far it may be printed, the printing thread waits  *)
(* for that to change.  The writer never waits for the printer.            *)
(* A character is the number of characters written before it.              *)
(***************************************************************************)
EXTENDS Integers

CONSTANTS
  RingSize,       \* bufferSize
  MaxChars,       \* bound on the characters written
  WriteLengths    \* the lengths of what is written at once

ASSUME RingAssumption ==
  RingSize \in Nat \ {0} /\ MaxChars \in Nat /\ WriteLengths \subseteq 1 .. RingSize

NullEnd == 2 * RingSize + 1

VARIABLES
  ring,             \* place -> the character there; 0 for none, or one got past
  charsTotal,       \* history: the characters written
  charsWritten,
  cursor,
  printBufferEnd,
  printCursor,
  closing,          \* where the writer is: "open", "flushed", "cleared", "aborted"
  threadStop,       \* stop_requested of asyncThread
  printerAt,        \* where the printing thread is
  localEnd,         \* its printBufEnd
  shouldStop,
  misprinted,       \* history: a character was printed out of turn
  printedTo,        \* history: characters the printing thread has got past
  newlineChars,     \* history: the newlines not yet got past
  lapped            \* history: the printing thread was left behind (LeftBehind)

ringVars == <<ring, charsTotal, charsWritten, cursor, printBufferEnd, printCursor, closing,
              threadStop, printerAt, localEnd, shouldStop, misprinted, printedTo,
              newlineChars, lapped>>
ringPrinterVars == <<printCursor, printerAt, localEnd, shouldStop, misprinted, printedTo>>
ringWriterVars == <<ring, charsTotal, charsWritten, cursor, printBufferEnd, closing,
                    threadStop, newlineChars, lapped>>

\* localPrintCursor is printCursor: the thread is the only one that sets it.
RingInit ==
  /\ ring = [i \in 0 .. RingSize - 1 |-> 0]
  /\ charsTotal = 0 /\ charsWritten = 0
  /\ cursor = 0 /\ printBufferEnd = 0 /\ printCursor = 0
  /\ closing = "open" /\ threadStop = FALSE
  /\ printerAt = "wait" /\ localEnd = 0 /\ shouldStop = FALSE
  /\ misprinted = FALSE /\ printedTo = 0 /\ newlineChars = {} /\ lapped = FALSE
----------------------------------------------------------------------------
\* raw_write_string or raw_write_char of n characters, in both mappings: past
\* the second one there is no memory, and the process ends.
\* Bounds: the characters counted; nothing is written once lapped holds.
RawWrite(n) ==
  /\ charsTotal + n <= MaxChars /\ ~lapped
  /\ cursor + n <= 2 * RingSize
  /\ charsTotal' = charsTotal + n
  /\ ring' = [i \in DOMAIN ring |->
       LET k == CHOOSE k \in 0 .. RingSize - 1 : (cursor + k) % RingSize = i
       IN  IF k < n THEN charsTotal + k + 1 ELSE IF ring[i] > printedTo THEN ring[i] ELSE 0]

\* What waits for the printing thread once n characters more are written
Waiting(n) == charsTotal + n - printedTo

\* An end is stored behind that many characters not printed: they fill the
\* ring, or reach back over its start, or end where both mappings do.
LeftBehind(end, waiting) ==
  waiting >= RingSize \/ waiting > end \/ end = 2 * RingSize

FlushLimit == RingSize \div 4
\* Mutant of Wrapped: back to the start of the ring.
WrappedToStart(c) == IF c >= RingSize THEN 0 ELSE c
Wrapped(c) == IF c >= RingSize THEN c - RingSize ELSE c

\* flush, with the n characters written just before it
FlushAfter(n) ==
  /\ RawWrite(n + 1)
  /\ newlineChars' = {c \in newlineChars : c > printedTo} \union {charsTotal + n + 1}
  /\ charsWritten' = 0
  /\ printBufferEnd' = cursor + n + 1
  /\ lapped' = LeftBehind(cursor + n + 1, Waiting(n + 1))

\* write of a string, and normalize
WriteString(n) ==
  /\ closing = "open"
  /\ IF charsWritten + n >= FlushLimit
       THEN FlushAfter(n) /\ cursor' = Wrapped(cursor + n + 1)
       ELSE /\ RawWrite(n) /\ charsWritten' = charsWritten + n
            /\ cursor' = Wrapped(cursor + n)
            /\ lapped' = (Waiting(n) >= RingSize)
            /\ UNCHANGED <<newlineChars, printBufferEnd>>
  /\ UNCHANGED <<closing, threadStop, ringPrinterVars>>

\* raw_write_integer, which alone looks at where the printer is, fails an
\* assertion when the number does not fit below.
IntegerRoom == (IF printCursor <= cursor THEN printCursor + RingSize ELSE printCursor) - cursor

WriteInteger(n) ==
  \/ n <= IntegerRoom /\ WriteString(n)
  \/ /\ closing = "open" /\ n > IntegerRoom /\ closing' = "aborted"
     /\ UNCHANGED <<ring, charsTotal, charsWritten, cursor, printBufferEnd, threadStop,
                    newlineChars, lapped, ringPrinterVars>>

\* flush and newline called directly leave the cursor where it is, which may
\* be behind the first mapping.
RingNewline ==
  /\ closing = "open"
  /\ FlushAfter(0) /\ cursor' = cursor + 1
  /\ UNCHANGED <<closing, threadStop, ringPrinterVars>>

\* Mutant of CloseLog: with nothing to flush, printBufferEnd is not stored.
CloseLogSilently ==
  /\ closing = "open"
  /\ \/ /\ charsWritten > 0 /\ FlushAfter(0)
        /\ cursor' = cursor + 1 /\ closing' = "flushed"
     \/ /\ charsWritten = 0 /\ closing' = "cleared"
        /\ UNCHANGED <<ring, charsTotal, charsWritten, cursor, printBufferEnd, newlineChars,
                       lapped>>
  /\ UNCHANGED <<threadStop, ringPrinterVars>>

\* ~big_buffered_log
CloseLog ==
  /\ closing = "open"
  /\ \/ /\ charsWritten > 0 /\ FlushAfter(0)
        /\ cursor' = cursor + 1 /\ closing' = "flushed"
     \/ /\ charsWritten = 0
        /\ printBufferEnd' = NullEnd /\ closing' = "cleared"
        /\ UNCHANGED <<ring, charsTotal, charsWritten, cursor, newlineChars, lapped>>
  /\ UNCHANGED <<threadStop, ringPrinterVars>>

\* ~jthread, which notifies no one of it: then it joins.
StopThread ==
  /\ closing \in {"flushed", "cleared"} /\ threadStop' = TRUE
  /\ UNCHANGED <<ring, charsTotal, charsWritten, cursor, printBufferEnd, closing,
                 newlineChars, lapped, ringPrinterVars>>
----------------------------------------------------------------------------
(* thread_proc                                                             *)

\* printBufferEnd.wait and the load behind it
AwaitEnd ==
  /\ printerAt = "wait" /\ printBufferEnd # printCursor
  /\ localEnd' = printBufferEnd /\ printerAt' = "stop"
  /\ UNCHANGED <<printCursor, shouldStop, misprinted, printedTo, ringWriterVars>>

ReadStopRequest ==
  /\ printerAt = "stop"
  /\ shouldStop' = threadStop
  /\ printerAt' = IF localEnd # NullEnd THEN "print" ELSE IF threadStop THEN "ended" ELSE "wait"
  /\ UNCHANGED <<printCursor, localEnd, misprinted, printedTo, ringWriterVars>>

\* WriteFile takes all characters or, here, half of them; the last one before
\* the end, a newline, is never printed, only got past.  The cursor is moved
\* back by a ring whenever it is behind the end, so that it may come to be in
\* front of the buffer or of the end: then WriteFile fails.
PrintTo ==
  LET from   == IF localEnd < printCursor THEN printCursor - RingSize ELSE printCursor
      total  == localEnd - from
      At(i)  == ring[(from + i - 1) % RingSize]
      got(k) == IF k + 1 = total THEN total ELSE k
      wrong(k) == \/ \E i \in 1 .. k : At(i) # printedTo + i
                  \/ k + 1 = total /\ printedTo + total \notin newlineChars
  IN  /\ printerAt = "print"
      /\ \/ total = 0 /\ printCursor' = from /\ UNCHANGED <<misprinted, printedTo>>
         \/ /\ from < 0 \/ total < 0
            /\ misprinted' = TRUE /\ printCursor' = from /\ UNCHANGED printedTo
         \/ \E k \in {total \div 2, total - 1} :
              /\ from >= 0 /\ total > 0
              /\ misprinted' = (misprinted \/ wrong(k))
              /\ printCursor' = from + got(k)
              /\ printedTo' = printedTo + got(k)
      /\ printerAt' = IF shouldStop THEN "ended" ELSE "wait"
      /\ UNCHANGED <<localEnd, shouldStop, ringWriterVars>>

RingNext ==
  \/ \E n \in WriteLengths : WriteString(n) \/ WriteInteger(n)
  \/ RingNewline \/ CloseLog \/ StopThread
  \/ AwaitEnd \/ ReadStopRequest \/ PrintTo

RingSpec == RingInit /\ [][RingNext]_ringVars
----------------------------------------------------------------------------
(* As long as the printing thread was not left behind, what it printed is  *)
(* what was written, in that order and without gaps but newlines: the      *)
(* wraps of the writer's cursor, which it is not told of, and of its own   *)
(* stay in step.                                                           *)
PrintedAsWritten == misprinted => lapped

(* A thread that sleeps after the stop was requested was left so by a      *)
(* destructor that flushed: storing nullptr instead keeps it awake until   *)
(* it sees the request.                                                    *)
ClearedLogStops ==
  threadStop /\ printerAt = "wait" /\ printBufferEnd = printCursor => closing = "flushed"
=============================================================================
