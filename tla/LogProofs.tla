----------------------------- MODULE LogProofs -----------------------------
(***************************************************************************)
(* Theorems about the two logs of Quartz, for any number and size of       *)
(* buffers: BufferedLog and BigBufferedLog.                                *)
(***************************************************************************)
EXTENDS BufferedLog, BigBufferedLog, TLAPS

----------------------------------------------------------------------------
(* BufferedLog.                                                            *)

LogTypeOK ==
  /\ bufNext \in [LogBuffer -> LogBuffer \cup {NoBuf}]
  /\ bufText \in [LogBuffer -> Nat]
  /\ poolTokens \in Nat /\ queuedBuffers \in Nat /\ bufPushes \in Nat
  /\ queueTail \in LogBuffer /\ currentBuffer \in LogBuffer /\ printBuf \in LogBuffer
  /\ poppedBuf \in LogBuffer \cup {NoBuf} /\ freedBuf \in LogBuffer \cup {NoBuf}
  /\ bufferListHead \in LogBuffer \cup {NoBuf} /\ poolHead \in LogBuffer \cup {NoBuf}
  /\ logWriter \in {"idle", "acquire", "load", "cas", "link", "count", "stop", "join",
                    "aborted"}
  /\ logPrinter \in {"pop", "timeout", "release", "push", "token", "print", "ended"}
  /\ isPostMortem \in BOOLEAN /\ stopRequested \in BOOLEAN
  /\ logPrinted \in Seq(Nat)

\* The printing thread has taken a buffer from the queue and not printed it.
Unprinted == logPrinter \in {"release", "push", "token", "print"}
\* It holds the buffer printed before; the writer holds one from the pool.
Freeing   == logPrinter \in {"release", "push"}
Popping   == logWriter = "link"

Placed(pool, queue) ==
  {pool[i] : i \in 1 .. Len(pool)} \cup {queue[i] : i \in 1 .. Len(queue)}

(* The pool is a list from bufferListHead, as long as its tokens say.      *)
PoolListed(pool) ==
  /\ pool \in Seq(LogBuffer)
  /\ bufferListHead = IF Len(pool) = 0 THEN NoBuf ELSE pool[1]
  /\ \A i \in 1 .. Len(pool) :
       bufNext[pool[i]] = IF i = Len(pool) THEN NoBuf ELSE pool[i + 1]
  /\ Len(pool) = poolTokens + (IF logWriter \in {"load", "cas"} THEN 1 ELSE 0)
                            + (IF logPrinter = "token" THEN 1 ELSE 0)
  /\ logPrinter = "push" => bufNext[freedBuf] = poolHead

(* The queue is a list from the dummy to queueTail; its texts are those of *)
(* the last pushes.                                                        *)
QueueListed(queue) ==
  /\ queue \in Seq(LogBuffer) /\ Len(queue) >= 1
  /\ queue[1] = printBuf /\ queue[Len(queue)] = queueTail
  /\ \A i \in 1 .. Len(queue) : i # Len(queue) => bufNext[queue[i]] = queue[i + 1]
  /\ \A i \in 1 .. Len(queue) : bufText[queue[i]] = bufPushes - Len(queue) + i
  /\ Len(queue) = queuedBuffers + 1 + (IF logWriter = "count" THEN 1 ELSE 0)
  /\ Len(logPrinted) = bufPushes - Len(queue) + (IF Unprinted THEN 0 ELSE 1)

(* No buffer is in two places.                                             *)
Apart(pool, queue) ==
  /\ \A i, j \in 1 .. Len(pool) : pool[i] = pool[j] => i = j
  /\ \A i, j \in 1 .. Len(queue) : queue[i] = queue[j] => i = j
  /\ \A i \in 1 .. Len(pool), j \in 1 .. Len(queue) : pool[i] # queue[j]
  /\ currentBuffer \notin Placed(pool, queue)
  /\ Popping => /\ poppedBuf \in LogBuffer
                /\ poppedBuf \notin Placed(pool, queue) \cup {currentBuffer}
  /\ Freeing => /\ freedBuf \in LogBuffer
                /\ freedBuf \notin Placed(pool, queue) \cup {currentBuffer}
  /\ Popping /\ Freeing => poppedBuf # freedBuf

LogEnds ==
  /\ isPostMortem => stopRequested
  /\ stopRequested => logWriter = "join"
  /\ logPrinter = "ended" => isPostMortem /\ queuedBuffers = 0

Listed == \E pool, queue \in Seq(LogBuffer) :
            PoolListed(pool) /\ QueueListed(queue) /\ Apart(pool, queue)

LogInv ==
  /\ LogTypeOK /\ LogEnds /\ Listed
  /\ logPrinted = [i \in 1 .. Len(logPrinted) |-> i]
----------------------------------------------------------------------------
(* Steps that leave the lists as they are.                                 *)
Lists(pool, queue) == PoolListed(pool) /\ QueueListed(queue) /\ Apart(pool, queue)

LEMMA Lengths ==
  ASSUME NEW pool, NEW queue, Lists(pool, queue), LogTypeOK
  PROVE  /\ pool \in Seq(LogBuffer) /\ Len(pool) \in Nat
         /\ queue \in Seq(LogBuffer) /\ Len(queue) \in Nat /\ Len(queue) >= 1
         /\ NoBuf \notin LogBuffer /\ Len(logPrinted) \in Nat
         /\ poolTokens \in Nat /\ queuedBuffers \in Nat /\ bufPushes \in Nat
         /\ \A i \in 1 .. Len(pool) : pool[i] \in LogBuffer
         /\ \A i \in 1 .. Len(queue) : queue[i] \in LogBuffer /\ bufText[queue[i]] \in Nat
  <1>1. pool \in Seq(LogBuffer) /\ queue \in Seq(LogBuffer) /\ Len(queue) >= 1
    BY DEF Lists, PoolListed, QueueListed
  <1>2. /\ poolTokens \in Nat /\ queuedBuffers \in Nat /\ bufPushes \in Nat
        /\ logPrinted \in Seq(Nat) /\ bufText \in [LogBuffer -> Nat]
    BY DEF LogTypeOK
  <1>3. NoBuf \notin LogBuffer
    BY LogAssumption DEF LogBuffer, NoBuf
  <1>4. /\ \A i \in 1 .. Len(pool) : pool[i] \in LogBuffer
        /\ \A i \in 1 .. Len(queue) : queue[i] \in LogBuffer
    BY <1>1
  <1> QED
    BY <1>1, <1>2, <1>3, <1>4

\* The lists do not change, and the counters follow the threads' labels.
LEMMA SameLists ==
  ASSUME NEW pool, NEW queue, Lists(pool, queue), LogTypeOK, LogTypeOK',
         UNCHANGED <<bufNext, bufText, bufferListHead, queueTail, currentBuffer,
                     printBuf, bufPushes>>,
         poolTokens' + (IF logWriter' \in {"load", "cas"} THEN 1 ELSE 0)
                     + (IF logPrinter' = "token" THEN 1 ELSE 0)
           = poolTokens + (IF logWriter \in {"load", "cas"} THEN 1 ELSE 0)
                        + (IF logPrinter = "token" THEN 1 ELSE 0),
         queuedBuffers' + (IF logWriter' = "count" THEN 1 ELSE 0)
           = queuedBuffers + (IF logWriter = "count" THEN 1 ELSE 0),
         Len(logPrinted') = Len(logPrinted) - (IF Unprinted THEN 0 ELSE 1)
                                            + (IF Unprinted' THEN 0 ELSE 1),
         logPrinter' = "push" => logPrinter = "push" /\ UNCHANGED <<freedBuf, poolHead>>,
         Freeing' => Freeing /\ UNCHANGED freedBuf,
         Popping' => Popping /\ UNCHANGED poppedBuf
  PROVE  Lists(pool, queue)'
  <1>1. PoolListed(pool)'
    <2>1. Len(pool) = poolTokens' + (IF logWriter' \in {"load", "cas"} THEN 1 ELSE 0)
                                  + (IF logPrinter' = "token" THEN 1 ELSE 0)
      BY DEF Lists, PoolListed
    <2> QED
      BY <2>1 DEF Lists, PoolListed
  <1>2. QueueListed(queue)'
    <2>1. Len(queue) = queuedBuffers' + 1 + (IF logWriter' = "count" THEN 1 ELSE 0)
      <3>1. queuedBuffers \in Nat /\ queuedBuffers' \in Nat /\ Len(queue) \in Nat
        BY Lengths DEF LogTypeOK
      <3>2. Len(queue) = queuedBuffers + 1 + (IF logWriter = "count" THEN 1 ELSE 0)
        BY DEF Lists, QueueListed
      <3> DEFINE n == queuedBuffers
                 m == queuedBuffers'
                 c == IF logWriter = "count" THEN 1 ELSE 0
                 d == IF logWriter' = "count" THEN 1 ELSE 0
      <3>3. n \in Nat /\ m \in Nat /\ c \in Nat /\ d \in Nat
        BY <3>1
      <3>4. m + d = n + c
        OBVIOUS
      <3>5. Len(queue) = n + 1 + c
        BY <3>2
      <3> HIDE DEF c, d, m, n
      <3>6. Len(queue) = m + 1 + d
        BY <3>3, <3>4, <3>5
      <3> QED
        BY <3>6 DEF d, m
    <2>2. Len(logPrinted') = bufPushes - Len(queue) + (IF Unprinted' THEN 0 ELSE 1)
      <3>1. Len(queue) \in Nat /\ bufPushes \in Nat
        BY Lengths
      <3>2. Len(logPrinted) = bufPushes - Len(queue) + (IF Unprinted THEN 0 ELSE 1)
        BY DEF Lists, QueueListed
      <3> QED
        BY <3>1, <3>2
    <2> QED
      BY <2>1, <2>2 DEF Lists, QueueListed
  <1>3. Apart(pool, queue)'
    BY DEF Lists, Apart, Placed
  <1> QED
    BY <1>1, <1>2, <1>3 DEF Lists

LEMMA StillListed ==
  ASSUME NEW pool, NEW queue, Lists(pool, queue)'
  PROVE  Listed'
  BY DEF Lists, Listed, PoolListed, QueueListed
----------------------------------------------------------------------------
LEMMA WriterQuiet ==
  ASSUME LogInv,
         \/ \E n \in 1 .. BufSize : WriteBytes(n) \/ WriteNumber(n)
         \/ LogNewline \/ LogFlush \/ DestroyLog \/ RequestStop
  PROVE  LogInv'
  <1>1. /\ UNCHANGED <<bufNext, bufText, poolVars, queuedBuffers, queueTail, currentBuffer,
                       bufPushes, poppedBuf, printerVars>>
        /\ \/ logWriter = "idle" /\ logWriter' \in {"idle", "acquire", "aborted"}
              /\ UNCHANGED stopRequested
           \/ logWriter = "stop" /\ logWriter' = "join" /\ stopRequested' = TRUE
    BY DEF WriteBytes, WriteNumber, LogNewline, LogFlush, DestroyLog, RequestStop, MoveCursor,
           PushToQueue
  <1>2. LogTypeOK'
    BY <1>1, ZenonT(60) DEF LogInv, LogTypeOK, poolVars, printerVars
  <1>3. LogEnds'
    BY <1>1 DEF LogInv, LogEnds, printerVars
  <1>4. Listed'
    <2>1. PICK pool, queue : Lists(pool, queue)
      BY DEF LogInv, Listed, Lists
    <2>2. Lists(pool, queue)'
      BY <1>1, <1>2, <2>1, SameLists
         DEF LogInv, poolVars, printerVars, Unprinted, Freeing, Popping
    <2> QED
      BY <2>2, StillListed
  <1> QED
    BY <1>1, <1>2, <1>3, <1>4 DEF LogInv, printerVars

LEMMA AcquireTokenKeeps ==
  ASSUME LogInv, AcquireToken
  PROVE  LogInv'
  <1>1. /\ UNCHANGED <<bufNext, bufText, bufferListHead, queuedBuffers, queueTail,
                       currentBuffer, bufPushes, poppedBuf, stopRequested, printerVars>>
        /\ logWriter = "acquire" /\ logWriter' = "load"
        /\ poolTokens > 0 /\ poolTokens' = poolTokens - 1
    BY DEF AcquireToken
  <1>2. LogTypeOK'
    BY <1>1 DEF LogInv, LogTypeOK, printerVars
  <1>3. LogEnds'
    BY <1>1 DEF LogInv, LogEnds, printerVars
  <1>4. Listed'
    <2>1. PICK pool, queue : Lists(pool, queue)
      BY DEF LogInv, Listed, Lists
    <2>2. poolTokens' + (IF logWriter' \in {"load", "cas"} THEN 1 ELSE 0)
            = poolTokens + (IF logWriter \in {"load", "cas"} THEN 1 ELSE 0)
      <3>1. poolTokens \in Nat
        BY DEF LogInv, LogTypeOK
      <3> QED
        BY <1>1, <3>1
    <2>3. Lists(pool, queue)'
      BY <1>1, <1>2, <2>1, <2>2, SameLists
         DEF LogInv, printerVars, Unprinted, Freeing, Popping
    <2> QED
      BY <2>3, StillListed
  <1> QED
    BY <1>1, <1>2, <1>3, <1>4 DEF LogInv, printerVars

LEMMA LoadPoolHeadKeeps ==
  ASSUME LogInv, LoadPoolHead
  PROVE  LogInv'
  <1>1. /\ UNCHANGED <<bufNext, bufText, poolVars, queuedBuffers, queueTail,
                       currentBuffer, bufPushes, stopRequested, printerVars>>
        /\ logWriter = "load" /\ poppedBuf' = bufferListHead
        /\ logWriter' = IF bufferListHead = NoBuf THEN "aborted" ELSE "cas"
    BY DEF LoadPoolHead
  <1>2. PICK pool, queue : Lists(pool, queue)
    BY DEF LogInv, Listed, Lists
  <1>3. bufferListHead # NoBuf
    <2>1. Len(pool) >= 1
      BY <1>1, <1>2, Lengths DEF LogInv, Lists, PoolListed
    <2> QED
      BY <1>2, <2>1, Lengths DEF LogInv, Lists, PoolListed
  <1>4. LogTypeOK'
    BY <1>1, <1>3 DEF LogInv, LogTypeOK, printerVars, poolVars
  <1>5. LogEnds'
    BY <1>1 DEF LogInv, LogEnds, printerVars
  <1>6. Lists(pool, queue)'
    BY <1>1, <1>2, <1>3, <1>4, SameLists
       DEF LogInv, printerVars, poolVars, Unprinted, Freeing, Popping
  <1> QED
    BY <1>1, <1>4, <1>5, <1>6, StillListed DEF LogInv, printerVars

\* The pool loses its first buffer to the writer.
LEMMA PopHeadKeeps ==
  ASSUME LogInv, PopHead
  PROVE  LogInv'
  <1>1. /\ UNCHANGED <<bufNext, bufText, poolTokens, queuedBuffers, queueTail,
                       currentBuffer, bufPushes, stopRequested, printerVars>>
        /\ logWriter = "cas"
    BY DEF PopHead
  <1>2. PICK pool, queue : Lists(pool, queue)
    BY DEF LogInv, Listed, Lists
  <1>3. CASE bufferListHead # poppedBuf
    <2>1. poppedBuf' = bufferListHead /\ UNCHANGED <<bufferListHead, logWriter>>
      BY <1>3 DEF PopHead
    <2>2. LogTypeOK'
      BY <1>1, <2>1 DEF LogInv, LogTypeOK, printerVars
    <2>3. LogEnds'
      BY <1>1, <2>1 DEF LogInv, LogEnds, printerVars
    <2>4. Lists(pool, queue)'
      BY <1>1, <1>2, <2>1, <2>2, SameLists
         DEF LogInv, printerVars, Unprinted, Freeing, Popping
    <2> QED
      BY <1>1, <2>2, <2>3, <2>4, StillListed DEF LogInv, printerVars
  <1>4. CASE bufferListHead = poppedBuf
    <2>1. bufferListHead' = bufNext[poppedBuf] /\ logWriter' = "link" /\ UNCHANGED poppedBuf
      BY <1>4 DEF PopHead
    <2>2. /\ pool \in Seq(LogBuffer) /\ Len(pool) \in Nat
          /\ Len(pool) = poolTokens + 1 + (IF logPrinter = "token" THEN 1 ELSE 0)
          /\ bufferListHead = IF Len(pool) = 0 THEN NoBuf ELSE pool[1]
          /\ \A i \in 1 .. Len(pool) :
               bufNext[pool[i]] = IF i = Len(pool) THEN NoBuf ELSE pool[i + 1]
          /\ poolTokens \in Nat
      BY <1>1, <1>2, Lengths DEF LogInv, Lists, PoolListed
    <2>3. Len(pool) >= 1 /\ poppedBuf = pool[1] /\ pool[1] \in LogBuffer
      BY <1>4, <2>2
    <2>4. PICK rest : rest = Tail(pool)
      OBVIOUS
    <2>5. /\ rest \in Seq(LogBuffer) /\ Len(rest) = Len(pool) - 1
          /\ \A i \in 1 .. Len(rest) : rest[i] = pool[i + 1] /\ i + 1 \in 1 .. Len(pool)
      BY <2>2, <2>3, <2>4
    <2>6. PoolListed(rest)'
      <3>1. bufferListHead' = IF Len(rest) = 0 THEN NoBuf ELSE rest[1]
        BY <2>1, <2>2, <2>3, <2>5
      <3>2. \A i \in 1 .. Len(rest) :
              bufNext[rest[i]] = IF i = Len(rest) THEN NoBuf ELSE rest[i + 1]
        BY <2>2, <2>3, <2>5
      <3>3. Len(rest) = poolTokens + 0 + (IF logPrinter = "token" THEN 1 ELSE 0)
        BY <2>2, <2>5
      <3>4. logPrinter = "push" => bufNext[freedBuf] = poolHead
        BY <1>2 DEF Lists, PoolListed
      <3> QED
        BY <1>1, <2>1, <2>5, <3>1, <3>2, <3>3, <3>4 DEF PoolListed, printerVars
    <2>7. QueueListed(queue)'
      BY <1>1, <1>2, <2>1 DEF Lists, QueueListed, printerVars, Unprinted
    <2>8. \A i \in 1 .. Len(rest) : rest[i] # poppedBuf
      <3>1. \A i, j \in 1 .. Len(pool) : pool[i] = pool[j] => i = j
        BY <1>2 DEF Lists, Apart
      <3>2. 1 \in 1 .. Len(pool)
        BY <2>2, <2>3
      <3> QED
        BY <2>2, <2>3, <2>5, <3>1, <3>2
    <2>9. Apart(rest, queue)'
      <3>1. Apart(pool, queue)
        BY <1>2 DEF Lists
      <3>2. Placed(rest, queue) \subseteq Placed(pool, queue)
        BY <2>5 DEF Placed
      <3>3. poppedBuf \in Placed(pool, queue)
        BY <2>2, <2>3 DEF Placed
      <3>4. poppedBuf \notin Placed(rest, queue)
        <4>1. 1 \in 1 .. Len(pool)
          BY <2>2, <2>3
        <4>2. \A j \in 1 .. Len(queue) : poppedBuf # queue[j]
          BY <2>3, <3>1, <4>1 DEF Apart
        <4> QED
          BY <2>8, <4>2 DEF Placed
      <3>5. Placed(rest, queue)' = Placed(rest, queue)
        BY DEF Placed
      <3>6. \A i, j \in 1 .. Len(rest) : rest[i] = rest[j] => i = j
        <4> SUFFICES ASSUME NEW i \in 1 .. Len(rest), NEW j \in 1 .. Len(rest),
                            rest[i] = rest[j]
                     PROVE  i = j
          OBVIOUS
        <4>1. i + 1 = j + 1
          BY <2>5, <3>1 DEF Apart
        <4> QED
          BY <4>1
      <3>7. \A i \in 1 .. Len(rest), j \in 1 .. Len(queue) : rest[i] # queue[j]
        BY <2>5, <3>1 DEF Apart
      <3> QED
        BY <1>1, <2>1, <2>3, <3>1, <3>2, <3>3, <3>4, <3>5, <3>6, <3>7
           DEF Apart, Popping, Freeing, printerVars
    <2>10. LogTypeOK'
      BY <1>1, <2>1, <2>3 DEF LogInv, LogTypeOK, printerVars
    <2>11. LogEnds'
      BY <1>1, <2>1 DEF LogInv, LogEnds, printerVars
    <2> QED
      BY <1>1, <2>6, <2>7, <2>9, <2>10, <2>11, StillListed DEF LogInv, Lists, printerVars
  <1> QED
    BY <1>3, <1>4

\* The current buffer joins the queue and the popped one takes its place.
LEMMA LinkBufferKeeps ==
  ASSUME LogInv, LinkBuffer
  PROVE  LogInv'
  <1>1. /\ UNCHANGED <<poolVars, queuedBuffers, poppedBuf, stopRequested, printerVars>>
        /\ logWriter = "link" /\ logWriter' = "count"
        /\ bufText' = [bufText EXCEPT ![currentBuffer] = bufPushes + 1]
        /\ bufNext' = [bufNext EXCEPT ![queueTail] = currentBuffer]
        /\ queueTail' = currentBuffer /\ currentBuffer' = poppedBuf
        /\ bufPushes' = bufPushes + 1
    BY DEF LinkBuffer
  <1>2. PICK pool, queue : Lists(pool, queue)
    BY DEF LogInv, Listed, Lists
  <1>3. /\ Apart(pool, queue) /\ PoolListed(pool) /\ QueueListed(queue)
        /\ poppedBuf \in LogBuffer /\ currentBuffer \in LogBuffer
        /\ poppedBuf \notin Placed(pool, queue) \cup {currentBuffer}
        /\ currentBuffer \notin Placed(pool, queue)
    BY <1>1, <1>2 DEF Lists, Apart, Popping, LogInv, LogTypeOK
  <1>4. LogTypeOK'
    BY <1>1, <1>3 DEF LogInv, LogTypeOK, printerVars, poolVars
  <1>5. LogEnds'
    BY <1>1 DEF LogInv, LogEnds, printerVars
  <1>6. /\ pool \in Seq(LogBuffer) /\ queue \in Seq(LogBuffer) /\ Len(queue) \in Nat
        /\ Len(queue) >= 1 /\ Len(pool) \in Nat
        /\ bufPushes \in Nat /\ queuedBuffers \in Nat
        /\ \A i \in 1 .. Len(pool) : pool[i] \in LogBuffer
        /\ \A i \in 1 .. Len(queue) : queue[i] \in LogBuffer /\ bufText[queue[i]] \in Nat
        /\ queueTail \in LogBuffer
    BY <1>2, Lengths DEF LogInv, LogTypeOK
  <1>7. PICK longer : longer = Append(queue, currentBuffer)
    OBVIOUS
  <1>8. /\ longer \in Seq(LogBuffer) /\ Len(longer) = Len(queue) + 1
        /\ \A i \in 1 .. Len(queue) : longer[i] = queue[i]
        /\ longer[Len(queue) + 1] = currentBuffer
    BY <1>3, <1>6, <1>7
  <1>9. /\ \A i \in 1 .. Len(pool) : pool[i] # queueTail /\ pool[i] # currentBuffer
        /\ \A i \in 1 .. Len(queue) : /\ queue[i] # currentBuffer
                                      /\ queue[i] = queueTail => i = Len(queue)
    <2>1. \A i \in 1 .. Len(pool), j \in 1 .. Len(queue) : pool[i] # queue[j]
      BY <1>3 DEF Apart
    <2>2. \A i, j \in 1 .. Len(queue) : queue[i] = queue[j] => i = j
      BY <1>3 DEF Apart
    <2>3. queueTail = queue[Len(queue)] /\ Len(queue) \in 1 .. Len(queue)
      BY <1>3, <1>6 DEF QueueListed
    <2>4. /\ \A i \in 1 .. Len(pool) : pool[i] # currentBuffer
          /\ \A i \in 1 .. Len(queue) : queue[i] # currentBuffer
      BY <1>3 DEF Placed
    <2> QED
      BY <2>1, <2>2, <2>3, <2>4
  <1>10. /\ bufNext \in [LogBuffer -> LogBuffer \cup {NoBuf}]
         /\ bufText \in [LogBuffer -> Nat]
    BY DEF LogInv, LogTypeOK
  <1>11. PoolListed(pool)'
    <2>1. \A i \in 1 .. Len(pool) : bufNext'[pool[i]] = bufNext[pool[i]]
      BY <1>1, <1>6, <1>9, <1>10
    <2>2. logPrinter = "push" => bufNext'[freedBuf] = bufNext[freedBuf]
      <3>1. logPrinter = "push" => freedBuf \in LogBuffer /\ freedBuf # queueTail
        <4>1. queueTail \in Placed(pool, queue)
          BY <1>3, <1>6 DEF QueueListed, Placed
        <4> QED
          BY <1>3, <4>1 DEF Apart, Freeing
      <3> QED
        BY <1>1, <1>10, <3>1
    <2> QED
      BY <1>1, <1>3, <2>1, <2>2 DEF PoolListed, poolVars, printerVars
  <1>12. QueueListed(longer)'
    <2>1. longer[1] = printBuf /\ Len(longer) >= 1 /\ longer[Len(longer)] = currentBuffer
      <3>1. queue[1] = printBuf
        BY <1>3 DEF QueueListed
      <3>2. 1 \in 1 .. Len(queue) /\ Len(longer) >= 1
        BY <1>6, <1>8
      <3> QED
        BY <1>8, <3>1, <3>2
    <2>2. \A i \in 1 .. Len(longer) : i # Len(longer) => bufNext'[longer[i]] = longer[i + 1]
      <3> SUFFICES ASSUME NEW i \in 1 .. Len(longer), i # Len(longer)
                   PROVE  bufNext'[longer[i]] = longer[i + 1]
        OBVIOUS
      <3>1. i \in 1 .. Len(queue) /\ longer[i] = queue[i] /\ queue[i] \in LogBuffer
        BY <1>6, <1>8
      <3>2. CASE i = Len(queue)
        <4>1. queue[i] = queueTail
          BY <1>3, <3>2 DEF QueueListed
        <4> QED
          BY <1>1, <1>6, <1>8, <1>10, <3>1, <3>2, <4>1
      <3>3. CASE i # Len(queue)
        <4>1. bufNext[queue[i]] = queue[i + 1] /\ i + 1 \in 1 .. Len(queue)
          BY <1>3, <1>6, <3>1, <3>3 DEF QueueListed
        <4>2. queue[i] # queueTail
          BY <1>9, <3>1, <3>3
        <4> QED
          BY <1>1, <1>8, <1>10, <3>1, <4>1, <4>2
      <3> QED
        BY <3>2, <3>3
    <2>3. \A i \in 1 .. Len(longer) : bufText'[longer[i]] = bufPushes' - Len(longer) + i
      <3> SUFFICES ASSUME NEW i \in 1 .. Len(longer)
                   PROVE  bufText'[longer[i]] = (bufPushes + 1) - Len(longer) + i
        BY <1>1
      <3>1. CASE i = Len(longer)
        <4>1. longer[i] = currentBuffer /\ bufText'[longer[i]] = bufPushes + 1
          BY <1>1, <1>3, <1>8, <1>10, <3>1
        <4> QED
          BY <1>6, <1>8, <3>1, <4>1
      <3>2. CASE i # Len(longer)
        <4>1. i \in 1 .. Len(queue) /\ longer[i] = queue[i]
          BY <1>6, <1>8, <3>2
        <4>2. bufText'[longer[i]] = bufText[queue[i]]
          BY <1>1, <1>6, <1>9, <1>10, <4>1
        <4>3. bufText[queue[i]] = bufPushes - Len(queue) + i
          BY <1>3, <1>6, <4>1 DEF QueueListed
        <4> QED
          BY <1>6, <1>8, <4>1, <4>2, <4>3
      <3> QED
        BY <3>1, <3>2
    <2>4. Len(longer) = queuedBuffers + 1 + 1
      BY <1>1, <1>3, <1>6, <1>8 DEF QueueListed
    <2>5. Len(logPrinted) = (bufPushes + 1) - Len(longer) + (IF Unprinted THEN 0 ELSE 1)
      <3>1. Len(logPrinted) = bufPushes - Len(queue) + (IF Unprinted THEN 0 ELSE 1)
        BY <1>3 DEF QueueListed
      <3> QED
        BY <1>6, <1>8, <3>1
    <2> QED
      BY <1>1, <1>6, <1>8, <2>1, <2>2, <2>3, <2>4, <2>5
         DEF QueueListed, printerVars, Unprinted
  <1>13. Apart(pool, longer)'
    <2>1. Placed(pool, longer) = Placed(pool, queue) \cup {currentBuffer}
      <3>1. \A b : (\E i \in 1 .. Len(longer) : longer[i] = b) <=>
                     b = currentBuffer \/ \E i \in 1 .. Len(queue) : queue[i] = b
        <4>1. \A i \in 1 .. Len(longer) : i \in 1 .. Len(queue) \/ i = Len(queue) + 1
          BY <1>6, <1>8
        <4>2. Len(queue) + 1 \in 1 .. Len(longer) /\ 1 .. Len(queue) \subseteq 1 .. Len(longer)
          BY <1>6, <1>8
        <4> QED
          BY <1>8, <4>1, <4>2
      <3> QED
        BY <3>1 DEF Placed
    <2>6. \A i \in 1 .. Len(longer) : i \in 1 .. Len(queue) \/ i = Len(queue) + 1
      BY <1>6, <1>8
    <2>7. \A i, j \in 1 .. Len(queue) : queue[i] = queue[j] => i = j
      BY <1>3 DEF Apart
    <2>2. \A i, j \in 1 .. Len(longer) : longer[i] = longer[j] => i = j
      <3> SUFFICES ASSUME NEW i \in 1 .. Len(longer), NEW j \in 1 .. Len(longer),
                          longer[i] = longer[j]
                   PROVE  i = j
        OBVIOUS
      <3>1. CASE i \in 1 .. Len(queue) /\ j \in 1 .. Len(queue)
        BY <1>8, <2>7, <3>1
      <3>2. CASE i = Len(queue) + 1 \/ j = Len(queue) + 1
        BY <1>8, <1>9, <2>6, <3>2
      <3> QED
        BY <2>6, <3>1, <3>2
    <2>3. \A i \in 1 .. Len(pool), j \in 1 .. Len(longer) : pool[i] # longer[j]
      <3>1. \A i \in 1 .. Len(pool), j \in 1 .. Len(queue) : pool[i] # queue[j]
        BY <1>3 DEF Apart
      <3> QED
        BY <1>8, <1>9, <2>6, <3>1
    <2>4. Placed(pool, longer)' = Placed(pool, longer)
      BY DEF Placed
    <2>5. ~Popping' /\ (Freeing' <=> Freeing) /\ freedBuf' = freedBuf
      BY <1>1 DEF Popping, Freeing, printerVars
    <2> QED
      BY <1>1, <1>3, <2>1, <2>2, <2>3, <2>4, <2>5 DEF Apart, Popping
  <1> QED
    BY <1>1, <1>4, <1>5, <1>11, <1>12, <1>13, StillListed DEF LogInv, Lists, printerVars

LEMMA CountBufferKeeps ==
  ASSUME LogInv, CountBuffer
  PROVE  LogInv'
  <1>1. /\ UNCHANGED <<bufNext, bufText, poolVars, queueTail, currentBuffer, bufPushes,
                       poppedBuf, stopRequested, printerVars>>
        /\ logWriter = "count" /\ logWriter' \in {"stop", "idle"}
        /\ queuedBuffers' = queuedBuffers + 1
    BY DEF CountBuffer
  <1>2. PICK pool, queue : Lists(pool, queue)
    BY DEF LogInv, Listed, Lists
  <1>3. LogTypeOK'
    BY <1>1 DEF LogInv, LogTypeOK, printerVars, poolVars
  <1>4. LogEnds'
    BY <1>1 DEF LogInv, LogEnds, printerVars
  <1>5. queuedBuffers' + 0 = queuedBuffers + 1
    BY <1>1 DEF LogInv, LogTypeOK
  <1>6. Lists(pool, queue)'
    BY <1>1, <1>2, <1>3, <1>5, SameLists
       DEF LogInv, printerVars, poolVars, Unprinted, Freeing, Popping
  <1> QED
    BY <1>1, <1>3, <1>4, <1>6, StillListed DEF LogInv, printerVars

----------------------------------------------------------------------------
(* The printing thread.                                                    *)
LEMMA PrinterQuiet ==
  ASSUME LogInv, PopTimesOut \/ ReadStop \/ EndThread
  PROVE  LogInv'
  <1>1. /\ UNCHANGED <<bufNext, poolVars, writerVars, queuedBuffers, printBuf, freedBuf,
                       poolHead, logPrinted>>
        /\ \/ /\ logPrinter = "pop" /\ logPrinter' = "timeout"
              /\ UNCHANGED isPostMortem
           \/ /\ logPrinter = "timeout" /\ logPrinter' = "pop"
              /\ isPostMortem' = stopRequested
           \/ /\ logPrinter = "pop" /\ logPrinter' = "ended" /\ isPostMortem
              /\ queuedBuffers = 0 /\ UNCHANGED isPostMortem
    BY DEF PopTimesOut, ReadStop, EndThread
  <1>2. PICK pool, queue : Lists(pool, queue)
    BY DEF LogInv, Listed, Lists
  <1>3. LogTypeOK'
    BY <1>1 DEF LogInv, LogTypeOK, poolVars, writerVars
  <1>4. LogEnds'
    BY <1>1 DEF LogInv, LogEnds, writerVars
  <1>5. Lists(pool, queue)'
    BY <1>1, <1>2, <1>3, SameLists
       DEF LogInv, poolVars, writerVars, Unprinted, Freeing, Popping
  <1> QED
    BY <1>1, <1>3, <1>4, <1>5, StillListed DEF LogInv

\* The queue's next buffer becomes its dummy.
LEMMA PopQueuedKeeps ==
  ASSUME LogInv, PopQueued
  PROVE  LogInv'
  <1>1. /\ UNCHANGED <<bufNext, poolVars, writerVars, poolHead, isPostMortem, logPrinted>>
        /\ logPrinter = "pop" /\ logPrinter' = "release"
        /\ queuedBuffers > 0 /\ queuedBuffers' = queuedBuffers - 1
        /\ freedBuf' = printBuf /\ printBuf' = bufNext[printBuf]
    BY DEF PopQueued
  <1>2. PICK pool, queue : Lists(pool, queue)
    BY DEF LogInv, Listed, Lists
  <1>3. /\ Apart(pool, queue) /\ PoolListed(pool) /\ QueueListed(queue)
        /\ queuedBuffers \in Nat /\ queue \in Seq(LogBuffer) /\ Len(queue) \in Nat
        /\ bufPushes \in Nat /\ Len(logPrinted) \in Nat
        /\ \A i \in 1 .. Len(queue) : queue[i] \in LogBuffer
    BY <1>2, Lengths DEF Lists, LogInv, LogTypeOK
  <1>4. Len(queue) >= 2
    BY <1>1, <1>3 DEF QueueListed
  <1>5. 1 \in 1 .. Len(queue) /\ 2 \in 1 .. Len(queue)
    BY <1>3, <1>4
  <1>6. printBuf = queue[1] /\ printBuf' = queue[2] /\ freedBuf' = queue[1]
    <2>1. bufNext[queue[1]] = queue[1 + 1]
      BY <1>3, <1>4, <1>5 DEF QueueListed
    <2> QED
      BY <1>1, <1>3, <2>1 DEF QueueListed
  <1>7. PICK rest : rest = Tail(queue)
    OBVIOUS
  <1>8. /\ rest \in Seq(LogBuffer) /\ Len(rest) = Len(queue) - 1
        /\ \A i \in 1 .. Len(rest) : rest[i] = queue[i + 1] /\ i + 1 \in 1 .. Len(queue)
    BY <1>3, <1>4, <1>7
  <1>9. LogTypeOK'
    <2>1. printBuf' \in LogBuffer /\ freedBuf' \in LogBuffer /\ queuedBuffers' \in Nat
      BY <1>1, <1>3, <1>5, <1>6
    <2> QED
      BY <1>1, <2>1 DEF LogInv, LogTypeOK, poolVars, writerVars
  <1>10. LogEnds'
    BY <1>1 DEF LogInv, LogEnds, writerVars
  <1>11. PoolListed(pool)'
    BY <1>1, <1>3 DEF PoolListed, poolVars, writerVars
  <1>12. QueueListed(rest)'
    <2>1. rest[1] = queue[2] /\ rest[Len(rest)] = queueTail
      <3>1. 1 \in 1 .. Len(rest) /\ Len(rest) \in 1 .. Len(rest)
            /\ Len(rest) + 1 = Len(queue)
        BY <1>3, <1>4, <1>8
      <3>2. rest[1] = queue[1 + 1] /\ rest[Len(rest)] = queue[Len(rest) + 1]
        BY <1>8, <3>1
      <3>3. queue[Len(queue)] = queueTail
        BY <1>3 DEF QueueListed
      <3> QED
        BY <3>1, <3>2, <3>3
    <2>2. \A i \in 1 .. Len(rest) : i # Len(rest) => bufNext[rest[i]] = rest[i + 1]
      <3> SUFFICES ASSUME NEW i \in 1 .. Len(rest), i # Len(rest)
                   PROVE  bufNext[rest[i]] = rest[i + 1]
        OBVIOUS
      <3>1. /\ rest[i] = queue[i + 1] /\ i + 1 \in 1 .. Len(queue) /\ i + 1 # Len(queue)
            /\ i + 1 \in 1 .. Len(rest) /\ rest[i + 1] = queue[(i + 1) + 1]
        BY <1>3, <1>4, <1>8
      <3> QED
        BY <1>3, <3>1 DEF QueueListed
    <2>3. \A i \in 1 .. Len(rest) : bufText[rest[i]] = bufPushes - Len(rest) + i
      <3> SUFFICES ASSUME NEW i \in 1 .. Len(rest)
                   PROVE  bufText[rest[i]] = bufPushes - Len(rest) + i
        OBVIOUS
      <3>1. /\ rest[i] = queue[i + 1] /\ i + 1 \in 1 .. Len(queue) /\ i \in Nat
        BY <1>3, <1>4, <1>8
      <3>2. bufText[queue[i + 1]] = bufPushes - Len(queue) + (i + 1)
        BY <1>3, <3>1 DEF QueueListed
      <3> QED
        BY <1>3, <1>8, <3>1, <3>2
    <2>4. Len(rest) = queuedBuffers' + 1 + (IF logWriter = "count" THEN 1 ELSE 0)
      <3>1. Len(queue) = queuedBuffers + 1 + (IF logWriter = "count" THEN 1 ELSE 0)
        BY <1>3 DEF QueueListed
      <3>2. PICK n \in Nat : n = queuedBuffers
        BY <1>3
      <3>3. PICK u \in Nat : u = IF logWriter = "count" THEN 1 ELSE 0
        OBVIOUS
      <3>4. Len(queue) - 1 = (n - 1) + 1 + u
        BY <3>1, <3>2, <3>3
      <3> QED
        BY <1>1, <1>8, <3>2, <3>3, <3>4
    <2>5. Len(logPrinted) = bufPushes - Len(rest) + 0
      <3>1. Len(logPrinted) = bufPushes - Len(queue) + 1
        BY <1>1, <1>3 DEF QueueListed, Unprinted
      <3> QED
        BY <1>3, <1>8, <3>1
    <2> QED
      BY <1>1, <1>4, <1>6, <1>8, <2>1, <2>2, <2>3, <2>4, <2>5, <1>3
         DEF QueueListed, Unprinted, writerVars
  <1>13. Apart(pool, rest)'
    <2>1. \A i \in 1 .. Len(rest) : rest[i] # queue[1]
      <3> SUFFICES ASSUME NEW i \in 1 .. Len(rest), rest[i] = queue[1] PROVE FALSE
        OBVIOUS
      <3>1. i + 1 = 1
        BY <1>3, <1>5, <1>8 DEF Apart
      <3> QED
        BY <3>1
    <2>2. /\ queue[1] \in Placed(pool, queue) /\ queue[1] \notin Placed(pool, rest)
          /\ Placed(pool, rest) \subseteq Placed(pool, queue)
      <3>1. \A i \in 1 .. Len(pool) : pool[i] # queue[1]
        BY <1>3, <1>5 DEF Apart
      <3>2. \A i \in 1 .. Len(rest) : rest[i] \in Placed(pool, queue)
        BY <1>8 DEF Placed
      <3> QED
        BY <1>5, <2>1, <3>1, <3>2 DEF Placed
    <2>3. \A i, j \in 1 .. Len(rest) : rest[i] = rest[j] => i = j
      <3> SUFFICES ASSUME NEW i \in 1 .. Len(rest), NEW j \in 1 .. Len(rest),
                          rest[i] = rest[j]
                   PROVE  i = j
        OBVIOUS
      <3>1. i + 1 = j + 1
        BY <1>3, <1>8 DEF Apart
      <3> QED
        BY <3>1
    <2>4. \A i \in 1 .. Len(pool), j \in 1 .. Len(rest) : pool[i] # rest[j]
      BY <1>3, <1>8 DEF Apart
    <2>5. Placed(pool, rest)' = Placed(pool, rest)
      BY DEF Placed
    <2>6. Freeing' /\ (Popping' <=> Popping) /\ poppedBuf' = poppedBuf
          /\ currentBuffer' = currentBuffer
      BY <1>1 DEF Freeing, Popping, writerVars
    <2>7. /\ currentBuffer \notin Placed(pool, queue)
          /\ Popping => /\ poppedBuf \in LogBuffer
                        /\ poppedBuf \notin Placed(pool, queue) \cup {currentBuffer}
          /\ \A i, j \in 1 .. Len(pool) : pool[i] = pool[j] => i = j
      BY <1>3 DEF Apart
    <2> QED
      BY <1>3, <1>5, <1>6, <2>2, <2>3, <2>4, <2>5, <2>6, <2>7 DEF Apart
  <1> QED
    BY <1>1, <1>9, <1>10, <1>11, <1>12, <1>13, StillListed DEF LogInv, Lists

\* The printed buffer goes back to the pool.
LEMMA LoadListHeadKeeps ==
  ASSUME LogInv, LoadListHead \/ (PushFreed /\ bufferListHead # poolHead)
  PROVE  LogInv'
  <1>1. /\ UNCHANGED <<poolVars, writerVars, queuedBuffers, printBuf, freedBuf,
                       isPostMortem, logPrinted>>
        /\ logPrinter \in {"release", "push"} /\ logPrinter' = "push"
        /\ poolHead' = bufferListHead
        /\ bufNext' = [bufNext EXCEPT ![freedBuf] = bufferListHead]
    BY DEF LoadListHead, PushFreed, poolVars
  <1>2. PICK pool, queue : Lists(pool, queue)
    BY DEF LogInv, Listed, Lists
  <1>3. /\ freedBuf \in LogBuffer /\ freedBuf \notin Placed(pool, queue)
        /\ bufNext \in [LogBuffer -> LogBuffer \cup {NoBuf}]
        /\ bufferListHead \in LogBuffer \cup {NoBuf}
    BY <1>1, <1>2 DEF Lists, Apart, Freeing, LogInv, LogTypeOK
  <1>4. /\ bufNext'[freedBuf] = bufferListHead
        /\ \A b \in LogBuffer : b # freedBuf => bufNext'[b] = bufNext[b]
        /\ bufNext' \in [LogBuffer -> LogBuffer \cup {NoBuf}]
    BY <1>1, <1>3
  <1>5. LogTypeOK'
    BY <1>1, <1>3, <1>4 DEF LogInv, LogTypeOK, poolVars, writerVars
  <1>6. LogEnds'
    BY <1>1 DEF LogInv, LogEnds, writerVars
  <1>7. /\ \A i \in 1 .. Len(pool) : pool[i] \in LogBuffer /\ pool[i] # freedBuf
        /\ \A i \in 1 .. Len(queue) : queue[i] \in LogBuffer /\ queue[i] # freedBuf
    BY <1>2, <1>3, Lengths DEF Placed, LogInv
  <1>8. PoolListed(pool)'
    BY <1>1, <1>2, <1>4, <1>7 DEF Lists, PoolListed, poolVars, writerVars
  <1>9. QueueListed(queue)'
    BY <1>1, <1>2, <1>4, <1>7 DEF Lists, QueueListed, writerVars, Unprinted
  <1>10. Apart(pool, queue)'
    BY <1>1, <1>2 DEF Lists, Apart, Placed, Popping, Freeing, writerVars
  <1> QED
    BY <1>1, <1>5, <1>6, <1>8, <1>9, <1>10, StillListed DEF LogInv, Lists

LEMMA PushFreedKeeps ==
  ASSUME LogInv, PushFreed, bufferListHead = poolHead
  PROVE  LogInv'
  <1>1. /\ UNCHANGED <<poolTokens, writerVars, queuedBuffers, printBuf, freedBuf,
                       isPostMortem, logPrinted, bufNext, poolHead>>
        /\ logPrinter = "push" /\ logPrinter' = "token"
        /\ bufferListHead' = freedBuf
    BY DEF PushFreed
  <1>2. PICK pool, queue : Lists(pool, queue)
    BY DEF LogInv, Listed, Lists
  <1>3. /\ Apart(pool, queue) /\ PoolListed(pool) /\ QueueListed(queue)
        /\ freedBuf \in LogBuffer /\ freedBuf \notin Placed(pool, queue) \cup {currentBuffer}
        /\ Popping => poppedBuf # freedBuf
        /\ bufNext[freedBuf] = bufferListHead
        /\ pool \in Seq(LogBuffer) /\ Len(pool) \in Nat /\ poolTokens \in Nat
    BY <1>1, <1>2, Lengths DEF Lists, Apart, PoolListed, Freeing, LogInv
  <1>4. PICK longer : longer = <<freedBuf>> \o pool
    OBVIOUS
  <1>5. /\ longer \in Seq(LogBuffer) /\ Len(longer) = Len(pool) + 1 /\ longer[1] = freedBuf
        /\ \A i \in 1 .. Len(longer) :
             i # 1 => longer[i] = pool[i - 1] /\ i - 1 \in 1 .. Len(pool)
        /\ \A i \in 1 .. Len(pool) : longer[i + 1] = pool[i] /\ i + 1 \in 1 .. Len(longer)
    BY <1>3, <1>4
  <1>6. LogTypeOK'
    BY <1>1, <1>3 DEF LogInv, LogTypeOK, writerVars
  <1>7. LogEnds'
    BY <1>1 DEF LogInv, LogEnds, writerVars
  <1>8. PoolListed(longer)'
    <2>1. \A i \in 1 .. Len(longer) :
            bufNext[longer[i]] = IF i = Len(longer) THEN NoBuf ELSE longer[i + 1]
      <3> SUFFICES ASSUME NEW i \in 1 .. Len(longer)
                   PROVE  bufNext[longer[i]] = IF i = Len(longer) THEN NoBuf ELSE longer[i + 1]
        OBVIOUS
      <3>1. CASE i = 1
        <4>1. bufNext[longer[i]] = IF Len(pool) = 0 THEN NoBuf ELSE pool[1]
          BY <1>3, <1>5, <3>1 DEF PoolListed
        <4>2. Len(pool) # 0 => longer[1 + 1] = pool[1]
          BY <1>3, <1>5
        <4> QED
          BY <1>3, <1>5, <3>1, <4>1, <4>2
      <3>2. CASE i # 1
        <4>1. longer[i] = pool[i - 1] /\ i - 1 \in 1 .. Len(pool)
          BY <1>5, <3>2
        <4>2. bufNext[longer[i]] = IF i - 1 = Len(pool) THEN NoBuf ELSE pool[(i - 1) + 1]
          BY <1>3, <4>1 DEF PoolListed
        <4>3. i # Len(longer) => i + 1 \in 1 .. Len(longer) /\ longer[i + 1] = pool[(i + 1) - 1]
          BY <1>3, <1>5
        <4> QED
          BY <1>3, <1>5, <3>2, <4>1, <4>2, <4>3
      <3> QED
        BY <3>1, <3>2
    <2>2. Len(longer) = poolTokens + (IF logWriter \in {"load", "cas"} THEN 1 ELSE 0) + 1
      <3>1. Len(pool) = poolTokens + (IF logWriter \in {"load", "cas"} THEN 1 ELSE 0) + 0
        BY <1>1, <1>3 DEF PoolListed
      <3> QED
        BY <1>3, <1>5, <3>1
    <2>3. bufferListHead' = IF Len(longer) = 0 THEN NoBuf ELSE longer[1]
      BY <1>1, <1>3, <1>5
    <2> QED
      BY <1>1, <1>5, <2>1, <2>2, <2>3 DEF PoolListed, writerVars
  <1>9. QueueListed(queue)'
    BY <1>1, <1>3 DEF QueueListed, writerVars, Unprinted
  <1>10. Apart(longer, queue)'
    <2>1. Placed(longer, queue) = Placed(pool, queue) \cup {freedBuf}
      <3>1. 1 \in 1 .. Len(longer)
        BY <1>3, <1>5
      <3>2. ASSUME NEW i \in 1 .. Len(longer)
            PROVE  longer[i] = freedBuf \/ \E k \in 1 .. Len(pool) : pool[k] = longer[i]
        BY <1>5
      <3>3. ASSUME NEW i \in 1 .. Len(pool)
            PROVE  \E k \in 1 .. Len(longer) : longer[k] = pool[i]
        BY <1>5
      <3> QED
        BY <1>5, <3>1, <3>2, <3>3 DEF Placed
    <2>2. \A i \in 1 .. Len(pool) : pool[i] # freedBuf
      BY <1>3 DEF Placed
    <2>3. \A i, j \in 1 .. Len(longer) : longer[i] = longer[j] => i = j
      <3> SUFFICES ASSUME NEW i \in 1 .. Len(longer), NEW j \in 1 .. Len(longer),
                          longer[i] = longer[j]
                   PROVE  i = j
        OBVIOUS
      <3>1. CASE i = 1 \/ j = 1
        BY <1>5, <2>2, <3>1
      <3>2. CASE i # 1 /\ j # 1
        <4>1. i - 1 = j - 1
          BY <1>3, <1>5, <3>2 DEF Apart
        <4> QED
          BY <4>1
      <3> QED
        BY <3>1, <3>2
    <2>4. \A i \in 1 .. Len(longer), j \in 1 .. Len(queue) : longer[i] # queue[j]
      <3>1. \A j \in 1 .. Len(queue) : queue[j] # freedBuf
        BY <1>3 DEF Placed
      <3>2. \A i \in 1 .. Len(pool), j \in 1 .. Len(queue) : pool[i] # queue[j]
        BY <1>3 DEF Apart
      <3> SUFFICES ASSUME NEW i \in 1 .. Len(longer), NEW j \in 1 .. Len(queue)
                   PROVE  longer[i] # queue[j]
        OBVIOUS
      <3>3. CASE i = 1
        BY <1>5, <3>1, <3>3
      <3>4. CASE i # 1
        <4>1. longer[i] = pool[i - 1] /\ i - 1 \in 1 .. Len(pool)
          BY <1>5, <3>4
        <4> QED
          BY <3>2, <4>1
      <3> QED
        BY <3>3, <3>4
    <2>5. Placed(longer, queue)' = Placed(longer, queue)
      BY DEF Placed
    <2>6. ~Freeing' /\ (Popping' <=> Popping) /\ UNCHANGED <<poppedBuf, currentBuffer>>
      BY <1>1 DEF Freeing, Popping, writerVars
    <2>7. /\ currentBuffer \notin Placed(pool, queue)
          /\ Popping => /\ poppedBuf \in LogBuffer
                        /\ poppedBuf \notin Placed(pool, queue) \cup {currentBuffer}
          /\ \A i, j \in 1 .. Len(queue) : queue[i] = queue[j] => i = j
      BY <1>3 DEF Apart
    <2> QED
      BY <1>3, <2>1, <2>3, <2>4, <2>5, <2>6, <2>7 DEF Apart
  <1> QED
    BY <1>1, <1>6, <1>7, <1>8, <1>9, <1>10, StillListed DEF LogInv, Lists

LEMMA ReleaseTokenKeeps ==
  ASSUME LogInv, ReleaseToken
  PROVE  LogInv'
  <1>1. /\ UNCHANGED <<bufNext, bufferListHead, writerVars, queuedBuffers, printBuf,
                       freedBuf, poolHead, isPostMortem, logPrinted>>
        /\ logPrinter = "token" /\ logPrinter' = "print"
        /\ poolTokens' = poolTokens + 1
    BY DEF ReleaseToken
  <1>2. PICK pool, queue : Lists(pool, queue)
    BY DEF LogInv, Listed, Lists
  <1>3. LogTypeOK'
    BY <1>1 DEF LogInv, LogTypeOK, writerVars
  <1>4. LogEnds'
    BY <1>1 DEF LogInv, LogEnds, writerVars
  <1>5. PoolListed(pool)'
    <2>1. poolTokens \in Nat
      BY DEF LogInv, LogTypeOK
    <2>2. Len(pool) = poolTokens + (IF logWriter \in {"load", "cas"} THEN 1 ELSE 0) + 1
      BY <1>1, <1>2 DEF Lists, PoolListed
    <2>3. Len(pool) = (poolTokens + 1) + (IF logWriter \in {"load", "cas"} THEN 1 ELSE 0) + 0
      BY <2>1, <2>2
    <2> QED
      BY <1>1, <1>2, <2>3 DEF Lists, PoolListed, writerVars
  <1>6. QueueListed(queue)'
    BY <1>1, <1>2 DEF Lists, QueueListed, writerVars, Unprinted
  <1>7. Apart(pool, queue)'
    BY <1>1, <1>2 DEF Lists, Apart, Placed, Popping, Freeing, writerVars
  <1> QED
    BY <1>1, <1>3, <1>4, <1>5, <1>6, <1>7, StillListed DEF LogInv, Lists

LEMMA Appended ==
  ASSUME NEW s \in Seq(Nat), NEW e \in Nat
  PROVE  /\ Append(s, e) \in Seq(Nat) /\ Len(Append(s, e)) = Len(s) + 1 /\ Len(s) \in Nat
         /\ \A i \in 1 .. Len(s) : Append(s, e)[i] = s[i]
         /\ Append(s, e)[Len(s) + 1] = e
  OBVIOUS

\* The dummy's text is that of the next push to be printed.
LEMMA PrintBufferKeeps ==
  ASSUME LogInv, PrintBuffer
  PROVE  LogInv'
  <1>1. /\ UNCHANGED <<bufNext, poolVars, writerVars, queuedBuffers, printBuf,
                       freedBuf, poolHead, isPostMortem>>
        /\ logPrinter = "print" /\ logPrinter' = "pop"
        /\ logPrinted' = Append(logPrinted, bufText[printBuf])
    BY DEF PrintBuffer
  <1>2. PICK pool, queue : Lists(pool, queue)
    BY DEF LogInv, Listed, Lists
  <1>3. /\ logPrinted \in Seq(Nat) /\ bufText[printBuf] \in Nat
        /\ Len(queue) \in Nat /\ Len(queue) >= 1 /\ bufPushes \in Nat
    BY <1>2, Lengths DEF LogInv, LogTypeOK
  <1>4. /\ bufText[printBuf] = Len(logPrinted) + 1
        /\ Len(logPrinted) = bufPushes - Len(queue)
    <2>1. bufText[queue[1]] = bufPushes - Len(queue) + 1 /\ queue[1] = printBuf
      BY <1>2, <1>3 DEF Lists, QueueListed
    <2>2. Len(logPrinted) = bufPushes - Len(queue) + 0
      BY <1>1, <1>2 DEF Lists, QueueListed, Unprinted
    <2> QED
      BY <1>3, <2>1, <2>2
  <1>5. LogTypeOK'
    BY <1>1, <1>3 DEF LogInv, LogTypeOK, writerVars, poolVars
  <1>6. LogEnds'
    BY <1>1 DEF LogInv, LogEnds, writerVars
  <1>7. PoolListed(pool)'
    BY <1>1, <1>2 DEF Lists, PoolListed, writerVars, poolVars
  <1>8. QueueListed(queue)'
    <2>1. Len(logPrinted') = bufPushes - Len(queue) + 1
      <3>1. Len(logPrinted') = Len(logPrinted) + 1
        BY <1>1, <1>3, Appended
      <3> QED
        BY <3>1, <1>4
    <2> QED
      BY <1>1, <1>2, <2>1 DEF Lists, QueueListed, writerVars, Unprinted
  <1>9. Apart(pool, queue)'
    BY <1>1, <1>2 DEF Lists, Apart, Placed, Popping, Freeing, writerVars
  <1>10. logPrinted' = [i \in 1 .. Len(logPrinted') |-> i]
    <2>1. /\ Len(logPrinted') = Len(logPrinted) + 1 /\ Len(logPrinted) \in Nat
          /\ logPrinted' \in Seq(Nat)
          /\ \A i \in 1 .. Len(logPrinted) : logPrinted'[i] = logPrinted[i]
          /\ logPrinted'[Len(logPrinted) + 1] = Len(logPrinted) + 1
      <3>1. PICK e \in Nat : e = bufText[printBuf]
        BY <1>3
      <3>2. logPrinted' = Append(logPrinted, e)
        BY <1>1, <3>1
      <3>3. e = Len(logPrinted) + 1
        BY <1>4, <3>1
      <3> QED
        BY <1>3, <3>2, <3>3, Appended
    <2>2. \A i \in 1 .. Len(logPrinted) : logPrinted[i] = i
      BY DEF LogInv
    <2>3. \A i \in 1 .. Len(logPrinted') : logPrinted'[i] = i
      <3> SUFFICES ASSUME NEW i \in 1 .. Len(logPrinted') PROVE logPrinted'[i] = i
        OBVIOUS
      <3>1. i \in 1 .. Len(logPrinted) \/ i = Len(logPrinted) + 1
        BY <2>1
      <3> QED
        BY <2>1, <2>2, <3>1
    <2> QED
      BY <2>1, <2>3
  <1> QED
    BY <1>1, <1>5, <1>6, <1>7, <1>8, <1>9, <1>10, StillListed DEF LogInv, Lists
----------------------------------------------------------------------------
LEMMA LogInitInv == LogInit => LogInv
  <1> SUFFICES ASSUME LogInit PROVE LogInv
    OBVIOUS
  <1> USE LogAssumption
  <1>1. LogTypeOK
    BY DEF LogInit, LogTypeOK, LogBuffer, NoBuf, InitialTokens
  <1>2. LogEnds
    BY DEF LogInit, LogEnds
  <1>3. Listed
    <2>1. PICK pool : pool = [i \in 1 .. InitialTokens |-> i + 1]
      OBVIOUS
    <2>2. PICK queue : queue = <<0>>
      OBVIOUS
    <2>3. /\ pool \in Seq(LogBuffer) /\ Len(pool) = InitialTokens
          /\ InitialTokens \in Nat /\ InitialTokens >= 1 /\ InitialTokens = BufferCount - 2
          /\ \A i \in 1 .. Len(pool) : pool[i] = i + 1
      <3>1. InitialTokens \in Nat /\ InitialTokens >= 1 /\ InitialTokens = BufferCount - 2
        BY DEF InitialTokens
      <3>2. \A i \in 1 .. InitialTokens : i + 1 \in LogBuffer
        BY <3>1 DEF LogBuffer
      <3> QED
        BY <2>1, <3>1, <3>2
    <2>4. queue \in Seq(LogBuffer) /\ Len(queue) = 1 /\ queue[1] = 0
      BY <2>2 DEF LogBuffer
    <2>5. PoolListed(pool)
      <3>1. \A i \in 1 .. Len(pool) :
              bufNext[pool[i]] = IF i = Len(pool) THEN NoBuf ELSE pool[i + 1]
        <4> SUFFICES ASSUME NEW i \in 1 .. Len(pool)
                     PROVE  bufNext[pool[i]] = IF i = Len(pool) THEN NoBuf ELSE pool[i + 1]
          OBVIOUS
        <4>1. pool[i] = i + 1 /\ i + 1 \in LogBuffer
          BY <2>3 DEF LogBuffer
        <4>2. bufNext[i + 1] = (i + 1) + 1
          BY <4>1 DEF LogInit
        <4>3. i # Len(pool) => pool[i + 1] = (i + 1) + 1
          BY <2>3
        <4>4. i = Len(pool) => (i + 1) + 1 = NoBuf
          BY <2>3 DEF NoBuf
        <4> QED
          BY <4>1, <4>2, <4>3, <4>4
      <3>2. bufferListHead = 2 /\ pool[1] = 1 + 1 /\ Len(pool) # 0
        BY <2>3 DEF LogInit
      <3>3. Len(pool) = poolTokens + 0 + 0
        BY <2>3 DEF LogInit
      <3> QED
        BY <2>3, <3>1, <3>2, <3>3 DEF PoolListed, LogInit
    <2>6. QueueListed(queue)
      <3>1. \A i \in 1 .. Len(queue) : i = 1
        BY <2>4
      <3>2. 0 \in LogBuffer
        BY DEF LogBuffer
      <3>3. bufText[0] = 0 /\ logPrinted = <<>> /\ bufPushes = 0 /\ queuedBuffers = 0
            /\ ~Unprinted /\ logWriter = "idle" /\ printBuf = 0 /\ queueTail = 0
        BY <3>2 DEF LogInit, Unprinted
      <3>4. \A i \in 1 .. Len(queue) : bufText[queue[i]] = bufPushes - Len(queue) + i
        BY <2>4, <3>1, <3>3
      <3>5. Len(logPrinted) = bufPushes - Len(queue) + 1
        BY <2>4, <3>3
      <3> QED
        BY <2>4, <3>1, <3>3, <3>4, <3>5 DEF QueueListed
    <2>7. Apart(pool, queue)
      BY <2>3, <2>4 DEF Apart, Placed, LogInit, Popping, Freeing
    <2> QED
      BY <2>5, <2>6, <2>7 DEF Listed, PoolListed, QueueListed
  <1> QED
    BY <1>1, <1>2, <1>3 DEF LogInv, LogInit

LEMMA LogStep == LogInv /\ [LogNext]_logVars => LogInv'
  <1> SUFFICES ASSUME LogInv, [LogNext]_logVars PROVE LogInv'
    OBVIOUS
  <1>1. CASE UNCHANGED logVars
    <2>1. LogTypeOK' /\ LogEnds' /\ logPrinted' = logPrinted
      BY <1>1 DEF logVars, LogInv, LogTypeOK, LogEnds
    <2>2. PICK pool, queue : Lists(pool, queue)
      BY DEF LogInv, Listed, Lists
    <2>3. Lists(pool, queue)'
      BY <1>1, <2>2 DEF logVars, Lists, PoolListed, QueueListed, Apart, Placed, Popping, Freeing,
                        Unprinted
    <2> QED
      BY <2>1, <2>3, StillListed DEF LogInv
  <1>2. CASE \/ \E n \in 1 .. BufSize : WriteBytes(n) \/ WriteNumber(n)
             \/ LogNewline \/ LogFlush \/ DestroyLog \/ RequestStop
    BY <1>2, WriterQuiet
  <1>3. CASE AcquireToken \/ LoadPoolHead \/ PopHead \/ LinkBuffer \/ CountBuffer
    BY <1>3, AcquireTokenKeeps, LoadPoolHeadKeeps, PopHeadKeeps, LinkBufferKeeps,
       CountBufferKeeps
  <1>4. CASE PopQueued \/ PopTimesOut \/ ReadStop \/ EndThread
    BY <1>4, PopQueuedKeeps, PrinterQuiet
  <1>5. CASE LoadListHead \/ PushFreed \/ ReleaseToken \/ PrintBuffer
    BY <1>5, LoadListHeadKeeps, PushFreedKeeps, ReleaseTokenKeeps, PrintBufferKeeps
  <1> QED
    BY <1>1, <1>2, <1>3, <1>4, <1>5 DEF LogNext

LEMMA LogCorrect == LogSpec => []LogInv
  BY LogInitInv, LogStep, PTL DEF LogSpec

LEMMA InvPrints == LogInv => PrintedInOrder
  <1> SUFFICES ASSUME LogInv PROVE PrintedInOrder
    OBVIOUS
  <1>1. PICK pool, queue : Lists(pool, queue)
    BY DEF LogInv, Listed, Lists
  <1>2. ASSUME logPrinter = "ended" PROVE Len(logPrinted) = bufPushes
    <2>1. queuedBuffers = 0 /\ logWriter = "join"
      BY <1>2 DEF LogInv, LogEnds
    <2>2. Len(queue) = 0 + 1 + 0
      BY <1>1, <2>1 DEF Lists, QueueListed
    <2>3. Len(logPrinted) = bufPushes - Len(queue) + 1 /\ bufPushes \in Nat
      BY <1>1, <1>2 DEF Lists, QueueListed, Unprinted, LogInv, LogTypeOK
    <2> QED
      BY <2>2, <2>3
  <1>3. ASSUME logWriter = "load" PROVE bufferListHead # NoBuf
    <2>1. Len(pool) >= 1
      BY <1>1, <1>3, Lengths DEF LogInv, Lists, PoolListed
    <2> QED
      BY <1>1, <2>1, Lengths DEF LogInv, Lists, PoolListed
  <1> QED
    BY <1>2, <1>3 DEF PrintedInOrder, LogInv

(* async_buffered_output_log prints every pushed buffer once, in order,    *)
(* with the text it was pushed with, whatever the number and size of the   *)
(* buffers and however the two threads interleave; the thread drains the   *)
(* queue before it ends, and a token always stands for a buffer.           *)
THEOREM PrintedInOrderCorrect == LogSpec => []PrintedInOrder
  BY LogCorrect, InvPrints, PTL
----------------------------------------------------------------------------
(* BigBufferedLog.  First, remainders.                                     *)

LEMMA RemainderUnique ==
  ASSUME NEW n \in Nat \ {0}, NEW q \in Int, NEW r \in 0 .. n - 1, NEW x \in Int,
         x = n * q + r
  PROVE  x % n = r
OBVIOUS

LEMMA RemainderSplits ==
  ASSUME NEW n \in Nat \ {0}, NEW x \in Int
  PROVE  \E q \in Int : x = n * q + (x % n)
<1>1. x \div n \in Int OBVIOUS
<1>2. x = n * (x \div n) + (x % n) BY SMTT(30)
<1> QED BY <1>1, <1>2

\* Whole turns do not change a remainder.
LEMMA TurnsRemain ==
  ASSUME NEW n \in Nat \ {0}, NEW x \in Int, NEW t \in Int
  PROVE  (x + n * t) % n = x % n
<1>1. PICK q \in Int : x = n * q + (x % n) BY RemainderSplits
<1>2. x % n \in 0 .. n - 1 OBVIOUS
<1>3. PICK r \in 0 .. n - 1 : r = x % n BY <1>2
<1>4. x + n * t = n * (q + t) + r
  <2>1. n * (q + t) = n * q + n * t OBVIOUS
  <2> QED BY <1>1, <1>3, <2>1
<1>5. (x + n * t) \in Int /\ q + t \in Int OBVIOUS
<1> QED BY <1>3, <1>4, <1>5, RemainderUnique, ZenonT(60)

\* Within one turn a remainder is met once.
LEMMA RemainderOnce ==
  ASSUME NEW n \in Nat \ {0}, NEW x \in Int, NEW y \in Int, x % n = y % n,
         x - y < n, y - x < n
  PROVE  x = y
<1>1. PICK q \in Int : x = n * q + (x % n) BY RemainderSplits
<1>2. PICK p \in Int : y = n * p + (y % n) BY RemainderSplits
<1>3. x % n \in 0 .. n - 1 OBVIOUS
<1>4. PICK r \in 0 .. n - 1 : r = x % n BY <1>3
<1>5. x - y = n * q - n * p BY <1>1, <1>2, <1>4
<1>6. n * q - n * p = n * (q - p) OBVIOUS
<1>7. PICK d \in Int : d = q - p OBVIOUS
<1>8. x - y = n * d BY <1>5, <1>6, <1>7
<1>9. d = 0
  <2>1. d >= 1 => n * d >= n OBVIOUS
  <2>2. d <= -1 => n * d <= -n OBVIOUS
  <2> QED BY <1>8, <2>1, <2>2
<1> QED BY <1>8, <1>9

----------------------------------------------------------------------------
(* The state of the ring.                                                  *)

RingTypeOK ==
  /\ DOMAIN ring = 0 .. RingSize - 1
  /\ charsTotal \in Nat /\ charsWritten \in Nat /\ printedTo \in Nat
  /\ cursor \in 0 .. 2 * RingSize
  /\ printBufferEnd \in 0 .. NullEnd /\ localEnd \in 0 .. NullEnd
  /\ printCursor \in Int /\ printCursor <= 2 * RingSize
  /\ closing \in {"open", "flushed", "cleared", "aborted"}
  /\ printerAt \in {"wait", "stop", "print", "ended"}
  /\ threadStop \in BOOLEAN /\ shouldStop \in BOOLEAN
  /\ misprinted \in BOOLEAN /\ lapped \in BOOLEAN
  /\ newlineChars \subseteq Nat

\* What ClearedLogStops needs
Ending ==
  /\ threadStop => closing \in {"flushed", "cleared"}
  /\ closing = "cleared" => printBufferEnd = NullEnd
  /\ printBufferEnd = NullEnd => closing = "cleared"
  /\ printerAt = "print" => localEnd # NullEnd
  /\ printerAt = "print" => localEnd # NullEnd

Place(x) == x % RingSize

Turns == {RingSize * t : t \in Int}

\* The characters in front of the last end that was stored
Flushed == charsTotal - charsWritten

\* An end that stands for the end of the first f characters, in a turn that
\* began before the characters still to be printed, but not before the turn
\* of the printing thread's cursor
EndOf(end, f) ==
  /\ end < 2 * RingSize
  /\ f - end \in Turns /\ f - end <= printedTo
  /\ printedTo - printCursor <= f - end
  /\ f >= printedTo /\ f <= Flushed
  /\ f = printedTo \/ f \in newlineChars

\* The end that the printing thread has read, in no later turn than the last
Printing(f) ==
  /\ EndOf(localEnd, f)
  /\ printBufferEnd # NullEnd => f - localEnd <= Flushed - printBufferEnd

(* The writer and the printing thread are in step: both cursors, and the   *)
(* ends between them, are right but for whole turns, and the ring holds    *)
(* what is still to be printed.                                            *)
InStep ==
  /\ ~misprinted
  /\ charsTotal - printedTo < RingSize
  /\ printedTo <= Flushed
  /\ charsTotal - cursor \in Turns
  /\ printedTo - printCursor \in Turns
  /\ printCursor >= 0 /\ printCursor < 2 * RingSize
  /\ \A c \in printedTo + 1 .. charsTotal : ring[Place(c - 1)] = c
  /\ printBufferEnd # NullEnd =>
       EndOf(printBufferEnd, Flushed) /\ Flushed - printBufferEnd <= charsTotal - cursor
  /\ printerAt \in {"stop", "print"} /\ localEnd # NullEnd =>
       \E f \in Nat : Printing(f)

RingInv == RingTypeOK /\ Ending /\ (~lapped => InStep)

LEMMA TurnsSum ==
  ASSUME NEW x \in Turns, NEW y \in Turns
  PROVE  x + y \in Turns /\ x - y \in Turns
<1>1. PICK s \in Int : x = RingSize * s BY DEF Turns
<1>2. PICK t \in Int : y = RingSize * t BY DEF Turns
<1>3. RingSize * (s + t) = RingSize * s + RingSize * t
      /\ RingSize * (s - t) = RingSize * s - RingSize * t
  BY RingAssumption
<1>4. s + t \in Int /\ s - t \in Int OBVIOUS
<1> QED BY <1>1, <1>2, <1>3, <1>4 DEF Turns

LEMMA TurnsKnown ==
  /\ Turns \subseteq Int /\ 0 \in Turns /\ RingSize \in Turns
  /\ \A x \in Turns : x >= 0 /\ x < 2 * RingSize => x = 0 \/ x = RingSize
<1>1. RingSize \in Nat \ {0} BY RingAssumption
<1>2. Turns \subseteq Int BY <1>1 DEF Turns
<1>3. RingSize * 0 = 0 /\ RingSize * 1 = RingSize BY <1>1
<1>4. ASSUME NEW x \in Turns, x >= 0, x < 2 * RingSize
      PROVE  x = 0 \/ x = RingSize
  <2>1. PICK t \in Int : x = RingSize * t BY DEF Turns
  <2>2. t < 0 => RingSize * t <= -RingSize BY <1>1
  <2>3. t >= 2 => RingSize * t >= 2 * RingSize BY <1>1
  <2>4. t = 0 \/ t = 1 BY <1>1, <1>4, <2>1, <2>2, <2>3
  <2> QED BY <1>3, <2>1, <2>4
<1>5. 0 \in Turns /\ RingSize \in Turns
  <2>1. RingSize * 0 \in Turns /\ RingSize * 1 \in Turns BY DEF Turns
  <2> QED BY <1>3, <2>1
<1> QED BY <1>2, <1>4, <1>5

\* Whole turns do not change a place.
LEMMA SamePlace ==
  ASSUME NEW x \in Int, NEW y \in Int, x - y \in Turns
  PROVE  Place(x) = Place(y)
<1>1. PICK t \in Int : x - y = RingSize * t BY DEF Turns
<1>2. RingSize \in Nat \ {0} BY RingAssumption
<1>3. (y + RingSize * t) % RingSize = y % RingSize BY <1>2, TurnsRemain
<1>4. x = y + RingSize * t BY <1>1, <1>2
<1> QED BY <1>3, <1>4 DEF Place

LEMMA RingInitInv == RingInit => RingInv
<1> SUFFICES ASSUME RingInit PROVE RingInv OBVIOUS
<1> USE RingAssumption
<1>1. RingTypeOK
  <2>1. 2 * RingSize \in Nat /\ NullEnd \in Nat BY DEF NullEnd
  <2>2. 0 \in 0 .. 2 * RingSize /\ 0 \in 0 .. NullEnd BY <2>1
  <2>3. DOMAIN ring = 0 .. RingSize - 1 BY DEF RingInit
  <2>4. cursor \in 0 .. 2 * RingSize /\ printBufferEnd \in 0 .. NullEnd
        /\ localEnd \in 0 .. NullEnd
    BY <2>2 DEF RingInit
  <2>5. printCursor \in Int /\ printCursor <= 2 * RingSize BY <2>1 DEF RingInit
  <2> QED BY <2>3, <2>4, <2>5 DEF RingInit, RingTypeOK
<1>2. Ending
  <2>1. NullEnd # 0 BY DEF NullEnd
  <2> QED BY <2>1 DEF RingInit, Ending
<1>3. 0 \in Turns
  <2>1. RingSize * 0 = 0 OBVIOUS
  <2> QED BY <2>1 DEF Turns
<1>4. InStep
  <2>1. Flushed = 0 /\ charsTotal - cursor = 0 /\ printedTo - printCursor = 0
        /\ Flushed - printBufferEnd = 0
    BY DEF RingInit, Flushed
  <2>2. EndOf(printBufferEnd, Flushed) BY <1>3, <2>1 DEF RingInit, EndOf
  <2> QED BY <1>3, <2>1, <2>2 DEF RingInit, InStep
<1> QED BY <1>1, <1>2, <1>4 DEF RingInv

\* What is written next to what is there lands in front of it.
LEMMA Rewritten ==
  ASSUME RingInv, ~lapped, NEW n \in Nat, RawWrite(n), charsTotal + n - printedTo < RingSize
  PROVE  \A c \in printedTo + 1 .. charsTotal + n : ring'[Place(c - 1)] = c
<1> SUFFICES ASSUME NEW c \in printedTo + 1 .. charsTotal + n
             PROVE  ring'[Place(c - 1)] = c
  OBVIOUS
<1> USE RingAssumption
<1>1. charsTotal \in Nat /\ printedTo \in Nat /\ cursor \in Nat
      /\ DOMAIN ring = 0 .. RingSize - 1 /\ charsWritten \in Nat
      /\ printedTo <= charsTotal /\ n < RingSize
  <2>1. charsTotal \in Nat /\ printedTo \in Nat /\ cursor \in Nat /\ charsWritten \in Nat
        /\ DOMAIN ring = 0 .. RingSize - 1
    BY DEF RingInv, RingTypeOK
  <2>2. printedTo <= charsTotal - charsWritten BY DEF RingInv, InStep, Flushed
  <2> QED BY <2>1, <2>2
<1>2. charsTotal - cursor \in Turns BY DEF RingInv, InStep
<1>4. c \in Int /\ charsTotal - RingSize < c /\ c <= charsTotal + RingSize BY <1>1
<1>5. PICK d \in 0 .. RingSize - 1 :
        d = IF c > charsTotal THEN c - 1 - charsTotal ELSE c - 1 - charsTotal + RingSize
  <2>1. CASE c > charsTotal
    <3>1. c - 1 - charsTotal \in 0 .. RingSize - 1 BY <1>1, <2>1
    <3> QED BY <2>1, <3>1
  <2>2. CASE ~(c > charsTotal)
    <3>1. c - 1 - charsTotal + RingSize \in 0 .. RingSize - 1 BY <1>1, <1>4, <2>2
    <3> QED BY <2>2, <3>1
  <2> QED BY <2>1, <2>2
<1>7. PICK i \in 0 .. RingSize - 1 : i = Place(c - 1)
  <2>1. c - 1 \in Int BY <1>4
  <2>2. Place(c - 1) \in 0 .. RingSize - 1 BY <2>1 DEF Place
  <2> QED BY <2>2
<1>6. (cursor + d) % RingSize = i
  <2>1. PICK x \in Int : x = cursor + d BY <1>1
  <2>2. PICK y \in Int : y = c - 1 BY <1>4
  <2>3. PICK t \in Turns : t = charsTotal - cursor BY <1>2
  <2>4. t - RingSize \in Turns BY TurnsSum, TurnsKnown
  <2>5. t \in Int BY TurnsKnown
  <2>6. y - x = t \/ y - x = t - RingSize BY <1>1, <1>5, <2>1, <2>2, <2>3, <2>5
  <2>7. y - x \in Turns BY <2>4, <2>6
  <2>8. Place(y) = Place(x) BY <2>7, SamePlace
  <2> QED BY <1>7, <2>1, <2>2, <2>8 DEF Place
<1>3. ASSUME NEW k \in 0 .. RingSize - 1, (cursor + k) % RingSize = i
      PROVE  k = d
  <2>1. PICK x \in Int : x = cursor + k BY <1>1
  <2>2. PICK y \in Int : y = cursor + d BY <1>1
  <2>3. x % RingSize = y % RingSize BY <1>3, <1>6, <2>1, <2>2
  <2>4. x - y < RingSize /\ y - x < RingSize BY <1>1, <2>1, <2>2
  <2>5. RingSize \in Nat \ {0} OBVIOUS
  <2>6. x = y BY <2>3, <2>4, <2>5, RemainderOnce
  <2> QED BY <1>1, <2>1, <2>2, <2>6
<1>11. d = CHOOSE k \in 0 .. RingSize - 1 : (cursor + k) % RingSize = i
  BY <1>3, <1>6
<1>8. ring'[i] = IF d < n THEN charsTotal + d + 1
                          ELSE IF ring[i] > printedTo THEN ring[i] ELSE 0
  BY <1>1, <1>11 DEF RawWrite
<1>9. CASE c > charsTotal
  BY <1>1, <1>5, <1>7, <1>8, <1>9
<1>10. CASE ~(c > charsTotal)
  <2>1. ~(d < n) BY <1>1, <1>5, <1>10
  <2>2. c \in printedTo + 1 .. charsTotal BY <1>1, <1>10
  <2>3. ring[i] = c BY <1>7, <2>2 DEF RingInv, InStep
  <2> QED BY <1>1, <1>7, <1>8, <2>1, <2>2, <2>3
<1> QED BY <1>9, <1>10

\* What the invariant says in numbers, as long as the two are in step.
LEMMA InNumbers ==
  ASSUME RingInv, ~lapped
  PROVE  /\ RingSize \in Nat \ {0} /\ Turns \subseteq Int
         /\ charsTotal \in Nat /\ charsWritten \in Nat /\ printedTo \in Nat
         /\ cursor \in 0 .. 2 * RingSize /\ printCursor \in 0 .. 2 * RingSize - 1
         /\ printBufferEnd \in 0 .. NullEnd /\ localEnd \in 0 .. NullEnd
         /\ NullEnd = 2 * RingSize + 1
         /\ Flushed = charsTotal - charsWritten
         /\ printedTo <= Flushed /\ Flushed <= charsTotal
         /\ charsTotal - printedTo < RingSize
         /\ charsTotal - cursor \in Turns /\ printedTo - printCursor \in Turns
<1>1. RingSize \in Nat \ {0} /\ Turns \subseteq Int BY RingAssumption, TurnsKnown
<1>2. charsTotal \in Nat /\ charsWritten \in Nat /\ printedTo \in Nat
  BY DEF RingInv, RingTypeOK
<1>3. Flushed = charsTotal - charsWritten BY DEF Flushed
<1>4. InStep /\ RingTypeOK BY DEF RingInv
<1>5. Flushed <= charsTotal BY <1>2, <1>3
<1>6. printCursor \in 0 .. 2 * RingSize - 1
  <2>1. printCursor \in Int /\ printCursor >= 0 /\ printCursor < 2 * RingSize
    BY <1>4 DEF InStep, RingTypeOK
  <2> QED BY <1>1, <2>1
<1> QED BY <1>1, <1>2, <1>3, <1>4, <1>5, <1>6 DEF InStep, RingTypeOK, NullEnd

\* An end stands as it stood when the writer has gone on.
LEMMA EndStands ==
  ASSUME RingInv, ~lapped, NEW e \in 0 .. NullEnd, NEW f \in Nat, EndOf(e, f),
         UNCHANGED <<printedTo, printCursor>>, Flushed' \in Int, Flushed <= Flushed',
         \A c \in newlineChars : c > printedTo => c \in newlineChars'
  PROVE  EndOf(e, f)'
<1>1. printedTo \in Nat /\ Flushed \in Int BY InNumbers DEF Flushed
<1>2. f <= Flushed /\ f >= printedTo BY DEF EndOf
<1>3. f = printedTo \/ f \in newlineChars' BY <1>1, <1>2 DEF EndOf
<1>4. PICK g \in Int : g = Flushed BY <1>1
<1>5. f <= Flushed' BY <1>2, <1>4
<1> QED BY <1>2, <1>3, <1>5 DEF EndOf

\* After a raw write of n characters: the cursor is moved, or wrapped; they are
\* counted, or an end is stored behind them.
CursorMoved(n) ==
  \E c \in Nat : c = cursor + n /\ (cursor' = c \/ (c >= RingSize /\ cursor' = c - RingSize))

Counted(n) == charsWritten' = charsWritten + n /\ UNCHANGED <<printBufferEnd, newlineChars>>

EndStored(n) ==
  /\ charsWritten' = 0 /\ printBufferEnd' = cursor + n
  /\ cursor + n < 2 * RingSize /\ charsTotal - cursor <= printedTo
  /\ newlineChars' = {c \in newlineChars : c > printedTo} \union {charsTotal + n}

LEMMA WriterKeeps ==
  ASSUME RingInv, ~lapped, ~lapped', NEW n \in Nat, RawWrite(n), n > 0,
         closing = "open",
         charsTotal + n - printedTo < RingSize,
         UNCHANGED ringPrinterVars,
         CursorMoved(n), Counted(n) \/ EndStored(n)
  PROVE  InStep'
<1>a. PICK tot \in Nat : tot = charsTotal + n BY InNumbers
<1>1. charsTotal' = tot BY <1>a DEF RawWrite
<1>12. UNCHANGED <<printedTo, printCursor, localEnd, printerAt>> BY DEF ringPrinterVars
<1>2. /\ Flushed' \in Int
      /\ Flushed <= Flushed' /\ Flushed' <= tot
      /\ (EndStored(n) /\ Flushed' = tot) \/ (Counted(n) /\ Flushed' = Flushed)
  <2>2. charsWritten \in Nat /\ Flushed = charsTotal - charsWritten /\ charsTotal \in Nat
    BY InNumbers
  <2>3. CASE EndStored(n)
    <3>1. PICK w \in Nat : w = charsWritten' /\ w = 0 BY <2>3 DEF EndStored
    <3>2. Flushed' = tot - w BY <1>1, <3>1 DEF Flushed
    <3> QED BY <1>a, <2>2, <2>3, <3>1, <3>2
  <2>4. CASE Counted(n)
    <3>1. PICK w \in Nat : w = charsWritten' /\ w = charsWritten + n BY <2>2, <2>4 DEF Counted
    <3>2. Flushed' = tot - w BY <1>1, <3>1 DEF Flushed
    <3>3. Flushed = tot - w BY <1>a, <2>2, <3>1
    <3> QED BY <1>a, <2>2, <2>4, <3>2, <3>3
  <2> QED BY <2>3, <2>4
<1>b. PICK fl \in Int : fl = Flushed' BY <1>2
<1>3. charsTotal' - cursor' \in Turns /\ charsTotal - cursor <= charsTotal' - cursor'
  <2>1. PICK b \in Turns : b = charsTotal - cursor BY InNumbers
  <2>2. b \in Int /\ b + RingSize \in Turns BY TurnsKnown, TurnsSum
  <2>3. PICK cu \in Int : cu = cursor' /\ (cu = cursor + n \/ cu = cursor + n - RingSize)
    <3>1. PICK c \in Nat : c = cursor + n /\ (cursor' = c \/ cursor' = c - RingSize)
      BY DEF CursorMoved
    <3>2. PICK d \in Int : d = c - RingSize BY RingAssumption
    <3>3. cursor' = c \/ cursor' = d BY <3>1, <3>2
    <3>5. c = cursor + n BY <3>1
    <3>6. cursor \in Int /\ RingSize \in Int BY InNumbers
    <3>4. d = cursor + n - RingSize BY <3>2, <3>5, <3>6
    <3> QED BY <3>1, <3>3, <3>4
  <2>4. tot - cu = b \/ tot - cu = b + RingSize
    BY <1>a, <2>1, <2>2, <2>3, InNumbers
  <2>5. tot - cu \in Turns /\ b <= tot - cu BY <2>1, <2>2, <2>4, RingAssumption
  <2> QED BY <1>1, <2>1, <2>3, <2>5
<1>4. \A c \in newlineChars : c > printedTo => c \in newlineChars'
  BY DEF Counted, EndStored
<1>5. ASSUME NEW e \in 0 .. NullEnd, NEW f \in Nat, EndOf(e, f) PROVE EndOf(e, f)'
  BY <1>2, <1>4, <1>5, <1>12, EndStands
<1>6. \A c \in printedTo' + 1 .. charsTotal' : ring'[Place(c - 1)] = c
  BY <1>1, <1>12, <1>a, Rewritten
<1>13. PICK b \in Turns : b = charsTotal - cursor BY InNumbers
<1>14. PICK b2 \in Turns : b2 = charsTotal' - cursor' BY <1>3
<1>15. b \in Int /\ b2 \in Int /\ b <= b2 BY <1>3, <1>13, <1>14, TurnsKnown
<1>16. printBufferEnd # NullEnd /\ EndOf(printBufferEnd, Flushed)
       /\ Flushed - printBufferEnd <= b
  BY <1>13 DEF RingInv, InStep, Ending
<1>7. printBufferEnd' # NullEnd =>
        EndOf(printBufferEnd, Flushed)' /\ Flushed' - printBufferEnd' <= b2
  <2>1. CASE EndStored(n) /\ Flushed' = tot
    <3>1. PICK e \in Int : e = printBufferEnd' /\ e = cursor + n
      BY <2>1, InNumbers DEF EndStored
    <3>2. e < 2 * RingSize BY <2>1, <3>1 DEF EndStored
    <3>3. b <= printedTo BY <1>13, <2>1 DEF EndStored
    <3>4. printedTo - printCursor <= b BY <1>13, <1>16, InNumbers DEF EndOf
    <3>5. tot >= printedTo BY <1>a, InNumbers
    <3>6. tot \in newlineChars' BY <1>a, <2>1 DEF EndStored
    <3>8. tot - e = b BY <1>a, <1>13, <3>1, InNumbers
    <3>7. EndOf(printBufferEnd, Flushed)'
      BY <1>2, <1>12, <2>1, <3>1, <3>2, <3>3, <3>4, <3>5, <3>6, <3>8 DEF EndOf
    <3> QED BY <1>15, <2>1, <3>1, <3>7, <3>8
  <2>2. CASE Counted(n) /\ Flushed' = Flushed
    <3>1. printBufferEnd' = printBufferEnd /\ Flushed' = Flushed BY <2>2 DEF Counted
    <3>2. SUFFICES ASSUME printBufferEnd # NullEnd
                   PROVE  EndOf(printBufferEnd, Flushed)' /\ Flushed' - printBufferEnd' <= b2
      BY <3>1
    <3>3. EndOf(printBufferEnd, Flushed) /\ Flushed - printBufferEnd <= b
      BY <1>16
    <3>4. PICK e \in 0 .. NullEnd : e = printBufferEnd BY InNumbers
    <3>5. PICK f \in Nat : f = Flushed BY InNumbers
    <3>6. EndOf(e, f)' BY <1>5, <3>3, <3>4, <3>5
    <3>7. EndOf(printBufferEnd, Flushed)' BY <3>1, <3>4, <3>5, <3>6 DEF EndOf
    <3>8. Flushed - printBufferEnd \in Int BY <3>4, <3>5, InNumbers
    <3> QED BY <1>15, <3>1, <3>3, <3>7, <3>8
  <2> QED BY <1>2, <2>1, <2>2
<1>8. ASSUME printerAt' \in {"stop", "print"}, localEnd' # NullEnd
      PROVE  \E f \in Nat : Printing(f)'
  <2>1. PICK f \in Nat : Printing(f)
    BY <1>8, <1>12 DEF RingInv, InStep
  <2>0. printBufferEnd # NullEnd BY <1>16
  <2>6. f - localEnd <= Flushed - printBufferEnd BY <2>0, <2>1 DEF Printing
  <2>2. PICK e \in 0 .. NullEnd : e = localEnd BY InNumbers
  <2>7. EndOf(e, f) BY <2>1, <2>2 DEF Printing
  <2>3. EndOf(e, f)' BY <1>5, <2>7
  <2>4. EndOf(localEnd, f)' BY <1>12, <2>2, <2>3 DEF EndOf
  <2>5. ASSUME printBufferEnd' # NullEnd PROVE f - localEnd' <= Flushed' - printBufferEnd'
    <3>1. CASE Counted(n) /\ Flushed' = Flushed
      <4>1. printBufferEnd' = printBufferEnd /\ Flushed' = Flushed BY <3>1 DEF Counted
      <4> QED BY <1>12, <2>6, <4>1
    <3>2. CASE EndStored(n) /\ Flushed' = tot
      <4>1. PICK d \in Int : d = printBufferEnd' /\ d = cursor + n
        BY <3>2, InNumbers DEF EndStored
      <4>2. tot - d = b BY <1>a, <1>13, <4>1, InNumbers
      <4>3. f - localEnd <= b BY <1>15, <1>16, <2>6, InNumbers
      <4> QED BY <1>12, <3>2, <4>1, <4>2, <4>3
    <3> QED BY <1>2, <3>1, <3>2
  <2> QED BY <2>4, <2>5 DEF Printing
<1>9. printedTo' <= Flushed'
  BY <1>2, InNumbers DEF ringPrinterVars
<1>10. ~misprinted' /\ printedTo' - printCursor' \in Turns
       /\ printCursor' >= 0 /\ printCursor' < 2 * RingSize
  BY DEF RingInv, InStep, ringPrinterVars
<1>11. charsTotal' - printedTo' < RingSize
  <2>1. PICK p \in Nat : p = printedTo BY InNumbers
  <2>2. printedTo' = p BY <1>12, <2>1
  <2>3. tot - p < RingSize BY <1>a, <2>1, InNumbers
  <2> QED BY <1>1, <2>2, <2>3
<1> QED BY <1>3, <1>6, <1>7, <1>8, <1>9, <1>10, <1>11, <1>14 DEF InStep

\* So is the rest of the invariant.
LEMMA WriterTypes ==
  ASSUME RingInv, NEW n \in Nat, RawWrite(n), n > 0, closing = "open",
         UNCHANGED <<threadStop, ringPrinterVars>>,
         closing' \in {"open", "flushed"}, lapped' \in BOOLEAN,
         CursorMoved(n), Counted(n) \/ (charsWritten' = 0 /\ printBufferEnd' = cursor + n
            /\ newlineChars' = {c \in newlineChars : c > printedTo} \union {charsTotal + n})
  PROVE  RingTypeOK' /\ Ending'
<1>1. RingTypeOK /\ Ending BY DEF RingInv
<1>2. RingSize \in Nat \ {0} /\ NullEnd = 2 * RingSize + 1 BY RingAssumption DEF NullEnd
<1>3. cursor \in Nat /\ charsTotal \in Nat /\ charsWritten \in Nat
      /\ printBufferEnd \in 0 .. NullEnd /\ newlineChars \subseteq Nat
  BY <1>1 DEF RingTypeOK
<1>4. cursor + n \in 0 .. 2 * RingSize BY <1>2, <1>3 DEF RawWrite
<1>5. PICK c \in 0 .. 2 * RingSize : c = cursor + n BY <1>4
<1>6. PICK tot \in Nat : tot = charsTotal + n BY <1>3
<1>7. charsTotal' = tot /\ DOMAIN ring' = 0 .. RingSize - 1
  BY <1>1, <1>6 DEF RawWrite, RingTypeOK
<1>8. cursor' \in 0 .. 2 * RingSize
  <2>1. c >= RingSize => c - RingSize \in 0 .. 2 * RingSize BY <1>2
  <2>2. cursor' = c \/ (c >= RingSize /\ cursor' = c - RingSize) BY <1>5 DEF CursorMoved
  <2> QED BY <2>1, <2>2
<1>9. printBufferEnd' \in 0 .. NullEnd /\ printBufferEnd' # NullEnd
  BY <1>1, <1>2, <1>3, <1>5 DEF Counted, Ending
<1>10. charsWritten' \in Nat BY <1>3 DEF Counted
<1>11. newlineChars' \subseteq Nat BY <1>3, <1>6 DEF Counted
<1>12. RingTypeOK'
  BY <1>1, <1>2, <1>7, <1>8, <1>9, <1>10, <1>11 DEF RingTypeOK, ringPrinterVars, NullEnd
<1>13. Ending'
  BY <1>1, <1>9 DEF Ending, ringPrinterVars, NullEnd
<1> QED BY <1>12, <1>13

LEMMA FlushKeeps ==
  ASSUME RingInv, NEW n \in Nat, FlushAfter(n), closing = "open",
         closing' \in {"open", "flushed"}, UNCHANGED <<threadStop, ringPrinterVars>>,
         cursor' = cursor + n + 1 \/ cursor' = Wrapped(cursor + n + 1)
  PROVE  RingInv'
<1>1. PICK m \in Nat : m = n + 1 /\ m > 0 OBVIOUS
<1>2. cursor \in Nat /\ charsTotal \in Nat /\ printedTo \in Nat /\ RingSize \in Nat
  BY RingAssumption DEF RingInv, RingTypeOK
<1>3. RawWrite(m) /\ ~lapped BY <1>1 DEF FlushAfter, RawWrite
<1>4. cursor + n + 1 = cursor + m /\ charsTotal + n + 1 = charsTotal + m
      /\ Waiting(n + 1) = charsTotal + m - printedTo
  BY <1>1, <1>2 DEF Waiting
<1>5. CursorMoved(m)
  <2>1. PICK c \in Nat : c = cursor + m BY <1>2
  <2>2. cursor' = c \/ cursor' = Wrapped(c) BY <1>4, <2>1
  <2> QED BY <2>1, <2>2 DEF CursorMoved, Wrapped
<1>6. charsWritten' = 0 /\ printBufferEnd' = cursor + m
      /\ newlineChars' = {c \in newlineChars : c > printedTo} \union {charsTotal + m}
  BY <1>4 DEF FlushAfter
<1>7. lapped' = LeftBehind(cursor + m, charsTotal + m - printedTo)
  BY <1>4 DEF FlushAfter
<1>8. RingTypeOK' /\ Ending'
  BY <1>1, <1>3, <1>5, <1>6, <1>7, WriterTypes DEF LeftBehind
<1>9. ASSUME ~lapped' PROVE InStep'
  <2>1. ~LeftBehind(cursor + m, charsTotal + m - printedTo) BY <1>7, <1>9
  <2>2. charsTotal + m - printedTo < RingSize BY <1>2, <2>1 DEF LeftBehind
  <2>3. cursor + m < 2 * RingSize BY <1>2, <1>3, <2>1 DEF LeftBehind, RawWrite
  <2>4. charsTotal - cursor <= printedTo BY <1>2, <2>1 DEF LeftBehind
  <2>5. EndStored(m) BY <1>6, <2>3, <2>4 DEF EndStored
  <2> QED BY <1>1, <1>3, <1>5, <1>9, <2>2, <2>5, WriterKeeps
<1> QED BY <1>8, <1>9 DEF RingInv

LEMMA WriteStringKeeps ==
  ASSUME RingInv, NEW n \in WriteLengths, WriteString(n)
  PROVE  RingInv'
<1>1. n \in Nat /\ n > 0 BY RingAssumption
<1>2. closing = "open" /\ UNCHANGED <<closing, threadStop, ringPrinterVars>> BY DEF WriteString
<1>3. CASE FlushAfter(n) /\ cursor' = Wrapped(cursor + n + 1)
  BY <1>1, <1>2, <1>3, FlushKeeps
<1>4. CASE /\ RawWrite(n) /\ charsWritten' = charsWritten + n
           /\ cursor' = Wrapped(cursor + n) /\ lapped' = (Waiting(n) >= RingSize)
           /\ UNCHANGED <<newlineChars, printBufferEnd>>
  <2>1. CursorMoved(n)
    <3>1. cursor \in Nat BY RingAssumption DEF RingInv, RingTypeOK
    <3>2. PICK c \in Nat : c = cursor + n BY <1>1, <3>1
    <3>3. cursor' = Wrapped(c) BY <1>4, <3>2
    <3> QED BY <3>2, <3>3 DEF CursorMoved, Wrapped
  <2>2. Counted(n) BY <1>4 DEF Counted
  <2>3. ~lapped BY <1>4 DEF RawWrite
  <2>4. lapped' \in BOOLEAN BY <1>4
  <2>5. RingTypeOK' /\ Ending' BY <1>1, <1>2, <1>4, <2>1, <2>2, <2>4, WriterTypes
  <2>6. ASSUME ~lapped' PROVE InStep'
    <3>1. charsTotal + n - printedTo < RingSize
      <4>1. ~(Waiting(n) >= RingSize) BY <1>4, <2>6
      <4>2. charsTotal + n - printedTo \in Int BY <1>1 DEF RingInv, RingTypeOK
      <4> QED BY <4>1, <4>2, RingAssumption DEF Waiting
    <3> QED BY <1>1, <1>2, <1>4, <2>1, <2>2, <2>3, <2>6, <3>1, WriterKeeps
  <2> QED BY <2>5, <2>6 DEF RingInv
<1> QED BY <1>3, <1>4 DEF WriteString

LEMMA WriteIntegerKeeps ==
  ASSUME RingInv, NEW n \in WriteLengths, WriteInteger(n)
  PROVE  RingInv'
<1>1. CASE WriteString(n) BY <1>1, WriteStringKeeps
<1>2. CASE /\ closing = "open" /\ closing' = "aborted"
           /\ UNCHANGED <<ring, charsTotal, charsWritten, cursor, printBufferEnd, threadStop,
                          newlineChars, lapped, ringPrinterVars>>
  <2>1. RingTypeOK' /\ Ending'
    BY <1>2 DEF RingInv, RingTypeOK, Ending, ringPrinterVars, NullEnd
  <2>2. InStep => InStep'
    BY <1>2 DEF InStep, EndOf, Printing, Flushed, ringPrinterVars, NullEnd
  <2> QED BY <1>2, <2>1, <2>2 DEF RingInv
<1> QED BY <1>1, <1>2 DEF WriteInteger

LEMMA RingNewlineKeeps ==
  ASSUME RingInv, RingNewline
  PROVE  RingInv'
<1>1. FlushAfter(0) /\ cursor' = cursor + 1 /\ closing = "open" /\ closing' = "open"
      /\ UNCHANGED <<threadStop, ringPrinterVars>>
  BY DEF RingNewline
<1>2. cursor + 0 + 1 = cursor + 1 BY DEF RingInv, RingTypeOK
<1> QED BY <1>1, <1>2, FlushKeeps

LEMMA CloseLogKeeps ==
  ASSUME RingInv, CloseLog
  PROVE  RingInv'
<1>0. UNCHANGED <<threadStop, ringPrinterVars>> /\ closing = "open" BY DEF CloseLog
<1>1. CASE FlushAfter(0) /\ cursor' = cursor + 1 /\ closing' = "flushed"
  <2>1. cursor + 0 + 1 = cursor + 1 BY DEF RingInv, RingTypeOK
  <2> QED BY <1>0, <1>1, <2>1, FlushKeeps
<1>2. CASE /\ printBufferEnd' = NullEnd /\ closing' = "cleared"
           /\ UNCHANGED <<ring, charsTotal, charsWritten, cursor, newlineChars, lapped>>
  <2>1. NullEnd \in 0 .. NullEnd BY RingAssumption DEF NullEnd
  <2>2. RingTypeOK' /\ Ending'
    BY <1>0, <1>2, <2>1 DEF RingInv, RingTypeOK, Ending, ringPrinterVars, NullEnd
  <2>3. InStep => InStep'
    BY <1>0, <1>2 DEF InStep, EndOf, Printing, Flushed, ringPrinterVars, NullEnd
  <2> QED BY <1>2, <2>2, <2>3 DEF RingInv
<1> QED BY <1>1, <1>2 DEF CloseLog

LEMMA StopThreadKeeps ==
  ASSUME RingInv, StopThread
  PROVE  RingInv'
<1>1. RingTypeOK' /\ Ending'
  BY DEF StopThread, RingInv, RingTypeOK, Ending, ringPrinterVars, NullEnd
<1>2. InStep => InStep'
  BY DEF StopThread, InStep, EndOf, Printing, Flushed, ringPrinterVars, NullEnd
<1> QED BY <1>1, <1>2 DEF RingInv, StopThread

LEMMA AwaitEndKeeps ==
  ASSUME RingInv, AwaitEnd
  PROVE  RingInv'
<1>1. RingTypeOK' /\ Ending'
  BY DEF AwaitEnd, RingInv, RingTypeOK, Ending, ringWriterVars, NullEnd
<1>2. ASSUME ~lapped PROVE InStep'
  <2>1. InStep BY <1>2 DEF RingInv
  <2>2. printBufferEnd # NullEnd => Printing(Flushed)'
    <3>1. SUFFICES ASSUME printBufferEnd # NullEnd PROVE Printing(Flushed)' OBVIOUS
    <3>2. EndOf(printBufferEnd, Flushed) BY <2>1, <3>1 DEF InStep
    <3>3. localEnd' = printBufferEnd /\ Flushed' = Flushed /\ printBufferEnd' = printBufferEnd
      BY DEF AwaitEnd, ringWriterVars, Flushed
    <3>4. EndOf(localEnd, Flushed)'
      BY <3>2, <3>3 DEF AwaitEnd, ringWriterVars, EndOf, Flushed
    <3>5. Flushed - printBufferEnd \in Int BY <1>2, InNumbers
    <3> QED BY <3>3, <3>4, <3>5 DEF Printing
  <2>3. Flushed' \in Nat BY <1>2, InNumbers DEF AwaitEnd, ringWriterVars, Flushed
  <2> QED BY <2>1, <2>2, <2>3
       DEF AwaitEnd, InStep, EndOf, Flushed, ringWriterVars, NullEnd
<1> QED BY <1>1, <1>2 DEF RingInv, AwaitEnd, ringWriterVars

LEMMA ReadStopRequestKeeps ==
  ASSUME RingInv, ReadStopRequest
  PROVE  RingInv'
<1>1. RingTypeOK' /\ Ending'
  BY DEF ReadStopRequest, RingInv, RingTypeOK, Ending, ringWriterVars, NullEnd
<1>2. InStep => InStep'
  BY DEF ReadStopRequest, InStep, EndOf, Printing, Flushed, ringWriterVars, NullEnd
<1> QED BY <1>1, <1>2 DEF RingInv, ReadStopRequest, ringWriterVars

\* Where the thread prints from, and how much, when the two are in step.
LEMMA PrintsFrom ==
  ASSUME RingInv, ~lapped, localEnd # NullEnd, NEW f \in Nat, Printing(f),
         NEW from \in Int,
         from = IF localEnd < printCursor THEN printCursor - RingSize ELSE printCursor
  PROVE  /\ from >= 0 /\ localEnd - from = f - printedTo
         /\ printedTo - from = f - localEnd
<1>1. PICK b \in Turns : b = f - localEnd BY DEF Printing, EndOf
<1>2. PICK p \in Turns : p = printedTo - printCursor BY InNumbers
<1>3. b \in Int /\ p \in Int /\ b - p \in Turns BY TurnsKnown, TurnsSum
<1>4. p <= b /\ b <= printedTo /\ f >= printedTo /\ f <= Flushed
  BY <1>1, <1>2 DEF Printing, EndOf
<1>5. PICK x \in Turns : x = b - p BY <1>3
<1>6. x >= 0 /\ x < 2 * RingSize BY <1>2, <1>3, <1>4, <1>5, InNumbers
<1>7. x = 0 \/ x = RingSize BY <1>6, TurnsKnown
<1>8. f - printedTo < RingSize BY <1>4, InNumbers
<1>9. ASSUME x = 0 PROVE printedTo - from = b
  <2>4. printCursor = printedTo - p /\ localEnd = f - b BY <1>1, <1>2, <1>3, InNumbers
  <2>1. localEnd >= printCursor BY <1>3, <1>4, <1>5, <1>9, <2>4, InNumbers
  <2>2. from = printCursor BY <2>1, InNumbers
  <2>3. b = p BY <1>3, <1>5, <1>9
  <2> QED BY <1>2, <2>2, <2>3
<1>10. ASSUME x = RingSize PROVE printedTo - from = b
  <2>1. localEnd < printCursor BY <1>1, <1>2, <1>3, <1>5, <1>8, <1>10, InNumbers
  <2>2. from = printCursor - RingSize BY <2>1
  <2> QED BY <1>2, <1>3, <1>5, <1>10, <2>2, InNumbers
<1>11. printedTo - from = b BY <1>7, <1>9, <1>10
<1>12. from = printedTo - b BY <1>3, <1>11, InNumbers
<1>13. localEnd = f - b BY <1>1, <1>3, InNumbers
<1>14. localEnd - from = f - printedTo BY <1>3, <1>12, <1>13, InNumbers
<1>15. from >= 0 BY <1>3, <1>4, <1>12, InNumbers
<1> QED BY <1>1, <1>11, <1>14, <1>15

\* The two are in step when g of the characters up to the end are got past.
LEMMA PrintedKeeps ==
  ASSUME RingInv, ~lapped, localEnd # NullEnd, NEW f \in Nat, Printing(f),
         NEW from \in Int,
         from = IF localEnd < printCursor THEN printCursor - RingSize ELSE printCursor,
         NEW g \in 0 .. localEnd - from,
         printCursor' = from + g, printedTo' = printedTo + g,
         misprinted' = FALSE, printerAt' \in {"wait", "ended"}, UNCHANGED ringWriterVars
  PROVE  InStep'
<1>1. from >= 0 /\ localEnd - from = f - printedTo /\ printedTo - from = f - localEnd
  BY PrintsFrom
<1>2. PICK b \in Turns : b = f - localEnd BY DEF Printing, EndOf
<1>3. b \in Int BY TurnsKnown
<1>4. PICK pc \in Nat : pc = from + g BY <1>1
<1>5. PICK pt \in Nat : pt = printedTo + g BY InNumbers
<1>6. printCursor' = pc /\ printedTo' = pt BY <1>4, <1>5
<1>7. InStep BY DEF RingInv
<1>8. b <= printedTo /\ f >= printedTo /\ f <= Flushed /\ localEnd < 2 * RingSize
  BY <1>2 DEF Printing, EndOf
<1>9. pt <= f /\ printedTo <= pt BY <1>1, <1>5, InNumbers
<1>10. pt - pc = b BY <1>1, <1>2, <1>3, <1>4, <1>5, InNumbers
<1>11. pc < 2 * RingSize
  <2>1. pc <= localEnd BY <1>4, InNumbers
  <2> QED BY <1>8, <2>1, <1>4, InNumbers
<1>12. charsTotal - pt < RingSize BY <1>9, InNumbers
<1>13. \A c \in pt + 1 .. charsTotal : ring[Place(c - 1)] = c
  <2>1. SUFFICES ASSUME NEW c \in pt + 1 .. charsTotal PROVE c \in printedTo + 1 .. charsTotal
    BY <1>7 DEF InStep
  <2> QED BY <1>9, InNumbers
<1>14. Flushed' = Flushed /\ pt <= Flushed BY <1>8, <1>9, InNumbers DEF ringWriterVars, Flushed
<1>15. ASSUME printBufferEnd # NullEnd
       PROVE  EndOf(printBufferEnd, Flushed)'
  <2>1. EndOf(printBufferEnd, Flushed) BY <1>7, <1>15 DEF InStep
  <2>2. b <= Flushed - printBufferEnd BY <1>2, <1>15 DEF Printing
  <2>3. Flushed - printBufferEnd <= pt
    <3>1. Flushed - printBufferEnd <= printedTo BY <2>1 DEF EndOf
    <3> QED BY <1>9, <3>1, InNumbers
  <2>4. Flushed = pt \/ Flushed \in newlineChars
    <3>1. Flushed = printedTo \/ Flushed \in newlineChars BY <2>1 DEF EndOf
    <3>2. Flushed \in Int /\ printedTo \in Int BY InNumbers
    <3>3. Flushed = printedTo => Flushed = pt BY <1>8, <1>9, <3>2
    <3> QED BY <3>1, <3>3
  <2>5. printedTo' - printCursor' <= Flushed - printBufferEnd BY <1>6, <1>10, <2>2
  <2>6. UNCHANGED <<printBufferEnd, newlineChars>> BY DEF ringWriterVars
  <2> QED BY <1>6, <1>14, <2>1, <2>3, <2>4, <2>5, <2>6 DEF EndOf
<1>16. printedTo' - printCursor' \in Turns /\ printCursor' >= 0 /\ printCursor' < 2 * RingSize
  BY <1>6, <1>10, <1>11
<1>17. charsTotal' - printedTo' < RingSize /\ printedTo' <= Flushed'
       /\ \A c \in printedTo' + 1 .. charsTotal' : ring'[Place(c - 1)] = c
  BY <1>6, <1>12, <1>13, <1>14 DEF ringWriterVars
<1>18. printBufferEnd' # NullEnd =>
         EndOf(printBufferEnd, Flushed)' /\ Flushed' - printBufferEnd' <= charsTotal' - cursor'
  BY <1>7, <1>14, <1>15 DEF ringWriterVars, InStep
<1>19. charsTotal' - cursor' \in Turns BY InNumbers DEF ringWriterVars
<1> QED BY <1>16, <1>17, <1>18, <1>19 DEF InStep

LEMMA PrintToKeeps ==
  ASSUME RingInv, PrintTo
  PROVE  RingInv'
<1> DEFINE fr == IF localEnd < printCursor THEN printCursor - RingSize ELSE printCursor
<1>1. RingTypeOK /\ Ending /\ printerAt = "print" /\ localEnd # NullEnd
  BY DEF RingInv, Ending, PrintTo
<1>2. RingSize \in Nat \ {0} /\ NullEnd = 2 * RingSize + 1 BY RingAssumption DEF NullEnd
<1>3. localEnd \in 0 .. 2 * RingSize /\ printCursor \in Int /\ printCursor <= 2 * RingSize
      /\ printedTo \in Nat
  BY <1>1, <1>2 DEF RingTypeOK
<1>4. PICK from \in Int : from = fr BY <1>2, <1>3
<1>5. PICK total \in Int : total = localEnd - from BY <1>3
<1>6. from <= 2 * RingSize BY <1>2, <1>3, <1>4
<1> DEFINE got(k)   == IF k + 1 = total THEN total ELSE k
           wrong(k) == \/ \E i \in 1 .. k : ring[(from + i - 1) % RingSize] # printedTo + i
                       \/ k + 1 = total /\ printedTo + total \notin newlineChars
           Failed   == (from < 0 \/ total < 0) /\ misprinted' = TRUE
                       /\ printCursor' = from /\ UNCHANGED printedTo
           Idle     == total = 0 /\ printCursor' = from /\ UNCHANGED <<misprinted, printedTo>>
           Prints(k) == /\ k \in {total \div 2, total - 1}
                        /\ from >= 0 /\ total > 0
                        /\ misprinted' = (misprinted \/ wrong(k))
                        /\ printCursor' = from + got(k)
                        /\ printedTo' = printedTo + got(k)
<1>7. Failed \/ Idle \/ \E k \in {total \div 2, total - 1} : Prints(k)
  BY <1>4, <1>5 DEF PrintTo
<1>8. printerAt' \in {"wait", "ended"} /\ UNCHANGED <<localEnd, shouldStop, ringWriterVars>>
  BY DEF PrintTo
<1>9. ASSUME NEW k \in {total \div 2, total - 1}, Prints(k)
      PROVE  k \in Nat /\ got(k) \in 0 .. total /\ k \in 0 .. total - 1
  <2>1. total > 0 BY <1>9
  <2>2. k \in 0 .. total - 1 BY <2>1
  <2> QED BY <2>1, <2>2
<1> HIDE DEF got, wrong
<1>10. /\ printCursor' \in Int /\ printCursor' <= 2 * RingSize /\ printedTo' \in Nat
       /\ misprinted' \in BOOLEAN
  <2>1. CASE Failed BY <1>3, <1>6, <2>1
  <2>2. CASE Idle BY <1>1, <1>3, <1>6, <2>2 DEF RingTypeOK
  <2>3. ASSUME NEW k \in {total \div 2, total - 1}, Prints(k)
        PROVE  /\ printCursor' \in Int /\ printCursor' <= 2 * RingSize /\ printedTo' \in Nat
               /\ misprinted' \in BOOLEAN
    <3>1. PICK g \in 0 .. total : g = got(k) BY <1>9, <2>3
    <3>2. from + g \in Int /\ from + g <= 2 * RingSize /\ printedTo + g \in Nat
      BY <1>2, <1>3, <1>5
    <3> QED BY <2>3, <3>1, <3>2
  <2> QED BY <1>7, <2>1, <2>2, <2>3
<1>11. RingTypeOK' /\ Ending'
  BY <1>1, <1>8, <1>10 DEF RingTypeOK, Ending, ringWriterVars, NullEnd
<1>12. ASSUME ~lapped PROVE InStep'
  <2>1. InStep BY <1>12 DEF RingInv
  <2>2. PICK f \in Nat : Printing(f) BY <1>1, <2>1 DEF InStep
  <2>3. from >= 0 /\ total = f - printedTo /\ printedTo - from = f - localEnd
    BY <1>1, <1>4, <1>5, <1>12, <2>2, PrintsFrom
  <2>4. f >= printedTo /\ f <= Flushed BY <2>2 DEF Printing, EndOf
  <2>5. ~misprinted BY <2>1 DEF InStep
  <2>6. ASSUME NEW g \in 0 .. total, printCursor' = from + g, printedTo' = printedTo + g,
               ~misprinted'
        PROVE  InStep'
    BY <1>1, <1>4, <1>5, <1>8, <1>10, <1>12, <2>2, <2>6, PrintedKeeps
  <2>7. CASE Failed BY <1>3, <2>3, <2>4, <2>7
  <2>8. CASE Idle
    <3>1. 0 \in 0 .. total /\ from = from + 0 /\ printedTo = printedTo + 0 BY <1>3, <2>8
    <3> QED BY <2>5, <2>6, <2>8, <3>1
  <2>9. ASSUME NEW k \in {total \div 2, total - 1}, Prints(k) PROVE InStep'
    <3>1. k \in 0 .. total - 1 /\ total > 0 BY <1>9, <2>9
    <3>2. ~wrong(k)
      <4>1. ASSUME NEW i \in 1 .. k PROVE ring[(from + i - 1) % RingSize] = printedTo + i
        <5>1. PICK x \in Int : x = from + i - 1 OBVIOUS
        <5>2. PICK y \in Int : y = printedTo + i - 1 BY <1>3
        <5>3. y - x = f - localEnd BY <1>3, <2>3, <5>1, <5>2
        <5>4. y - x \in Turns BY <2>2, <5>3 DEF Printing, EndOf
        <5>5. Place(y) = Place(x) BY <5>4, SamePlace
        <5>6. PICK c \in printedTo + 1 .. charsTotal : c = printedTo + i
          BY <1>3, <1>12, <2>3, <2>4, <3>1, InNumbers
        <5>7. ring[Place(c - 1)] = c BY <2>1 DEF InStep
        <5>8. c - 1 = y BY <1>3, <5>2, <5>6
        <5> QED BY <5>1, <5>5, <5>6, <5>7, <5>8 DEF Place
      <4>2. ASSUME k + 1 = total PROVE printedTo + total \in newlineChars
        <5>1. printedTo + total = f /\ f # printedTo BY <1>3, <2>3, <3>1
        <5> QED BY <2>2, <5>1 DEF Printing, EndOf
      <4> QED BY <4>1, <4>2 DEF wrong
    <3>3. ~misprinted' BY <2>5, <2>9, <3>2
    <3> QED BY <1>9, <2>6, <2>9, <3>3
  <2> QED BY <1>7, <2>7, <2>8, <2>9
<1>13. lapped' = lapped BY <1>8 DEF ringWriterVars
<1> QED BY <1>11, <1>12, <1>13 DEF RingInv

LEMMA RingStep == RingInv /\ [RingNext]_ringVars => RingInv'
<1> SUFFICES ASSUME RingInv, [RingNext]_ringVars PROVE RingInv' OBVIOUS
<1>1. ASSUME NEW n \in WriteLengths, WriteString(n) PROVE RingInv' BY <1>1, WriteStringKeeps
<1>2. ASSUME NEW n \in WriteLengths, WriteInteger(n) PROVE RingInv' BY <1>2, WriteIntegerKeeps
<1>3. CASE RingNewline BY <1>3, RingNewlineKeeps
<1>4. CASE CloseLog BY <1>4, CloseLogKeeps
<1>5. CASE StopThread BY <1>5, StopThreadKeeps
<1>6. CASE AwaitEnd BY <1>6, AwaitEndKeeps
<1>7. CASE ReadStopRequest BY <1>7, ReadStopRequestKeeps
<1>8. CASE PrintTo BY <1>8, PrintToKeeps
<1>9. CASE UNCHANGED ringVars
  BY <1>9 DEF ringVars, RingInv, RingTypeOK, Ending, InStep, EndOf, Printing, Flushed
<1> QED BY <1>1, <1>2, <1>3, <1>4, <1>5, <1>6, <1>7, <1>8, <1>9 DEF RingNext

(* The writer and the printing thread stay in step, as long as that thread *)
(* has not been left behind.                                               *)
LEMMA RingCorrect == RingSpec => []RingInv
BY RingInitInv, RingStep, PTL DEF RingSpec

(* big_buffered_log prints what was written, in that order, whatever the   *)
(* size of the ring, the lengths of the writes and what WriteFile takes at *)
(* once, unless the printing thread was left behind (LeftBehind): only     *)
(* then can a wrap of one cursor be missed by the other.                   *)
THEOREM PrintedAsWrittenCorrect == RingSpec => []PrintedAsWritten
<1>1. RingInv => PrintedAsWritten BY DEF RingInv, InStep, PrintedAsWritten
<1> QED BY <1>1, RingCorrect, PTL

(* However the two threads interleave and however full the ring is, only a *)
(* destructor that flushed can leave the thread asleep, and itself waiting *)
(* for ever in the join.                                                   *)
THEOREM ClearedLogStopsCorrect == RingSpec => []ClearedLogStops
<1>1. RingInv => ClearedLogStops
  BY RingAssumption DEF RingInv, RingTypeOK, Ending, ClearedLogStops, NullEnd
<1> QED BY <1>1, RingCorrect, PTL
=============================================================================
