----------------------------- MODULE QueueProofs -----------------------------
(***************************************************************************)
(* Proofs about the two queues of functions, each with its refinement of   *)
(* an abstract queue: Fifo, for every buffer size and any number of        *)
(* functions, a FIFO whose rt-thread is the consumer; and EdfHeap, for     *)
(* every heap size, set of times and functions.                            *)
(***************************************************************************)
EXTENDS FifoRefinement, EdfHeapRefinement, SequenceTheorems, FiniteSetTheorems,
        WellFoundedInduction, TLAPS

-----------------------------------------------------------------------------
(* The lock-free FIFO *)

\* The mask is the wrap of an index that is one too large.
LEMMA HeadNextWraps ==
    ASSUME NEW h \in Slots
    PROVE  HeadNext(h) = Wrap(h + 1) /\ HeadNext(h) \in Slots
BY SizeAssumption DEF HeadNext, Wrap, Slots

LEMMA FifoInvFirst == FifoInit => FifoInv
<1> SUFFICES ASSUME FifoInit PROVE FifoInv
  OBVIOUS
<1>1. FifoTypeOK
  <2>1. 0 \in Slots /\ 0 \in 0 .. MaxFunctions
    BY SizeAssumption, MaxFunctionsAssumption DEF Slots
  <2>2. items \in [Slots -> 0 .. MaxFunctions]
    BY <2>1 DEF FifoInit
  <2>. QED BY <2>1, <2>2, Zenon DEF FifoInit, FifoTypeOK
<1>2. Window /\ Producing /\ Consuming /\ Clearing
  BY SizeAssumption DEF FifoInit, Window, Producing, Consuming, Clearing, Wrap, Distance
<1>3. Accounted
  BY DEF FifoInit, Accounted
<1>. QED BY <1>1, <1>2, <1>3 DEF FifoInv

\* One step keeps the invariant when the rt-thread is the consumer.
LEMMA FifoInvKept ==
    ASSUME FlushedBy = "consumer", FifoInv, [FifoNext]_fifoVars
    PROVE  FifoInv'
<1> USE SizeAssumption, MaxFunctionsAssumption
<1>0. readHead \in Slots /\ writeHead \in Slots /\ enqNext \in Slots /\ deqNext \in Slots
      /\ flushTo \in Slots /\ sent \in 0 .. MaxFunctions /\ taken \in 0 .. MaxFunctions
      /\ flushSent \in 0 .. MaxFunctions /\ fn \in 0 .. MaxFunctions
  BY DEF FifoInv, FifoTypeOK
<1>1. CASE EnqueueRefuse
  BY <1>1 DEF EnqueueRefuse, fifo, consumer, flusher, history,
     FifoInv, FifoTypeOK, Window, Producing, Consuming, Clearing, Accounted, Wrap, Distance
<1>2. CASE EnqueueBegin
  <2>1. HeadNext(writeHead) = Wrap(writeHead + 1) /\ HeadNext(writeHead) \in Slots
    BY <1>0, HeadNextWraps
  <2>2. sent - taken < Size - 1
    BY <1>0, <1>2, <2>1 DEF EnqueueBegin, Full, FifoInv, Window, Distance, Wrap, Slots
  <2>. QED BY <1>0, <1>2, <2>1, <2>2 DEF EnqueueBegin, fifo, consumer, flusher, history,
     FifoInv, FifoTypeOK, Window, Producing, Consuming, Clearing, Accounted, Wrap, Distance
<1>3. CASE EnqueueStore
  <2> USE <1>3 DEF EnqueueStore, consumer, flusher, history
  <2>1. FifoTypeOK'
    BY <1>0 DEF FifoInv, FifoTypeOK, Producing
  <2>2. ASSUME NEW k \in 1 .. sent - taken
        PROVE  items'[Wrap(readHead + k)] = taken + k
    <3>1. Wrap(readHead + k) # enqNext /\ Wrap(readHead + k) \in Slots
      BY <1>0 DEF FifoInv, Window, Producing, Wrap, Distance, Slots
    <3>. QED BY <1>0, <3>1 DEF FifoInv, FifoTypeOK, Window
  <2>3. Window'
    BY <2>2, <1>0 DEF FifoInv, Window, Distance, Wrap
  <2>4. Producing'
    BY <1>0 DEF FifoInv, Producing, FifoTypeOK, Wrap
  <2>. QED BY <2>1, <2>3, <2>4 DEF FifoInv, Consuming, Clearing, Accounted, Wrap, Distance
<1>4. CASE EnqueuePublish
  <2> USE <1>4 DEF EnqueuePublish, consumer, flusher
  <2>1. FifoTypeOK'
    BY <1>0 DEF FifoInv, FifoTypeOK, Producing
  <2>2. Distance(readHead, enqNext) = sent + 1 - taken
    BY <1>0 DEF FifoInv, Window, Producing, Wrap, Distance, Slots
  <2>3. Wrap(readHead + (sent + 1 - taken)) = enqNext
    BY <1>0 DEF FifoInv, Window, Producing, Wrap, Distance, Slots
  <2>4. ASSUME NEW k \in 1 .. sent + 1 - taken
        PROVE  items[Wrap(readHead + k)] = taken + k
    BY <1>0, <2>3 DEF FifoInv, Window, Producing
  <2>5. Window'
    BY <1>0, <2>2, <2>4 DEF FifoInv, Window, Distance, Wrap
  <2>. QED BY <1>0, <2>1, <2>5 DEF FifoInv, Producing, Consuming, Clearing, Accounted, Wrap, Distance
<1>5. CASE PerformTest
  <2>1. HeadNext(readHead) = Wrap(readHead + 1) /\ HeadNext(readHead) \in Slots
    BY <1>0, HeadNextWraps
  <2>2. taken < sent
    BY <1>0, <1>5 DEF PerformTest, FifoInv, Window, Distance, Slots
  <2>. QED BY <1>0, <1>5, <2>1, <2>2 DEF PerformTest, fifo, producer, flusher, history, Flushing,
     FifoInv, FifoTypeOK, Window, Producing, Consuming, Clearing, Accounted, Wrap, Distance
<1>6. CASE PerformRead
  <2>1. items[deqNext] = taken + 1
    BY <1>0, <1>6 DEF PerformRead, FifoInv, Window, Consuming
  <2>. QED BY <1>0, <1>6, <2>1 DEF PerformRead, fifo, producer, flusher, history,
     FifoInv, FifoTypeOK, Window, Producing, Consuming, Clearing, Accounted, Wrap, Distance
<1>7. CASE PerformAdvance
  <2> USE <1>7 DEF PerformAdvance, producer, flusher
  <2>1. FifoTypeOK' /\ fn = taken + 1
    BY <1>0 DEF FifoInv, FifoTypeOK, Consuming
  <2>2. ~flush
    BY DEF FifoInv, Clearing
  <2>3. Distance(deqNext, writeHead) = sent - fn
    BY <1>0, <2>1 DEF FifoInv, Window, Consuming, Wrap, Distance, Slots
  <2>4. ASSUME NEW k \in 1 .. sent - fn
        PROVE  items[Wrap(deqNext + k)] = fn + k
    <3>1. Wrap(deqNext + k) = Wrap(readHead + (k + 1)) /\ k + 1 \in 1 .. sent - taken
      BY <1>0, <2>1 DEF FifoInv, Window, Consuming, Wrap, Distance, Slots
    <3>. QED BY <1>0, <2>1, <3>1 DEF FifoInv, Window
  <2>5. Window'
    BY <1>0, <2>1, <2>3, <2>4 DEF FifoInv, Window, Consuming, Distance, Wrap
  <2>6. Accounted'
    BY <1>0, <2>1 DEF FifoInv, Accounted
  <2>7. Producing' /\ Consuming' /\ Clearing'
    BY <1>0, <2>1, <2>2 DEF FifoInv, Producing, Consuming, Clearing, Wrap
  <2>. QED BY <2>1, <2>5, <2>6, <2>7 DEF FifoInv
<1>8. CASE PerformReturn
  <2> USE <1>8 DEF PerformReturn, fifo, producer, flusher
  <2>1. fn \in 1 .. taken
    BY DEF FifoInv, Consuming
  <2>2. Accounted'
    BY <1>0, <2>1 DEF FifoInv, Accounted
  <2>3. FifoTypeOK'
    BY <1>0, <2>1 DEF FifoInv, FifoTypeOK
  <2>. QED BY <2>2, <2>3 DEF FifoInv, Window, Producing, Consuming, Clearing, Wrap, Distance, Flushing
<1>9. CASE FlushRead
  <2> USE <1>9 DEF FlushRead, fifo, producer, consumer, history
  <2>1. FifoTypeOK'
    BY <1>0 DEF FifoInv, FifoTypeOK
  <2>2. Clearing'
    BY <1>0 DEF FifoInv, Window, Clearing, Distance
  <2>. QED BY <2>1, <2>2 DEF FifoInv, Window, Producing, Consuming, Accounted, Wrap, Distance
<1>10. CASE FlushWrite
  <2> USE <1>10 DEF FlushWrite, producer, consumer
  <2>1. taken <= flushSent /\ flushSent <= sent /\ deq \in {"idle", "call"}
        /\ Distance(readHead, flushTo) = flushSent - taken
    BY DEF FifoInv, Clearing
  <2>2. FifoTypeOK'
    <3>1. (taken + 1 .. flushSent) \ InHand \subseteq 1 .. MaxFunctions
      BY <1>0
    <3>2. flushed' \subseteq 1 .. MaxFunctions
      BY <3>1 DEF FifoInv, FifoTypeOK
    <3>. QED BY <1>0, <3>2 DEF FifoInv, FifoTypeOK
  <2>3. Distance(flushTo, writeHead) = sent - flushSent
    BY <1>0, <2>1 DEF FifoInv, Window, Distance, Slots
  <2>4. ASSUME NEW k \in 1 .. sent - flushSent
        PROVE  items[Wrap(flushTo + k)] = flushSent + k
    <3>1. /\ Wrap(flushTo + k) = Wrap(readHead + (k + (flushSent - taken)))
          /\ k + (flushSent - taken) \in 1 .. sent - taken
      BY <1>0, <2>1 DEF FifoInv, Window, Wrap, Distance, Slots
    <3>. QED BY <1>0, <2>1, <3>1 DEF FifoInv, Window
  <2>5. Window'
    BY <1>0, <2>1, <2>3, <2>4 DEF FifoInv, Window, Distance, Wrap
  <2>6. Accounted'
    BY <1>0, <2>1 DEF FifoInv, Accounted, InHand, Consuming
  <2>7. Producing' /\ Consuming' /\ Clearing'
    BY <1>0, <2>1 DEF FifoInv, Producing, Consuming, Clearing, Wrap
  <2>. QED BY <2>2, <2>5, <2>6, <2>7 DEF FifoInv
<1>11. CASE UNCHANGED fifoVars
  BY <1>11 DEF fifoVars, fifo, producer, consumer, flusher, history,
     FifoInv, FifoTypeOK, Window, Producing, Consuming, Clearing, Accounted, Wrap, Distance
<1>. QED BY <1>1, <1>2, <1>3, <1>4, <1>5, <1>6, <1>7, <1>8, <1>9, <1>10, <1>11 DEF FifoNext

\* The rt-thread is the consumer of the FIFOs to the engine: the heads, the
\* slots and the two threads always agree.
THEOREM FifoInvariant ==
    ASSUME FlushedBy = "consumer"
    PROVE  FifoSpec => []FifoInv
BY FifoInvFirst, FifoInvKept, PTL DEF FifoSpec

\* The heads stay in the buffer and the registers keep their types.
THEOREM FifoTypeCorrect ==
    ASSUME FlushedBy = "consumer"
    PROVE  FifoSpec => []FifoTypeOK
<1>1. FifoInv => FifoTypeOK
  BY DEF FifoInv
<1>. QED BY <1>1, FifoInvariant, PTL

\* fifo-perform-functions calls every function once, in the order of enqueue.
THEOREM CalledOnceInOrderCorrect ==
    ASSUME FlushedBy = "consumer"
    PROVE  FifoSpec => []CalledOnceInOrder
<1>1. FifoInv => CalledOnceInOrder
  BY MaxFunctionsAssumption DEF FifoInv, FifoTypeOK, Accounted, Consuming, CalledOnceInOrder
<1>. QED BY <1>1, FifoInvariant, PTL

\* An empty FIFO has lost none of the functions enqueued.
THEOREM NothingLostCorrect ==
    ASSUME FlushedBy = "consumer"
    PROVE  FifoSpec => []NothingLost
<1>1. FifoInv => NothingLost
  <2> SUFFICES ASSUME FifoInv, deq = "idle", readHead = writeHead
               PROVE  called \cup flushed = 1 .. sent
    BY DEF NothingLost
  <2>1. taken = sent
    BY SizeAssumption, MaxFunctionsAssumption DEF FifoInv, FifoTypeOK, Window, Distance, Slots
  <2>. QED BY <2>1 DEF FifoInv, Accounted
<1>. QED BY <1>1, FifoInvariant, PTL

\* A function that flush-all-fifos has cleared is not called afterwards.
THEOREM FlushedNeverCalledCorrect ==
    ASSUME FlushedBy = "consumer"
    PROVE  FifoSpec => []FlushedNeverCalled
<1>1. FifoInv => FlushedNeverCalled
  BY DEF FifoInv, Accounted, FlushedNeverCalled
<1>. QED BY <1>1, FifoInvariant, PTL

\* enqueue never stores into the slot that fifo-perform-functions reads.
THEOREM SlotsDisjointCorrect ==
    ASSUME FlushedBy = "consumer"
    PROVE  FifoSpec => []SlotsDisjoint
<1>1. FifoInv => SlotsDisjoint
  <2> SUFFICES ASSUME FifoInv, enq = "store", deq = "read"
               PROVE  enqNext # deqNext
    BY DEF SlotsDisjoint
  <2>1. /\ readHead \in Slots /\ writeHead \in Slots
        /\ sent \in 0 .. MaxFunctions /\ taken \in 0 .. MaxFunctions
    BY DEF FifoInv, FifoTypeOK
  <2>2. /\ enqNext = Wrap(writeHead + 1) /\ deqNext = Wrap(readHead + 1)
        /\ taken < sent /\ Distance(readHead, writeHead) = sent - taken
    BY DEF FifoInv, Window, Producing, Consuming
  <2>. QED BY <2>1, <2>2, SizeAssumption, MaxFunctionsAssumption DEF Wrap, Distance, Slots
<1>. QED BY <1>1, FifoInvariant, PTL

-----------------------------------------------------------------------------
(* The refinement *)

\* The functions after function r, n of them: what the queue holds.
Numbered(r, n) == [k \in 1 .. n |-> r + k]

LEMMA NumberedSeq ==
    ASSUME NEW r \in Int, NEW n \in Nat
    PROVE  /\ Numbered(r, n) \in Seq(Int) /\ Len(Numbered(r, n)) = n
           /\ \A k \in 1 .. n : Numbered(r, n)[k] = r + k
<1>1. \A k \in 1 .. n : r + k \in Int
  OBVIOUS
<1>. QED BY <1>1 DEF Numbered

\* An enqueue appends the next number.
LEMMA NumberedAppend ==
    ASSUME NEW r \in Int, NEW n \in Nat
    PROVE  Append(Numbered(r, n), r + n + 1) = Numbered(r, n + 1)
<1> DEFINE s == Numbered(r, n)
           t == Numbered(r, n + 1)
<1>1. /\ s \in Seq(Int) /\ Len(s) = n /\ \A k \in 1 .. n : s[k] = r + k
      /\ t \in Seq(Int) /\ Len(t) = n + 1 /\ \A k \in 1 .. n + 1 : t[k] = r + k
  BY NumberedSeq
<1> HIDE DEF s, t
<1>2. PICK e \in Int : e = r + n + 1
  OBVIOUS
<1> DEFINE a == Append(s, e)
<1>3. /\ a \in Seq(Int) /\ Len(a) = Len(s) + 1
      /\ \A k \in 1 .. Len(s) : a[k] = s[k]
      /\ a[Len(s) + 1] = e
  <2>1. s \in Seq(Int) /\ e \in Int
    BY <1>1, <1>2
  <2>. QED BY <2>1, AppendProperties
<1> HIDE DEF a
<1>4. ASSUME NEW k \in 1 .. n + 1
      PROVE  a[k] = t[k]
  <2>1. CASE k = n + 1
    BY <1>1, <1>2, <1>3, <2>1
  <2>2. CASE k # n + 1
    <3>1. k \in 1 .. n
      BY <2>2
    <3>. QED BY <1>1, <1>3, <3>1
  <2>. QED BY <2>1, <2>2
<1>5. a = t
  <2>1. Len(a) = n + 1 /\ Len(t) = n + 1
    BY <1>1, <1>3
  <2>. QED BY <1>1, <1>3, <1>4, <2>1, SeqEqual, Zenon
<1>. QED BY <1>2, <1>5 DEF a, s, t

\* A flush leaves the last ones.
LEMMA NumberedSub ==
    ASSUME NEW r \in Int, NEW m \in Nat, NEW n \in Nat, m <= n
    PROVE  SubSeq(Numbered(r, n), m + 1, n) = Numbered(r + m, n - m)
<1> DEFINE s == Numbered(r, n)
<1>1. s \in Seq(Int) /\ Len(s) = n /\ \A k \in 1 .. n : s[k] = r + k
  BY NumberedSeq
<1> HIDE DEF s
<1>2. SubSeq(s, m + 1, n) = [k \in 1 .. n - m |-> (r + m) + k]
  BY <1>1
<1>. QED BY <1>2 DEF s, Numbered

\* The consumer takes the first one.
LEMMA NumberedTail ==
    ASSUME NEW r \in Int, NEW n \in Nat \ {0}
    PROVE  /\ Numbered(r, n) # <<>> /\ Head(Numbered(r, n)) = r + 1
           /\ Tail(Numbered(r, n)) = Numbered(r + 1, n - 1)
<1> DEFINE s == Numbered(r, n)
<1>1. s \in Seq(Int) /\ Len(s) = n /\ \A k \in 1 .. n : s[k] = r + k
  BY NumberedSeq
<1>2. SubSeq(s, 1 + 1, n) = Numbered(r + 1, n - 1)
  <2>1. 1 \in Nat /\ n \in Nat /\ 1 <= n
    OBVIOUS
  <2>. QED BY <2>1, NumberedSub, Zenon
<1> HIDE DEF s
<1>3. s # <<>> /\ Head(s) = r + 1
  BY <1>1
<1>4. Tail(s) = SubSeq(s, 2, Len(s))
  BY <1>1, <1>3, TailIsSubSeq, Zenon
<1>5. 1 + 1 = 2
  OBVIOUS
<1>. QED BY <1>1, <1>2, <1>3, <1>4, <1>5 DEF s

\* Seen from outside, the ring holds the functions after the last one taken.
LEMMA WaitingNumbered == FifoInv => Waiting = Numbered(taken, sent - taken)
<1> SUFFICES ASSUME FifoInv PROVE Waiting = Numbered(taken, sent - taken)
  OBVIOUS
<1>1. /\ readHead \in Int /\ 0 <= readHead /\ readHead < Size
      /\ writeHead \in Int /\ 0 <= writeHead /\ writeHead < Size
      /\ sent \in Int /\ taken \in Int /\ taken <= sent /\ Size \in Nat /\ Size > 0
  BY SizeAssumption, MaxFunctionsAssumption, SMTT(30) DEF FifoInv, FifoTypeOK, Window, Slots
<1>2. Distance(readHead, writeHead) = sent - taken
  BY DEF FifoInv, Window
<1>3. (writeHead - readHead) % Size = sent - taken
  BY <1>1, <1>2 DEF Distance
<1>4. sent - taken < Size
  BY <1>1, <1>2 DEF Distance
<1>5. ASSUME NEW k \in 1 .. sent - taken
      PROVE  items[(readHead + k) % Size] = taken + k
  <2>1. k \in Int /\ 1 <= k /\ k < Size
    BY <1>1, <1>4
  <2>2. (readHead + k) % Size = Wrap(readHead + k)
    BY <1>1, <2>1 DEF Wrap
  <2>. QED BY <2>2 DEF FifoInv, Window
<1>. QED BY <1>3, <1>5 DEF Waiting, Numbered

LEMMA FifoStepImplements ==
    ASSUME FlushedBy = "consumer", FifoInv, FifoInv', [FifoNext]_fifoVars
    PROVE  [FifoQueue!Next]_(FifoQueue!vars)
<1> DEFINE run == IF deq = "call" THEN fn ELSE 0
<1>1. Waiting = Numbered(taken, sent - taken)
  BY WaitingNumbered
<1>2. Waiting' = Numbered(taken', sent' - taken')
  <2>1. (FifoInv => Waiting = Numbered(taken, sent - taken))'
    BY WaitingNumbered, PTL
  <2>. QED BY <2>1 DEF Numbered
<1>3. /\ readHead \in Slots /\ writeHead \in Slots
      /\ sent \in Int /\ taken \in Int /\ sent - taken \in Nat /\ Size \in Nat /\ Size > 1
  BY SizeAssumption, MaxFunctionsAssumption DEF FifoInv, FifoTypeOK, Window
<1>4. Len(Waiting) = sent - taken
  BY <1>1, <1>3, NumberedSeq
<1>5. CASE EnqueueRefuse
  <2>1. HeadNext(writeHead) = Wrap(writeHead + 1)
    BY <1>3, HeadNextWraps
  <2>2. sent - taken = Size - 1
    BY <1>3, <1>5, <2>1 DEF EnqueueRefuse, Full, FifoInv, Window, Distance, Wrap, Slots
  <2>3. UNCHANGED <<Waiting, sent, run>> /\ refused' = TRUE
    BY <1>5 DEF EnqueueRefuse, Waiting, fifo, consumer, history
  <2>4. FifoQueue!Refuse
    BY <1>4, <2>2, <2>3 DEF FifoQueue!Refuse
  <2>. QED BY <2>4 DEF FifoQueue!Next
<1>6. CASE EnqueuePublish
  <2>1. sent' = sent + 1 /\ taken' = taken /\ sent - taken < Size - 1 /\ refused' = FALSE
        /\ UNCHANGED run
    BY <1>6 DEF EnqueuePublish, FifoInv, Producing, consumer
  <2>2. Append(Numbered(taken, sent - taken), taken + (sent - taken) + 1)
          = Numbered(taken, (sent - taken) + 1)
    BY <1>3, NumberedAppend
  <2>3. taken + (sent - taken) + 1 = sent' /\ (sent - taken) + 1 = sent' - taken'
    BY <1>3, <2>1
  <2>4. Waiting' = Append(Waiting, sent')
    BY <1>1, <1>2, <2>1, <2>2, <2>3
  <2>5. Len(Waiting) < Size - 1
    BY <1>4, <2>1
  <2>6. FifoQueue!Accept
    BY <2>1, <2>4, <2>5 DEF FifoQueue!Accept
  <2>. QED BY <2>6 DEF FifoQueue!Next
<1>7. CASE PerformAdvance
  <2>1. /\ deq = "advance" /\ deq' = "call" /\ fn' = fn /\ taken' = fn /\ fn = taken + 1
        /\ taken < sent /\ UNCHANGED <<sent, refused>>
    BY <1>7 DEF PerformAdvance, FifoInv, Consuming, producer
  <2>2. /\ Waiting # <<>> /\ Head(Waiting) = taken + 1
        /\ Tail(Waiting) = Numbered(taken + 1, (sent - taken) - 1)
    <3>1. sent - taken \in Nat \ {0}
      BY <1>3, <2>1
    <3>. QED BY <1>1, <1>3, <3>1, NumberedTail
  <2>3. (sent - taken) - 1 = sent' - taken' /\ taken' = taken + 1
    BY <1>3, <2>1
  <2>4. Waiting' = Tail(Waiting)
    BY <1>2, <2>2, <2>3
  <2>5. FifoQueue!Take
    BY <2>1, <2>2, <2>4 DEF FifoQueue!Take
  <2>. QED BY <2>5 DEF FifoQueue!Next
<1>8. CASE PerformReturn
  <2>1. deq = "call" /\ deq' = "idle" /\ fn # 0 /\ UNCHANGED <<Waiting, sent, refused>>
    BY <1>8 DEF PerformReturn, FifoInv, Consuming, Waiting, fifo, producer
  <2>2. FifoQueue!Return
    BY <2>1 DEF FifoQueue!Return
  <2>. QED BY <2>2 DEF FifoQueue!Next
<1>9. CASE FlushWrite
  <2>1. taken <= flushSent /\ flushSent <= sent /\ flushSent \in Int
    BY <1>9, MaxFunctionsAssumption DEF FlushWrite, FifoInv, Clearing, FifoTypeOK
  <2>2. taken' = flushSent /\ UNCHANGED <<sent, refused, run>>
    BY <1>9 DEF FlushWrite, producer, consumer
  <2>3. PICK n \in Nat : n = flushSent - taken /\ n <= sent - taken
    BY <1>3, <2>1
  <2>4. SubSeq(Numbered(taken, sent - taken), n + 1, sent - taken)
          = Numbered(taken + n, (sent - taken) - n)
    BY <1>3, <2>3, NumberedSub
  <2>5. taken + n = taken' /\ (sent - taken) - n = sent' - taken'
    BY <1>3, <2>1, <2>2, <2>3
  <2>6. Waiting' = SubSeq(Waiting, n + 1, Len(Waiting)) /\ n \in 0 .. Len(Waiting)
    BY <1>1, <1>2, <1>3, <1>4, <2>3, <2>4, <2>5, SMTT(30)
  <2>7. FifoQueue!Flush
    BY <2>2, <2>6 DEF FifoQueue!Flush
  <2>. QED BY <2>7 DEF FifoQueue!Next
<1>10. CASE EnqueueBegin \/ EnqueueStore \/ PerformTest \/ PerformRead \/ FlushRead
            \/ UNCHANGED fifoVars
  <2>1. UNCHANGED <<sent, taken, refused>>
    BY <1>10 DEF EnqueueBegin, EnqueueStore, PerformTest, PerformRead, FlushRead,
                 producer, history, fifoVars
  <2>2. UNCHANGED run
    BY <1>10 DEF EnqueueBegin, EnqueueStore, PerformTest, PerformRead, FlushRead, consumer, fifoVars
  <2>3. UNCHANGED Waiting
    BY <1>1, <1>2, <2>1
  <2>. QED BY <2>1, <2>2, <2>3 DEF FifoQueue!vars
<1>. QED BY <1>5, <1>6, <1>7, <1>8, <1>9, <1>10 DEF FifoNext

\* The ring of a FIFO to the engine implements the queue: every enqueue,
\* perform and flush, made of single accesses, looks indivisible.
THEOREM FunctionQueueImplemented ==
    ASSUME FlushedBy = "consumer"
    PROVE  FifoSpec => ImplementsFunctionQueue
<1>1. FifoInit => FifoQueue!Init
  <2> SUFFICES ASSUME FifoInit PROVE FifoQueue!Init
    OBVIOUS
  <2>1. (writeHead - readHead) % Size = 0
    BY SizeAssumption DEF FifoInit
  <2>2. Waiting = <<>>
    BY <2>1 DEF Waiting
  <2>. QED BY <2>2 DEF FifoInit, FifoQueue!Init
<1>2. FifoInv /\ FifoInv' /\ [FifoNext]_fifoVars => [FifoQueue!Next]_(FifoQueue!vars)
  BY FifoStepImplements
<1>. QED BY <1>1, <1>2, FifoInvariant, PTL DEF FifoSpec, ImplementsFunctionQueue, FifoQueue!Spec

-----------------------------------------------------------------------------
(* The heap of the EDF scheduler *)

\* The index that unschedule-if goes back to is one it has already visited.
LEMMA RestartBound ==
    ASSUME NEW k \in Nat \ {0}
    PROVE  Restart(k) \in 1 .. k
<1> DEFINE S == {1} \cup {n \in 2 .. k : 2^n <= k}
<1>1. S \subseteq 1 .. k /\ S # {}
  OBVIOUS
<1>2. IsFiniteSet(1 .. k) /\ Cardinality(1 .. k) = k
  BY FS_Interval
<1>3. IsFiniteSet(S) /\ Cardinality(S) <= k
  BY <1>1, <1>2, FS_Subset
<1>4. Cardinality(S) \in Nat /\ Cardinality(S) # 0
  BY <1>1, <1>3, FS_CardinalityType, FS_EmptySet
<1>. QED BY <1>3, <1>4 DEF Restart

\* The types and the call structure together are inductive: the loops stay
\* inside the array because of the bounds in Control.
Safe == TypeOK /\ Control

LEMMA SafeInit == Init => Safe
BY SizesAssumption, TagLimitAssumption, MaxNowAssumption
   DEF Init, Safe, TypeOK, Control, Node, EmptyNode, NoEvent, RootNode

LEMMA SafeNext == Safe /\ [Next]_vars => Safe'
<1> SUFFICES ASSUME Safe, [Next]_vars PROVE Safe'
  OBVIOUS
<1> USE SizesAssumption, TagLimitAssumption, MaxNowAssumption, FunctionsAssumption,
        TimesAssumption, StepsAssumption
    DEF Safe, TypeOK, Control, RootNode, Parent, heapVars, callVars
<1>1. CASE \E t \in Times, f \in Functions \ {ForcePendingFn} : ScheduleAt(t, f)
  BY <1>1 DEF ScheduleAt, CallScheduleAt, HeapFull
<1>2. CASE SiftUp
  BY <1>2 DEF SiftUp
<1>3. CASE SiftUpDone
  BY <1>3 DEF SiftUpDone, Node, NoEvent
<1>4. ASSUME NEW return \in {"idle", "forced"}, pc = "idle", CallGetHeap(return)
      PROVE  Safe'
  <2>1. next - 1 \in 1 .. size - 1 /\ EmptyNode \in Node
    BY <1>4 DEF CallGetHeap, EmptyNode, Node
  <2>2. data' \in [0 .. size - 1 -> Node] /\ temp' \in Node
    BY <1>4, <2>1 DEF CallGetHeap, FillRoot
  <2>. QED BY <1>4, <2>1, <2>2 DEF CallGetHeap, FillRoot
<1>5. CASE GetHeap \/ ForcePending
  BY <1>4, <1>5 DEF GetHeap, ForcePending
<1>6. CASE \E step \in Steps : ForceAgain(step)
  BY <1>6 DEF ForceAgain, CallScheduleAt, HeapFull
<1>7. CASE SiftDown
  BY <1>7 DEF SiftDown, Child
<1>8. CASE SiftDownDone
  <2>1. Restart(i) \in 1 .. i
    BY RestartBound
  <2>. QED BY <1>8, <2>1 DEF SiftDownDone
<1>9. CASE \E cancelled \in Tests : UnscheduleIf(cancelled)
  BY <1>9 DEF UnscheduleIf, Live, Occupied
<1>10. CASE ScanKeep
  BY <1>10 DEF ScanKeep
<1>11. CASE ScanDelete
  BY <1>11 DEF ScanDelete
<1>12. CASE HoleUp
  BY <1>12 DEF HoleUp
<1>13. CASE HoleFill
  <2>1. next - 1 \in 1 .. size - 1 /\ EmptyNode \in Node
    BY <1>13 DEF HoleFill, EmptyNode, Node
  <2>2. data' \in [0 .. size - 1 -> Node] /\ temp' \in Node
    BY <1>13, <2>1 DEF HoleFill, FillRoot
  <2>. QED BY <1>13, <2>1, <2>2 DEF HoleFill, FillRoot
<1>14. CASE ScanDone
  BY <1>14 DEF ScanDone
<1>15. CASE FlushPending
  BY <1>15 DEF FlushPending, Live, Occupied
<1>16. CASE FlushDrop
  BY <1>16 DEF FlushDrop
<1>17. CASE FlushKeep
  BY <1>17 DEF FlushKeep, CallScheduleAt, HeapFull, Node
<1>18. CASE FlushDone
  BY <1>18 DEF FlushDone
<1>19. CASE \E n \in Sizes : ResizeHeap(n)
  <2>1. PICK n \in Sizes : ResizeHeap(n)
    BY <1>19
  <2>2. size' = n /\ data' \in [0 .. n - 1 -> Node] /\ next \in 1 .. n
    <3>1. EmptyNode \in Node
      BY DEF EmptyNode, Node
    <3>. QED BY <2>1, <3>1 DEF ResizeHeap
  <2>. QED BY <2>1, <2>2 DEF ResizeHeap
<1>20. CASE NextBlock
  BY <1>20, BlockSizeAssumption DEF NextBlock
<1>21. CASE UNCHANGED vars
  BY <1>21 DEF vars
<1> HIDE DEF Safe, TypeOK, Control, RootNode, Parent, heapVars, callVars
<1> HIDE SizesAssumption, TagLimitAssumption, MaxNowAssumption, FunctionsAssumption,
         TimesAssumption, StepsAssumption
<1>. QED
  BY <1>1, <1>2, <1>3, <1>5, <1>6, <1>7, <1>8, <1>9, <1>10, <1>11, <1>12,
     <1>13, <1>14, <1>15, <1>16, <1>17, <1>18, <1>19, <1>20, <1>21 DEF Next

\* The heap keeps its types and its loops stay inside the array.
THEOREM TypeCorrect == Spec => []TypeOK
<1>1. Safe => TypeOK
  BY DEF Safe
<1>. QED BY SafeInit, SafeNext, <1>1, PTL DEF Spec

-----------------------------------------------------------------------------
(* The heap order *)

LEMMA BeforeTransitive ==
    ASSUME NEW a \in Node, NEW b \in Node, NEW c \in Node, Before(a, b), Before(b, c)
    PROVE  Before(a, c)
BY DEF Before, Node

LEMMA BeforeTotal ==
    ASSUME NEW a \in Node, NEW b \in Node, a.order # b.order, ~Before(a, b)
    PROVE  Before(b, a)
BY DEF Before, Node

Events == GenuineEvents /\ Ordered /\ Carried

LEMMA EventsInit == Init => Events
BY SizesAssumption
   DEF Init, Events, GenuineEvents, Ordered, Carried, Occupied, RootNode

\* Starting schedule-at opens a hole behind the last event.
LEMMA EventsCallScheduleAt ==
    ASSUME Safe, Events, NEW t \in Nat, NEW f \in Functions, NEW return,
           pc \in {"idle", "forced", "flush"}, CallScheduleAt(t, f, return),
           UNCHANGED heapVars
    PROVE  Events'
<1> USE DEF Safe, TypeOK, Events, CallScheduleAt, HeapFull, heapVars
<1>1. Occupied' = Occupied
  <2>1. next \in Nat /\ Occupied = 1 .. next - 1 /\ Occupied' = (1 .. next) \ {next}
    BY SizesAssumption DEF Occupied
  <2>2. \A k : k \in 1 .. next - 1 <=> k \in (1 .. next) \ {next}
    BY <2>1
  <2>. QED BY <2>1, <2>2
<1>2. \A k \in Occupied' : Parent(k) # hole' /\ data' = data
  BY <1>1, SizesAssumption DEF Occupied, Parent
<1>3. GenuineEvents'
  BY <1>1 DEF GenuineEvents, Genuine, RootNode
<1>4. Ordered'
  BY <1>1, <1>2 DEF Ordered, RootNode
<1>5. Carried'
  BY <1>1, <1>2 DEF Carried
<1>. QED BY <1>3, <1>4, <1>5

LEMMA EventsSiftUp ==
    ASSUME Safe, Events, SiftUp
    PROVE  Events'
<1> USE DEF Safe, TypeOK, Control, Events, SiftUp, RootNode
<1> DEFINE up == Parent(hole)
<1>1. /\ up \in 1 .. size - 1 /\ up < hole /\ hole <= next /\ next <= size - 1
      /\ hole' = up /\ next' = next /\ pc = "up" /\ pc' = "up"
      /\ data' = [data EXCEPT ![hole] = data[up]]
      /\ up \in Occupied
  BY SizesAssumption DEF Parent, Occupied
<1>2. Occupied' = (Occupied \ {up}) \cup {hole}
  BY <1>1 DEF Occupied
<1>3. /\ \A k \in Occupied : k \in 0 .. size - 1 /\ k # hole
      /\ data'[hole] = data[up]
      /\ \A k \in Occupied : data'[k] = data[k]
  BY <1>1, SizesAssumption DEF Occupied
<1>4. GenuineEvents'
  BY <1>1, <1>2, <1>3 DEF GenuineEvents, Genuine
<1>5. ASSUME NEW k \in Occupied', k # 1, Parent(k) \in Occupied'
      PROVE  Before(data'[Parent(k)], data'[k])
  BY <1>1, <1>2, <1>3, <1>5 DEF Ordered, Parent
<1>6. ASSUME NEW k \in Occupied', Parent(k) = up, up > 1
      PROVE  Before(data'[Parent(up)], data'[k])
  <2>1. Parent(up) \in Occupied /\ Parent(up) # hole /\ Parent(up) # up
    BY <1>1, <1>6 DEF Occupied, Parent
  <2>2. Before(data[Parent(up)], data[up])
    BY <1>1, <1>6, <2>1 DEF Ordered
  <2>3. k # hole => Before(data[up], data[k])
    BY <1>1, <1>2, <1>6 DEF Ordered, Parent
  <2>4. {data[Parent(up)], data[up], data[k]} \subseteq Node
    BY <1>1, <1>2, <1>3, <2>1
  <2>. QED BY <1>1, <1>2, <1>3, <2>1, <2>2, <2>3, <2>4, BeforeTransitive
<1>7. Ordered'
  BY <1>1, <1>5, <1>6 DEF Ordered
<1>8. Carried'
  <2>1. ASSUME NEW k \in Occupied', Parent(k) = up
        PROVE  new.time < data'[k].time
    <3>1. k # hole => Before(data[up], data[k])
      BY <1>1, <1>2, <2>1 DEF Ordered, Parent
    <3>. QED BY <1>1, <1>2, <1>3, <3>1, SMTT(30) DEF Before, Node
  <2>. QED BY <1>1, <2>1 DEF Carried
<1>. QED BY <1>4, <1>7, <1>8

LEMMA EventsSiftUpDone ==
    ASSUME Safe, Events, SiftUpDone
    PROVE  Events'
<1> USE DEF Safe, TypeOK, Control, Events, SiftUpDone, RootNode
<1> DEFINE e == [time |-> new.time, order |-> tag, function |-> new.function]
<1>1. /\ hole \in 1 .. next /\ next \in 1 .. size - 1 /\ size \in Nat
      /\ pc = "up" /\ pc' \in {"idle", "forced", "flush"} /\ next' = next + 1
      /\ tag' = tag + 1 /\ tag \in Nat
      /\ e \in Node /\ e.function \in Functions /\ e.order = tag
      /\ hole' = 1
  BY SizesAssumption, TagLimitAssumption DEF Node
<1>2. Occupied = (1 .. next) \ {hole} /\ Occupied' = 1 .. next
  BY <1>1 DEF Occupied
<1>3. /\ \A k \in Occupied : data'[k] = data[k]
      /\ data'[hole] = e
      /\ \A k \in Occupied : data[k] \in Node
  BY <1>1, <1>2
<1>4. GenuineEvents'
  <2>1. \A k \in Occupied : data[k].order < tag
    BY DEF GenuineEvents, Genuine
  <2>2. \A k \in Occupied : data[k].order # tag /\ data[k].order < tag'
    <3>1. \A k \in Occupied : data[k].order \in Nat
      BY <1>3 DEF Node
    <3>. QED BY <1>1, <2>1, <3>1
  <2>. QED BY <1>1, <1>2, <1>3, <2>2 DEF GenuineEvents, Genuine
<1>5. ASSUME NEW k \in Occupied', k # 1
      PROVE  Before(data'[Parent(k)], data'[k])
  <2>1. Parent(k) \in 1 .. next /\ Parent(k) # k
    BY <1>1, <1>2, <1>5 DEF Parent
  <2>2. CASE k = hole
    <3>1. new.time >= data[Parent(k)].time /\ Parent(k) \in Occupied
      BY <1>1, <1>2, <1>5, <2>1, <2>2
    <3>2. data[Parent(k)].order < tag
      BY <3>1 DEF GenuineEvents, Genuine
    <3>. QED BY <1>1, <1>3, <2>2, <3>1, <3>2 DEF Before, Node
  <2>3. CASE k # hole /\ Parent(k) = hole
    <3>1. new.time < data[k].time
      BY <1>1, <1>2, <2>3 DEF Carried
    <3>. QED BY <1>1, <1>2, <1>3, <2>3, <3>1 DEF Before
  <2>4. CASE k # hole /\ Parent(k) # hole
    BY <1>1, <1>2, <1>3, <1>5, <2>1, <2>4 DEF Ordered
  <2>. QED BY <2>2, <2>3, <2>4
<1>6. Ordered'
  BY <1>1, <1>5 DEF Ordered
<1>7. Carried'
  BY <1>1 DEF Carried
<1>. QED BY <1>4, <1>6, <1>7

\* get-heap and delete-event fill the hole at the root with the last event.
LEMMA EventsFillRoot ==
    ASSUME Safe, GenuineEvents, NEW d \in [0 .. size - 1 -> Node], next > RootNode,
           \A k \in 1 .. size - 1 : d[k] = data[k],
           \A k \in 2 .. next - 1 : k \in Occupied,
           \A k \in 2 .. next - 1 : Parent(k) # RootNode => Before(data[Parent(k)], data[k]),
           next = 2 \/ Occupied = 2 .. next - 1 \/ Occupied = 1 .. next - 1,
           FillRoot(d, next - 1), UNCHANGED <<size, tag>>
    PROVE  Events'
<1> USE DEF Safe, TypeOK, FillRoot, RootNode
<1>1. /\ next - 1 \in 1 .. size - 1 /\ size \in Nat /\ next' = next - 1
      /\ pc' = "down" /\ hole' = 1 /\ EmptyNode \in Node
  BY SizesAssumption DEF EmptyNode, Node
<1>2. Occupied' = 2 .. next - 2
  BY <1>1 DEF Occupied
<1>3. /\ \A k \in Occupied' : data'[k] = data[k] /\ k \in Occupied /\ k # next - 1
      /\ next' > 1 => temp' = data[next - 1] /\ next - 1 \in Occupied
  BY <1>1, <1>2
<1>4. GenuineEvents'
  <2>1. ASSUME NEW k \in Occupied'
        PROVE  /\ data'[k].function \in Functions /\ data'[k].order < tag'
               /\ data'[k].order # data[next - 1].order
    <3>1. k \in Occupied /\ next - 1 \in Occupied /\ k # next - 1 /\ data'[k] = data[k]
      BY <1>1, <1>2, <1>3, <2>1
    <3>. QED BY <3>1 DEF GenuineEvents, Genuine
  <2>2. ASSUME NEW j \in Occupied', NEW k \in Occupied', j # k
        PROVE  data'[j].order # data'[k].order
    <3>1. j \in Occupied /\ k \in Occupied /\ data'[k] = data[k] /\ data'[j] = data[j]
      BY <1>3
    <3>. QED BY <3>1, <2>2 DEF GenuineEvents
  <2>3. next' > 1 => temp'.function \in Functions /\ temp'.order < tag'
    BY <1>3 DEF GenuineEvents, Genuine
  <2>. QED BY <1>1, <1>3, <2>1, <2>2, <2>3 DEF GenuineEvents, Genuine
<1>5. Ordered'
  BY <1>1, <1>2, <1>3 DEF Ordered, Parent
<1>6. Carried'
  BY <1>1 DEF Carried
<1>. QED BY <1>4, <1>5, <1>6 DEF Events

LEMMA EventsSiftDown ==
    ASSUME Safe, Events, SiftDown
    PROVE  Events'
<1> USE DEF Safe, TypeOK, Control, Events, SiftDown, RootNode
<1>1. /\ hole \in 1 .. size - 1 /\ next \in 1 .. size /\ size \in Nat
      /\ Child \in {2 * hole, 2 * hole + 1} /\ Child < next /\ Child \in Occupied
      /\ Parent(Child) = hole /\ Child # hole /\ hole < next
      /\ pc = "down" /\ pc' = "down" /\ next' = next /\ hole' = Child
      /\ temp' = temp /\ tag' = tag
  BY SizesAssumption DEF Child, Parent, Occupied
<1>2. Occupied = (1 .. next - 1) \ {hole} /\ Occupied' = (1 .. next - 1) \ {Child}
  BY <1>1 DEF Occupied
<1>3. /\ \A k \in Occupied : data'[k] = data[k] /\ data[k] \in Node
      /\ data'[hole] = data[Child]
  BY <1>1, <1>2
<1>4. GenuineEvents'
  BY <1>1, <1>2, <1>3 DEF GenuineEvents, Genuine
<1>5. ASSUME NEW k \in Occupied, Parent(k) = hole, k # Child
      PROVE  Before(data[Child], data[k])
  <2>1. k \in {2 * hole, 2 * hole + 1} /\ k < next
    BY <1>1, <1>2, <1>5 DEF Parent
  <2>2. data[k].order # data[Child].order /\ data[k] \in Node /\ data[Child] \in Node
    BY <1>1, <1>3, <1>5 DEF GenuineEvents
  <2>. QED BY <1>1, <1>5, <2>1, <2>2, BeforeTotal DEF Child
<1>6. ASSUME NEW k \in Occupied', k # 1, Parent(k) \in Occupied'
      PROVE  Before(data'[Parent(k)], data'[k])
  <2>1. CASE k = hole
    BY <1>1, <1>2, <1>3, <1>6, <2>1 DEF Ordered, Parent
  <2>2. CASE k # hole /\ Parent(k) = hole
    BY <1>1, <1>2, <1>3, <1>5, <2>2
  <2>3. CASE k # hole /\ Parent(k) # hole
    BY <1>1, <1>2, <1>3, <1>6, <2>3 DEF Ordered
  <2>. QED BY <2>1, <2>2, <2>3
<1>7. ASSUME NEW k \in Occupied', Parent(k) = Child
      PROVE  Before(data'[hole], data'[k])
  <2>1. k > Child /\ Child > hole
    BY <1>1, <1>2, <1>7 DEF Parent
  <2>2. k \in Occupied \ {1}
    BY <1>1, <1>2, <2>1
  <2>. QED BY <1>1, <1>3, <1>7, <2>2 DEF Ordered
<1>8. Ordered'
  BY <1>1, <1>6, <1>7 DEF Ordered
<1>9. Carried'
  BY <1>1, <1>3 DEF Carried
<1>. QED BY <1>4, <1>8, <1>9

LEMMA EventsSiftDownDone ==
    ASSUME Safe, Events, SiftDownDone
    PROVE  Events'
<1> USE DEF Safe, TypeOK, Control, Events, SiftDownDone, RootNode
<1>1. /\ hole \in 1 .. size - 1 /\ next \in 1 .. size /\ size \in Nat
      /\ pc = "down" /\ pc' \in {"idle", "forced", "scan"} /\ next' = next
  BY SizesAssumption
<1>2. CASE next = 1
  <2>1. Occupied' = {}
    BY <1>1, <1>2 DEF Occupied
  <2>. QED BY <1>1, <2>1 DEF GenuineEvents, Ordered, Carried
<1>3. CASE next > 1
  <2>1. hole < next /\ tag' = tag
    BY <1>1, <1>3
  <2>2. Occupied = (1 .. next - 1) \ {hole} /\ Occupied' = 1 .. next - 1
    BY <1>1, <2>1 DEF Occupied
  <2>3. /\ \A k \in Occupied : data'[k] = data[k] /\ data[k] \in Node
        /\ data'[hole] = temp /\ temp \in Node
    BY <1>1, <2>1, <2>2
  <2>4. GenuineEvents'
    BY <1>1, <1>3, <2>1, <2>2, <2>3 DEF GenuineEvents, Genuine
  <2>5. ASSUME NEW k \in Occupied, Parent(k) = hole
        PROVE  Before(temp, data[k])
    <3>1. k \in {2 * hole, 2 * hole + 1} /\ k < next
      BY <1>1, <2>2, <2>5 DEF Parent
    <3>2. /\ Child \in {2 * hole, 2 * hole + 1} /\ Child \in Occupied
          /\ ~Before(data[Child], temp)
      BY <1>1, <2>1, <2>2, <3>1 DEF Child
    <3>3. Before(temp, data[Child])
      <4>1. data[Child].order # temp.order
        BY <1>1, <1>3, <3>2 DEF GenuineEvents
      <4>. QED BY <2>3, <3>2, <4>1, BeforeTotal
    <3>4. k # Child => Before(data[Child], data[k])
      <4>1. k # Child => data[Child].order # data[k].order
        BY <3>2, <2>5 DEF GenuineEvents
      <4>. QED BY <1>1, <2>3, <2>5, <3>1, <3>2, <4>1, BeforeTotal DEF Child
    <3>. QED BY <2>3, <2>5, <3>2, <3>3, <3>4, BeforeTransitive
  <2>6. ASSUME NEW k \in Occupied', k # 1
        PROVE  Before(data'[Parent(k)], data'[k])
    <3>1. Parent(k) \in 1 .. next - 1 /\ Parent(k) # k
      BY <1>1, <2>2, <2>6 DEF Parent
    <3>2. CASE k = hole
      BY <1>1, <2>2, <2>3, <2>6, <3>1, <3>2 DEF Carried
    <3>3. CASE k # hole /\ Parent(k) = hole
      BY <2>2, <2>3, <2>5, <3>3
    <3>4. CASE k # hole /\ Parent(k) # hole
      BY <2>2, <2>3, <2>6, <3>1, <3>4 DEF Ordered
    <3>. QED BY <3>2, <3>3, <3>4
  <2>7. Ordered'
    BY <1>1, <2>6 DEF Ordered
  <2>8. Carried'
    BY <1>1 DEF Carried
  <2>. QED BY <2>4, <2>7, <2>8
<1>. QED BY <1>1, <1>2, <1>3

LEMMA EventsHoleUp ==
    ASSUME Safe, Events, HoleUp
    PROVE  Events'
<1> USE DEF Safe, TypeOK, Control, Events, HoleUp, RootNode
<1> DEFINE up == Parent(hole)
<1>1. /\ up \in 1 .. size - 1 /\ up < hole /\ hole < next /\ next \in 1 .. size
      /\ size \in Nat /\ hole' = up /\ next' = next /\ tag' = tag
      /\ pc = "hole" /\ pc' = "hole"
      /\ data' = [data EXCEPT ![hole] = data[up]]
  BY SizesAssumption DEF Parent
<1>2. Occupied = (1 .. next - 1) \ {hole} /\ Occupied' = (1 .. next - 1) \ {up}
  BY <1>1 DEF Occupied
<1>3. /\ \A k \in Occupied : data'[k] = data[k] /\ data[k] \in Node
      /\ data'[hole] = data[up] /\ up \in Occupied
  BY <1>1, <1>2
<1>4. GenuineEvents'
  BY <1>1, <1>2, <1>3 DEF GenuineEvents, Genuine
<1>5. ASSUME NEW k \in Occupied', k # 1, Parent(k) \in Occupied'
      PROVE  Before(data'[Parent(k)], data'[k])
  BY <1>1, <1>2, <1>3, <1>5 DEF Ordered, Parent
<1>6. ASSUME NEW k \in Occupied', Parent(k) = up, up > 1
      PROVE  Before(data'[Parent(up)], data'[k])
  <2>1. Parent(up) \in Occupied /\ Parent(up) # hole /\ Parent(up) # up
    BY <1>1, <1>2, <1>6 DEF Parent
  <2>2. Before(data[Parent(up)], data[up])
    BY <1>1, <1>3, <1>6, <2>1 DEF Ordered
  <2>3. k # hole => Before(data[up], data[k])
    BY <1>1, <1>2, <1>3, <1>6 DEF Ordered, Parent
  <2>. QED BY <1>1, <1>2, <1>3, <2>1, <2>2, <2>3, BeforeTransitive
<1>7. Ordered'
  BY <1>1, <1>5, <1>6 DEF Ordered
<1>8. Carried'
  BY <1>1 DEF Carried
<1>. QED BY <1>4, <1>7, <1>8

\* A step that leaves the heap alone, between two loops.
LEMMA EventsKept ==
    ASSUME Safe, Events, UNCHANGED heapVars,
           {pc, pc'} \cap {"up", "hole", "down"} = {}
    PROVE  Events'
<1>1. Occupied' = Occupied /\ data' = data /\ tag' = tag
  BY DEF Occupied, heapVars
<1>. QED
  BY <1>1 DEF Events, GenuineEvents, Genuine, Ordered, Carried, Before

\* A step that leaves the heap empty.
LEMMA EventsEmpty ==
    ASSUME next' = RootNode, pc' \in {"idle", "flush"}
    PROVE  Events'
<1>1. Occupied' = {}
  BY DEF Occupied, RootNode
<1>. QED BY <1>1 DEF Events, GenuineEvents, Ordered, Carried

LEMMA EventsScanDelete ==
    ASSUME Safe, Events, ScanDelete
    PROVE  Events'
<1>1. /\ Occupied = 1 .. next - 1 /\ Occupied' = (1 .. next - 1) \ {i}
      /\ i \in 1 .. next - 1 /\ hole' = i /\ pc' = "hole"
      /\ data' = data /\ tag' = tag /\ size \in Nat /\ next \in 1 .. size
  BY SizesAssumption DEF ScanDelete, Occupied, Safe, TypeOK, heapVars
<1>2. GenuineEvents'
  BY <1>1 DEF Events, GenuineEvents, Genuine
<1>3. ASSUME NEW k \in Occupied', Parent(k) = i, i > 1
      PROVE  Before(data[Parent(i)], data[k])
  <2>1. Parent(i) \in Occupied /\ i \in Occupied /\ k \in Occupied /\ k # 1
    BY <1>1, <1>3 DEF Parent
  <2>2. Before(data[Parent(i)], data[i]) /\ Before(data[i], data[k])
    BY <1>3, <2>1 DEF Events, Ordered, RootNode
  <2>3. {data[Parent(i)], data[i], data[k]} \subseteq Node
    BY <1>1, <2>1 DEF Safe, TypeOK
  <2>. QED BY <2>2, <2>3, BeforeTransitive
<1>4. Ordered'
  BY <1>1, <1>3 DEF Events, Ordered, RootNode
<1>. QED BY <1>1, <1>2, <1>4 DEF Events, Carried

LEMMA EventsNext ==
    ASSUME ~ResizePending, Safe, Events, [Next]_vars
    PROVE  Events'
<1>1. CASE \E t \in Times, f \in Functions \ {ForcePendingFn} : ScheduleAt(t, f)
  BY <1>1, EventsCallScheduleAt, TimesAssumption DEF ScheduleAt
<1>2. CASE SiftUp
  BY <1>2, EventsSiftUp
<1>3. CASE SiftUpDone
  BY <1>3, EventsSiftUpDone
<1>4. CASE GetHeap \/ ForcePending
  <2> DEFINE d == [data EXCEPT ![0] = data[RootNode]]
  <2>1. /\ pc = "idle" /\ next > RootNode /\ FillRoot(d, next - 1)
        /\ UNCHANGED <<size, tag>>
    BY <1>4 DEF GetHeap, ForcePending, CallGetHeap
  <2>2. /\ size \in Nat /\ next \in 1 .. size /\ data \in [0 .. size - 1 -> Node]
        /\ Occupied = 1 .. next - 1
    BY <2>1, SizesAssumption DEF Safe, TypeOK, Occupied
  <2>3. d \in [0 .. size - 1 -> Node] /\ \A k \in 1 .. size - 1 : d[k] = data[k]
    BY <2>1, <2>2 DEF RootNode
  <2>4. \A k \in 2 .. next - 1 : k \in Occupied /\ Parent(k) \in Occupied
    BY <2>2 DEF Parent
  <2>5. \A k \in 2 .. next - 1 : Before(data[Parent(k)], data[k])
    BY <2>2, <2>4 DEF Events, Ordered, RootNode
  <2> HIDE DEF d
  <2>. QED
    BY <2>1, <2>2, <2>3, <2>4, <2>5, EventsFillRoot DEF Events
<1>5. CASE \E step \in Steps : ForceAgain(step)
  <2>1. PICK step \in Steps : ForceAgain(step)
    BY <1>5
  <2>2. 2 * (now + step) \in Nat /\ ForcePendingFn \in Functions /\ pc = "forced"
        /\ UNCHANGED heapVars
    BY <2>1, StepsAssumption, FunctionsAssumption, MaxNowAssumption
       DEF ForceAgain, Safe, TypeOK
  <2>3. CASE CallScheduleAt(2 * (now + step), ForcePendingFn, "idle")
    BY <2>2, <2>3, EventsCallScheduleAt
  <2>4. CASE pc' = "idle"
    BY <2>2, <2>4, EventsKept
  <2>. QED BY <2>1, <2>3, <2>4 DEF ForceAgain
<1>6. CASE SiftDown
  BY <1>6, EventsSiftDown
<1>7. CASE SiftDownDone
  BY <1>7, EventsSiftDownDone
<1>8. CASE (\E cancelled \in Tests : UnscheduleIf(cancelled)) \/ ScanKeep \/ ScanDone
  BY <1>8, EventsKept DEF UnscheduleIf, ScanKeep, ScanDone
<1>9. CASE ScanDelete
  BY <1>9, EventsScanDelete
<1>10. CASE HoleUp
  BY <1>10, EventsHoleUp
<1>11. CASE HoleFill
  <2>1. /\ pc = "hole" /\ hole = 1 /\ 1 < next /\ FillRoot(data, next - 1)
        /\ UNCHANGED <<size, tag>>
    BY <1>11 DEF HoleFill, Safe, Control, RootNode
  <2>2. /\ size \in Nat /\ next \in 1 .. size /\ data \in [0 .. size - 1 -> Node]
        /\ Occupied = 2 .. next - 1
    BY <2>1, SizesAssumption DEF Safe, TypeOK, Occupied
  <2>3. \A k \in 2 .. next - 1 : Parent(k) # 1 => Before(data[Parent(k)], data[k])
    <3>1. \A k \in 2 .. next - 1 : Parent(k) # 1 => Parent(k) \in Occupied
      BY <2>2 DEF Parent
    <3>. QED BY <2>2, <3>1 DEF Events, Ordered, RootNode
  <2>. QED
    BY <2>1, <2>2, <2>3, EventsFillRoot DEF Events, RootNode
<1>12. CASE FlushPending
  BY <1>12, EventsEmpty DEF FlushPending
<1>13. CASE FlushDrop \/ FlushDone
  BY <1>13, EventsKept DEF FlushDrop, FlushDone
<1>14. CASE FlushKeep
  <2>1. data[i] \in Node /\ data[i].function \in Functions
    BY <1>14, FunctionsAssumption, SizesAssumption DEF FlushKeep, Safe, TypeOK
  <2>. QED BY <1>14, <2>1, EventsCallScheduleAt DEF FlushKeep, Node
<1>15. CASE \E n \in Sizes : ResizeHeap(n)
  BY <1>15, EventsEmpty DEF ResizeHeap
<1>16. CASE NextBlock
  BY <1>16, EventsKept DEF NextBlock
<1>17. CASE UNCHANGED vars
  <2>1. UNCHANGED <<data, size, next, temp, tag, pc, hole, new>>
    BY <1>17 DEF vars, heapVars, callVars
  <2>2. Occupied' = Occupied
    BY <2>1 DEF Occupied
  <2>. QED
    BY <2>1, <2>2 DEF Events, GenuineEvents, Genuine, Ordered, Carried, Before
<1>. QED
  BY <1>1, <1>2, <1>3, <1>4, <1>5, <1>6, <1>7, <1>8, <1>9, <1>10, <1>11, <1>12,
     <1>13, <1>14, <1>15, <1>16, <1>17 DEF Next

\* HeapInv holds in every state, for a heap that is resized only when empty.
THEOREM HeapInvariant == ASSUME ~ResizePending PROVE Spec => []HeapInv
<1>1. Init => Safe /\ Events
  BY SafeInit, EventsInit
<1>2. Safe /\ Events /\ [Next]_vars => (Safe /\ Events)'
  BY SafeNext, EventsNext
<1>3. Safe /\ Events => HeapInv
  BY DEF Safe, Events, HeapInv
<1>. QED BY <1>1, <1>2, <1>3, PTL DEF Spec

\* Between two operations every event comes after its parent.
THEOREM HeapOrderedCorrect == ASSUME ~ResizePending PROVE Spec => []HeapOrdered
<1>1. TypeOK /\ HeapInv => HeapOrdered
  <2> SUFFICES ASSUME TypeOK, HeapInv, pc = "idle", NEW k \in 2 .. next - 1
               PROVE  Before(data[Parent(k)], data[k])
    BY DEF HeapOrdered
  <2>1. k \in Occupied \ {1} /\ Parent(k) \in Occupied
    BY SizesAssumption DEF Occupied, Parent, TypeOK
  <2>. QED BY <2>1 DEF HeapInv, Ordered, RootNode
<1>. QED BY <1>1, TypeCorrect, HeapInvariant, PTL

\* get-heap never meets the node of corrupted-heap.
THEOREM NoCorruptedNodeCorrect == ASSUME ~ResizePending PROVE Spec => []NoCorruptedNode
<1>1. HeapInv => NoCorruptedNode
  BY FunctionsAssumption DEF HeapInv, GenuineEvents, Genuine, NoCorruptedNode, Live
<1>. QED BY <1>1, HeapInvariant, PTL

-----------------------------------------------------------------------------
(* The root is the earliest event *)

\* A set of numbers that is not empty has a least one.
LEMMA LeastNumber ==
    ASSUME NEW S, S \subseteq Nat, S # {}
    PROVE  \E m \in S : \A j \in S : m <= j
<1>1. PICK m \in S : \A j \in S : ~(<<j, m>> \in OpToRel(<, Nat))
  BY NatLessThanWellFounded, WFMin
<1>2. \A j \in S : ~(j < m)
  BY <1>1 DEF OpToRel
<1>. QED BY <1>2

\* The least index of an event that does not come after the root has a
\* parent, which does.
LEMMA RootEarliest ==
    ASSUME TypeOK, HeapInv, pc \in {"idle", "scan"}, NEW k \in 2 .. next - 1
    PROVE  Before(data[1], data[k])
<1> DEFINE Late == {j \in 2 .. next - 1 : ~Before(data[1], data[j])}
<1>1. next \in 1 .. size /\ size \in Nat /\ data \in [0 .. size - 1 -> Node]
  BY SizesAssumption DEF TypeOK
<1>2. \A j \in 2 .. next - 1 : Before(data[Parent(j)], data[j])
  <2>1. Occupied = 1 .. next - 1
    BY DEF Occupied
  <2>2. \A j \in 2 .. next - 1 : j \in Occupied \ {1} /\ Parent(j) \in Occupied
    BY <1>1, <2>1 DEF Parent
  <2>. QED BY <2>2 DEF HeapInv, Ordered, RootNode
<1>3. SUFFICES ASSUME Late # {} PROVE FALSE
  BY <1>1
<1>4. PICK m \in Late : \A j \in Late : m <= j
  <2>1. Late \subseteq Nat
    BY <1>1
  <2> HIDE DEF Late
  <2>. QED BY <1>3, <2>1, LeastNumber
<1>5. /\ Parent(m) \in 1 .. next - 1 /\ Parent(m) < m
      /\ m \in 2 .. next - 1 /\ ~Before(data[1], data[m])
  BY <1>1, <1>4 DEF Parent
<1>6. Parent(m) # 1
  BY <1>2, <1>5
<1>7. Before(data[1], data[Parent(m)])
  <2>1. Parent(m) \notin Late
    BY <1>1, <1>4, <1>5
  <2>. QED BY <1>5, <1>6, <2>1
<1>8. {data[1], data[Parent(m)], data[m]} \subseteq Node
  BY <1>1, <1>5
<1>. QED BY <1>2, <1>5, <1>7, <1>8, BeforeTransitive

\* The events between two operations, by their slots.
LEMMA IdlePending ==
    ASSUME TypeOK, HeapInv, pc = "idle"
    PROVE  Pending = {data[k] : k \in 1 .. next - 1}
<1>1. ret = "idle"
  BY DEF HeapInv, Control
<1>. QED BY <1>1 DEF Pending, Live, Occupied

\* What get-heap returns is the earliest event, and it is taken off the heap.
LEMMA GetHeapStep ==
    ASSUME TypeOK, HeapInv, [Next]_vars, pc = "idle", pc' = "down"
    PROVE  /\ data'[0] \in Pending
           /\ \A e \in Pending : e = data'[0] \/ Before(data'[0], e)
           /\ Pending' = Pending \ {data'[0]}
<1> DEFINE d == [data EXCEPT ![0] = data[1]]
<1>1. PICK return \in {"idle", "forced"} : CallGetHeap(return)
  BY DEF Next, vars, ScheduleAt, CallScheduleAt, SiftUp, SiftUpDone, GetHeap, ForcePending,
         ForceAgain, SiftDown, SiftDownDone, UnscheduleIf, ScanKeep, ScanDelete, HoleUp,
         HoleFill, ScanDone, FlushPending, FlushDrop, FlushKeep, FlushDone, ResizeHeap, NextBlock
<1>2. /\ next \in 2 .. size /\ size \in Nat /\ data \in [0 .. size - 1 -> Node]
      /\ next' = next - 1 /\ hole' = 1 /\ ret' = return
      /\ data' = [d EXCEPT ![1] = d[next - 1], ![next - 1] = EmptyNode]
      /\ temp' = data'[1]
  BY <1>1, SizesAssumption DEF TypeOK, CallGetHeap, FillRoot, RootNode
<1>3. Pending = {data[k] : k \in 1 .. next - 1}
  BY IdlePending
<1>4. /\ data'[0] = data[1]
      /\ \A k \in 2 .. next - 2 : data'[k] = data[k]
      /\ next > 2 => temp' = data[next - 1]
  BY <1>2
<1>5. Pending' = {data[k] : k \in 2 .. next - 1}
  <2>1. Occupied' = 2 .. next - 2
    BY <1>2 DEF Occupied
  <2>2. Live' = {data[k] : k \in 2 .. next - 1}
    <3>1. CASE next = 2
      BY <1>2, <2>1, <3>1 DEF Live, RootNode
    <3>2. CASE next > 2
      <4>1. Live' = {data[k] : k \in 2 .. next - 2} \cup {data[next - 1]}
        <5>1. Live' = {data'[k] : k \in 2 .. next - 2} \cup {temp'}
          <6>1. pc' = "down" /\ next' > RootNode
            BY <1>2, <3>2 DEF RootNode
          <6>2. Live' = {data'[k] : k \in Occupied'} \cup {temp'}
            BY <6>1, Zenon DEF Live
          <6>. QED BY <2>1, <6>2
        <5>2. {data'[k] : k \in 2 .. next - 2} = {data[k] : k \in 2 .. next - 2}
          BY <1>4
        <5>. QED BY <1>4, <3>2, <5>1, <5>2
      <4>2. 2 .. next - 1 = (2 .. next - 2) \cup {next - 1}
        BY <1>2, <3>2
      <4>. QED BY <4>1, <4>2
    <3>. QED BY <1>2, <3>1, <3>2
  <2>. QED BY <1>2, <2>2 DEF Pending
<1>6. \A k \in 2 .. next - 1 : Before(data[1], data[k]) /\ data[k] # data[1]
  <2>1. \A k \in 2 .. next - 1 : Before(data[1], data[k])
    BY RootEarliest
  <2>2. \A k \in 2 .. next - 1 : data[k] \in Node /\ data[1] \in Node
    BY <1>2
  <2>. QED BY <2>1, <2>2 DEF Before, Node
<1>7. 1 .. next - 1 = {1} \cup (2 .. next - 1)
  BY <1>2
<1>8. Pending = {data[1]} \cup Pending'
  BY <1>3, <1>5, <1>7
<1>9. data[1] \notin Pending' /\ \A e \in Pending' : Before(data[1], e)
  BY <1>5, <1>6
<1>. QED BY <1>4, <1>8, <1>9

\* get-heap takes the earliest event off the heap, and no other.
THEOREM GotEarliestCorrect == ASSUME ~ResizePending PROVE Spec => GotEarliest
<1> DEFINE Got == pc = "idle" /\ pc' = "down" =>
                    /\ data'[0] \in Pending
                    /\ \A e \in Pending : e = data'[0] \/ Before(data'[0], e)
                    /\ Pending' = Pending \ {data'[0]}
<1>1. TypeOK /\ HeapInv /\ [Next]_vars => Got
  BY GetHeapStep
<1>. QED BY <1>1, TypeCorrect, HeapInvariant, PTL DEF GotEarliest, Spec

LEMMA NextBlockStep ==
    ASSUME TypeOK, HeapInv, [Next]_vars, now' # now, NEW e \in Pending
    PROVE  ~Due(e.time)
<1>1. NextBlock
  BY DEF Next, vars, heapVars, ScheduleAt, CallScheduleAt, SiftUp, SiftUpDone, GetHeap,
         ForcePending, CallGetHeap, ForceAgain, SiftDown, SiftDownDone, UnscheduleIf,
         ScanKeep, ScanDelete, HoleUp, HoleFill, ScanDone, FlushPending, FlushDrop,
         FlushKeep, FlushDone, ResizeHeap
<1>2. PICK k \in 1 .. next - 1 : e = data[k]
  BY <1>1, IdlePending DEF NextBlock
<1>3. /\ ~Due(data[1].time) /\ now \in Nat /\ size \in Nat /\ next \in 1 .. size
      /\ data[1] \in Node /\ data[k] \in Node
  BY <1>1, <1>2, SizesAssumption, MaxNowAssumption DEF NextBlock, TypeOK, RootNode
<1>4. k # 1 => Before(data[1], data[k])
  BY <1>1, <1>2, <1>3, RootEarliest DEF NextBlock
<1>. QED BY <1>2, <1>3, <1>4 DEF Before, Due, Node

\* The sample counter never passes an event that is due.
THEOREM NoMissedDeadlineCorrect == ASSUME ~ResizePending PROVE Spec => NoMissedDeadline
<1>1. TypeOK /\ HeapInv /\ [Next]_vars
        => (now' # now => \A e \in Pending : ~Due(e.time))
  BY NextBlockStep
<1>. QED BY <1>1, TypeCorrect, HeapInvariant, PTL DEF NoMissedDeadline, Spec

-----------------------------------------------------------------------------
(* The loops keep the set of events *)

LEMMA LiveSiftUp ==
    ASSUME Safe, SiftUp
    PROVE  Live' = Live
<1> USE DEF Safe, TypeOK, Control, SiftUp, RootNode
<1> DEFINE up == Parent(hole)
<1>1. /\ up \in 1 .. size - 1 /\ up < hole /\ hole <= next /\ next <= size - 1
      /\ size \in Nat
      /\ hole' = up /\ next' = next /\ pc = "up" /\ pc' = "up"
      /\ data' = [data EXCEPT ![hole] = data[up]]
  BY SizesAssumption DEF Parent
<1>2. Occupied = (1 .. next) \ {hole} /\ Occupied' = (1 .. next) \ {up}
  BY <1>1 DEF Occupied
<1>3. /\ up \in Occupied /\ hole \in Occupied' /\ data'[hole] = data[up]
      /\ \A k \in Occupied : data'[k] = data[k] /\ (k = up \/ k \in Occupied')
      /\ \A k \in Occupied' : k = hole \/ k \in Occupied
  BY <1>1, <1>2
<1>4. Live = {data[k] : k \in Occupied} /\ Live' = {data'[k] : k \in Occupied'}
  BY <1>1 DEF Live
<1> HIDE DEF Safe, TypeOK, Control, RootNode, up
<1>5. Live' \subseteq Live
  BY <1>3, <1>4
<1>6. Live \subseteq Live'
  BY <1>3, <1>4
<1>. QED BY <1>5, <1>6

LEMMA LiveSiftUpDone ==
    ASSUME Safe, SiftUpDone
    PROVE  Live' = Live \cup {[time |-> new.time, order |-> tag, function |-> new.function]}
<1> USE DEF Safe, TypeOK, Control, SiftUpDone, RootNode
<1>1. /\ hole \in 1 .. next /\ next \in 1 .. size - 1 /\ size \in Nat
      /\ pc = "up" /\ pc' \in {"idle", "forced", "flush"} /\ next' = next + 1
  BY SizesAssumption
<1>2. Occupied = (1 .. next) \ {hole} /\ Occupied' = 1 .. next
  BY <1>1 DEF Occupied
<1>3. PICK e : e = [time |-> new.time, order |-> tag, function |-> new.function]
  OBVIOUS
<1>4. /\ data'[hole] = e /\ hole \in Occupied'
      /\ \A k \in Occupied : data'[k] = data[k] /\ k \in Occupied'
      /\ \A k \in Occupied' : k = hole \/ k \in Occupied
  BY <1>1, <1>2, <1>3
<1>5. Live = {data[k] : k \in Occupied} /\ Live' = {data'[k] : k \in Occupied'}
  BY <1>1 DEF Live
<1>. QED BY <1>3, <1>4, <1>5

LEMMA LiveSiftDown ==
    ASSUME Safe, SiftDown
    PROVE  Live' = Live
<1> USE DEF Safe, TypeOK, Control, SiftDown, RootNode
<1>1. /\ hole \in 1 .. size - 1 /\ next \in 1 .. size /\ size \in Nat
      /\ Child \in {2 * hole, 2 * hole + 1} /\ Child < next
      /\ Child # hole /\ hole < next /\ next > 1
      /\ pc = "down" /\ pc' = "down" /\ next' = next /\ hole' = Child
      /\ temp' = temp
  BY SizesAssumption DEF Child
<1>2. Occupied = (1 .. next - 1) \ {hole} /\ Occupied' = (1 .. next - 1) \ {Child}
  BY <1>1 DEF Occupied
<1>3. /\ Child \in Occupied /\ hole \in Occupied' /\ data'[hole] = data[Child]
      /\ \A k \in Occupied : data'[k] = data[k] /\ (k = Child \/ k \in Occupied')
      /\ \A k \in Occupied' : k = hole \/ k \in Occupied
  BY <1>1, <1>2
<1>4. /\ Live = {data[k] : k \in Occupied} \cup {temp}
      /\ Live' = {data'[k] : k \in Occupied'} \cup {temp}
  BY <1>1 DEF Live
<1>. QED BY <1>3, <1>4

LEMMA LiveSiftDownDone ==
    ASSUME Safe, SiftDownDone
    PROVE  Live' = Live
<1> USE DEF Safe, TypeOK, Control, SiftDownDone, RootNode
<1>1. /\ hole \in 1 .. size - 1 /\ next \in 1 .. size /\ size \in Nat
      /\ pc = "down" /\ pc' \in {"idle", "forced", "scan"} /\ next' = next
  BY SizesAssumption
<1>2. CASE next = 1
  <2>1. Occupied = {} /\ Occupied' = {}
    BY <1>1, <1>2 DEF Occupied
  <2>. QED BY <1>1, <1>2, <2>1 DEF Live
<1>3. CASE next > 1
  <2>1. hole < next
    BY <1>1, <1>3
  <2>2. Occupied = (1 .. next - 1) \ {hole} /\ Occupied' = 1 .. next - 1
    BY <1>1 DEF Occupied
  <2>3. /\ data'[hole] = temp /\ hole \in Occupied'
        /\ \A k \in Occupied : data'[k] = data[k] /\ k \in Occupied'
        /\ \A k \in Occupied' : k = hole \/ k \in Occupied
    BY <1>1, <2>1, <2>2
  <2>4. /\ Live = {data[k] : k \in Occupied} \cup {temp}
        /\ Live' = {data'[k] : k \in Occupied'}
    BY <1>1, <1>3 DEF Live
  <2>. QED BY <2>3, <2>4
<1>. QED BY <1>1, <1>2, <1>3

LEMMA LiveHoleUp ==
    ASSUME Safe, HoleUp
    PROVE  Live' = Live
<1> USE DEF Safe, TypeOK, Control, HoleUp, RootNode
<1> DEFINE up == Parent(hole)
<1>1. /\ up \in 1 .. size - 1 /\ up < hole /\ hole < next /\ next \in 1 .. size
      /\ size \in Nat /\ hole' = up /\ next' = next
      /\ pc = "hole" /\ pc' = "hole"
      /\ data' = [data EXCEPT ![hole] = data[up]]
  BY SizesAssumption DEF Parent
<1>2. Occupied = (1 .. next - 1) \ {hole} /\ Occupied' = (1 .. next - 1) \ {up}
  BY <1>1 DEF Occupied
<1>3. /\ up \in Occupied /\ hole \in Occupied' /\ data'[hole] = data[up]
      /\ \A k \in Occupied : data'[k] = data[k] /\ (k = up \/ k \in Occupied')
      /\ \A k \in Occupied' : k = hole \/ k \in Occupied
  BY <1>1, <1>2
<1>4. Live = {data[k] : k \in Occupied} /\ Live' = {data'[k] : k \in Occupied'}
  BY <1>1 DEF Live
<1> HIDE DEF Safe, TypeOK, Control, RootNode, up
<1>5. Live' \subseteq Live
  BY <1>3, <1>4
<1>6. Live \subseteq Live'
  BY <1>3, <1>4
<1>. QED BY <1>5, <1>6

LEMMA LiveHoleFill ==
    ASSUME Safe, HoleFill
    PROVE  /\ Live' = Live
           /\ Occupied = 2 .. next - 1 /\ Occupied' = 2 .. next - 2
           /\ next > 2 => temp' = data[next - 1]
           /\ \A k \in 2 .. next - 2 : data'[k] = data[k]
<1> USE DEF Safe, TypeOK, Control, HoleFill, FillRoot, RootNode
<1>1. /\ hole = 1 /\ next \in 2 .. size /\ size \in Nat
      /\ pc = "hole" /\ pc' = "down" /\ next' = next - 1 /\ hole' = 1
      /\ data' = [data EXCEPT ![1] = data[next - 1], ![next - 1] = EmptyNode]
      /\ temp' = data'[1]
  BY SizesAssumption
<1>2. Occupied = 2 .. next - 1 /\ Occupied' = 2 .. next - 2
  BY <1>1 DEF Occupied
<1>3. /\ \A k \in 2 .. next - 2 : data'[k] = data[k]
      /\ next > 2 => temp' = data[next - 1]
  BY <1>1
<1>4. CASE next = 2
  <2>1. Occupied = {} /\ Occupied' = {}
    BY <1>2, <1>4
  <2>. QED BY <1>1, <1>2, <1>3, <1>4, <2>1 DEF Live
<1>5. CASE next > 2
  <2>1. /\ Live = {data[k] : k \in Occupied}
        /\ Live' = {data'[k] : k \in Occupied'} \cup {data[next - 1]}
    <3>1. Live = {data[k] : k \in Occupied}
      BY <1>1 DEF Live
    <3>2. pc' = "down" /\ next' > RootNode /\ temp' = data[next - 1]
      BY <1>1, <1>3, <1>5
    <3>3. Live' = {data'[k] : k \in Occupied'} \cup {temp'}
      BY <3>2, Zenon DEF Live
    <3>. QED BY <3>1, <3>2, <3>3
  <2>2. /\ next - 1 \in Occupied
        /\ \A k \in Occupied : k = next - 1 \/ k \in Occupied'
        /\ \A k \in Occupied' : k \in Occupied /\ data'[k] = data[k]
    BY <1>1, <1>2, <1>3, <1>5
  <2> HIDE DEF Safe, TypeOK, Control, HoleFill, FillRoot, RootNode
  <2>3. Live' \subseteq Live
    BY <2>1, <2>2
  <2>4. Live \subseteq Live'
    BY <2>1, <2>2
  <2>. QED BY <1>2, <1>3, <2>3, <2>4
<1>. QED BY <1>1, <1>4, <1>5

\* A step that leaves the array alone, outside the loops of the heap or into
\* schedule-at.
LEMMA LiveKept ==
    ASSUME Safe, UNCHANGED <<data, next>>, pc \notin {"up", "hole", "down"},
           pc' \notin {"hole", "down"}, pc' = "up" => hole' = next
    PROVE  Live' = Live
<1>1. next \in Nat /\ Occupied = 1 .. next - 1
  BY SizesAssumption DEF Safe, TypeOK, Occupied
<1>2. Occupied' = Occupied
  <2>1. CASE pc' = "up"
    <3>1. Occupied' = (1 .. next) \ {next}
      BY <2>1 DEF Occupied
    <3>2. \A k : k \in 1 .. next - 1 <=> k \in (1 .. next) \ {next}
      BY <1>1
    <3>. QED BY <1>1, <3>1, <3>2
  <2>2. CASE pc' # "up"
    BY <1>1, <2>2 DEF Occupied
  <2>. QED BY <2>1, <2>2
<1>. QED BY <1>2 DEF Live

-----------------------------------------------------------------------------
(* The number of events *)

LEMMA EventCount ==
    ASSUME NEW S, IsFiniteSet(S), NEW d, \A j, k \in S : d[j] = d[k] => j = k
    PROVE  LET T == {d[k] : k \in S}
           IN  IsFiniteSet(T) /\ Cardinality(T) = Cardinality(S)
<1> DEFINE T == {d[k] : k \in S}
           f == [k \in S |-> d[k]]
<1>1. f \in [S -> T] /\ \A k \in S : f[k] = d[k]
  OBVIOUS
<1>2. IsInjective(f)
  BY <1>1 DEF IsInjective
<1>3. \A t \in T : \E k \in S : f[k] = t
  BY <1>1
<1>4. f \in Bijection(S, T)
  BY <1>1, <1>2, <1>3 DEF Bijection, Injection, Surjection
<1>5. ExistsBijection(S, T)
  BY <1>4 DEF ExistsBijection
<1> HIDE DEF T
<1>6. IsFiniteSet(T) /\ Cardinality(T) = Cardinality(S)
  BY <1>5, FS_Bijection
<1>. QED BY <1>6 DEF T

\* Outside sift-down and delete-event there are next - 1 events.
LEMMA LiveCount ==
    ASSUME Safe, Events, pc \notin {"hole", "down"}
    PROVE  Cardinality(Live) = next - 1
<1>1. next \in Nat \ {0} /\ hole \in Nat
  BY SizesAssumption DEF Safe, TypeOK
<1>2. IsFiniteSet(Occupied) /\ Cardinality(Occupied) = next - 1
  <2>1. CASE pc = "up"
    <3>1. Occupied = (1 .. next) \ {hole} /\ hole \in 1 .. next
      BY <2>1, SizesAssumption DEF Occupied, Safe, TypeOK, Control
    <3>2. IsFiniteSet(1 .. next) /\ Cardinality(1 .. next) = next
      BY <1>1, FS_Interval
    <3>. QED BY <3>1, <3>2, FS_RemoveElement
  <2>2. CASE pc # "up"
    <3>1. Occupied = 1 .. next - 1
      BY <2>2 DEF Occupied
    <3>. QED BY <1>1, <3>1, FS_Interval
  <2>. QED BY <2>1, <2>2
<1>3. PICK d, O : d = data /\ O = Occupied
  OBVIOUS
<1>4. \A j, k \in O : d[j] = d[k] => j = k
  BY <1>3 DEF Events, GenuineEvents
<1>5. Live = {d[k] : k \in O}
  BY <1>3 DEF Live
<1>. QED BY <1>2, <1>3, <1>4, <1>5, EventCount

-----------------------------------------------------------------------------
(* unschedule-if *)

\* The steps of a running scan.
LEMMA ScanStep ==
    ASSUME Safe, [Next]_vars, ret' = "scan"
    PROVE  \/ \E cancelled \in Tests : UnscheduleIf(cancelled)
           \/ /\ ret = "scan" /\ UNCHANGED <<before, test>>
              /\ \/ ScanKeep \/ ScanDelete \/ HoleUp \/ HoleFill
                 \/ SiftDown \/ SiftDownDone \/ UNCHANGED vars
BY DEF Next, vars, heapVars, callVars, ScheduleAt, CallScheduleAt, SiftUp, SiftUpDone, GetHeap,
       ForcePending, CallGetHeap, ForceAgain, SiftDown, SiftDownDone, UnscheduleIf,
       ScanKeep, ScanDelete, HoleUp, HoleFill, ScanDone, FlushPending, FlushDrop,
       FlushKeep, FlushDone, ResizeHeap, NextBlock, Safe, Control

LEMMA LiveScanDelete ==
    ASSUME Safe, Events, ScanDelete
    PROVE  /\ Live' = Live \ {data[i]} /\ data[i] \in Live
           /\ Occupied = 1 .. next - 1 /\ Occupied' = (1 .. next - 1) \ {i}
           /\ i \in 1 .. next - 1 /\ next \in Nat
<1>1. /\ Occupied = 1 .. next - 1 /\ Occupied' = (1 .. next - 1) \ {i}
      /\ i \in 1 .. next - 1 /\ next \in Nat /\ pc = "scan" /\ pc' = "hole" /\ data' = data
  BY SizesAssumption DEF ScanDelete, Occupied, Safe, TypeOK, heapVars
<1>2. \A k \in Occupied : k # i => data[k] # data[i]
  BY <1>1 DEF Events, GenuineEvents
<1>3. Live = {data[k] : k \in Occupied} /\ Live' = {data[k] : k \in Occupied'}
  BY <1>1 DEF Live
<1>. QED BY <1>1, <1>2, <1>3

LEMMA ScanInvNext ==
    ASSUME Safe, Events, ScanInv, [Next]_vars
    PROVE  ScanInv'
<1> SUFFICES ASSUME ret' = "scan"
             PROVE  /\ Live' \subseteq before'
                    /\ \A e \in before' : Spared(e)' => e \in Live'
                    /\ Cardinality(before)' < 8 => next' <= 8
  BY DEF ScanInv
<1>1. CASE \E cancelled \in Tests : UnscheduleIf(cancelled)
  <2>1. /\ pc = "idle" /\ pc' = "scan" /\ UNCHANGED <<data, next>> /\ before' = Live
    BY <1>1 DEF UnscheduleIf, heapVars
  <2>2. Live' = Live
    BY <2>1, LiveKept
  <2>3. Cardinality(Live) = next - 1 /\ next \in Nat
    BY <2>1, LiveCount, SizesAssumption DEF Safe, TypeOK
  <2>. QED BY <2>1, <2>2, <2>3
<1>2. CASE ret = "scan" /\ UNCHANGED <<before, test>> /\ Live' = Live /\ next' \in {next, next - 1}
  <2>1. next \in Nat
    BY SizesAssumption DEF Safe, TypeOK
  <2>. QED BY <1>2, <2>1 DEF ScanInv, Spared
<1>3. CASE ret = "scan" /\ UNCHANGED <<before, test>> /\ ScanDelete
  <2>1. ~Spared(data[i]) /\ next' = next
    BY <1>3 DEF ScanDelete, Cancelled, Spared, heapVars
  <2>. QED BY <1>3, <2>1, LiveScanDelete DEF ScanInv, Spared
<1>4. ScanKeep => Live' = Live /\ next' = next
  BY LiveKept DEF ScanKeep, heapVars
<1>5. UNCHANGED vars => Live' = Live /\ next' = next
  BY DEF vars, heapVars, callVars, Live, Occupied
<1>6. HoleUp \/ SiftDown \/ SiftDownDone => Live' = Live /\ next' = next
  BY LiveHoleUp, LiveSiftDown, LiveSiftDownDone DEF HoleUp, SiftDown, SiftDownDone
<1>7. HoleFill => Live' = Live /\ next' = next - 1
  BY LiveHoleFill DEF HoleFill, FillRoot
<1>. QED BY <1>1, <1>2, <1>3, <1>4, <1>5, <1>6, <1>7, ScanStep

LEMMA RestartSmall ==
    ASSUME NEW k \in 1 .. 7
    PROVE  Restart(k) \in 1 .. 2 /\ (k = 1 => Restart(k) = 1)
<1> DEFINE S == {1} \cup {n \in 2 .. k : 2^n <= k}
<1>1. 2^2 = 4 /\ 2^3 = 8 /\ 2^4 = 16 /\ 2^5 = 32 /\ 2^6 = 64 /\ 2^7 = 128
  OBVIOUS
<1>2. ASSUME NEW n \in 2 .. k, 2^n <= k
      PROVE  n = 2
  <2>1. n \in {2, 3, 4, 5, 6, 7}
    OBVIOUS
  <2>2. CASE n = 3
    BY <1>1, <1>2, <2>2
  <2>3. CASE n = 4
    BY <1>1, <1>2, <2>3
  <2>4. CASE n = 5
    BY <1>1, <1>2, <2>4
  <2>5. CASE n = 6
    BY <1>1, <1>2, <2>5
  <2>6. CASE n = 7
    BY <1>1, <1>2, <2>6
  <2>. QED BY <2>1, <2>2, <2>3, <2>4, <2>5, <2>6
<1>3. S = {1} \/ S = {1, 2}
  BY <1>2
<1>4. k = 1 => S = {1}
  OBVIOUS
<1>5. Cardinality({1}) = 1 /\ IsFiniteSet({1})
  BY FS_Singleton
<1>6. Cardinality({1, 2}) = 2
  <2>1. {1, 2} = {1} \cup {2} /\ 2 \notin {1}
    OBVIOUS
  <2>. QED BY <1>5, <2>1, FS_AddElement
<1>. QED BY <1>3, <1>4, <1>5, <1>6 DEF Restart

\* The old root is the child that sift-down takes first.
LEMMA OldRootChild ==
    ASSUME Safe, Events, pc = "down", hole = 1, NEW k \in {2, 3} \cap Occupied,
           NEW r \in Node, r = data[k], \A e \in Live : e = r \/ Before(r, e)
    PROVE  Child = k /\ Before(r, temp) /\ 2 * hole < next
<1>1. /\ Occupied = 2 .. next - 1 /\ next \in Nat /\ next > 2 /\ size \in Nat
      /\ data \in [0 .. size - 1 -> Node] /\ next <= size /\ temp \in Node
  BY SizesAssumption DEF Safe, TypeOK, Occupied
<1>2. Live = {data[j] : j \in Occupied} \cup {temp}
  BY <1>1 DEF Live, RootNode
<1>3. temp.order # data[k].order
  BY <1>1 DEF Events, GenuineEvents, RootNode
<1>4. Before(r, temp)
  BY <1>2, <1>3
<1>5. ASSUME NEW j \in Occupied, j # k
      PROVE  Before(data[k], data[j]) /\ ~Before(data[j], data[k])
  <2>1. data[j].order # data[k].order
    BY <1>5 DEF Events, GenuineEvents
  <2>2. Before(r, data[j])
    BY <1>2, <2>1
  <2>3. data[j] \in Node /\ data[k] \in Node
    BY <1>1
  <2>. QED BY <2>2, <2>3 DEF Before, Node
<1>6. Child = k
  <2>1. CASE k = 2
    <3>1. 3 < next => 3 \in Occupied
      BY <1>1
    <3>2. 3 < next => ~Before(data[3], data[2])
      BY <1>5, <2>1, <3>1
    <3>. QED BY <2>1, <3>2 DEF Child
  <2>2. CASE k = 3
    <3>1. 2 \in Occupied /\ 3 < next
      BY <1>1, <2>2
    <3>2. Before(data[3], data[2])
      BY <1>5, <2>2, <3>1
    <3>. QED BY <2>2, <3>1, <3>2 DEF Child
  <2>. QED BY <2>1, <2>2
<1>. QED BY <1>1, <1>4, <1>6

\* Each step of delete-event keeps the old root where sift-down returns it to
\* the root.
LEMMA OldRootScanDelete ==
    ASSUME Safe, Events, ScanDelete, i > 1, Spared(data[1])
    PROVE  \E r \in Node : OldRoot(r)'
<1>1. /\ Live' = Live \ {data[i]} /\ Occupied = 1 .. next - 1
      /\ Occupied' = (1 .. next - 1) \ {i} /\ i \in 1 .. next - 1 /\ next \in Nat
  BY LiveScanDelete
<1>2. /\ pc = "scan" /\ pc' = "hole" /\ hole' = i /\ data' = data /\ test' = test
  BY DEF ScanDelete, heapVars
<1>3. data[1] \in Node /\ size \in Nat /\ next <= size
  BY SizesAssumption DEF Safe, TypeOK
<1>4. \A k \in 2 .. next - 1 : Before(data[1], data[k])
  BY <1>2, RootEarliest DEF Safe, Events, HeapInv
<1>5. Live' = {data[k] : k \in Occupied'}
  BY <1>2 DEF Live
<1>6. data[1] \in Live' /\ \A e \in Live' : e = data[1] \/ Before(data[1], e)
  <2>1. 1 \in Occupied' /\ \A k \in Occupied' : k = 1 \/ k \in 2 .. next - 1
    BY <1>1
  <2>. QED BY <1>4, <1>5, <2>1
<1>7. PICK r \in Node : r = data[1]
  BY <1>3
<1>8. OldRoot(r)'
  BY <1>1, <1>2, <1>6, <1>7 DEF OldRoot, Spared, RootNode, Before
<1>. QED BY <1>8

LEMMA OldRootHoleUp ==
    ASSUME Safe, HoleUp, NEW r \in Node, OldRoot(r)
    PROVE  OldRoot(r)'
<1>1. /\ hole > 1 /\ hole \in 1 .. next - 1 /\ next \in Nat /\ next <= size /\ size \in Nat
      /\ hole' = hole \div 2 /\ pc' = "hole" /\ next' = next
      /\ data' = [data EXCEPT ![hole] = data[hole \div 2]] /\ test' = test
      /\ data \in [0 .. size - 1 -> Node]
  BY SizesAssumption DEF HoleUp, Safe, TypeOK, Control, RootNode, Parent
<1>2. Occupied' = (1 .. next - 1) \ {hole'}
  BY <1>1 DEF Occupied
<1>3. r = data[1]
  BY <1>1 DEF OldRoot, RootNode
<1>4. Live' = Live
  BY LiveHoleUp
<1>5. CASE hole \in {2, 3}
  <2>1. hole' = 1 /\ data'[hole] = r /\ hole \in {2, 3} \cap Occupied'
    BY <1>1, <1>2, <1>3, <1>5
  <2>. QED BY <1>1, <1>4, <2>1 DEF OldRoot, Spared, RootNode, Before
<1>6. CASE hole \notin {2, 3}
  <2>1. hole' > 1 /\ data'[1] = r
    BY <1>1, <1>3, <1>6
  <2>. QED BY <1>1, <1>4, <2>1 DEF OldRoot, Spared, RootNode, Before
<1>. QED BY <1>5, <1>6

LEMMA OldRootHoleFill ==
    ASSUME Safe, HoleFill, NEW r \in Node, OldRoot(r)
    PROVE  OldRoot(r)'
<1>1. /\ hole = 1 /\ hole' = 1 /\ pc = "hole" /\ pc' = "down" /\ test' = test /\ next \in Nat
  BY SizesAssumption DEF HoleFill, FillRoot, RootNode, Safe, TypeOK
<1>2. /\ Live' = Live
      /\ Occupied = 2 .. next - 1 /\ Occupied' = 2 .. next - 2
      /\ next > 2 => temp' = data[next - 1]
      /\ \A k \in 2 .. next - 2 : data'[k] = data[k]
  BY LiveHoleFill
<1>3. PICK k \in {2, 3} \cap Occupied : r = data[k]
  BY <1>1 DEF OldRoot, RootNode
<1>4. \/ temp' = r
      \/ k \in {2, 3} \cap Occupied' /\ r = data'[k]
  BY <1>1, <1>2, <1>3
<1>. QED BY <1>1, <1>2, <1>4 DEF OldRoot, Spared, RootNode, Before

LEMMA OldRootSiftDown ==
    ASSUME Safe, Events, SiftDown, NEW r \in Node, OldRoot(r)
    PROVE  OldRoot(r)'
<1>1. /\ hole \in 1 .. size - 1 /\ size \in Nat /\ data \in [0 .. size - 1 -> Node]
      /\ pc = "down" /\ pc' = "down" /\ hole' = Child /\ test' = test /\ Child > 1
      /\ data' = [data EXCEPT ![hole] = data[Child]] /\ Before(data[Child], temp)
      /\ Child \in {2 * hole, 2 * hole + 1} /\ Child < next /\ next \in Nat
  BY SizesAssumption DEF SiftDown, Safe, TypeOK, RootNode, Child
<1>2. Live' = Live
  BY LiveSiftDown
<1>3. data'[1] = r
  <2>1. CASE hole = 1
    <3>1. r # temp
      <4>1. data[Child] \in Live /\ data[Child] \in Node /\ temp \in Node
        <5>1. Child \in Occupied
          BY <1>1 DEF Occupied
        <5>. QED BY <1>1, <5>1 DEF Live, Safe, TypeOK
      <4>2. r = temp => data[Child] = temp \/ Before(temp, data[Child])
        BY <4>1 DEF OldRoot
      <4>. QED BY <1>1, <4>1, <4>2 DEF Before, Node
    <3>2. PICK k \in {2, 3} \cap Occupied : r = data[k]
      BY <2>1, <3>1 DEF OldRoot, RootNode
    <3>3. Child = k
      BY <1>1, <2>1, <3>2, OldRootChild DEF OldRoot
    <3>. QED BY <1>1, <2>1, <3>2, <3>3
  <2>2. CASE hole > 1
    BY <1>1, <2>2 DEF OldRoot, RootNode
  <2>. QED BY <1>1, <2>1, <2>2
<1>. QED BY <1>1, <1>2, <1>3 DEF OldRoot, Spared, RootNode, Before

LEMMA OldRootSiftDownDone ==
    ASSUME Safe, Events, SiftDownDone, NEW r \in Node, OldRoot(r)
    PROVE  Spared(data'[1])
<1>1. /\ hole \in 1 .. size - 1 /\ size \in Nat /\ data \in [0 .. size - 1 -> Node]
      /\ pc = "down" /\ data' = [data EXCEPT ![hole] = temp] /\ next \in Nat
      /\ 2 * hole < next => ~Before(data[Child], temp)
  BY SizesAssumption DEF SiftDownDone, Safe, TypeOK
<1>2. data'[1] = r
  <2>1. CASE hole = 1
    <3>1. SUFFICES ASSUME r # temp PROVE FALSE
      BY <1>1, <2>1
    <3>2. PICK k \in {2, 3} \cap Occupied : r = data[k]
      BY <2>1, <3>1 DEF OldRoot, RootNode
    <3>3. Child = k /\ Before(r, temp) /\ 2 * hole < next
      BY <1>1, <2>1, <3>2, OldRootChild DEF OldRoot
    <3>. QED BY <1>1, <3>2, <3>3
  <2>2. CASE hole > 1
    BY <1>1, <2>2 DEF OldRoot, RootNode
  <2>. QED BY <1>1, <2>1, <2>2
<1>. QED BY <1>2 DEF OldRoot

LEMMA ScannedInvNext ==
    ASSUME Safe, Events, ScanInv, ScannedInv, [Next]_vars
    PROVE  ScannedInv'
<1> SUFFICES ASSUME ret' = "scan", Cardinality(before') < 8
             PROVE  /\ pc' = "scan" => \A k \in 1 .. i' - 1 : Spared(data[k])'
                    /\ pc' \in {"hole", "down"} => i' < 8
                    /\ pc' \in {"hole", "down"} /\ i' > 1 => \E r \in Node : OldRoot(r)'
  BY DEF ScannedInv, RootNode
<1>1. CASE \E cancelled \in Tests : UnscheduleIf(cancelled)
  BY <1>1 DEF UnscheduleIf, RootNode
<1>2. ASSUME ret = "scan", UNCHANGED <<before, test>>,
             \/ ScanKeep \/ ScanDelete \/ HoleUp \/ HoleFill
             \/ SiftDown \/ SiftDownDone \/ UNCHANGED vars
      PROVE  /\ pc' = "scan" => \A k \in 1 .. i' - 1 : Spared(data[k])'
             /\ pc' \in {"hole", "down"} => i' < 8
             /\ pc' \in {"hole", "down"} /\ i' > 1 => \E r \in Node : OldRoot(r)'
  <2>1. /\ pc = "scan" => \A k \in 1 .. i - 1 : Spared(data[k])
        /\ pc \in {"hole", "down"} => i < 8
        /\ pc \in {"hole", "down"} /\ i > 1 => \E r \in Node : OldRoot(r)
        /\ next <= 8 /\ i \in Nat \ {0} /\ next \in Nat
    BY <1>2, SizesAssumption DEF ScannedInv, ScanInv, Safe, TypeOK, RootNode
  <2>2. CASE ScanKeep
    <3>1. /\ pc' = "scan" /\ i' = i + 1 /\ data' = data /\ pc = "scan" /\ ~Cancelled(i)
      BY <2>2 DEF ScanKeep, heapVars
    <3>2. Spared(data[i])
      BY <3>1 DEF Cancelled, Spared
    <3>3. \A k \in 1 .. i : Spared(data[k])
      BY <2>1, <3>1, <3>2
    <3>. QED BY <1>2, <2>1, <3>1, <3>3 DEF Spared
  <2>3. CASE ScanDelete
    <3>1. i' = i /\ pc' = "hole" /\ (i > 1 => Spared(data[1])) /\ i < 8
      BY <2>1, <2>3 DEF ScanDelete
    <3>. QED BY <2>3, <3>1, OldRootScanDelete
  <2>4. CASE HoleUp
    <3>1. i' = i /\ pc = "hole" /\ pc' = "hole"
      BY <2>4 DEF HoleUp
    <3>. QED BY <2>1, <2>4, <3>1, OldRootHoleUp
  <2>5. CASE HoleFill
    <3>1. i' = i /\ pc = "hole" /\ pc' = "down"
      BY <2>5 DEF HoleFill, FillRoot
    <3>. QED BY <2>1, <2>5, <3>1, OldRootHoleFill
  <2>6. CASE SiftDown
    <3>1. i' = i /\ pc = "down" /\ pc' = "down"
      BY <2>6 DEF SiftDown
    <3>. QED BY <2>1, <2>6, <3>1, OldRootSiftDown
  <2>7. CASE SiftDownDone
    <3>1. i' = Restart(i) /\ pc = "down" /\ pc' = "scan"
      BY <1>2, <2>7 DEF SiftDownDone
    <3>2. i < 8
      BY <2>1, <3>1
    <3>3. i' \in 1 .. 2 /\ (i = 1 => i' = 1)
      BY <2>1, <3>1, <3>2, RestartSmall
    <3>4. i > 1 => Spared(data'[1])
      BY <2>1, <2>7, <3>1, OldRootSiftDownDone
    <3>5. i' = 1 \/ (i' = 2 /\ i > 1)
      BY <2>1, <3>3
    <3>6. \A k \in 1 .. i' - 1 : k = 1 /\ i > 1
      BY <3>5
    <3>. QED BY <1>2, <3>1, <3>4, <3>6 DEF Spared
  <2>8. CASE UNCHANGED vars
    BY <2>1, <2>8 DEF vars, heapVars, callVars, OldRoot, Live, Occupied, Spared, Before
  <2>. QED BY <1>2, <2>2, <2>3, <2>4, <2>5, <2>6, <2>7, <2>8
<1>. QED BY <1>1, <1>2, ScanStep

-----------------------------------------------------------------------------
(* flush-pending *)

\* The steps of a running flush.
LEMMA FlushStep ==
    ASSUME Safe, [Next]_vars, ret' = "flush"
    PROVE  \/ FlushPending
           \/ /\ ret = "flush" /\ UNCHANGED <<before, count>>
              /\ FlushDrop \/ FlushKeep \/ SiftUp \/ SiftUpDone \/ UNCHANGED vars
BY DEF Next, vars, heapVars, callVars, ScheduleAt, CallScheduleAt, SiftUp, SiftUpDone, GetHeap,
       ForcePending, CallGetHeap, ForceAgain, SiftDown, SiftDownDone, UnscheduleIf,
       ScanKeep, ScanDelete, HoleUp, HoleFill, ScanDone, FlushPending, FlushDrop,
       FlushKeep, FlushDone, ResizeHeap, NextBlock, Safe, Control

\* The events of done with the orders of rank.
Ranked(done, rank) == {[e EXCEPT !.order = rank[e]] : e \in done}

LEMMA FlushInvStart ==
    ASSUME Safe, Events, FlushPending
    PROVE  FlushInv'
<1>1. /\ pc = "idle" /\ pc' = "flush" /\ count' = next - 1 /\ i' = 1 /\ before' = Live
      /\ next' = 1 /\ data' = data /\ tag' = 0
  BY DEF FlushPending, RootNode
<1>2. Occupied = 1 .. next - 1 /\ Occupied' = {}
  BY <1>1 DEF Occupied
<1>3. Live = {data[k] : k \in 1 .. next - 1} /\ Live' = {}
  BY <1>1, <1>2 DEF Live
<1>4. Rest' = before'
  BY <1>1, <1>3 DEF Rest
<1>5. \A j, k \in 1 .. next - 1 : data[j] = data[k] => j = k
  BY <1>2 DEF Events, GenuineEvents
<1>6. PICK rank \in [{} -> Nat] : TRUE
  <2>1. [e \in {} |-> 0] \in [{} -> Nat]
    OBVIOUS
  <2>. QED BY <2>1
<1>7. Reinserted({}, rank)'
  BY <1>1, <1>3, <1>4, <1>6 DEF Reinserted
<1>. QED BY <1>1, <1>4, <1>5, <1>6, <1>7 DEF FlushInv

LEMMA FlushInvDrop ==
    ASSUME Safe, FlushInv, FlushDrop
    PROVE  FlushInv'
<1>1. /\ pc = "flush" /\ pc' = "flush" /\ i' = i + 1 /\ ret = "flush" /\ ret' = "flush"
      /\ UNCHANGED <<data, next, tag, count, before>> /\ i \in Nat /\ count \in Nat
      /\ i <= count /\ data[i].function \notin Crucial
  BY SizesAssumption DEF FlushDrop, heapVars, Safe, Control, TypeOK
<1>2. Live' = Live
  BY <1>1, LiveKept
<1>3. PICK done \in SUBSET before : \E rank \in [done -> Nat] : Reinserted(done, rank)
  BY <1>1 DEF FlushInv
<1>4. PICK rank \in [done -> Nat] : Reinserted(done, rank)
  BY <1>3
<1>5. Rest = Rest' \cup {data[i]}
  BY <1>1 DEF Rest
<1>6. Reinserted(done, rank)'
  BY <1>1, <1>2, <1>4, <1>5 DEF Reinserted
<1>7. Rest' \subseteq before' /\ \A j, k \in i' .. count' : data'[j] = data'[k] => j = k
  BY <1>1, <1>5 DEF FlushInv
<1>. QED BY <1>1, <1>3, <1>4, <1>6, <1>7 DEF FlushInv

LEMMA FlushInvKeep ==
    ASSUME Safe, FlushInv, FlushKeep
    PROVE  FlushInv'
<1>1. /\ pc = "flush" /\ pc' = "up" /\ i' = i + 1 /\ ret = "flush" /\ ret' = "flush"
      /\ UNCHANGED <<data, next, tag, count, before>> /\ i \in Nat /\ count \in Nat
      /\ i <= count /\ data[i].function \in Crucial /\ hole' = next
      /\ new' = [time |-> data[i].time, function |-> data[i].function]
  BY SizesAssumption DEF FlushKeep, CallScheduleAt, heapVars, Safe, Control, TypeOK
<1>2. Live' = Live
  BY <1>1, LiveKept
<1>3. PICK done \in SUBSET before : \E rank \in [done -> Nat] : Reinserted(done, rank)
  BY <1>1 DEF FlushInv
<1>4. PICK rank \in [done -> Nat] : Reinserted(done, rank)
  BY <1>3
<1>5. Rest = Rest' \cup {data[i]}
  BY <1>1 DEF Rest
<1>6. data[i] \notin Rest'
  <2>1. \A k \in i + 1 .. count : data[k] # data[i]
    BY <1>1 DEF FlushInv
  <2>. QED BY <1>1, <2>1 DEF Rest
<1>7. Rest' \subseteq before' /\ \A j, k \in i' .. count' : data'[j] = data'[k] => j = k
  BY <1>1, <1>5 DEF FlushInv
<1>8. PICK c : c = data[i]
  OBVIOUS
<1>9. c \in before \ (done \cup Rest') /\ c.function \in Crucial
      /\ new' = [time |-> c.time, function |-> c.function]
  BY <1>1, <1>4, <1>5, <1>6, <1>8 DEF Reinserted, FlushInv
<1>10. \A e \in before : e.function \in Crucial => e \in done \cup Rest' \cup {c}
  BY <1>1, <1>4, <1>5, <1>8 DEF Reinserted
<1>11. Reinserted(done, rank)'
  BY <1>1, <1>2, <1>4, <1>5, <1>9, <1>10 DEF Reinserted
<1>. QED BY <1>1, <1>3, <1>4, <1>7, <1>11 DEF FlushInv

\* The slots that the flush still has to look at are behind those it writes.
LEMMA RestKept ==
    ASSUME Safe, ret = "flush", pc = "up", UNCHANGED <<i, count>>,
           NEW e, data' = [data EXCEPT ![hole] = e]
    PROVE  Rest' = Rest /\ \A k \in i .. count : data'[k] = data[k]
<1>1. /\ hole < i /\ i \in Nat /\ count \in 0 .. size - 1 /\ size \in Nat /\ hole \in Nat
      /\ data \in [0 .. size - 1 -> Node]
  BY SizesAssumption DEF Safe, TypeOK, Control
<1>2. \A k \in i .. count : data'[k] = data[k]
  BY <1>1
<1>. QED BY <1>2 DEF Rest

LEMMA FlushInvSiftUp ==
    ASSUME Safe, FlushInv, SiftUp, ret = "flush"
    PROVE  FlushInv'
<1>1. /\ pc = "up" /\ pc' = "up" /\ ret' = "flush"
      /\ UNCHANGED <<next, tag, count, before, i, new>>
      /\ data' = [data EXCEPT ![hole] = data[Parent(hole)]]
  BY DEF SiftUp
<1>2. Live' = Live
  BY LiveSiftUp
<1>3. Rest' = Rest /\ \A k \in i .. count : data'[k] = data[k]
  <2>1. PICK e : e = data[Parent(hole)]
    OBVIOUS
  <2>. QED BY <1>1, <2>1, RestKept
<1>4. PICK done \in SUBSET before : \E rank \in [done -> Nat] : Reinserted(done, rank)
  BY DEF FlushInv
<1>5. PICK rank \in [done -> Nat] : Reinserted(done, rank)
  BY <1>4
<1>6. Reinserted(done, rank)'
  BY <1>1, <1>2, <1>3, <1>5 DEF Reinserted
<1>. QED BY <1>1, <1>3, <1>4, <1>5, <1>6 DEF FlushInv

LEMMA FlushInvSiftUpDone ==
    ASSUME Safe, FlushInv, SiftUpDone, ret = "flush"
    PROVE  FlushInv'
<1>1. /\ pc = "up" /\ pc' = "flush" /\ ret' = "flush" /\ tag' = tag + 1 /\ tag \in Nat
      /\ UNCHANGED <<count, before, i>> /\ before \in SUBSET Node
  BY TagLimitAssumption DEF SiftUpDone, Safe, Control, TypeOK
<1>2. Live' = Live \cup {[time |-> new.time, order |-> tag, function |-> new.function]}
  BY LiveSiftUpDone
<1>3. Rest' = Rest /\ \A k \in i .. count : data'[k] = data[k]
  <2>1. PICK e : e = [time |-> new.time, order |-> tag, function |-> new.function]
    OBVIOUS
  <2>2. data' = [data EXCEPT ![hole] = e]
    BY <2>1 DEF SiftUpDone
  <2>. QED BY <1>1, <2>2, RestKept
<1>4. PICK done \in SUBSET before : \E rank \in [done -> Nat] : Reinserted(done, rank)
  BY DEF FlushInv
<1>5. PICK rank \in [done -> Nat] : Reinserted(done, rank)
  BY <1>4
<1>6. PICK c \in before \ (done \cup Rest) :
        /\ c.function \in Crucial
        /\ new = [time |-> c.time, function |-> c.function]
        /\ \A e \in before : e.function \in Crucial => e \in done \cup Rest \cup {c}
  BY <1>1, <1>5 DEF Reinserted
<1>7. PICK n \in Nat : n = tag
  BY <1>1
<1>8. PICK done1, kept : /\ done1 = done \cup {c}
                        /\ kept = [time |-> c.time, order |-> n, function |-> c.function]
  OBVIOUS
<1>9. PICK rank1 : /\ rank1 \in [done1 -> Nat]
                   /\ \A e \in done1 : rank1[e] < n + 1
                   /\ \A e, x \in done1 : rank1[e] = rank1[x] => e = x
                   /\ Ranked(done1, rank1) = Ranked(done, rank) \cup {kept}
  <2>1. done \in SUBSET Node /\ c \in Node /\ c \notin done
    BY <1>1, <1>6
  <2>2. /\ \A e \in done : rank[e] < n
        /\ \A e, x \in done : rank[e] = rank[x] => e = x
    BY <1>5, <1>7 DEF Reinserted
  <2>3. PICK rank1 : rank1 = [e \in done1 |-> IF e = c THEN n ELSE rank[e]]
    OBVIOUS
  <2>4. /\ rank1 \in [done1 -> Nat] /\ rank1[c] = n
        /\ \A e \in done : rank1[e] = rank[e] /\ rank[e] \in Nat
    BY <1>8, <2>1, <2>3
  <2>5. /\ \A e \in done1 : rank1[e] < n + 1
        /\ \A e, x \in done1 : rank1[e] = rank1[x] => e = x
    BY <1>8, <2>2, <2>4
  <2>6. [c EXCEPT !.order = n] = kept
    BY <1>8, <2>1 DEF Node
  <2>7. Ranked(done1, rank1) = Ranked(done, rank) \cup {[c EXCEPT !.order = n]}
    BY <1>8, <2>4 DEF Ranked
  <2>. QED BY <2>4, <2>5, <2>6, <2>7
<1>10. Live' = Ranked(done1, rank1)
  BY <1>2, <1>5, <1>6, <1>7, <1>8, <1>9 DEF Reinserted, Ranked
<1>11. Reinserted(done1, rank1)'
  <2>1. /\ done1 \subseteq before' \ Rest' /\ rank1 \in [done1 -> Nat]
        /\ \A e \in done1 : rank1[e] < tag' /\ e.function \in Crucial
    BY <1>1, <1>3, <1>5, <1>6, <1>7, <1>8, <1>9 DEF Reinserted
  <2>2. \A e, x \in done1 : rank1[e] = rank1[x] => e = x
    BY <1>9
  <2>3. Live' = {[e EXCEPT !.order = rank1[e]] : e \in done1}
    BY <1>10 DEF Ranked
  <2>4. \A e \in before' : e.function \in Crucial => e \in done1 \cup Rest'
    BY <1>1, <1>3, <1>6, <1>8
  <2>. QED BY <1>1, <2>1, <2>2, <2>3, <2>4 DEF Reinserted
<1>12. done1 \in SUBSET before' /\ rank1 \in [done1 -> Nat]
  BY <1>1, <1>6, <1>8, <1>9
<1>. QED BY <1>1, <1>3, <1>11, <1>12 DEF FlushInv

LEMMA FlushInvNext ==
    ASSUME Safe, Events, FlushInv, [Next]_vars
    PROVE  FlushInv'
<1> SUFFICES ASSUME ret' = "flush" PROVE FlushInv'
  BY DEF FlushInv
<1>1. CASE UNCHANGED vars
  BY <1>1, SMTT(30) DEF vars, heapVars, callVars, FlushInv, Reinserted, Rest, Live, Occupied
<1>. QED BY <1>1, FlushStep, FlushInvStart, FlushInvDrop, FlushInvKeep, FlushInvSiftUp,
            FlushInvSiftUpDone

-----------------------------------------------------------------------------
(* The heap implements the queue *)

LEMMA NewTimesNext ==
    ASSUME Safe, NewTimes, [Next]_vars
    PROVE  NewTimes'
<1> SUFFICES ASSUME pc' = "up", ret' # "flush" PROVE new'.time \in EventTimes
  BY DEF NewTimes, EventTimes
<1>1. CASE \E t \in Times, f \in Functions \ {ForcePendingFn} : ScheduleAt(t, f)
  BY <1>1 DEF ScheduleAt, CallScheduleAt, EventTimes
<1>2. CASE SiftUp
  BY <1>2 DEF SiftUp, NewTimes
<1>3. CASE \E step \in Steps : ForceAgain(step)
  <2>1. PICK step \in Steps : ForceAgain(step)
    BY <1>3
  <2>2. new'.time = 2 * (now + step) /\ now \in 0 .. MaxNow
    BY <2>1 DEF ForceAgain, CallScheduleAt, Safe, TypeOK
  <2>. QED BY <2>2 DEF EventTimes
<1>4. CASE UNCHANGED vars
  BY <1>4 DEF vars, callVars, NewTimes
<1>. QED
  BY <1>1, <1>2, <1>3, <1>4
     DEF Next, SiftUpDone, GetHeap, ForcePending, CallGetHeap, FillRoot,
         SiftDown, SiftDownDone, UnscheduleIf, ScanKeep, ScanDelete, HoleUp, HoleFill,
         ScanDone, FlushPending, FlushDrop, FlushKeep, CallScheduleAt, FlushDone, ResizeHeap,
         NextBlock, Safe, TypeOK, Control

RefinementInv == /\ Safe /\ Events
                 /\ NewTimes /\ ScanInv /\ ScannedInv /\ FlushInv

\* The invariant of the refinement: the heap order, and what a running scan or
\* flush owes to the events that were pending before it.
LEMMA RefinementInvariant == ASSUME ~ResizePending PROVE Spec => []RefinementInv
<1>1. Init => RefinementInv
  <2>1. Init => NewTimes /\ ScanInv /\ ScannedInv /\ FlushInv
    BY DEF Init, NewTimes, ScanInv, ScannedInv, FlushInv
  <2>. QED BY <2>1, SafeInit, EventsInit DEF RefinementInv
<1>2. RefinementInv /\ [Next]_vars => RefinementInv'
  <2> SUFFICES ASSUME RefinementInv, [Next]_vars PROVE RefinementInv'
    OBVIOUS
  <2>1. Safe /\ Events /\ NewTimes /\ ScanInv /\ ScannedInv /\ FlushInv
    BY DEF RefinementInv
  <2>2. Safe' /\ Events'
    BY <2>1, SafeNext, EventsNext
  <2>3. NewTimes' /\ ScanInv'
    BY <2>1, NewTimesNext, ScanInvNext
  <2>4. ScannedInv' /\ FlushInv'
    BY <2>1, ScannedInvNext, FlushInvNext
  <2>. QED BY <2>2, <2>3, <2>4 DEF RefinementInv
<1>. QED BY <1>1, <1>2, PTL DEF Spec

LEMMA PendingByReturn ==
    ASSUME Safe
    PROVE  Pending = IF ret \in {"scan", "flush"} THEN before ELSE Live
BY DEF Pending, Safe, Control

LEMMA QueueCardinality == \A S : Queue!Cardinality(S) = Cardinality(S)
BY Zenon DEF Queue!Cardinality, Cardinality, Queue!IsFiniteSet, IsFiniteSet

LEMMA QueueSchedule ==
    ASSUME RefinementInv, Safe', SiftUpDone, ret # "flush"
    PROVE  Queue!Next
<1>1. /\ pc = "up" /\ ret \in {"idle", "forced"} /\ ret' = "idle" /\ UNCHANGED <<size, now>>
      /\ new.function \in Functions /\ new.time \in EventTimes
      /\ tag \in 0 .. TagLimit - 1 /\ size \in Nat /\ next < size /\ next \in Nat
  BY SizesAssumption DEF SiftUpDone, RefinementInv, Safe, TypeOK, Control, NewTimes
<1>2. Pending = Live /\ Pending' = Live'
  <2>1. Pending = Live
    BY <1>1, PendingByReturn DEF RefinementInv
  <2>2. (Safe => Pending = IF ret \in {"scan", "flush"} THEN before ELSE Live)'
    BY PendingByReturn, PTL
  <2>. QED BY <1>1, <2>1, <2>2
<1>3. Live' = Live \cup {[time |-> new.time, order |-> tag, function |-> new.function]}
  BY LiveSiftUpDone DEF RefinementInv
<1>4. Cardinality(Live) < size - 1
  <2>1. Cardinality(Live) = next - 1
    BY <1>1, LiveCount DEF RefinementInv
  <2>. QED BY <1>1, <2>1
<1>5. \A x \in Live : x.order < tag
  BY <1>1 DEF RefinementInv, Events, GenuineEvents, Genuine, Live
<1>6. Queue!Schedule(new.time, new.function)
  BY <1>1, <1>2, <1>3, <1>4, <1>5, QueueCardinality DEF Queue!Schedule
<1>. QED BY <1>1, <1>6 DEF Queue!Next

LEMMA QueueCall ==
    ASSUME RefinementInv, [Next]_vars, GetHeap \/ ForcePending
    PROVE  Queue!Next
<1>1. pc = "idle" /\ pc' = "down" /\ UNCHANGED <<size, now>>
  BY DEF GetHeap, ForcePending, CallGetHeap, FillRoot
<1>2. /\ data'[0] \in Pending
      /\ \A e \in Pending : e = data'[0] \/ Before(data'[0], e)
      /\ Pending' = Pending \ {data'[0]}
  BY <1>1, GetHeapStep DEF RefinementInv, Safe, Events, HeapInv
<1>3. Queue!Call(data'[0])
  BY <1>1, <1>2 DEF Queue!Call, Queue!Earliest, Queue!Before, Before
<1>. QED BY <1>2, <1>3 DEF Queue!Next

LEMMA QueueUnschedule ==
    ASSUME RefinementInv, Safe', ScanDone
    PROVE  Queue!Next
<1>1. /\ pc = "scan" /\ i >= next /\ ret = "scan" /\ ret' = "idle" /\ pc' = "idle"
      /\ UNCHANGED <<data, next, size, now>> /\ test \in SUBSET Functions
      /\ i \in Nat /\ next \in Nat
  BY SizesAssumption DEF ScanDone, RefinementInv, Safe, TypeOK, Control, heapVars
<1>2. Pending = before /\ Pending' = Live
  <2>1. Pending = before
    BY <1>1, PendingByReturn DEF RefinementInv
  <2>2. (Safe => Pending = IF ret \in {"scan", "flush"} THEN before ELSE Live)'
    BY PendingByReturn, PTL
  <2>3. Live' = Live
    BY <1>1, LiveKept DEF RefinementInv
  <2>. QED BY <1>1, <2>1, <2>2, <2>3
<1>3. Live \subseteq before /\ \A e \in before : Spared(e) => e \in Live
  BY <1>1 DEF RefinementInv, ScanInv
<1>4. ASSUME Cardinality(before) < 8, NEW e \in Live
      PROVE  Spared(e)
  <2>1. PICK k \in 1 .. next - 1 : e = data[k]
    BY <1>1 DEF Live, Occupied
  <2>2. k \in 1 .. i - 1
    BY <1>1, <2>1
  <2>. QED BY <1>1, <1>4, <2>1, <2>2 DEF RefinementInv, ScannedInv
<1>5. Queue!Unschedule(test)
  <2> DEFINE spared == {e \in before : e.function \in Crucial \/ e.function \notin test}
  <2>1. spared \subseteq Live
    BY <1>3 DEF Spared
  <2>2. Cardinality(before) < 8 => Live \subseteq spared
    BY <1>3, <1>4 DEF Spared
  <2>3. Cardinality(before) < 8 => Live = spared
    BY <2>1, <2>2
  <2>. QED BY <1>1, <1>2, <1>3, <2>1, <2>3, QueueCardinality DEF Queue!Unschedule
<1>. QED BY <1>1, <1>5 DEF Queue!Next

LEMMA QueueFlush ==
    ASSUME RefinementInv, Safe', FlushDone
    PROVE  Queue!Next
<1>1. /\ pc = "flush" /\ i > count /\ ret = "flush" /\ ret' = "idle" /\ pc' = "idle"
      /\ UNCHANGED <<data, next, size, now>> /\ before \in SUBSET Node
      /\ i \in Nat /\ count \in Nat /\ tag \in 0 .. TagLimit - 1
  BY SizesAssumption, TagLimitAssumption
     DEF FlushDone, RefinementInv, Safe, TypeOK, Control, heapVars
<1>2. Pending = before /\ Pending' = Live
  <2>1. Pending = before
    BY <1>1, PendingByReturn DEF RefinementInv
  <2>2. (Safe => Pending = IF ret \in {"scan", "flush"} THEN before ELSE Live)'
    BY PendingByReturn, PTL
  <2>3. Live' = Live
    BY <1>1, LiveKept DEF RefinementInv
  <2>. QED BY <1>1, <2>1, <2>2, <2>3
<1>3. Rest = {}
  BY <1>1 DEF Rest
<1>4. PICK done \in SUBSET before : \E rank \in [done -> Nat] : Reinserted(done, rank)
  BY <1>1 DEF RefinementInv, FlushInv
<1>5. PICK rank \in [done -> Nat] : Reinserted(done, rank)
  BY <1>4
<1>6. done = {e \in before : e.function \in Crucial}
  BY <1>1, <1>3, <1>5 DEF Reinserted
<1>7. rank \in [done -> 0 .. TagLimit - 1]
  <2>1. \A e \in done : rank[e] \in Nat /\ rank[e] < tag
    BY <1>5 DEF Reinserted
  <2>2. \A e \in done : rank[e] \in 0 .. TagLimit - 1
    BY <1>1, <2>1, TagLimitAssumption
  <2>. QED BY <2>2
<1>8. IsInjective(rank)
  BY <1>5 DEF Reinserted, IsInjective
<1>9. Live = {[e EXCEPT !.order = rank[e]] : e \in done}
  BY <1>5 DEF Reinserted
<1>10. Queue!Flush
  BY <1>1, <1>2, <1>6, <1>7, <1>8, <1>9 DEF Queue!Flush, Queue!IsInjective, IsInjective
<1>. QED BY <1>10 DEF Queue!Next

LEMMA QueueResize ==
    ASSUME RefinementInv, Safe', ~ResizePending, NEW n \in Sizes, ResizeHeap(n)
    PROVE  Queue!Next
<1>1. /\ pc = "idle" /\ pc' = "idle" /\ next = 1 /\ next' = 1 /\ now' = now /\ size' = n /\ n \in Nat \ {0, 1}
      /\ ret = "idle" /\ ret' = "idle"
  BY SizesAssumption DEF ResizeHeap, RefinementInv, Safe, Control, RootNode
<1>2. Pending = {} /\ Pending' = {}
  BY <1>1 DEF Pending, Live, Occupied
<1>3. Queue!Resize
  BY <1>1, <1>2 DEF Queue!Resize
<1>. QED BY <1>3 DEF Queue!Next

LEMMA QueueNextBlock ==
    ASSUME RefinementInv, [Next]_vars, NextBlock
    PROVE  Queue!Next
<1>1. /\ now' = now + BlockSize /\ now \in Nat
      /\ UNCHANGED <<data, next, size, temp, pc, ret, hole, before>>
  BY MaxNowAssumption DEF NextBlock, heapVars, callVars, RefinementInv, Safe, TypeOK
<1>2. now' # now
  BY <1>1, BlockSizeAssumption
<1>3. \A e \in Pending : ~Due(e.time)
  BY <1>2, NextBlockStep DEF RefinementInv, Safe, Events, HeapInv
<1>4. Pending' = Pending
  BY <1>1 DEF Pending, Live, Occupied
<1>5. Queue!NextBlock
  BY <1>1, <1>3, <1>4 DEF Queue!NextBlock, Queue!Due, Due
<1>. QED BY <1>5 DEF Queue!Next

\* The steps inside an operation.
InnerStep ==
    \/ \E t \in Times, f \in Functions \ {ForcePendingFn} : ScheduleAt(t, f)
    \/ SiftUp
    \/ SiftUpDone /\ ret = "flush"
    \/ \E step \in Steps : ForceAgain(step)
    \/ SiftDown \/ SiftDownDone
    \/ \E cancelled \in Tests : UnscheduleIf(cancelled)
    \/ ScanKeep \/ ScanDelete \/ HoleUp \/ HoleFill
    \/ FlushPending \/ FlushDrop \/ FlushKeep
    \/ UNCHANGED vars

LEMMA QueueStutter ==
    ASSUME RefinementInv, Safe', InnerStep
    PROVE  UNCHANGED Queue!vars
<1>1. /\ Pending = IF ret \in {"scan", "flush"} THEN before ELSE Live
      /\ Pending' = IF ret' \in {"scan", "flush"} THEN before' ELSE Live'
  <2>1. (Safe => Pending = IF ret \in {"scan", "flush"} THEN before ELSE Live)'
    BY PendingByReturn, PTL
  <2>. QED BY <2>1, PendingByReturn DEF RefinementInv
<1>2. Safe
  BY DEF RefinementInv
<1>3. UNCHANGED <<size, now>>
  BY DEF InnerStep, ScheduleAt, SiftUp, SiftUpDone, ForceAgain, SiftDown, SiftDownDone,
         UnscheduleIf, ScanKeep, ScanDelete, HoleUp, HoleFill, FlushPending, FlushDrop, FlushKeep,
         vars, heapVars
<1>4. SUFFICES Pending' = Pending
  BY <1>3 DEF Queue!vars
<1>5. CASE \E t \in Times, f \in Functions \ {ForcePendingFn} : ScheduleAt(t, f)
  <2>1. /\ pc \in {"idle", "forced"} /\ ret = "idle" /\ ret' = pc /\ pc' = "up" /\ hole' = next
        /\ UNCHANGED <<data, next>>
    BY <1>2, <1>5 DEF ScheduleAt, CallScheduleAt, heapVars, Safe, Control
  <2>. QED BY <1>1, <1>2, <2>1, LiveKept
<1>6. CASE SiftUp \/ SiftDown \/ HoleUp \/ HoleFill
  BY <1>1, <1>2, <1>6, LiveSiftUp, LiveSiftDown, LiveHoleUp, LiveHoleFill
     DEF SiftUp, SiftDown, HoleUp, HoleFill
<1>7. CASE SiftDownDone
  <2>1. ret' \in {"scan", "flush"} <=> ret \in {"scan", "flush"}
    BY <1>2, <1>7 DEF SiftDownDone, Safe, Control
  <2>. QED BY <1>1, <1>2, <1>7, <2>1, LiveSiftDownDone DEF SiftDownDone
<1>8. CASE SiftUpDone /\ ret = "flush"
  BY <1>1, <1>8 DEF SiftUpDone
<1>9. CASE \E step \in Steps : ForceAgain(step)
  <2>1. PICK step \in Steps : ForceAgain(step)
    BY <1>9
  <2>2. /\ pc = "forced" /\ ret = "idle" /\ ret' = "idle" /\ pc' \in {"up", "idle"}
        /\ pc' = "up" => hole' = next
        /\ UNCHANGED <<data, next>>
    BY <1>2, <2>1 DEF ForceAgain, CallScheduleAt, heapVars, Safe, Control
  <2>. QED BY <1>1, <1>2, <2>2, LiveKept
<1>10. CASE \E cancelled \in Tests : UnscheduleIf(cancelled)
  BY <1>1, <1>2, <1>10 DEF UnscheduleIf, Safe, Control
<1>11. CASE ScanKeep \/ ScanDelete
  BY <1>1, <1>2, <1>11 DEF ScanKeep, ScanDelete, Safe, Control
<1>12. CASE FlushPending
  BY <1>1, <1>2, <1>12 DEF FlushPending, Safe, Control
<1>13. CASE FlushDrop \/ FlushKeep
  BY <1>1, <1>2, <1>13 DEF FlushDrop, FlushKeep, CallScheduleAt, Safe, Control
<1>14. CASE UNCHANGED vars
  BY <1>14 DEF vars, heapVars, callVars, Pending, Live, Occupied
<1>. QED
  BY <1>5, <1>6, <1>7, <1>8, <1>9, <1>10, <1>11, <1>12, <1>13, <1>14 DEF InnerStep

\* The array heap implements the queue, for every size: what schedule-at,
\* get-heap, unschedule-if, flush-pending and resize-heap do in their loops is
\* seen from outside as one step of EdfQueue.
THEOREM ImplementsQueueCorrect == ASSUME ~ResizePending PROVE Spec => ImplementsQueue
<1>1. Init => Queue!Init
  <2> SUFFICES ASSUME Init PROVE Queue!Init
    OBVIOUS
  <2>1. Pending = {}
    BY DEF Init, Pending, Live, Occupied, RootNode
  <2>. QED BY <2>1, SizesAssumption DEF Init, Queue!Init
<1>2. RefinementInv /\ RefinementInv' /\ [Next]_vars => [Queue!Next]_(Queue!vars)
  <2> SUFFICES ASSUME RefinementInv, Safe', [Next]_vars PROVE [Queue!Next]_(Queue!vars)
    BY DEF RefinementInv
  <2>1. CASE SiftUpDone
    <3>1. CASE ret # "flush"
      BY <2>1, <3>1, QueueSchedule
    <3>2. CASE ret = "flush"
      <4>1. InnerStep
        BY <2>1, <3>2, Zenon DEF InnerStep
      <4>. QED BY <4>1, QueueStutter
    <3>. QED BY <3>1, <3>2
  <2>2. CASE GetHeap \/ ForcePending
    BY <2>2, QueueCall
  <2>3. CASE ScanDone
    BY <2>3, QueueUnschedule
  <2>4. CASE FlushDone
    BY <2>4, QueueFlush
  <2>5. CASE NextBlock
    BY <2>5, QueueNextBlock
  <2>6. CASE \E n \in Sizes : ResizeHeap(n)
    BY <2>6, QueueResize
  <2>7. CASE InnerStep
    BY <2>7, QueueStutter
  <2>8. CASE UNCHANGED vars
    BY <2>7, <2>8 DEF InnerStep
  <2>9. CASE \/ \E t \in Times, f \in Functions \ {ForcePendingFn} : ScheduleAt(t, f)
             \/ \E step \in Steps : ForceAgain(step)
             \/ \E cancelled \in Tests : UnscheduleIf(cancelled)
    <3>1. InnerStep
      BY <2>9, Zenon DEF InnerStep
    <3>. QED BY <2>7, <3>1
  <2>10. CASE \/ SiftUp \/ SiftDown \/ SiftDownDone
              \/ ScanKeep \/ ScanDelete \/ HoleUp \/ HoleFill
              \/ FlushPending \/ FlushDrop \/ FlushKeep
    <3>1. InnerStep
      BY <2>10, Zenon DEF InnerStep
    <3>. QED BY <2>7, <3>1
  <2>. QED BY <2>1, <2>2, <2>3, <2>4, <2>5, <2>6, <2>8, <2>9, <2>10 DEF Next
<1>. QED BY <1>1, <1>2, RefinementInvariant, PTL DEF Spec, ImplementsQueue

\* unschedule-if cancels nothing but what its test holds for, and all of that
\* when fewer than eight events are pending.
THEOREM UnscheduleExactCorrect == ASSUME ~ResizePending PROVE Spec => []UnscheduleExact
<1>1. RefinementInv => UnscheduleExact
  <2> SUFFICES ASSUME RefinementInv, pc = "scan", i >= next
               PROVE  /\ Live \subseteq before
                      /\ \A e \in before : Spared(e) => e \in Live
                      /\ Cardinality(before) < 8 => \A e \in Live : Spared(e)
    BY DEF UnscheduleExact
  <2>1. ret = "scan" /\ i \in Nat /\ next \in Nat
    BY SizesAssumption DEF RefinementInv, Safe, TypeOK, Control
  <2>2. ASSUME Cardinality(before) < 8, NEW e \in Live
        PROVE  Spared(e)
    <3>1. PICK k \in 1 .. next - 1 : e = data[k]
      BY DEF Live, Occupied
    <3>2. k \in 1 .. i - 1
      BY <2>1, <3>1
    <3>. QED BY <2>1, <2>2, <3>1, <3>2 DEF RefinementInv, ScannedInv
  <2>. QED BY <2>1, <2>2 DEF RefinementInv, ScanInv
<1>. QED BY <1>1, RefinementInvariant, PTL

-----------------------------------------------------------------------------
(* The queries *)

\* Induction, about a set.
LEMMA EveryNumber ==
    ASSUME NEW T, 0 \in T, \A m \in Nat : m \in T => m + 1 \in T
    PROVE  Nat \subseteq T
<1>. DEFINE left == Nat \ T
<1>. SUFFICES ASSUME left # {} PROVE FALSE
  OBVIOUS
<1>1. PICK m \in left : \A j \in left : m <= j
  BY LeastNumber
<1>2. m # 0 /\ m - 1 \in Nat /\ (m - 1) + 1 = m
  BY <1>1
<1>3. m - 1 \in T
  BY <1>1, <1>2
<1>. QED BY <1>1, <1>2, <1>3

\* What the search of next-time returns from the subtree of k, from what it
\* returns for the children.
Wanted(k, f, start) == data[k].function = f /\ data[k].time >= start
Firsts(found) == {e \in found : \A x \in found : ~Before(x, e)}
Searched(s, k, f, start) ==
    IF k >= next THEN {}
    ELSE IF Wanted(k, f, start) THEN {data[k]}
    ELSE Firsts(s[2 * k] \cup s[2 * k + 1])

\* s is the recursive function of next-time.
IsSearch(s, f, start) == s = [k \in 1 .. 2 * size |-> Searched(s, k, f, start)]

\* The recursive search is defined for the whole array, from its end on.
LEMMA SearchExists ==
    ASSUME TypeOK, NEW f, NEW start
    PROVE  \E s : IsSearch(s, f, start)
<1>. DEFINE M == 2 * size
            T == {m \in Nat : \E s : \A k \in 1 .. M : k > M - m => s[k] = Searched(s, k, f, start)}
<1>1. size \in Nat /\ next \in 1 .. size
  BY SizesAssumption DEF TypeOK
<1>2. 0 \in T
  BY <1>1
<1>3. ASSUME NEW m \in Nat, m \in T PROVE m + 1 \in T
  <2>1. PICK s : \A k \in 1 .. M : k > M - m => s[k] = Searched(s, k, f, start)
    BY <1>3
  <2>. DEFINE l == M - m
              t == [k \in 1 .. M |-> IF k = l THEN Searched(s, k, f, start) ELSE s[k]]
  <2>2. ASSUME NEW k \in 1 .. M, k > M - (m + 1) PROVE t[k] = Searched(t, k, f, start)
    <3>1. k >= l
      BY <1>1, <2>2
    <3>2. t[k] = Searched(s, k, f, start)
      BY <2>1, <2>2, <1>1, <3>1
    <3>3. k < next => /\ 2 * k \in 1 .. M /\ 2 * k + 1 \in 1 .. M
                      /\ 2 * k # l /\ 2 * k + 1 # l
      BY <1>1, <3>1
    <3>4. k < next => t[2 * k] = s[2 * k] /\ t[2 * k + 1] = s[2 * k + 1]
      BY <3>3
    <3>5. k >= next \/ k < next
      BY <1>1
    <3>. HIDE DEF t
    <3>. QED BY <3>2, <3>4, <3>5 DEF Searched
  <2>3. \A k \in 1 .. M : k > M - (m + 1) => t[k] = Searched(t, k, f, start)
    BY <2>2
  <2>. HIDE DEF t
  <2>. QED BY <2>3
<1>4. Nat \subseteq T
  <2>. HIDE DEF T
  <2>. QED BY <1>2, <1>3, EveryNumber
<1>5. PICK s : \A k \in 1 .. M : k > M - M => s[k] = Searched(s, k, f, start)
  BY <1>1, <1>4
<1>. DEFINE t == [k \in 1 .. M |-> s[k]]
<1>6. ASSUME NEW k \in 1 .. M PROVE t[k] = Searched(t, k, f, start)
  <2>1. t[k] = Searched(s, k, f, start)
    BY <1>1, <1>5
  <2>2. k < next => 2 * k \in 1 .. M /\ 2 * k + 1 \in 1 .. M
    BY <1>1
  <2>3. k < next => t[2 * k] = s[2 * k] /\ t[2 * k + 1] = s[2 * k + 1]
    BY <2>2
  <2>4. k >= next \/ k < next
    BY <1>1
  <2>. HIDE DEF t
  <2>. QED BY <2>1, <2>3, <2>4 DEF Searched
<1>7. t = [k \in 1 .. M |-> Searched(t, k, f, start)]
  <2>. SUFFICES \A k \in 1 .. M : t[k] = Searched(t, k, f, start)
    OBVIOUS
  <2>. QED BY <1>6
<1>. HIDE DEF t
<1>. QED BY <1>7 DEF IsSearch

\* next-time returns what that search has found from the root.
LEMMA SearchIs ==
    ASSUME TypeOK, NEW f, NEW start
    PROVE  \E s : /\ IsSearch(s, f, start)
                  /\ NextTime(f, start) =
                       IF s[RootNode] = {} THEN 0 ELSE (CHOOSE e \in s[RootNode] : TRUE).time
<1>. DEFINE F(s) == [k \in 1 .. 2 * size |->
                       IF k >= next THEN {}
                       ELSE IF data[k].function = f /\ data[k].time >= start THEN {data[k]}
                       ELSE {e \in s[2 * k] \cup s[2 * k + 1] :
                               \A x \in s[2 * k] \cup s[2 * k + 1] : ~Before(x, e)}]
<1>1. \A s : IsSearch(s, f, start) <=> s = F(s)
  BY DEF IsSearch, Searched, Wanted, Firsts
<1>2. PICK c : c = (CHOOSE s : s = F(s))
  OBVIOUS
<1>3. c = F(c)
  <2>1. \E s : s = F(s)
    <3>. HIDE DEF F
    <3>1. PICK s : IsSearch(s, f, start)
      BY SearchExists
    <3>. QED BY <1>1, <3>1
  <2>. QED BY <1>2, <2>1
<1>4. NextTime(f, start) = IF c[RootNode] = {} THEN 0 ELSE (CHOOSE e \in c[RootNode] : TRUE).time
  BY <1>2 DEF NextTime
<1>. QED BY <1>1, <1>3, <1>4

-----------------------------------------------------------------------------

\* The set A is empty or has one element, of W.
AtMostOne(A, W) == A = {} \/ \E a \in W : A = {a}

\* Of none, one or two events the search keeps the one that comes first.
LEMMA FirstsOne ==
    ASSUME NEW W, W \subseteq Node,
           \A x, y \in W : x # y => x.order # y.order,
           NEW A, AtMostOne(A, W), NEW B, AtMostOne(B, W)
    PROVE  /\ AtMostOne(Firsts(A \cup B), W)
           /\ A \cup B # {} => Firsts(A \cup B) # {}
<1>. USE DEF AtMostOne
<1>1. \A x, y \in W : x # y => Before(x, y) \/ Before(y, x)
  BY BeforeTotal
<1>2. \A x, y \in W : Before(x, y) => ~Before(y, x)
  BY DEF Before, Node
<1>3. CASE A = {} \/ B = {}
  <2>1. A \cup B = {} \/ \E e \in W : A \cup B = {e}
    BY <1>3
  <2>2. ASSUME NEW e \in W, A \cup B = {e}
        PROVE  Firsts(A \cup B) = {e}
    BY <1>2, <2>2 DEF Firsts
  <2>3. A \cup B = {} => Firsts(A \cup B) = {}
    BY DEF Firsts
  <2>. QED BY <2>1, <2>2, <2>3
<1>4. CASE A # {} /\ B # {}
  <2>1. PICK a \in W : A = {a}
    BY <1>4
  <2>2. PICK b \in W : B = {b}
    BY <1>4
  <2>3. ~Before(a, a) /\ ~Before(b, b)
    BY <1>2
  <2>4. CASE Before(a, b)
    <3>1. Firsts(A \cup B) = {a}
      BY <1>2, <2>1, <2>2, <2>3, <2>4 DEF Firsts
    <3>. QED BY <3>1
  <2>5. CASE ~Before(a, b)
    <3>1. Firsts(A \cup B) = {b}
      BY <1>1, <2>1, <2>2, <2>3, <2>5 DEF Firsts
    <3>. QED BY <3>1
  <2>. QED BY <2>4, <2>5
<1>. QED BY <1>3, <1>4

\* The events that next-time is asked for.
Found(f, start) == {x \in Live : x.function = f /\ x.time >= start}

\* The events of a heap at rest, by their slots and in their order.
LEMMA IdleHeap ==
    ASSUME TypeOK, HeapInv, pc = "idle"
    PROVE  /\ size \in Nat /\ next \in 1 .. size
           /\ Live = {data[k] : k \in 1 .. next - 1} /\ Live \subseteq Node
           /\ \A k \in 1 .. next - 1 : data[k] \in Live
           /\ \A x, y \in Live : x # y => x.order # y.order
           /\ \A k \in 2 .. next - 1 : data[k \div 2].time <= data[k].time
<1>1. size \in Nat /\ next \in 1 .. size
  BY SizesAssumption DEF TypeOK
<1>2. Occupied = 1 .. next - 1 /\ Live = {data[k] : k \in 1 .. next - 1}
  BY DEF Occupied, Live
<1>3. \A k \in 1 .. next - 1 : data[k] \in Node
  BY <1>1 DEF TypeOK
<1>4. \A k \in 2 .. next - 1 : k \div 2 \in 1 .. next - 1
  BY <1>1
<1>5. \A k \in 2 .. next - 1 : Before(data[k \div 2], data[k])
  BY <1>1, <1>2, <1>4 DEF HeapInv, Ordered, Parent, RootNode
<1>6. \A k \in 2 .. next - 1 : data[k \div 2].time <= data[k].time
  BY <1>3, <1>4, <1>5 DEF Before, Node
<1>7. \A x, y \in Live : x # y => x.order # y.order
  BY <1>2 DEF HeapInv, GenuineEvents
<1>. QED BY <1>1, <1>2, <1>3, <1>6, <1>7

\* The search returns one event that it looks for, or none.
LEMMA SearchOne ==
    ASSUME TypeOK, HeapInv, pc = "idle", NEW f, NEW start, NEW s, IsSearch(s, f, start)
    PROVE  \A k \in 1 .. 2 * size : AtMostOne(s[k], Found(f, start))
<1>. DEFINE M == 2 * size
            One(k) == AtMostOne(s[k], Found(f, start))
            T == {m \in Nat : \A k \in 1 .. M : k > M - m => One(k)}
<1>1. size \in Nat /\ next \in 1 .. size
  BY IdleHeap
<1>2. 0 \in T
  BY <1>1
<1>3. ASSUME NEW m \in Nat, m \in T PROVE m + 1 \in T
  <2>. SUFFICES ASSUME NEW k \in 1 .. M, k > M - (m + 1), k <= M - m PROVE One(k)
    BY <1>1, <1>3
  <2>1. s[k] = Searched(s, k, f, start)
    BY DEF IsSearch
  <2>2. CASE k >= next
    BY <2>1, <2>2 DEF Searched, AtMostOne
  <2>3. CASE k < next /\ Wanted(k, f, start)
    <3>1. data[k] \in Found(f, start)
      BY <1>1, <2>3, IdleHeap DEF Wanted, Found
    <3>2. s[k] = {data[k]}
      BY <1>1, <2>1, <2>3 DEF Searched
    <3>. QED BY <3>1, <3>2 DEF AtMostOne
  <2>4. CASE k < next /\ ~Wanted(k, f, start)
    <3>1. s[k] = Firsts(s[2 * k] \cup s[2 * k + 1])
      BY <1>1, <2>1, <2>4 DEF Searched
    <3>2. /\ 2 * k \in 1 .. M /\ 2 * k + 1 \in 1 .. M
          /\ 2 * k > M - m /\ 2 * k + 1 > M - m
      BY <1>1, <2>4
    <3>3. One(2 * k) /\ One(2 * k + 1)
      BY <1>3, <3>2
    <3>4. Found(f, start) \subseteq Node /\ \A x, y \in Found(f, start) : x # y => x.order # y.order
      BY IdleHeap DEF Found
    <3>. QED BY <3>1, <3>3, <3>4, FirstsOne
  <2>. QED BY <1>1, <2>2, <2>3, <2>4
<1>4. Nat \subseteq T
  <2>. HIDE DEF T
  <2>. QED BY <1>2, <1>3, EveryNumber
<1>. QED BY <1>1, <1>4

\* From every event that it looks for the search climbs to the root, and
\* keeps one that is not later.
LEMMA SearchClimbs ==
    ASSUME TypeOK, HeapInv, pc = "idle", NEW f, NEW start, NEW s, IsSearch(s, f, start),
           NEW x \in Found(f, start)
    PROVE  s[RootNode] # {} /\ \A e \in s[RootNode] : e.time <= x.time
<1>. DEFINE G == {k \in 1 .. next - 1 : /\ data[k].time <= x.time
                                        /\ s[k] # {} /\ \A e \in s[k] : e.time <= x.time}
<1>1. /\ size \in Nat /\ next \in 1 .. size
      /\ \A k \in 1 .. next - 1 : data[k] \in Live
      /\ \A k \in 2 .. next - 1 : data[k \div 2].time <= data[k].time
  BY IdleHeap
<1>2. \A y \in Live : y.time \in Nat /\ y.order \in Nat
  BY IdleHeap DEF Node
<1>3. x \in Live /\ x.function = f /\ x.time >= start
  BY DEF Found
<1>4. \A k \in 1 .. next - 1 : k \in 1 .. 2 * size /\ s[k] = Searched(s, k, f, start)
  BY <1>1 DEF IsSearch
<1>5. G # {}
  <2>1. PICK k \in 1 .. next - 1 : x = data[k]
    BY <1>3, IdleHeap
  <2>2. s[k] = {x}
    <3>1. ~(k >= next) /\ s[k] = Searched(s, k, f, start)
      BY <1>1, <1>4
    <3>2. Wanted(k, f, start)
      BY <1>3, <2>1 DEF Wanted
    <3>. QED BY <2>1, <3>1, <3>2 DEF Searched
  <2>3. k \in G
    BY <1>2, <1>3, <2>1, <2>2
  <2>. QED BY <2>3
<1>6. ASSUME NEW k \in G, k > 1 PROVE k \div 2 \in G
  <2>. DEFINE p == k \div 2
  <2>1. p \in 1 .. next - 1 /\ k < next /\ (k = 2 * p \/ k = 2 * p + 1)
    <3>1. k \in 2 .. next - 1
      BY <1>1, <1>6
    <3>. HIDE DEF G
    <3>. QED BY <1>1, <3>1
  <2>2. data[p] \in Live /\ data[k] \in Live /\ data[p].time <= x.time
    BY <1>1, <1>2, <1>3, <1>6, <2>1
  <2>3. s[p] = Searched(s, p, f, start) /\ p < next
    BY <1>1, <1>4, <2>1
  <2>4. CASE Wanted(p, f, start)
    <3>1. s[p] = {data[p]}
      BY <1>1, <2>1, <2>3, <2>4 DEF Searched
    <3>. QED BY <2>1, <2>2, <3>1
  <2>5. CASE ~Wanted(p, f, start)
    <3>. DEFINE both == s[2 * p] \cup s[2 * p + 1]
    <3>1. s[p] = Firsts(both)
      BY <1>1, <2>1, <2>3, <2>5 DEF Searched
    <3>2. s[k] \subseteq both /\ both # {}
      BY <1>6, <2>1
    <3>3. 2 * p \in 1 .. 2 * size /\ 2 * p + 1 \in 1 .. 2 * size
      BY <1>1, <2>1
    <3>4. AtMostOne(s[2 * p], Found(f, start)) /\ AtMostOne(s[2 * p + 1], Found(f, start))
      BY <3>3, SearchOne
    <3>5. Found(f, start) \subseteq Node /\ \A y, z \in Found(f, start) : y # z => y.order # z.order
      BY IdleHeap DEF Found
    <3>6. Firsts(both) # {}
      BY <3>2, <3>4, <3>5, FirstsOne
    <3>7. PICK y \in s[k] : y \in Found(f, start) /\ y.time <= x.time
      BY <1>6, <2>1, <3>4 DEF AtMostOne
    <3>8. ASSUME NEW e \in Firsts(both) PROVE e.time <= x.time
      <4>1. e \in Found(f, start) /\ ~Before(y, e)
        BY <3>2, <3>4, <3>7 DEF Firsts, AtMostOne
      <4>2. e.time \in Nat /\ y.time \in Nat /\ e.time <= y.time
        BY <1>2, <3>7, <4>1 DEF Before, Found
      <4>. QED BY <1>2, <1>3, <3>7, <4>2
    <3>. QED BY <2>1, <2>2, <3>1, <3>6, <3>8
  <2>. QED BY <2>4, <2>5
<1>7. PICK m \in G : \A j \in G : m <= j
  <2>1. G \subseteq Nat
    BY <1>1
  <2>. HIDE DEF G
  <2>. QED BY <1>5, <2>1, LeastNumber
<1>8. m = 1
  <2>1. m \in Nat /\ m >= 1
    BY <1>1, <1>7
  <2>. SUFFICES ASSUME m > 1 PROVE FALSE
    BY <2>1
  <2>2. m \div 2 \in G
    BY <1>6, <1>7
  <2>. HIDE DEF G
  <2>3. m <= m \div 2
    BY <1>7, <2>2
  <2>. QED BY <2>1, <2>3
<1>. QED BY <1>7, <1>8 DEF RootNode

\* What the search leaves is the earliest of all the events it looks for.
LEMMA NextTimeExact ==
    ASSUME TypeOK, HeapInv, pc = "idle", NEW f, NEW start
    PROVE  LET found == {e.time : e \in Found(f, start)}
           IN  NextTime(f, start) = IF found = {} THEN 0 ELSE Min(found)
<1>. DEFINE found == {e.time : e \in Found(f, start)}
<1>1. PICK s : /\ IsSearch(s, f, start)
               /\ NextTime(f, start) =
                     IF s[RootNode] = {} THEN 0 ELSE (CHOOSE e \in s[RootNode] : TRUE).time
  BY SearchIs
<1>2. AtMostOne(s[RootNode], Found(f, start))
  <2>1. RootNode \in 1 .. 2 * size
    BY IdleHeap DEF RootNode
  <2>. QED BY <1>1, <2>1, SearchOne
<1>3. CASE s[RootNode] = {}
  <2>1. Found(f, start) = {}
    BY <1>1, <1>3, SearchClimbs
  <2>. QED BY <1>1, <1>3, <2>1
<1>4. CASE s[RootNode] # {}
  <2>1. PICK e \in Found(f, start) : s[RootNode] = {e}
    BY <1>2, <1>4 DEF AtMostOne
  <2>2. NextTime(f, start) = e.time
    BY <1>1, <2>1
  <2>3. \A x \in Found(f, start) : e.time <= x.time
    BY <1>1, <2>1, SearchClimbs
  <2>4. \A x \in Found(f, start) : x.time \in Nat
    BY IdleHeap DEF Found, Node
  <2>5. e.time \in found /\ (\A y \in found : e.time <= y) /\ found \subseteq Nat
    BY <2>3, <2>4
  <2>6. Min(found) = e.time
    <3>. HIDE DEF found
    <3>1. PICK t \in Nat : t = e.time
      BY <2>5
    <3>2. \A z \in found : (\A y \in found : z <= y) => z = t
      BY <2>5, <3>1
    <3>. QED BY <2>5, <3>1, <3>2 DEF Min
  <2>7. found # {}
    BY <2>5
  <2>. QED BY <2>2, <2>6, <2>7
<1>. QED BY <1>3, <1>4

-----------------------------------------------------------------------------

\* next-power-of-two, by what it returns for the double.
Doubled(d, n, p) == IF p >= n THEN p ELSE d[2 * p]
IsDoubling(d, n) == d = [p \in 1 .. 2 * n |-> Doubled(d, n, p)]

\* The recursion of next-power-of-two is defined up to 2 * n.
LEMMA DoublingExists ==
    ASSUME NEW n \in Nat
    PROVE  \E d : IsDoubling(d, n)
<1>. DEFINE M == 2 * n
            T == {m \in Nat : \E d : \A p \in 1 .. M : p > M - m => d[p] = Doubled(d, n, p)}
<1>1. 0 \in T
  OBVIOUS
<1>2. ASSUME NEW m \in Nat, m \in T PROVE m + 1 \in T
  <2>1. PICK d : \A p \in 1 .. M : p > M - m => d[p] = Doubled(d, n, p)
    BY <1>2
  <2>. DEFINE l == M - m
              t == [p \in 1 .. M |-> IF p = l THEN Doubled(d, n, p) ELSE d[p]]
  <2>2. ASSUME NEW p \in 1 .. M, p > M - (m + 1) PROVE t[p] = Doubled(t, n, p)
    <3>1. p >= l
      BY <2>2
    <3>2. t[p] = Doubled(d, n, p)
      BY <2>1, <2>2, <3>1
    <3>3. p < n => 2 * p \in 1 .. M /\ 2 * p # l
      BY <3>1
    <3>4. p < n => t[2 * p] = d[2 * p]
      BY <3>3
    <3>5. p >= n \/ p < n
      OBVIOUS
    <3>. HIDE DEF t
    <3>. QED BY <3>2, <3>4, <3>5 DEF Doubled
  <2>3. \A p \in 1 .. M : p > M - (m + 1) => t[p] = Doubled(t, n, p)
    BY <2>2
  <2>. HIDE DEF t
  <2>. QED BY <2>3
<1>3. Nat \subseteq T
  <2>. HIDE DEF T
  <2>. QED BY <1>1, <1>2, EveryNumber
<1>4. PICK d : \A p \in 1 .. M : p > M - M => d[p] = Doubled(d, n, p)
  <2>1. M \in Nat
    OBVIOUS
  <2>2. M \in T
    <3>. HIDE DEF T, M
    <3>. QED BY <1>3, <2>1
  <2>. QED BY <2>2
<1>. DEFINE t == [p \in 1 .. M |-> d[p]]
<1>5. ASSUME NEW p \in 1 .. M PROVE t[p] = Doubled(t, n, p)
  <2>1. t[p] = Doubled(d, n, p)
    BY <1>4
  <2>2. p < n => t[2 * p] = d[2 * p]
    OBVIOUS
  <2>3. p >= n \/ p < n
    OBVIOUS
  <2>. HIDE DEF t
  <2>. QED BY <2>1, <2>2, <2>3 DEF Doubled
<1>6. t = [p \in 1 .. M |-> Doubled(t, n, p)]
  <2>. SUFFICES \A p \in 1 .. M : t[p] = Doubled(t, n, p)
    OBVIOUS
  <2>. QED BY <1>5
<1>. HIDE DEF t
<1>. QED BY <1>6 DEF IsDoubling

\* Doubling from 1 on stops before it reaches 2 * n.
LEMMA NextPowerOfTwoBound ==
    ASSUME NEW n \in Nat \ {0}
    PROVE  NextPowerOfTwo(n) \in n .. 2 * n - 1
<1>. DEFINE F(d) == [p \in 1 .. 2 * n |-> IF p >= n THEN p ELSE d[2 * p]]
<1>1. \A d : IsDoubling(d, n) <=> d = F(d)
  BY DEF IsDoubling, Doubled
<1>2. PICK c : c = (CHOOSE d : d = F(d))
  OBVIOUS
<1>3. c = F(c)
  <2>1. \E d : d = F(d)
    <3>. HIDE DEF F
    <3>1. PICK d : IsDoubling(d, n)
      BY DoublingExists
    <3>. QED BY <1>1, <3>1
  <2>. QED BY <1>2, <2>1
<1>4. NextPowerOfTwo(n) = c[1]
  BY <1>2 DEF NextPowerOfTwo
<1>5. \A p \in 1 .. 2 * n : c[p] = Doubled(c, n, p)
  BY <1>3 DEF Doubled
<1>. DEFINE M == 2 * n
            T == {m \in Nat : \A p \in 1 .. M - 1 : p > M - m => c[p] \in n .. M - 1}
<1>6. 0 \in T
  OBVIOUS
<1>7. ASSUME NEW m \in Nat, m \in T PROVE m + 1 \in T
  <2>. SUFFICES ASSUME NEW p \in 1 .. M - 1, p > M - (m + 1), p <= M - m
                PROVE  c[p] \in n .. M - 1
    BY <1>7
  <2>1. CASE p >= n
    BY <1>5, <2>1 DEF Doubled
  <2>2. CASE p < n
    <3>1. 2 * p \in 1 .. M - 1 /\ 2 * p > M - m
      BY <2>2
    <3>2. c[p] = c[2 * p]
      BY <1>5, <2>2 DEF Doubled
    <3>. QED BY <1>7, <3>1, <3>2
  <2>. QED BY <2>1, <2>2
<1>8. Nat \subseteq T
  <2>. HIDE DEF T
  <2>. QED BY <1>6, <1>7, EveryNumber
<1>9. c[1] \in n .. M - 1
  <2>1. M \in Nat /\ M \in T
    BY <1>8
  <2>2. 1 \in 1 .. M - 1 /\ 1 > M - M
    OBVIOUS
  <2>. QED BY <2>1, <2>2
<1>. QED BY <1>4, <1>9

\* The slot where last-time starts.
LastStart == IF NextPowerOfTwo(next) = next THEN next \div 2
             ELSE IF next \div 4 < 2 THEN next \div 4 + 1
             ELSE NextPowerOfTwo(next \div 4)

\* It is not behind the first leaf.
LEMMA LastStartBound ==
    ASSUME next \in Nat, next >= 2
    PROVE  LastStart \in 1 .. next - 1 /\ 2 * LastStart <= next + 1
<1>1. CASE NextPowerOfTwo(next) = next
  <2>1. LastStart = next \div 2
    BY <1>1 DEF LastStart
  <2>. QED BY <2>1
<1>2. CASE NextPowerOfTwo(next) # next /\ next \div 4 < 2
  <2>1. LastStart = next \div 4 + 1
    BY <1>2 DEF LastStart
  <2>. QED BY <1>2, <2>1
<1>3. CASE NextPowerOfTwo(next) # next /\ ~(next \div 4 < 2)
  <2>1. LastStart = NextPowerOfTwo(next \div 4)
    BY <1>3 DEF LastStart
  <2>2. next \div 4 \in Nat \ {0} /\ next \div 4 >= 2 /\ 4 * (next \div 4) <= next
    BY <1>3
  <2>3. LastStart \in next \div 4 .. 2 * (next \div 4) - 1
    BY <2>1, <2>2, NextPowerOfTwoBound
  <2>. QED BY <2>2, <2>3
<1>. QED BY <1>1, <1>2, <1>3

\* A set of numbers that has a bound has a greatest one.
LEMMA LargestNumber ==
    ASSUME NEW n \in Nat, NEW S, S \subseteq 0 .. n, S # {}
    PROVE  \E m \in S : \A j \in S : j <= m
<1>. DEFINE R == {n - j : j \in S}
<1>1. R \subseteq Nat /\ R # {}
  <2>1. \A j \in S : j \in Nat /\ j <= n /\ n - j \in Nat
    OBVIOUS
  <2>. QED BY <2>1
<1>2. PICK l \in R : \A j \in R : l <= j
  <2>. HIDE DEF R
  <2>. QED BY <1>1, LeastNumber
<1>3. PICK m \in S : l = n - m
  BY <1>2
<1>4. \A j \in S : n - m <= n - j
  BY <1>2, <1>3
<1>. QED BY <1>4

\* From every event the heap leads down to a leaf that is not earlier.
LEMMA LastTimeExact ==
    ASSUME TypeOK, HeapInv, pc = "idle", Live # {}
    PROVE  LastTime = Max({e.time : e \in Live})
<1>. DEFINE last == {data[k].time : k \in LastStart .. next - 1}
            times == {e.time : e \in Live}
<1>1. /\ size \in Nat /\ next \in 1 .. size /\ Live = {data[k] : k \in 1 .. next - 1}
      /\ \A k \in 1 .. next - 1 : data[k] \in Live /\ data[k].time \in Nat
      /\ \A k \in 2 .. next - 1 : data[k \div 2].time <= data[k].time
  BY IdleHeap DEF Node
<1>2. next \in Nat /\ next >= 2
  BY <1>1
<1>3. LastStart \in 1 .. next - 1 /\ 2 * LastStart <= next + 1
  BY <1>2, LastStartBound
<1>4. LastTime = Max(last)
  <2>1. Max({LastStart, next - 1}) = next - 1
    <3>1. PICK a \in Nat, b \in Nat : a = LastStart /\ b = next - 1 /\ a <= b
      BY <1>2, <1>3
    <3>2. \A z \in {a, b} : (\A y \in {a, b} : z >= y) => z = b
      BY <3>1
    <3>3. b \in {a, b} /\ \A y \in {a, b} : b >= y
      BY <3>1
    <3>. QED BY <3>1, <3>2, <3>3 DEF Max
  <2>. QED BY <2>1 DEF LastTime, LastStart
<1>5. \A t \in times : \E u \in last : t <= u
  <2>. SUFFICES ASSUME NEW x \in 1 .. next - 1
                PROVE  \E k \in LastStart .. next - 1 : data[x].time <= data[k].time
    BY <1>1
  <2>. DEFINE G == {k \in 1 .. next - 1 : data[x].time <= data[k].time}
  <2>1. G \subseteq 0 .. next /\ x \in G
    BY <1>1
  <2>2. PICK m \in G : \A j \in G : j <= m
    <3>. HIDE DEF G
    <3>. QED BY <1>2, <2>1, LargestNumber
  <2>3. m \in 1 .. next - 1 /\ data[x].time <= data[m].time
    OBVIOUS
  <2>4. 2 * m >= next
    <3>. SUFFICES ASSUME 2 * m < next PROVE FALSE
      BY <1>2, <2>3
    <3>1. 2 * m \in 2 .. next - 1 /\ (2 * m) \div 2 = m
      BY <1>2, <2>3
    <3>2. data[m].time <= data[2 * m].time
      BY <1>1, <3>1
    <3>3. 2 * m \in G
      BY <1>1, <2>3, <3>1, <3>2
    <3>4. 2 * m <= m
      <4>. HIDE DEF G
      <4>. QED BY <2>2, <3>3
    <3>. QED BY <1>2, <2>3, <3>4
  <2>5. m \in LastStart .. next - 1
    BY <1>2, <1>3, <2>3, <2>4
  <2>. QED BY <2>3, <2>5
<1>6. last \subseteq times /\ times \subseteq Nat /\ times # {}
  BY <1>1, <1>3
<1>7. Max(last) = Max(times)
  <2>. HIDE DEF last, times
  <2>1. \A z : (z \in last /\ \A y \in last : z >= y) <=> (z \in times /\ \A y \in times : z >= y)
    <3>1. ASSUME NEW z \in last, \A y \in last : z >= y, NEW y \in times
          PROVE  z >= y
      <4>1. PICK u \in last : y <= u
        BY <1>5
      <4>. QED BY <1>6, <3>1, <4>1
    <3>2. ASSUME NEW z \in times, \A y \in times : z >= y
          PROVE  z \in last
      <4>1. PICK u \in last : z <= u
        BY <1>5
      <4>2. u = z
        BY <1>6, <3>2, <4>1
      <4>. QED BY <4>1, <4>2
    <3>. QED BY <1>6, <3>1, <3>2
  <2>. QED BY <2>1 DEF Max
<1>. QED BY <1>4, <1>7

\* next-time finds the earliest event of a function from a start time on
\* although it leaves out the subtrees of what it has found, and last-time finds
\* the latest event although it looks at the last levels only.
THEOREM SearchesExactCorrect == ASSUME ~ResizePending PROVE Spec => []SearchesExact
<1>1. TypeOK /\ HeapInv => SearchesExact
  <2>. SUFFICES ASSUME TypeOK, HeapInv, pc = "idle" PROVE SearchesExact
    BY DEF SearchesExact
  <2>1. ASSUME NEW f \in Functions, NEW start \in Times \cup {0}
        PROVE  LET found == {e.time : e \in {x \in Live : x.function = f /\ x.time >= start}}
               IN  NextTime(f, start) = IF found = {} THEN 0 ELSE Min(found)
    BY NextTimeExact DEF Found
  <2>. QED BY <2>1, LastTimeExact DEF SearchesExact
<1>. QED BY <1>1, TypeCorrect, HeapInvariant, PTL

\* unschedule-if, next-time and last-time find what a look at every event of
\* the heap would find.
THEOREM ScansExactCorrect == ASSUME ~ResizePending PROVE Spec => []ScansExact
<1>1. UnscheduleExact /\ SearchesExact => ScansExact
  BY DEF ScansExact
<1>. QED BY <1>1, UnscheduleExactCorrect, SearchesExactCorrect, PTL
=============================================================================
