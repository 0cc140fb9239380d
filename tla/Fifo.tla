-------------------------------- MODULE Fifo --------------------------------
(***************************************************************************)
(* A lock-free FIFO of functions between two threads, src/src/fifo.lisp:   *)
(* *to-engine-fifo*, *from-engine-fifo*, *fast-from-engine-fifo* and       *)
(* *fast-to-engine-fifo*, each with one producer and one consumer.  A step *)
(* is one access to a head or to a slot that the other thread can see; the *)
(* barriers of the code keep the accesses in that order.                   *)
(*                                                                         *)
(* flush-all-fifos (src/src/nrt.lisp) flushes every FIFO in the rt-thread, *)
(* which is the consumer of the FIFOs to the engine and the producer of    *)
(* the FIFOs from the engine.                                              *)
(*                                                                         *)
(* Functions are numbered in the order of their enqueue, 0 is #'identity.  *)
(* A definition D_Fault is D with a fault that no action has.              *)
(***************************************************************************)
EXTENDS Naturals, Sequences

CONSTANTS Size,          \* fifo-buffer-size, a power of two
          FlushedBy,     \* the thread of this FIFO that is the rt-thread
          MaxFunctions   \* bound of the functions that are accepted

ASSUME SizeAssumption         == Size \in Nat \ {0, 1}
ASSUME FlushedByAssumption    == FlushedBy \in {"producer", "consumer"}
ASSUME MaxFunctionsAssumption == MaxFunctions \in Nat

VARIABLES items,      \* fifo-items
          readHead,   \* fifo-read-head
          writeHead,  \* fifo-write-head
          enq,        \* where the producer is in enqueue
          enqNext,    \* its variable next
          refused,    \* whether its last enqueue returned NIL
          deq,        \* where the consumer is in fifo-perform-functions
          deqNext,    \* its variable next
          fn,         \* its variable fn
          flush,      \* whether fifo-flush has read the write head
          flushTo     \* and which one it has read

VARIABLES sent,       \* history: number of functions enqueued
          taken,      \* history: the function in the slot of the read head
          flushSent,  \* history: the function in the slot flushTo
          called,     \* history: functions that have been called
          flushed     \* history: functions that a flush has removed

fifo == <<items, readHead, writeHead>>
producer == <<enq, enqNext, refused>>
consumer == <<deq, deqNext, fn>>
flusher == <<flush, flushTo, flushSent>>
history == <<sent, taken, called, flushed>>
fifoVars == <<fifo, producer, consumer, flusher, history>>

Slots == 0 .. Size - 1

-----------------------------------------------------------------------------
FifoInit ==
    /\ items = [s \in Slots |-> 0] /\ readHead = 0 /\ writeHead = 0
    /\ enq = "idle" /\ enqNext = 0 /\ refused = FALSE
    /\ deq = "idle" /\ deqNext = 0 /\ fn = 0
    /\ flush = FALSE /\ flushTo = 0 /\ flushSent = 0
    /\ sent = 0 /\ taken = 0 /\ called = {} /\ flushed = {}

\* The mask is Size - 1.
HeadNext(h) == (h + 1) % Size

Full_Never(next) == FALSE
Full_OneEarly(next) == readHead \in {next, HeadNext(next)}
Full(next) == next = readHead

\* A thread in fifo-flush does nothing else.
Flushing(thread) == flush /\ FlushedBy = thread

-----------------------------------------------------------------------------
(* enqueue *)

EnqueueRefuse ==
    /\ enq = "idle" /\ ~Flushing("producer")
    /\ Full(HeadNext(writeHead))
    /\ refused' = TRUE
    /\ UNCHANGED <<fifo, enq, enqNext, consumer, flusher, history>>

EnqueueBegin ==
    /\ enq = "idle" /\ ~Flushing("producer")
    /\ sent < MaxFunctions
    /\ ~Full(HeadNext(writeHead))
    /\ enq' = "store"
    /\ enqNext' = HeadNext(writeHead)
    /\ UNCHANGED <<fifo, refused, consumer, flusher, history>>

EnqueueStore ==
    /\ enq = "store"
    /\ enq' = "publish"
    /\ items' = [items EXCEPT ![enqNext] = sent + 1]
    /\ UNCHANGED <<readHead, writeHead, enqNext, refused, consumer, flusher, history>>

EnqueuePublish ==
    /\ enq = "publish"
    /\ enq' = "idle"
    /\ writeHead' = enqNext
    /\ refused' = FALSE
    /\ sent' = sent + 1
    /\ UNCHANGED <<items, readHead, enqNext, consumer, flusher, taken, called, flushed>>

-----------------------------------------------------------------------------
(* fifo-perform-functions *)

PerformTest ==
    /\ deq = "idle" /\ ~Flushing("consumer")
    /\ readHead # writeHead
    /\ deq' = "read"
    /\ deqNext' = HeadNext(readHead)
    /\ UNCHANGED <<fifo, producer, fn, flusher, history>>

PerformRead ==
    /\ deq = "read"
    /\ deq' = "advance"
    /\ fn' = items[deqNext]
    /\ UNCHANGED <<fifo, producer, deqNext, flusher, history>>

PerformAdvance ==
    /\ deq = "advance"
    /\ deq' = "call"
    /\ readHead' = deqNext
    /\ taken' = fn
    /\ UNCHANGED <<items, writeHead, producer, deqNext, fn, flusher, sent, called, flushed>>

\* The call returns, or handler-case ends it.
PerformReturn ==
    /\ deq = "call" /\ ~Flushing("consumer")
    /\ deq' = "idle"
    /\ called' = called \cup {fn}
    /\ UNCHANGED <<fifo, producer, deqNext, fn, flusher, sent, taken, flushed>>

-----------------------------------------------------------------------------
(* fifo-flush, in a function that the rt-thread calls: from this FIFO or   *)
(* between two uses of it.                                                 *)

FlushRead ==
    /\ ~flush
    /\ FlushedBy = "producer" => enq = "idle"
    /\ FlushedBy = "consumer" => deq \in {"idle", "call"}
    /\ flush' = TRUE
    /\ flushTo' = writeHead
    /\ flushSent' = sent
    /\ UNCHANGED <<fifo, producer, consumer, history>>

\* The function that the consumer has begun to take is not flushed.
InHand == IF deq \in {"read", "advance"} THEN {taken + 1} ELSE {}

FlushWrite ==
    /\ flush
    /\ flush' = FALSE
    /\ readHead' = flushTo
    /\ flushed' = flushed \cup ((taken + 1 .. flushSent) \ InHand)
    /\ taken' = flushSent
    /\ UNCHANGED <<items, writeHead, producer, consumer, flushTo, flushSent, sent, called>>

-----------------------------------------------------------------------------
FifoNext == \/ EnqueueRefuse \/ EnqueueBegin \/ EnqueueStore \/ EnqueuePublish
        \/ PerformTest \/ PerformRead \/ PerformAdvance \/ PerformReturn
        \/ FlushRead \/ FlushWrite

FifoSpec == FifoInit /\ [][FifoNext]_fifoVars

-----------------------------------------------------------------------------
(* Properties *)

\* The heads stay in the buffer and the registers have their types.
FifoTypeOK ==
    /\ items \in [Slots -> 0 .. MaxFunctions]
    /\ {readHead, writeHead, enqNext, deqNext, flushTo} \subseteq Slots
    /\ {fn, sent, taken, flushSent} \subseteq 0 .. MaxFunctions
    /\ enq \in {"idle", "store", "publish"}
    /\ deq \in {"idle", "read", "advance", "call"}
    /\ refused \in BOOLEAN /\ flush \in BOOLEAN
    /\ called \subseteq 1 .. MaxFunctions /\ flushed \subseteq 1 .. MaxFunctions

\* A function is called once, and only after every function enqueued before it
\* has been called or flushed: none is skipped, repeated, overwritten or
\* called before it is stored.
CalledOnceInOrder ==
    deq = "call" => /\ fn \notin called \cup flushed
                    /\ 1 .. fn - 1 \subseteq called \cup flushed

\* When fifo-perform-functions finds the FIFO empty, every function enqueued
\* has been called or flushed.
NothingLost ==
    deq = "idle" /\ readHead = writeHead => called \cup flushed = 1 .. sent

\* The producer never stores into the slot that the consumer reads.
SlotsDisjoint == enq = "store" /\ deq = "read" => enqNext # deqNext

\* What flush-all-fifos has cleared is not called afterwards.
FlushedNeverCalled == called \cap flushed = {}

-----------------------------------------------------------------------------
(* The inductive invariant of a FIFO that only its consumer flushes.       *)

Wrap(x) == IF x >= Size THEN x - Size ELSE x
Distance(r, w) == IF w >= r THEN w - r ELSE w + Size - r

\* The slots after the read head hold the functions taken + 1 .. sent.
Window ==
    /\ taken <= sent
    /\ Distance(readHead, writeHead) = sent - taken
    /\ \A k \in 1 .. sent - taken : items[Wrap(readHead + k)] = taken + k

\* The producer has found a free slot, and it is still free.
Producing ==
    /\ enq # "idle" => /\ enqNext = Wrap(writeHead + 1)
                       /\ sent - taken < Size - 1
                       /\ sent < MaxFunctions
    /\ enq = "publish" => items[enqNext] = sent + 1

\* The consumer takes the function after the read head.
Consuming ==
    /\ deq \in {"read", "advance"} => taken < sent /\ deqNext = Wrap(readHead + 1)
    /\ deq = "advance" => fn = taken + 1
    /\ deq = "call" => fn \in 1 .. taken

\* The flush goes to a slot between the heads.
Clearing ==
    flush => /\ FlushedBy = "consumer" /\ deq \in {"idle", "call"}
             /\ taken <= flushSent /\ flushSent <= sent
             /\ Distance(readHead, flushTo) = flushSent - taken

\* What has left the FIFO has been called or flushed, or it is being called.
Accounted ==
    /\ called \cap flushed = {}
    /\ called \cup flushed = (1 .. taken) \ (IF deq = "call" THEN {fn} ELSE {})

\* The heads, the slots and the places of the two threads agree with the
\* numbers of the functions sent and taken, whichever step comes next.
FifoInv == FifoTypeOK /\ Window /\ Producing /\ Consuming /\ Clearing /\ Accounted
=============================================================================
