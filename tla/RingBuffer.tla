----------------------------- MODULE RingBuffer -----------------------------
(***************************************************************************)
(* The ring buffer of bytes between two threads, src/src/ringbuffer.c: the *)
(* caches of the audio inputs, the counter of the suspended cycles and the *)
(* buffers of a Jack MIDI port.  One thread writes and one reads.  A step  *)
(* is one load or store of a head that the other thread uses, or one       *)
(* memcpy; the barriers keep these in the order of the code.               *)
(*                                                                         *)
(* Heads are unsigned ints and the size is a power of two: the bitwise and *)
(* with the mask of a difference that has wrapped is the remainder.  The   *)
(* bytes are numbered in the order of writing, so that a byte that is      *)
(* lost, repeated, torn or stale shows in what a read returns.             *)
(* A definition D_Fault is D with a fault that no action has.              *)
(***************************************************************************)
EXTENDS Integers, Sequences

CONSTANTS Size,       \* rb->size, after __next_pow_of_two
          Requests,   \* the numbers of bytes that callers ask for
          MaxBytes    \* bound of the bytes that are written

ASSUME RingSizeAssumption == Size \in Nat \ {0}
ASSUME RequestsAssumption == Requests \subseteq Nat
ASSUME MaxBytesAssumption == MaxBytes \in Nat

VARIABLES buf, writeHead, readHead,   \* struct incudine_ringbuffer
          writer,                     \* where the writing thread is
          bytes, writeEnd,            \* and its local variables
          reader,                     \* where the reading thread is
          rbytes, readEnd,            \* and its local variables
          dest,                       \* the buffer it copies to
          advance                     \* whether it moves the head: not in peek

VARIABLES sent,       \* history: number of bytes published
          received,   \* history: number of bytes released
          returned    \* history: what the last read or peek has returned

rb == <<buf, writeHead, readHead>>
writing == <<writer, bytes, writeEnd>>
reading == <<reader, rbytes, readEnd, dest, advance>>
history == <<sent, received, returned>>
vars == <<rb, writing, reading, history>>

Positions == 0 .. Size - 1

-----------------------------------------------------------------------------
\* incudine_ringbuffer_create
Init ==
    /\ buf = [p \in Positions |-> 0] /\ writeHead = 0 /\ readHead = 0
    /\ writer = "idle" /\ bytes = 0 /\ writeEnd = 0
    /\ reader = "idle" /\ rbytes = 0 /\ readEnd = 0 /\ dest = <<>> /\ advance = FALSE
    /\ sent = 0 /\ received = 0 /\ returned = <<>>

Mask(n) == n % Size

WriteSpace_Full == Mask(readHead - writeHead - 1) + 1
WriteSpace == Mask(readHead - writeHead - 1)

ReadSpace == Mask(writeHead - readHead)

Least(m, n) == IF m > n THEN n ELSE m

\* Bytes from, from + 1, ... of the writer's message at positions p, p + 1, ...
Stored(p, from, n) ==
    [q \in Positions |-> IF q \in p .. p + n - 1 THEN sent + from + (q - p) ELSE buf[q]]

\* The n bytes at position p.
Loaded(p, n) == [k \in 1 .. n |-> buf[p + k - 1]]

-----------------------------------------------------------------------------
(* The writing thread *)

\* incudine_ringbuffer_write loads the read head and cuts the request.
WriteBegin(n) ==
    /\ writer = "idle"
    /\ bytes' = Least(n, WriteSpace)
    /\ sent + bytes' <= MaxBytes
    /\ writeEnd' = Mask(writeHead + bytes' - Size)
    /\ writer' = "copy"
    /\ UNCHANGED <<rb, reading, history>>

WriteCopy_NoSplit ==
    /\ writer = "copy"
    /\ buf' = Stored(writeHead, 1, bytes)
    /\ writer' = "publish"
    /\ UNCHANGED <<writeHead, readHead, bytes, writeEnd, reading, history>>

\* The first memcpy, or the only one.
WriteCopy ==
    /\ writer = "copy"
    /\ IF writeHead > writeEnd
       THEN buf' = Stored(writeHead, 1, Size - writeHead) /\ writer' = "wrap"
       ELSE buf' = Stored(writeHead, 1, bytes) /\ writer' = "publish"
    /\ UNCHANGED <<writeHead, readHead, bytes, writeEnd, reading, history>>

WriteWrap ==
    /\ writer = "wrap"
    /\ buf' = Stored(0, Size - writeHead + 1, writeEnd)
    /\ writer' = "publish"
    /\ UNCHANGED <<writeHead, readHead, bytes, writeEnd, reading, history>>

WritePublish ==
    /\ writer = "publish"
    /\ writeHead' = writeEnd
    /\ sent' = sent + bytes
    /\ writer' = "idle"
    /\ UNCHANGED <<buf, readHead, bytes, writeEnd, reading, received, returned>>

\* A caller that has asked for the space fills it in place ...
FillInPlace(n) ==
    /\ writer = "idle"
    /\ n <= WriteSpace /\ sent + n <= MaxBytes
    /\ bytes' = n
    /\ buf' = [q \in Positions |->
                 IF Mask(q - writeHead) < n THEN sent + 1 + Mask(q - writeHead) ELSE buf[q]]
    /\ writer' = "filled"
    /\ UNCHANGED <<writeHead, readHead, writeEnd, reading, history>>

\* ... and calls incudine_ringbuffer_write_advance.
WriteAdvance ==
    /\ writer = "filled"
    /\ writeHead' = Mask(writeHead + bytes - Size)
    /\ sent' = sent + bytes
    /\ writer' = "idle"
    /\ UNCHANGED <<buf, readHead, bytes, writeEnd, reading, received, returned>>

-----------------------------------------------------------------------------
(* The reading thread *)

\* incudine_ringbuffer_read (moves) and incudine_ringbuffer_peek load the
\* write head and cut the request.
ReadBegin(n, moves) ==
    /\ reader = "idle"
    /\ rbytes' = Least(n, ReadSpace)
    /\ readEnd' = Mask(readHead + rbytes' - Size)
    /\ advance' = moves
    /\ reader' = "copy"
    /\ UNCHANGED <<rb, writing, dest, history>>

ReadCopy ==
    /\ reader = "copy"
    /\ IF readHead > readEnd
       THEN dest' = Loaded(readHead, Size - readHead) /\ reader' = "wrap"
       ELSE dest' = Loaded(readHead, rbytes) /\ reader' = "publish"
    /\ UNCHANGED <<rb, writing, rbytes, readEnd, advance, history>>

ReadWrap_NoOffset ==
    /\ reader = "wrap"
    /\ dest' = Loaded(0, readEnd)
    /\ reader' = "publish"
    /\ UNCHANGED <<rb, writing, rbytes, readEnd, advance, history>>

ReadWrap ==
    /\ reader = "wrap"
    /\ dest' = dest \o Loaded(0, readEnd)
    /\ reader' = "publish"
    /\ UNCHANGED <<rb, writing, rbytes, readEnd, advance, history>>

ReadPublish ==
    /\ reader = "publish"
    /\ IF advance
       THEN readHead' = readEnd /\ received' = received + rbytes
       ELSE UNCHANGED <<readHead, received>>
    /\ returned' = dest
    /\ reader' = "idle"
    /\ UNCHANGED <<buf, writeHead, writing, rbytes, readEnd, dest, advance, sent>>

\* incudine_ringbuffer_read_advance over bytes that the caller knows of.
ReadAdvance(n) ==
    /\ reader = "idle"
    /\ n <= ReadSpace
    /\ readHead' = Mask(readHead + n - Size)
    /\ received' = received + n
    /\ UNCHANGED <<buf, writeHead, writing, reading, sent, returned>>

Reset_WhileWriting ==
    /\ reader = "idle"
    /\ writeHead' = 0 /\ readHead' = 0
    /\ received' = sent
    /\ UNCHANGED <<buf, writing, reading, sent, returned>>

\* incudine_ringbuffer_reset stores both heads.  The caches are reset by a
\* thread that has the audio cycle, when no other thread is in the buffer.
Reset ==
    /\ reader = "idle" /\ writer = "idle"
    /\ writeHead' = 0 /\ readHead' = 0
    /\ received' = sent
    /\ UNCHANGED <<buf, writing, reading, sent, returned>>

-----------------------------------------------------------------------------
Next == \/ \E n \in Requests : WriteBegin(n) \/ FillInPlace(n)
        \/ WriteCopy \/ WriteWrap \/ WritePublish \/ WriteAdvance
        \/ \E n \in Requests, moves \in BOOLEAN : ReadBegin(n, moves)
        \/ ReadCopy \/ ReadWrap \/ ReadPublish
        \/ \E n \in Requests : ReadAdvance(n)
        \/ Reset

Spec == Init /\ [][Next]_vars

-----------------------------------------------------------------------------
(* Properties *)

\* Heads stay in the buffer, and no more is released than published.
TypeOK ==
    /\ buf \in [Positions -> 0 .. MaxBytes]
    /\ writeHead \in Positions /\ readHead \in Positions
    /\ writer \in {"idle", "copy", "wrap", "publish", "filled"}
    /\ bytes \in 0 .. Size - 1 /\ writeEnd \in Positions
    /\ reader \in {"idle", "copy", "wrap", "publish"}
    /\ rbytes \in 0 .. Size - 1 /\ readEnd \in Positions /\ advance \in BOOLEAN
    /\ sent \in 0 .. MaxBytes /\ received \in 0 .. sent

\* What a position holds k places after a head, without a remainder.
Wrap(p) == IF p >= Size THEN p - Size ELSE p

\* The bytes from the read head to the write head are those that have been
\* published and not released, in order: nobody has overwritten them.
Window ==
    /\ sent - received < Size
    /\ writeHead = Wrap(readHead + (sent - received))
    /\ \A k \in 0 .. Size - 1 : k < sent - received => buf[Wrap(readHead + k)] = received + 1 + k

\* The message of the writer fits and lies behind the write head, as far as
\* it has been copied.
Writing ==
    /\ writer # "idle" => /\ bytes + (sent - received) < Size
                          /\ sent + bytes <= MaxBytes
    /\ writer \in {"copy", "wrap", "publish"} => writeEnd = Wrap(writeHead + bytes)
    /\ writer = "wrap" =>
          /\ writeHead > writeEnd
          /\ \A k \in 0 .. Size - 1 : writeHead + k < Size => buf[writeHead + k] = sent + 1 + k
    /\ writer \in {"publish", "filled"} =>
          \A k \in 0 .. Size - 1 : k < bytes => buf[Wrap(writeHead + k)] = sent + 1 + k

\* The reader has copied the oldest bytes, and they are still in the buffer.
Reading ==
    /\ reader # "idle" => rbytes <= sent - received /\ readEnd = Wrap(readHead + rbytes)
    /\ reader = "wrap" =>
          /\ readHead > readEnd
          /\ dest = [k \in 1 .. Size - readHead |-> received + k]
    /\ reader = "publish" => dest = [k \in 1 .. rbytes |-> received + k]

\* The inductive invariant.
RingInv == TypeOK /\ Window /\ Writing /\ Reading

\* A memcpy of one thread never touches bytes that a memcpy of the other may
\* be reading or writing: the space that incudine_ringbuffer_write fills and
\* the bytes that incudine_ringbuffer_read takes are disjoint, although each
\* thread uses a head of the other that it has loaded before.
CopiesDisjoint ==
    \A p \in Positions :
        ~ /\ writer \in {"copy", "wrap"} /\ Mask(p - writeHead) < bytes
          /\ reader \in {"copy", "wrap"} /\ Mask(p - readHead) < rbytes

\* A read or a peek returns the oldest bytes that have been published and
\* not released: none is lost, repeated, reordered, torn or stale, whatever
\* the writer has done since the space was computed, with or without a wrap.
ReturnsOldest ==
    [][returned' # returned =>
          /\ returned' = [k \in 1 .. Len(returned') |-> received + k]
          /\ received + Len(returned') <= sent]_vars
=============================================================================
