------------------------------ MODULE ByteStream ------------------------------
(***************************************************************************)
(* What a ring buffer of src/src/ringbuffer.c promises to the thread that  *)
(* writes and the thread that reads: a bounded stream of bytes.  The bytes *)
(* are numbered in the order of writing.                                   *)
(***************************************************************************)
EXTENDS Naturals, Sequences

CONSTANTS Capacity   \* the bytes that fit

VARIABLES stream,     \* the bytes that wait to be read
          last,       \* the number of the last byte written
          returned    \* what the last read or peek has returned

vars == <<stream, last, returned>>

Init == stream = <<>> /\ last = 0 /\ returned = <<>>

Write(n) ==
    /\ Len(stream) + n <= Capacity
    /\ stream' = stream \o [k \in 1 .. n |-> last + k]
    /\ last' = last + n
    /\ UNCHANGED returned

Peek(n) ==
    /\ returned' = SubSeq(stream, 1, n)
    /\ UNCHANGED <<stream, last>>

Read(n) ==
    /\ returned' = SubSeq(stream, 1, n)
    /\ stream' = SubSeq(stream, n + 1, Len(stream))
    /\ UNCHANGED last

Skip(n) ==
    /\ stream' = SubSeq(stream, n + 1, Len(stream))
    /\ UNCHANGED <<last, returned>>

Next == \/ \E n \in 0 .. Capacity : Write(n)
        \/ \E n \in 0 .. Len(stream) : Peek(n) \/ Read(n) \/ Skip(n)

Spec == Init /\ [][Next]_vars
=============================================================================
