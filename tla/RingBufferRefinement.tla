------------------------ MODULE RingBufferRefinement ------------------------
(***************************************************************************)
(* The ring buffer implements the stream of bytes: a byte is written when  *)
(* the write head moves past it and read when the read head does.          *)
(***************************************************************************)
EXTENDS RingBuffer

Stream == INSTANCE ByteStream WITH
    Capacity <- Size - 1,
    stream   <- [k \in 1 .. sent - received |-> received + k],
    last     <- sent,
    returned <- returned

\* Every interleaving of single loads, stores and memcpy of
\* incudine_ringbuffer_write, _read, _peek, _write_advance, _read_advance
\* and _reset looks like a stream whose operations are indivisible.
ImplementsByteStream == Stream!Spec
=============================================================================
