--------------------------- MODULE FifoRefinement ---------------------------
(* The ring of Fifo implements the queue of FunctionQueue. *)
EXTENDS Fifo, Integers

Waiting == [k \in 1 .. (writeHead - readHead) % Size |-> items[(readHead + k) % Size]]

FifoQueue == INSTANCE FunctionQueue WITH
            Capacity <- Size - 1, queue <- Waiting, accepted <- sent,
            running <- IF deq = "call" THEN fn ELSE 0

\* Seen from outside, the two heads and the slots are a queue: an enqueue
\* appends or, with Size - 1 functions waiting, refuses, the consumer takes the
\* first function, and a flush removes those that wait when it begins.
ImplementsFunctionQueue == FifoQueue!Spec
=============================================================================
