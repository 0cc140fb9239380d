---------------------------- MODULE FunctionQueue ----------------------------
(***************************************************************************)
(* What a FIFO of src/src/fifo.lisp promises to the two threads that share *)
(* it: functions are called once, in the order of their enqueue; a full    *)
(* queue refuses; a flush removes the functions that are waiting.  The     *)
(* functions are numbered in the order in which they are accepted.         *)
(***************************************************************************)
EXTENDS Naturals, Sequences

CONSTANT Capacity

VARIABLES queue,     \* the functions that wait, by number
          accepted,  \* how many functions have been accepted
          running,   \* the function that the consumer calls, 0 if none
          refused    \* whether the last enqueue found the queue full

vars == <<queue, accepted, running, refused>>

Init == queue = <<>> /\ accepted = 0 /\ running = 0 /\ refused = FALSE

Accept ==
    /\ Len(queue) < Capacity
    /\ accepted' = accepted + 1
    /\ queue' = Append(queue, accepted')
    /\ refused' = FALSE
    /\ UNCHANGED running

Refuse ==
    /\ Len(queue) = Capacity
    /\ refused' = TRUE
    /\ UNCHANGED <<queue, accepted, running>>

Take ==
    /\ running = 0
    /\ queue # <<>>
    /\ running' = Head(queue)
    /\ queue' = Tail(queue)
    /\ UNCHANGED <<accepted, refused>>

Return ==
    /\ running # 0
    /\ running' = 0
    /\ UNCHANGED <<queue, accepted, refused>>

\* The functions accepted while the flush runs may stay.
Flush ==
    /\ \E n \in 0 .. Len(queue) : queue' = SubSeq(queue, n + 1, Len(queue))
    /\ UNCHANGED <<accepted, running, refused>>

Next == Accept \/ Refuse \/ Take \/ Return \/ Flush

Spec == Init /\ [][Next]_vars
=============================================================================
