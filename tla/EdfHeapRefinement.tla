-------------------------- MODULE EdfHeapRefinement --------------------------
(* The array heap of EdfHeap implements the queue of EdfQueue. *)
EXTENDS EdfHeap

\* Times given by callers, and those of force-pending-events.
EventTimes == Times \cup {2 * (n + step) : n \in 0 .. MaxNow, step \in Steps}

Queue == INSTANCE EdfQueue WITH Times <- EventTimes, Function <- Functions,
                                pending <- Pending, capacity <- size - 1

\* Seen from outside, the heap is the queue: a call takes the earliest event,
\* an event is scheduled behind those of the same time, unschedule-if and
\* flush-pending remove what they should in one step, a full heap refuses, and
\* the loops in between change nothing.
ImplementsQueue == Queue!Init /\ [][Queue!Next]_(Queue!vars)

-----------------------------------------------------------------------------
(* What the proof of ImplementsQueue knows of the events pending before *)

\* The event that schedule-at carries has a time of EventTimes.
NewTimes == pc = "up" /\ ret # "flush" => new.time \in EventTimes

\* While unschedule-if runs, only events that satisfy its test are missing.
ScanInv ==
    ret = "scan" =>
      /\ Live \subseteq before
      /\ \A e \in before : Spared(e) => e \in Live
      /\ Cardinality(before) < 8 => next <= 8

\* r was the root when delete-event began: it returns to the root.
OldRoot(r) ==
    /\ r \in Live /\ Spared(r)
    /\ \A e \in Live : e = r \/ Before(r, e)
    /\ hole > RootNode => r = data[RootNode]
    /\ hole = RootNode => \/ pc = "down" /\ r = temp
                          \/ \E k \in {2, 3} \cap Occupied : r = data[k]

\* In a small heap the slots that the scan has passed are tested.
ScannedInv ==
    ret = "scan" /\ Cardinality(before) < 8 =>
      /\ pc = "scan" => \A k \in 1 .. i - 1 : Spared(data[k])
      /\ pc \in {"hole", "down"} => i < 8
      /\ pc \in {"hole", "down"} /\ i > RootNode => \E r \in Node : OldRoot(r)

\* The events that a flush still has to look at.
Rest == {data[k] : k \in i .. count}

\* While a flush runs, the heap holds the crucial events of the slots it has
\* passed, with new orders; at pc = "up" schedule-at carries one more, event c.
Reinserted(done, rank) ==
    /\ done \subseteq before \ Rest
    /\ rank \in [done -> Nat]
    /\ \A e \in done : rank[e] < tag /\ e.function \in Crucial
    /\ \A e, x \in done : rank[e] = rank[x] => e = x
    /\ Live = {[e EXCEPT !.order = rank[e]] : e \in done}
    /\ \A e \in before : e.function \in Crucial => e \in done \cup Rest \/ pc = "up"
    /\ pc = "up" => \E c \in before \ (done \cup Rest) :
                      /\ c.function \in Crucial
                      /\ new = [time |-> c.time, function |-> c.function]
                      /\ \A e \in before : e.function \in Crucial => e \in done \cup Rest \cup {c}

FlushInv ==
    ret = "flush" =>
      /\ Rest \subseteq before
      /\ \A j, k \in i .. count : data[j] = data[k] => j = k
      /\ \E done \in SUBSET before : \E rank \in [done -> Nat] : Reinserted(done, rank)
=============================================================================
