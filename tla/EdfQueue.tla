------------------------------ MODULE EdfQueue ------------------------------
(***************************************************************************)
(* What the Earliest-Deadline-First scheduler of edf-sched.lisp promises   *)
(* to the code that uses it, without the array heap that implements it: a  *)
(* bounded set of pending events, a call of the earliest event that is due,*)
(* and no tick of the sample counter while a pending event is due.         *)
(*                                                                         *)
(* Times are in half samples, so that the tolerance of half a sample of    *)
(* sched-loop, now + 0.5 >= time, is 2 * now + 1 >= time.                  *)
(***************************************************************************)
EXTENDS Naturals, FiniteSets, Functions

CONSTANTS Times,      \* times of events, in half samples
          Function,   \* the scheduled functions, with their arguments
          Crucial,    \* those that force-scheduled-function-p protects
          TagLimit,   \* orders are below this bound
          BlockSize   \* samples of an iteration of rt-audio-cycle

VARIABLES pending,    \* the scheduled events
          capacity,   \* how many events fit
          now         \* the sample counter

vars == <<pending, capacity, now>>

Event == [time : Times, order : 0 .. TagLimit - 1, function : Function]

\* Earliest deadline first; events of the same time in the order of their
\* scheduling.
Before(a, b) == \/ a.time < b.time
                \/ a.time = b.time /\ a.order < b.order

Due(time) == 2 * now + 1 >= time

Earliest(e) == \A x \in pending : x = e \/ Before(e, x)

Init == pending = {} /\ now = 0 /\ capacity \in Nat

Schedule(t, f) ==
    /\ Cardinality(pending) < capacity
    /\ \E tag \in 0 .. TagLimit - 1 :
         /\ \A x \in pending : x.order < tag
         /\ pending' = pending \cup {[time |-> t, order |-> tag, function |-> f]}
    /\ UNCHANGED <<capacity, now>>

\* sched-loop calls an event that is due, force-pending-events any event.
Call(e) ==
    /\ Earliest(e)
    /\ pending' = pending \ {e}
    /\ UNCHANGED <<capacity, now>>

\* unschedule-if with a test that holds for the functions of cancelled.  Its
\* scan can miss events when many are pending (from twelve events on).
Unschedule(cancelled) ==
    LET spared == {e \in pending : e.function \in Crucial \/ e.function \notin cancelled}
    IN  /\ spared \subseteq pending' /\ pending' \subseteq pending
        /\ Cardinality(pending) < 8 => pending' = spared
        /\ UNCHANGED <<capacity, now>>

\* flush-pending: the crucial events are kept, with new orders.
Flush ==
    LET kept == {e \in pending : e.function \in Crucial}
    IN  /\ \E rank \in [kept -> 0 .. TagLimit - 1] :
             /\ IsInjective(rank)
             /\ pending' = {[e EXCEPT !.order = rank[e]] : e \in kept}
        /\ UNCHANGED <<capacity, now>>

Resize == pending = {} /\ capacity' \in Nat /\ UNCHANGED <<pending, now>>

NextBlock ==
    /\ \A e \in pending : ~Due(e.time)
    /\ now' = now + BlockSize
    /\ UNCHANGED <<pending, capacity>>

Next == \/ \E t \in Times, f \in Function : Schedule(t, f)
        \/ \E e \in pending : Call(e)
        \/ \E cancelled \in SUBSET Function : Unschedule(cancelled)
        \/ NextBlock \/ Flush \/ Resize

Spec == Init /\ [][Next]_vars
=============================================================================
