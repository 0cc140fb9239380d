------------------------------- MODULE EdfHeap -------------------------------
(***************************************************************************)
(* The array heap of the EDF scheduler, src/src/edf-sched.lisp, at the     *)
(* grain of one iteration of its loops.  The heap belongs to the real-time *)
(* thread: an operation that has begun runs to its end before the next one *)
(* (pc is the place in it), and the functions it calls schedule, cancel    *)
(* and flush between two calls of get-heap.                                *)
(*                                                                         *)
(* Slot 0 of data holds the node that get-heap returned last, the slots    *)
(* 1 .. next - 1 the pending events.  Times are in half samples.           *)
(*                                                                         *)
(* A definition D_Fault is D with a fault that code like this could have:  *)
(* no action uses it, it is there to see that a property would notice.     *)
(***************************************************************************)
EXTENDS Naturals, FiniteSets, FiniteSetsExt

CONSTANTS Times,          \* times of events, in half samples
          Functions,      \* the scheduled functions, with their arguments
          Crucial,        \* functions that force-scheduled-function-p protects
          ForcePendingFn, \* the function force-pending-events itself
          Corrupted,      \* the function corrupted-heap of an empty node
          Tests,          \* the functions a test of unschedule-if holds for
          Steps,          \* time steps of flush-pending, in samples
          Sizes,          \* heap sizes, powers of two
          ResizePending,  \* whether rt-start resizes a heap that is not empty
          BlockSize,      \* samples of an iteration of rt-audio-cycle
          TagLimit,       \* the ordering tag wraps here (2^61 in the code)
          MaxNow          \* bound of the sample counter

ASSUME TimesAssumption     == Times \subseteq Nat
ASSUME StepsAssumption     == Steps \subseteq Nat
ASSUME SizesAssumption     == Sizes \subseteq Nat \ {0, 1} /\ Sizes # {}
ASSUME TagLimitAssumption  == TagLimit \in Nat \ {0}
ASSUME BlockSizeAssumption == BlockSize \in Nat \ {0}
ASSUME MaxNowAssumption    == MaxNow \in Nat
ASSUME FunctionsAssumption == /\ Crucial \subseteq Functions
                              /\ ForcePendingFn \in Functions \ Crucial
                              /\ Corrupted \notin Functions
                              /\ Tests \subseteq SUBSET Functions

VARIABLES data,     \* heap-data
          size,     \* its length, and *heap-size*
          next,     \* heap-next-node
          temp,     \* heap-temp-node
          tag,      \* heap-ordering-tag
          now,      \* the sample counter
          pc,       \* the loop that runs
          ret,      \* where it returns
          hole,     \* the slot that a loop is about to fill (curr, parent)
          new,      \* time and function given to schedule-at
          i,        \* loop variable of unschedule-if and of a flush
          count,    \* number-of-events of a flush
          test,     \* the functions that unschedule-if cancels
          before    \* history: the events pending when the operation began

heapVars == <<data, size, next, temp, tag>>
callVars == <<hole, new, i, count, test, before>>
vars == <<heapVars, now, pc, ret, callVars>>

-----------------------------------------------------------------------------
(* Nodes *)

RootNode == 1

Node == [time : Nat, order : Nat, function : Functions \cup {Corrupted}]

\* make-node, and what node-move leaves in its source.
EmptyNode == [time |-> 0, order |-> 0, function |-> Corrupted]

\* node-time>, with its arguments swapped.
Before(a, b) == \/ a.time < b.time
                \/ a.time = b.time /\ a.order < b.order

Due(time) == 2 * now + 1 >= time

Parent(k) == k \div 2

-----------------------------------------------------------------------------
(* The pending events *)

\* The slots that hold pending events, wherever the running loop is.
Occupied == IF pc = "up" THEN (1 .. next) \ {hole}
            ELSE IF pc \in {"hole", "down"} THEN (1 .. next - 1) \ {hole}
            ELSE 1 .. next - 1

Live == {data[k] : k \in Occupied} \cup
        (IF pc = "down" /\ next > RootNode THEN {temp} ELSE {})

\* unschedule-if and a flush take effect when they end.
Pending == IF {pc, ret} \cap {"scan", "flush"} # {} THEN before ELSE Live

-----------------------------------------------------------------------------
(* Operations *)

\* Registers are reset when their loop ends: they are local variables.
NoEvent == [time |-> 0, function |-> Corrupted]

Init == /\ size \in Sizes
        /\ data = [k \in 0 .. size - 1 |-> EmptyNode]
        /\ next = RootNode
        /\ temp = EmptyNode
        /\ tag = 0
        /\ now = 0
        /\ pc = "idle" /\ ret = "idle"
        /\ hole = RootNode
        /\ new = NoEvent
        /\ i = RootNode /\ count = 0 /\ test = {} /\ before = {}

\* The test of schedule-at: the event is ignored when the heap is full.
HeapFull == next >= size

\* TagLimit is a bound of the model here: the wrap is out of reach.
CallScheduleAt(t, f, return) ==
    /\ ~HeapFull
    /\ tag + 1 < TagLimit
    /\ hole' = next
    /\ new' = [time |-> t, function |-> f]
    /\ pc' = "up" /\ ret' = return

\* From a function called by the scheduler, or by force-pending-events.
ScheduleAt(t, f) ==
    /\ pc \in {"idle", "forced"}
    /\ tag + 2 < TagLimit
    /\ CallScheduleAt(t, f, pc)
    /\ UNCHANGED <<heapVars, now, i, count, test, before>>

SiftUp_PassesEqualTimes ==
    /\ pc = "up"
    /\ hole > RootNode
    /\ new.time <= data[Parent(hole)].time
    /\ data' = [data EXCEPT ![hole] = data[Parent(hole)]]
    /\ hole' = Parent(hole)
    /\ UNCHANGED <<size, next, temp, tag, now, pc, ret, new, i, count, test, before>>

SiftUp ==
    /\ pc = "up"
    /\ hole > RootNode
    /\ new.time < data[Parent(hole)].time
    /\ data' = [data EXCEPT ![hole] = data[Parent(hole)]]
    /\ hole' = Parent(hole)
    /\ UNCHANGED <<size, next, temp, tag, now, pc, ret, new, i, count, test, before>>

SiftUpDone ==
    /\ pc = "up"
    /\ hole > RootNode => new.time >= data[Parent(hole)].time
    /\ data' = [data EXCEPT ![hole] = [time     |-> new.time,
                                       order    |-> tag,
                                       function |-> new.function]]
    /\ tag' = IF tag + 1 = TagLimit THEN 0 ELSE tag + 1
    /\ next' = next + 1
    /\ pc' = ret /\ ret' = IF ret = "flush" THEN "flush" ELSE "idle"
    /\ hole' = RootNode /\ new' = NoEvent
    /\ UNCHANGED <<size, temp, now, i, count, test, before>>

\* node-move of the last node to the root, and the root to the temp node.
FillRoot(d, last) ==
    /\ next' = last
    /\ data' = [d EXCEPT ![RootNode] = d[last], ![last] = EmptyNode]
    /\ temp' = data'[RootNode]
    /\ hole' = RootNode
    /\ pc' = "down"

CallGetHeap(return) ==
    /\ next > RootNode
    /\ FillRoot([data EXCEPT ![0] = data[RootNode]], next - 1)
    /\ ret' = return
    /\ UNCHANGED <<size, tag, now, new, i, count, test, before>>

\* sched-loop takes the next event that is due.
GetHeap ==
    /\ pc = "idle"
    /\ Due(data[RootNode].time)
    /\ CallGetHeap("idle")

\* force-pending-events takes the next event, due or not.
ForcePending ==
    /\ pc = "idle"
    /\ tag + 1 < TagLimit
    /\ CallGetHeap("forced")

\* ... and, after the call of its function, schedules itself.
ForceAgain(step) ==
    /\ pc = "forced"
    /\ \/ CallScheduleAt(2 * (now + step), ForcePendingFn, "idle")
       \/ HeapFull /\ pc' = "idle" /\ UNCHANGED <<hole, new, ret>>
    /\ UNCHANGED <<heapVars, now, i, count, test, before>>

Child_IgnoresSister == 2 * hole

\* The earlier of the children of the hole.
Child == IF 2 * hole + 1 < next /\ Before(data[2 * hole + 1], data[2 * hole])
         THEN 2 * hole + 1 ELSE 2 * hole

SiftDown ==
    /\ pc = "down"
    /\ 2 * hole < next
    /\ Before(data[Child], temp)
    /\ data' = [data EXCEPT ![hole] = data[Child]]
    /\ hole' = Child
    /\ UNCHANGED <<size, next, temp, tag, now, pc, ret, new, i, count, test, before>>

\* Where unschedule-if goes back to after it has deleted event k: one less
\* than integer-length of (logior k 2), the number of powers of two from 2 to
\* k, at least 1.
Restart(k) == Cardinality({1} \cup {n \in 2 .. k : 2^n <= k})

SiftDownDone ==
    /\ pc = "down"
    /\ 2 * hole < next => ~Before(data[Child], temp)
    /\ data' = [data EXCEPT ![hole] = temp]
    /\ tag' = IF next = RootNode THEN 0 ELSE tag
    /\ pc' = ret /\ ret' = IF ret = "scan" THEN "scan" ELSE "idle"
    /\ i' = IF ret = "scan" THEN Restart(i) ELSE i
    /\ hole' = RootNode
    /\ UNCHANGED <<size, next, temp, now, new, count, test, before>>

UnscheduleIf(cancelled) ==
    /\ pc = "idle"
    /\ pc' = "scan" /\ ret' = "scan"
    /\ i' = RootNode /\ test' = cancelled /\ before' = Live
    /\ UNCHANGED <<heapVars, now, hole, new, count>>

Cancelled(k) == data[k].function \in test \ Crucial

ScanKeep ==
    /\ pc = "scan" /\ i < next
    /\ ~Cancelled(i)
    /\ i' = i + 1
    /\ UNCHANGED <<heapVars, now, pc, ret, hole, new, count, test, before>>

\* delete-event opens a hole in the slot of the event ...
ScanDelete ==
    /\ pc = "scan" /\ i < next
    /\ Cancelled(i)
    /\ hole' = i /\ pc' = "hole"
    /\ UNCHANGED <<heapVars, now, ret, new, i, count, test, before>>

\* ... moves it up to the root ...
HoleUp ==
    /\ pc = "hole" /\ hole > RootNode
    /\ data' = [data EXCEPT ![hole] = data[Parent(hole)]]
    /\ hole' = Parent(hole)
    /\ UNCHANGED <<size, next, temp, tag, now, pc, ret, new, i, count, test, before>>

\* ... and fills it with the last node.
HoleFill ==
    /\ pc = "hole" /\ hole = RootNode
    /\ FillRoot(data, next - 1)
    /\ UNCHANGED <<size, tag, now, ret, new, i, count, test, before>>

ScanDone ==
    /\ pc = "scan" /\ i >= next
    /\ pc' = "idle" /\ ret' = "idle" /\ i' = RootNode /\ test' = {} /\ before' = {}
    /\ UNCHANGED <<heapVars, now, hole, new, count>>

\* flush-pending without a time step: ignore-non-crucial-events.
FlushPending ==
    /\ pc = "idle"
    /\ pc' = "flush" /\ ret' = "flush"
    /\ count' = next - 1 /\ i' = RootNode /\ before' = Live
    /\ next' = RootNode /\ tag' = 0
    /\ UNCHANGED <<data, size, temp, now, hole, new, test>>

FlushDrop ==
    /\ pc = "flush" /\ i <= count
    /\ data[i].function \notin Crucial
    /\ i' = i + 1
    /\ UNCHANGED <<heapVars, now, pc, ret, hole, new, count, test, before>>

\* Reinsert the event.
FlushKeep ==
    /\ pc = "flush" /\ i <= count
    /\ data[i].function \in Crucial
    /\ CallScheduleAt(data[i].time, data[i].function, "flush")
    /\ i' = i + 1
    /\ UNCHANGED <<heapVars, now, count, test, before>>

FlushDone_OneEarly ==
    /\ pc = "flush" /\ i >= count
    /\ pc' = "idle" /\ ret' = "idle"
    /\ i' = RootNode /\ count' = 0 /\ before' = {}
    /\ UNCHANGED <<heapVars, now, hole, new, test>>

FlushDone ==
    /\ pc = "flush" /\ i > count
    /\ pc' = "idle" /\ ret' = "idle"
    /\ i' = RootNode /\ count' = 0 /\ before' = {}
    /\ UNCHANGED <<heapVars, now, hole, new, test>>

\* maybe-resize-edf-heap and resize-heap, from rt-start.
ResizeHeap(n) ==
    /\ pc = "idle"
    /\ ResizePending \/ next = RootNode
    /\ n # size /\ next - 1 < n
    /\ data' = [k \in 0 .. n - 1 |-> IF k < next - 1 THEN data[k] ELSE EmptyNode]
    /\ size' = n
    /\ UNCHANGED <<next, temp, tag, now, pc, ret, callVars>>

\* rt-audio-cycle goes on to the next block: sched-loop has stopped.
NextBlock ==
    /\ pc = "idle"
    /\ next > RootNode => ~Due(data[RootNode].time)
    /\ now + BlockSize <= MaxNow
    /\ now' = now + BlockSize
    /\ UNCHANGED <<heapVars, pc, ret, callVars>>

Next == \/ \E t \in Times, f \in Functions \ {ForcePendingFn} : ScheduleAt(t, f)
        \/ SiftUp \/ SiftUpDone
        \/ GetHeap \/ ForcePending
        \/ \E step \in Steps : ForceAgain(step)
        \/ SiftDown \/ SiftDownDone
        \/ \E cancelled \in Tests : UnscheduleIf(cancelled)
        \/ ScanKeep \/ ScanDelete \/ HoleUp \/ HoleFill \/ ScanDone
        \/ FlushPending \/ FlushDrop \/ FlushKeep \/ FlushDone
        \/ NextBlock
        \/ \E n \in Sizes : ResizeHeap(n)

Spec == Init /\ [][Next]_vars

-----------------------------------------------------------------------------
(* Queries *)

NextTime_LeftFirst(f, start) ==
    LET Found(k) == data[k].function = f /\ data[k].time >= start
        Search[k \in 1 .. 2 * size] ==
            IF k >= next THEN {}
            ELSE IF Found(k) THEN {data[k]}
            ELSE IF Search[2 * k] # {} THEN Search[2 * k] ELSE Search[2 * k + 1]
    IN  IF Search[RootNode] = {} THEN 0 ELSE (CHOOSE e \in Search[RootNode] : TRUE).time

\* next-time: the subtree below a node that satisfies the search is not
\* visited; 0 is the answer when no event is found.
NextTime(f, start) ==
    LET Found(k) == data[k].function = f /\ data[k].time >= start
        Search[k \in 1 .. 2 * size] ==
            IF k >= next THEN {}
            ELSE IF Found(k) THEN {data[k]}
            ELSE LET found == Search[2 * k] \cup Search[2 * k + 1]
                 IN  {e \in found : \A x \in found : ~Before(x, e)}
    IN  IF Search[RootNode] = {} THEN 0 ELSE (CHOOSE e \in Search[RootNode] : TRUE).time

\* The least power of two that is not below n, for n > 0.
NextPowerOfTwo(n) ==
    LET doubled[p \in 1 .. 2 * n] == IF p >= n THEN p ELSE doubled[2 * p]
    IN  doubled[1]

\* last-time looks at the last levels of the tree only.
LastTime ==
    LET start == IF NextPowerOfTwo(next) = next THEN next \div 2
                 ELSE IF next \div 4 < 2 THEN next \div 4 + 1
                 ELSE NextPowerOfTwo(next \div 4)
    IN  Max({data[k].time : k \in start .. Max({start, next - 1})})

-----------------------------------------------------------------------------
(* Properties *)

\* The heap and the registers of its loops have their types, and no loop
\* leaves the array of heap-data.
TypeOK ==
    /\ size \in Sizes
    /\ data \in [0 .. size - 1 -> Node]
    /\ next \in 1 .. size
    /\ temp \in Node
    /\ tag \in 0 .. TagLimit - 1
    /\ now \in 0 .. MaxNow
    /\ pc \in {"idle", "up", "down", "scan", "hole", "flush", "forced"}
    /\ ret \in {"idle", "scan", "flush", "forced"}
    /\ hole \in 1 .. size - 1
    /\ new \in [time : Nat, function : Functions \cup {Corrupted}]
    /\ i \in 1 .. size
    /\ count \in 0 .. size - 1
    /\ test \in SUBSET Functions
    /\ before \in SUBSET Node

\* Between two operations every event comes strictly after its parent, by
\* time and then by order of scheduling: what the loops of schedule-at,
\* get-heap, delete-event and ignore-non-crucial-events restore together,
\* although schedule-at compares times only.
HeapOrdered ==
    pc = "idle" => \A k \in 2 .. next - 1 : Before(data[Parent(k)], data[k])

\* No pending event is the empty node, whose function corrupted-heap only
\* signals "Corrupted EDF heap.".
NoCorruptedNode == \A e \in Live : e.function # Corrupted

\* The node that get-heap returns in slot 0 is the earliest pending event,
\* and it is the one event that is taken off the heap.
GotEarliest ==
    [][pc = "idle" /\ pc' = "down" =>
         /\ data'[0] \in Pending
         /\ \A e \in Pending : e = data'[0] \/ Before(data'[0], e)
         /\ Pending' = Pending \ {data'[0]}]_vars

\* The sample counter never advances past an event that is due: sched-loop
\* looks at the root only, the other events must be later.
NoMissedDeadline ==
    [][now' # now => \A e \in Pending : ~Due(e.time)]_vars

Spared(e) == e.function \in Crucial \/ e.function \notin test

\* unschedule-if cancels no event but those that satisfy its test and are not
\* crucial, and all of these when fewer than eight events are pending, although
\* deleting an event moves others to slots already tested.
UnscheduleExact ==
    pc = "scan" /\ i >= next =>
      /\ Live \subseteq before
      /\ \A e \in before : Spared(e) => e \in Live
      /\ Cardinality(before) < 8 => \A e \in Live : Spared(e)

\* next-time finds the earliest event of a function from a start time on, and
\* last-time the latest event, although neither visits the whole heap.
SearchesExact ==
    pc = "idle" =>
      /\ \A f \in Functions, start \in Times \cup {0} :
           LET found == {e.time : e \in {x \in Live : x.function = f /\ x.time >= start}}
           IN  NextTime(f, start) = IF found = {} THEN 0 ELSE Min(found)
      /\ Live # {} => LastTime = Max({e.time : e \in Live})

\* The scans of unschedule-if, next-time and last-time, which look at a part of
\* the heap or change it on the way, find what a look at every event finds.
ScansExact == UnscheduleExact /\ SearchesExact

-----------------------------------------------------------------------------
(* The inductive invariant *)

\* The call structure, and the bounds of the running loop.
Control ==
    /\ pc \in {"idle", "forced"} => ret = "idle"
    /\ pc \notin {"up", "down", "hole"} => hole = RootNode
    /\ ret \in {"idle", "forced"} => i = RootNode
    /\ ret # "flush" => count = 0
    /\ pc \in {"scan", "hole"} => ret = "scan"
    /\ pc = "flush" => ret = "flush"
    /\ pc = "up" => /\ ret \in {"idle", "forced", "flush"}
                    /\ next < size /\ hole <= next
                    /\ tag + 1 < TagLimit
                    /\ new.function \in Functions
    /\ pc = "down" => /\ ret \in {"idle", "forced", "scan"}
                      /\ hole = RootNode \/ hole < next
    /\ pc = "hole" => hole < next /\ i < next
    /\ ret = "scan" => i <= next
    /\ ret = "flush" => /\ i <= count + 1
                        /\ next <= i /\ (pc = "up" => next < i)

\* Pending events have real functions and orders of their own, below the tag.
Genuine(e) == e.function \in Functions /\ e.order < tag

GenuineEvents ==
    /\ \A k \in Occupied : Genuine(data[k])
    /\ \A j, k \in Occupied : j # k => data[j].order # data[k].order
    /\ pc = "down" /\ next > RootNode =>
         /\ Genuine(temp)
         /\ \A k \in Occupied : data[k].order # temp.order

\* The heap order away from the hole, and across it.
Ordered ==
    /\ \A k \in Occupied \ {RootNode} :
         Parent(k) \in Occupied => Before(data[Parent(k)], data[k])
    /\ pc \in {"up", "hole", "down"} /\ hole > RootNode =>
         \A k \in Occupied : Parent(k) = hole => Before(data[Parent(hole)], data[k])

\* What the loops know of the event they carry.
Carried ==
    /\ pc = "up" => \A k \in Occupied : Parent(k) = hole => new.time < data[k].time
    /\ pc = "down" /\ hole > RootNode => Before(data[Parent(hole)], temp)

\* Holds in every state when a heap is resized only when it is empty:
\* HeapOrdered and NoCorruptedNode follow from it, and with it the root is
\* the earliest event, on which get-heap and sched-loop rely.
HeapInv == Control /\ GenuineEvents /\ Ordered /\ Carried
=============================================================================
