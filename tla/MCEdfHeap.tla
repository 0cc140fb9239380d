------------------------------ MODULE MCEdfHeap ------------------------------
(* Instances of EdfHeap for TLC. *)
EXTENDS EdfHeapRefinement

CONSTANTS f, c     \* an ordinary function and a crucial one

MCFunctions == {f, c, ForcePendingFn}
MCCrucial == {c}
MCTests == {{f}, {ForcePendingFn, c}}
\* What an operation may still read: temp-node is dead outside the sift-down
\* loop, and so are slot 0 and the slots that hold no event.
MCView == <<[k \in Occupied \cup (IF ret = "flush" THEN i .. count ELSE {}) |-> data[k]],
            IF pc = "down" THEN temp ELSE EmptyNode,
            size, next, tag, now, pc, ret, callVars>>
=============================================================================
