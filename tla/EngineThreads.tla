---------------------------- MODULE EngineThreads ----------------------------
(***************************************************************************)
(* The threads of the engine and the FIFOs between them: rt-thread,        *)
(* nrt-thread, fast-nrt-thread (src/src/rt.lisp) and the threads of the    *)
(* user, with the calls of src/src/fifo.lisp, the two sync conditions of   *)
(* src/src/sync-condition.lisp and the spinlock of *from-world-fifo*.      *)
(*                                                                         *)
(* A FIFO is the queue of FunctionQueue, which Fifo implements.  A task is *)
(* a function with the functions that it passes on: Route[t] are the FIFOs *)
(* it goes through.  any-to-rt-funcall is <<"fromWorld", "fastToEngine">>, *)
(* an nrt-funcall whose function calls rt-funcall is                       *)
(* <<"fromEngine", "toEngine">>.                                           *)
(*                                                                         *)
(* A definition D_Fault is D with a fault that no action has.              *)
(***************************************************************************)
EXTENDS Naturals, Sequences, SequencesExt

CONSTANTS Worlds,       \* threads of the user
          Tasks,
          Route,        \* the FIFOs that a task goes through
          Caller,       \* the thread that starts it
          WithReturn,   \* tasks of rt-eval-with-return
          Capacity,     \* functions that fit in a FIFO
          CounterMod,   \* the counters of a sync condition wrap here
          Blocks,       \* blocks of an audio cycle
          Nobody

Fifos == {"toEngine", "fromEngine", "fromWorld", "fastFromEngine", "fastToEngine"}
Engine == {"rt", "nrt", "fast"}
Threads == Engine \cup Worlds
Sleepers == {"nrt", "fast"}

\* The thread that performs the functions of a FIFO.
Performer(q) == CASE q \in {"toEngine", "fastToEngine"} -> "rt"
                  [] q = "fromEngine" -> "nrt"
                  [] OTHER -> "fast"

\* The thread that takes a task from its i-th FIFO to the next one.
Sender(t, i) == IF i = 0 THEN Caller[t] ELSE Performer(Route[t][i])

\* The calls that the documentation allows: nrt-funcall from the rt-thread,
\* rt-funcall from the nrt-thread, fast-rt-funcall from the fast-nrt-thread;
\* fast-nrt-funcall asks rt-thread-p and takes the locked FIFO elsewhere.
MayEnqueue(th, q) == CASE q \in {"fromEngine", "fastFromEngine"} -> th = "rt"
                       [] q = "toEngine" -> th = "nrt"
                       [] q = "fastToEngine" -> th = "fast"
                       [] OTHER -> th # "rt"

ASSUME CapacityAssumption   == Capacity \in Nat \ {0}
ASSUME CounterModAssumption == CounterMod \in Nat \ {0, 1}
ASSUME BlocksAssumption     == Blocks \in Nat \ {0}
ASSUME TasksAssumption      == /\ Route \in [Tasks -> Seq(Fifos)]
                               /\ \A t \in Tasks : Route[t] # <<>>
                               /\ Caller \in [Tasks -> {"rt"} \cup Worlds]
                               /\ WithReturn \subseteq {t \in Tasks : Caller[t] \in Worlds}
                               /\ Nobody \notin Threads \cup Tasks \cup Fifos
ASSUME WorldsAssumption     == Worlds \cap Engine = {}
\* Every FIFO without a lock has one producer, as FunctionQueue asks.
ASSUME RouteAssumption ==
    \A t \in Tasks : \A i \in 0 .. Len(Route[t]) - 1 : MayEnqueue(Sender(t, i), Route[t][i + 1])

VARIABLES fifo,      \* the functions that wait in each FIFO
          lock,      \* who holds *fast-nrt-spinlock*
          read,      \* sync-condition-read of each sync condition
          write,     \* sync-condition-write
          asleep,    \* whether the thread is in condition-wait
          pc,        \* where each thread is
          from,      \* the FIFO that the thread performs
          job,       \* the function it calls or enqueues
          target,    \* the FIFO it enqueues in
          block,     \* the block of the audio cycle
          hop,       \* how many FIFOs a task has entered
          status,    \* of each task
          ahead      \* history: tasks that the same thread sent the same way
                     \* before this one

sync == <<read, write, asleep>>
place == <<pc, from, job, target>>
task == <<hop, status>>
vars == <<fifo, lock, sync, place, block, task, ahead>>

-----------------------------------------------------------------------------
\* The sync condition that a thread signals after an enqueue.
SyncOf(q) == CASE q = "fromEngine" -> {"nrt"}
               [] q \in {"fromWorld", "fastFromEngine"} -> {"fast"}
               [] OTHER -> {}

Resting(th) == CASE th = "rt" -> "perform"
                 [] th \in Sleepers -> "wait"
                 [] OTHER -> "idle"

Init ==
    /\ fifo = [q \in Fifos |-> <<>>]
    /\ lock = Nobody
    /\ read = [s \in Sleepers |-> 0] /\ write = [s \in Sleepers |-> 0]
    /\ asleep = [s \in Sleepers |-> FALSE]
    /\ pc = [th \in Threads |-> Resting(th)]
    /\ from = [th \in Engine |-> "toEngine"]
    /\ job = [th \in Threads |-> Nobody]
    /\ target = [th \in Threads |-> Nobody]
    /\ block = 0
    /\ hop = [t \in Tasks |-> 0]
    /\ status = [t \in Tasks |-> "new"]
    /\ ahead = [t \in Tasks |-> {}]

Go(th, there) == pc' = [pc EXCEPT ![th] = there]

\* The thread goes on after a call of a function or of an operation.
Resume(th) ==
    LET waits == job[th] \in WithReturn /\ th \in Worlds
    IN  /\ Go(th, CASE waits -> "await"
                    [] th \in Worlds -> "idle"
                    [] OTHER -> CASE from[th] = "sched" -> "sched"
                                  [] from[th] = "fromWorld" -> "advance"
                                  [] OTHER -> "perform")
        /\ job' = [job EXCEPT ![th] = IF waits THEN @ ELSE Nobody]
        /\ target' = [target EXCEPT ![th] = Nobody]

-----------------------------------------------------------------------------
(* nrt-funcall, fast-nrt-funcall, rt-funcall and fast-rt-funcall.  Any     *)
(* thread but the rt-thread takes the spinlock to enqueue in fromWorld.    *)

Funcall(th, q) ==
    /\ target' = [target EXCEPT ![th] = q]
    /\ Go(th, IF q = "fromWorld" THEN "acquire" ELSE "enqueue")

\* A function of sched-loop, or a thread of the user, starts a task.
StartTask(t) ==
    LET th == Caller[t]
    IN  /\ status[t] = "new"
        /\ pc[th] = IF th = "rt" THEN "sched" ELSE "idle"
        /\ status' = [status EXCEPT ![t] = "sent"]
        /\ ahead' = [ahead EXCEPT ![t] = {u \in Tasks : /\ status[u] # "new"
                                                       /\ Caller[u] = th
                                                       /\ Route[u] = Route[t]}]
        /\ job' = [job EXCEPT ![th] = t]
        /\ Funcall(th, Route[t][1])
        /\ UNCHANGED <<fifo, lock, sync, from, block, hop>>

Acquire(th) ==
    /\ pc[th] = "acquire"
    /\ lock = Nobody
    /\ lock' = th
    /\ Go(th, "enqueue")
    /\ UNCHANGED <<fifo, sync, from, job, target, block, task, ahead>>

\* A full FIFO drops the function without a sign to the caller.
Enqueue(th) ==
    LET q == target[th]
        t == job[th]
        full == Len(fifo[q]) = Capacity
    IN  /\ pc[th] = "enqueue"
        /\ hop' = [hop EXCEPT ![t] = @ + 1]
        /\ fifo' = IF full THEN fifo ELSE [fifo EXCEPT ![q] = Append(@, t)]
        /\ status' = IF full THEN [status EXCEPT ![t] = "dropped"] ELSE status
        /\ lock' = IF q = "fromWorld" THEN Nobody ELSE lock
        /\ IF SyncOf(q) = {} THEN Resume(th)
           ELSE Go(th, "signal") /\ UNCHANGED <<job, target>>
        /\ UNCHANGED <<sync, from, block, ahead>>

\* sync-condition-signal, also for a function that was dropped.
Signal_NoCount(th) ==
    /\ pc[th] = "signal"
    /\ \E s \in SyncOf(target[th]) :
         /\ asleep' = [asleep EXCEPT ![s] = FALSE]
         /\ IF asleep[s] THEN write' = [write EXCEPT ![s] = (@ + 1) % CounterMod]
                         ELSE UNCHANGED write
    /\ Resume(th)
    /\ UNCHANGED <<fifo, lock, read, from, block, task, ahead>>

Signal(th) ==
    /\ pc[th] = "signal"
    /\ \E s \in SyncOf(target[th]) :
         /\ write' = [write EXCEPT ![s] = (@ + 1) % CounterMod]
         /\ asleep' = [asleep EXCEPT ![s] = FALSE]
    /\ Resume(th)
    /\ UNCHANGED <<fifo, lock, read, from, block, task, ahead>>

\* rt-eval-with-return spins until the function has stored its results.
Await(w) ==
    /\ pc[w] = "await"
    /\ status[job[w]] = "done"
    /\ Go(w, "idle")
    /\ job' = [job EXCEPT ![w] = Nobody]
    /\ UNCHANGED <<fifo, lock, sync, from, target, block, task, ahead>>

-----------------------------------------------------------------------------
(* The loops of nrt-start                                                  *)

\* sync-condition-wait: the test under the mutex, then condition-wait or go.
Wait(th) ==
    /\ pc[th] = "wait" /\ ~asleep[th]
    /\ IF read[th] = write[th]
       THEN /\ asleep' = [asleep EXCEPT ![th] = TRUE]
            /\ UNCHANGED <<read, pc, from>>
       ELSE /\ read' = [read EXCEPT ![th] = (@ + 1) % CounterMod]
            /\ from' = [from EXCEPT ![th] = IF th = "nrt" THEN "fromEngine"
                                                          ELSE "fastFromEngine"]
            /\ Go(th, "perform")
            /\ UNCHANGED asleep
    /\ UNCHANGED <<fifo, lock, write, job, target, block, task, ahead>>

\* fifo-perform-functions advances the read head before the call,
\* fast-nrt-perform-functions after it.
Perform_Last(th) ==
    LET q == from[th]
    IN  /\ pc[th] = "perform" /\ fifo[q] # <<>>
        /\ job' = [job EXCEPT ![th] = Last(fifo[q])]
        /\ fifo' = IF q = "fromWorld" THEN fifo ELSE [fifo EXCEPT ![q] = Front(@)]
        /\ Go(th, "call")
        /\ UNCHANGED <<lock, sync, from, target, block, task, ahead>>

Perform(th) ==
    LET q == from[th]
    IN  /\ pc[th] = "perform" /\ fifo[q] # <<>>
        /\ job' = [job EXCEPT ![th] = Head(fifo[q])]
        /\ fifo' = IF q = "fromWorld" THEN fifo ELSE [fifo EXCEPT ![q] = Tail(@)]
        /\ Go(th, "call")
        /\ UNCHANGED <<lock, sync, from, target, block, task, ahead>>

\* The function passes a function on to the next FIFO of its task, or it is
\* the last one.
Call(th) ==
    LET t == job[th]
    IN  /\ pc[th] = "call"
        /\ IF hop[t] < Len(Route[t])
           THEN Funcall(th, Route[t][hop[t] + 1]) /\ UNCHANGED <<job, status>>
           ELSE /\ status' = [status EXCEPT ![t] = "done"]
                /\ Resume(th)
        /\ UNCHANGED <<fifo, lock, sync, from, block, hop, ahead>>

Advance(th) ==
    /\ pc[th] = "advance"
    /\ fifo' = [fifo EXCEPT !["fromWorld"] = Tail(@)]
    /\ Go(th, "perform")
    /\ UNCHANGED <<lock, sync, from, job, target, block, task, ahead>>

Performed(th) == pc[th] = "perform" /\ fifo[from[th]] = <<>>

NrtDone ==
    /\ Performed("nrt")
    /\ Go("nrt", "wait")
    /\ UNCHANGED <<fifo, lock, sync, from, job, target, block, task, ahead>>

\* fast-nrt-perform-functions keeps the spinlock while it calls functions.
FastLock ==
    /\ Performed("fast") /\ from["fast"] = "fastFromEngine"
    /\ lock = Nobody
    /\ lock' = "fast"
    /\ from' = [from EXCEPT !["fast"] = "fromWorld"]
    /\ UNCHANGED <<fifo, sync, pc, job, target, block, task, ahead>>

FastDone_KeepsLock ==
    /\ Performed("fast") /\ from["fast"] = "fromWorld"
    /\ Go("fast", "wait")
    /\ UNCHANGED <<fifo, lock, sync, from, job, target, block, task, ahead>>

FastDone ==
    /\ Performed("fast") /\ from["fast"] = "fromWorld"
    /\ lock' = Nobody
    /\ Go("fast", "wait")
    /\ UNCHANGED <<fifo, sync, from, job, target, block, task, ahead>>

-----------------------------------------------------------------------------
(* rt-audio-cycle: toEngine, then in every block fastToEngine, sched-loop  *)
(* and the tick.                                                           *)

RtBlock ==
    /\ Performed("rt") /\ from["rt"] = "toEngine"
    /\ from' = [from EXCEPT !["rt"] = "fastToEngine"]
    /\ UNCHANGED <<fifo, lock, sync, pc, job, target, block, task, ahead>>

RtSched ==
    /\ Performed("rt") /\ from["rt"] = "fastToEngine"
    /\ from' = [from EXCEPT !["rt"] = "sched"]
    /\ Go("rt", "sched")
    /\ UNCHANGED <<fifo, lock, sync, job, target, block, task, ahead>>

RtTick ==
    /\ pc["rt"] = "sched"
    /\ block' = (block + 1) % Blocks
    /\ from' = [from EXCEPT !["rt"] = IF block' = 0 THEN "toEngine" ELSE "fastToEngine"]
    /\ Go("rt", "perform")
    /\ UNCHANGED <<fifo, lock, sync, job, target, task, ahead>>

-----------------------------------------------------------------------------
Operation(th) == Acquire(th) \/ Enqueue(th) \/ Signal(th)

RtStep == Operation("rt") \/ Perform("rt") \/ Call("rt") \/ RtBlock \/ RtSched \/ RtTick
NrtStep == Operation("nrt") \/ Wait("nrt") \/ Perform("nrt") \/ Call("nrt") \/ NrtDone
FastStep == \/ Operation("fast") \/ Wait("fast") \/ Perform("fast") \/ Call("fast")
            \/ Advance("fast") \/ FastLock \/ FastDone
WorldStep(w) == Operation(w) \/ Await(w)

Next == \/ \E t \in Tasks : StartTask(t)
        \/ RtStep \/ NrtStep \/ FastStep
        \/ \E w \in Worlds : WorldStep(w)

\* The scheduler of the operating system runs every thread, and the audio
\* driver keeps asking for cycles; nobody has to start a task.
Fairness == /\ WF_vars(RtStep) /\ WF_vars(NrtStep) /\ WF_vars(FastStep)
            /\ \A w \in Worlds : WF_vars(WorldStep(w))

Spec == Init /\ [][Next]_vars /\ Fairness

-----------------------------------------------------------------------------
(* Properties *)

\* FIFOs never hold more than they may, and the registers have their types.
TypeOK ==
    /\ fifo \in [Fifos -> UNION {[1 .. n -> Tasks] : n \in 0 .. Capacity}]
    /\ lock \in {Nobody} \cup (Threads \ {"rt"})
    /\ read \in [Sleepers -> 0 .. CounterMod - 1] /\ write \in [Sleepers -> 0 .. CounterMod - 1]
    /\ asleep \in [Sleepers -> BOOLEAN]
    /\ job \in [Threads -> Tasks \cup {Nobody}]
    /\ from \in [Engine -> Fifos \cup {"sched"}] /\ target \in [Threads -> Fifos \cup {Nobody}]
    /\ block \in 0 .. Blocks - 1
    /\ pc \in [Threads -> {"perform", "sched", "wait", "call", "acquire", "enqueue",
                           "signal", "advance", "idle", "await"}]
    /\ hop \in [Tasks -> Nat] /\ \A t \in Tasks : hop[t] <= Len(Route[t])
    /\ status \in [Tasks -> {"new", "sent", "done", "dropped"}]
    /\ ahead \in [Tasks -> SUBSET Tasks]

\* A thread sleeps in condition-wait only when its FIFOs are empty, unless the
\* thread that filled one is about to signal: no wake-up is lost, whatever
\* the order of enqueue, signal and wait.
NoLostWakeup ==
    \A s \in Sleepers : asleep[s] =>
        \/ \A q \in Fifos : SyncOf(q) = {s} => fifo[q] = <<>>
        \/ \E th \in Threads : pc[th] = "signal" /\ SyncOf(target[th]) = {s}

\* The functions that a thread sends along the same FIFOs are called in the
\* order in which it sent them, from one end of the chain to the other.
CallsInSendingOrder ==
    \A t \in Tasks : status[t] = "done" => \A u \in ahead[t] : status[u] # "sent"

\* The spinlock serialises the users of *from-world-fifo*: whoever is between
\* the test and the write head holds it, and so does the fast-nrt-thread while
\* it performs.
LockHeld ==
    /\ \A th \in Threads : pc[th] = "enqueue" /\ target[th] = "fromWorld" => lock = th
    /\ pc["fast"] # "wait" /\ from["fast"] = "fromWorld" => lock = "fast"

\* The two ways in which the threads wait are sound together: the spinlock
\* has its owner, and condition-wait misses no function.
SyncInv == TypeOK /\ LockHeld /\ NoLostWakeup

\* Of finitely many functions each one that is sent is called or, at a full
\* FIFO, dropped, and so are the functions it passes on.  rt-eval-with-return
\* goes on when its function was called; when the function was dropped it
\* spins for ever, since nobody tells it.
EveryTaskEnds ==
    /\ \A t \in Tasks : status[t] = "sent" ~> status[t] \in {"done", "dropped"}
    /\ \A w \in Worlds :
         pc[w] = "await" ~> pc[w] # "await" \/ status[job[w]] = "dropped"
=============================================================================
