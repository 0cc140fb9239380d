---------------------------- MODULE AudioThreads ----------------------------
(***************************************************************************)
(* The hand-over of the audio client between the real-time thread of Lisp  *)
(* and the thread of the C library, src/src/rtjack.c (JACK) and            *)
(* src/src/rtpa.c (PortAudio), with the side of Lisp from src/src/rt.lisp. *)
(*                                                                         *)
(* Lisp runs the audio cycles.  Before a garbage collection it transfers   *)
(* the client to the C thread, which keeps the cycles going with silence;  *)
(* with cached inputs it also stores the inputs and counts the cycles, and *)
(* Lisp recovers them later.  The threads wait for each other on condition *)
(* variables without a predicate: a signal that comes before the wait is   *)
(* lost.                                                                   *)
(*                                                                         *)
(* A step is one access to state of both threads.  An operation of a ring  *)
(* buffer is one step (RingBuffer).  A cycle has a number, from the last   *)
(* time the caches were empty; a block of inputs has two halves because a  *)
(* full cache takes a part of it.  A definition D_Fault is D with a fault  *)
(* that no action has.                                                     *)
(***************************************************************************)
EXTENDS Naturals, Sequences

CONSTANTS CounterCapacity,   \* cycles that the cycle counter can hold
          CacheCapacity,     \* half blocks that the inputs cache can hold
          RestartLimit,      \* +recovery-cycles-restart-limit+
          MaxSuspended,      \* bound of the cycles between two clears
          MaxStarts          \* bound of the calls of rt-start

ASSUME AudioAssumption ==
    {CounterCapacity, CacheCapacity, RestartLimit, MaxSuspended, MaxStarts} \subseteq Nat \ {0}

VARIABLES driver,     \* the backend
          recover,    \* the thread callback: with cached inputs or not
          calm,       \* no thread stops just before a wait, and for seconds
          status,     \* ja_status, pa_status
          proc,       \* ja_proc_thread.status
          busy,       \* ja_lisp_busy
          c,          \* where the C thread is
          delayed,    \* its variable cycles (PortAudio): whether it is positive
          l,          \* where the Lisp thread is
          rtState,    \* rt-state
          restarts,   \* recovery-cycles-restart
          gc,         \* *stop-for-gc-pending*
          ctl,        \* where the caller of rt-start or rt-stop is
          starts,     \* number of calls of rt-start
          open,       \* who has begun the audio cycle that has not ended
          counter,    \* the cycle counter: types and numbers
          cache       \* the inputs cache

VARIABLES cycle,      \* history: number of the last cycle
          done,       \* history: the last cycle that Lisp has processed
          got,        \* history: what the last read of the cache returned
          lost        \* history: a cycle or inputs were dropped since the clear

config == <<driver, recover, calm>>
rings == <<counter, cache>>
history == <<cycle, done, got, lost>>
cThread == <<c, delayed, proc>>
lThread == <<l, rtState, restarts, gc>>
control == <<ctl, starts>>
vars == <<config, status, busy, cThread, lThread, control, open, rings, history>>

Jack == driver = "jack"
Suspended(n) == [type |-> "suspended", id |-> n]
Last(n) == [type |-> "last", id |-> n]
Block(n) == <<<<n, 1>>, <<n, 2>>>>
Entry == [type : {"suspended", "last"}, id : Nat]

Init ==
    /\ driver \in {"jack", "portaudio"} /\ recover \in BOOLEAN /\ calm \in BOOLEAN
    /\ status = "stopped" /\ proc = "stopped" /\ busy = FALSE
    /\ c = "none" /\ delayed = FALSE
    /\ l = "off" /\ rtState = FALSE /\ restarts = 0 /\ gc = FALSE
    /\ ctl = "idle" /\ starts = 0 /\ open = "no"
    /\ counter = <<>> /\ cache = <<>>
    /\ cycle = 0 /\ done = 0 /\ got = <<>> /\ lost = FALSE

-----------------------------------------------------------------------------
(* Input cache and cycle counter *)

HasCachedInputs == counter # <<>>

IsLastCycle == HasCachedInputs /\ Head(counter).type = "last"

IncrementCycleCounter(entry) ==
    counter' = IF Len(counter) < CounterCapacity THEN Append(counter, entry) ELSE counter

\* The ring takes the part of the block that fits.
WriteInputs(n) ==
    cache' = SubSeq(cache \o Block(n), 1,
                    IF Len(cache) + 2 < CacheCapacity THEN Len(cache) + 2 ELSE CacheCapacity)

CacheInputs_CountOnly ==
    /\ IncrementCycleCounter(Suspended(cycle))
    /\ lost' = (lost \/ Len(counter) = CounterCapacity)
    /\ UNCHANGED cache

\* ja_cache_inputs, pa_cache_inputs
CacheInputs ==
    /\ WriteInputs(cycle)
    /\ IncrementCycleCounter(Suspended(cycle))
    /\ lost' = (lost \/ Len(cache) + 2 > CacheCapacity \/ Len(counter) = CounterCapacity)

ClearCachedInputs ==
    /\ counter' = <<>> /\ cache' = <<>>
    /\ cycle' = 0 /\ done' = 0 /\ got' = <<>> /\ lost' = FALSE

-----------------------------------------------------------------------------
(* Condition variables.  A signal wakes the thread if it waits. *)

SignalLisp == IF l = "waiting" THEN l' = "woken" ELSE l' = l
SignalC == IF c = "blocked" THEN c' = "top" ELSE c' = c

LispSetIdle_StayBusy ==
    /\ l = "unbusy"
    /\ l' = "towait"
    /\ UNCHANGED <<config, status, busy, cThread, rtState, restarts, gc, control, open, rings,
                   history>>

\* ja_set_lisp_busy_state and ja_condition_wait
LispSetIdle ==
    /\ l = "unbusy"
    /\ busy' = FALSE /\ l' = "towait"
    /\ UNCHANGED <<config, status, cThread, rtState, restarts, gc, control, open, rings, history>>

ConditionWait ==
    /\ l = "towait"
    /\ l' = "waiting"
    /\ UNCHANGED <<config, status, busy, cThread, rtState, restarts, gc, control, open, rings,
                   history>>

TransferToCThread_KeepBusy ==
    /\ l \in {"transfer", "leave"}
    /\ l' = IF l = "leave" THEN "bye" ELSE "signal"
    /\ UNCHANGED <<config, status, busy, cThread, rtState, restarts, gc, control, open, rings,
                   history>>

\* ja_transfer_to_c_thread: the flag, then the signal.
TransferToCThread ==
    /\ l \in {"transfer", "leave"}
    /\ busy' = TRUE
    /\ l' = IF l = "leave" THEN "bye" ELSE "signal"
    /\ UNCHANGED <<config, status, cThread, rtState, restarts, gc, control, open, rings, history>>

TransferSignal ==
    /\ l \in {"signal", "bye"}
    /\ calm => c # "towait"
    /\ SignalC
    /\ l' = IF l = "bye" THEN "off" ELSE "label"
    /\ UNCHANGED <<config, status, busy, delayed, proc, rtState, restarts, gc, control, open,
                   rings, history>>

-----------------------------------------------------------------------------
(* The C thread *)

JaThreadBegin ==
    /\ Jack /\ c = "start"
    /\ proc' = "running" /\ c' = "top"
    /\ UNCHANGED <<config, status, busy, delayed, lThread, control, open, rings, history>>

\* A stream that does not start ends the thread and nobody is told.
PaThreadBegin ==
    /\ ~Jack /\ c = "start"
    /\ \/ status' = "running" /\ proc' = "running" /\ c' = "top"
       \/ ~calm /\ c' = "dead" /\ UNCHANGED <<status, proc>>
    /\ UNCHANGED <<config, busy, delayed, lThread, control, open, rings, history>>

\* The loop: one cycle, or the client goes to Lisp.
ThreadLoop ==
    /\ c = "top"
    /\ IF status # "running" THEN c' = "dead" /\ proc' = "stopped"
       ELSE /\ c' = IF busy THEN "wait" ELSE "resume"
            /\ busy => cycle < MaxSuspended
            /\ UNCHANGED proc
    /\ UNCHANGED <<config, status, busy, delayed, lThread, control, open, rings, history>>

\* ja_process_thread and pa_process_thread: a cycle of silence.
SilentCycle ==
    /\ ~recover
    /\ \/ c = "wait" /\ c' = "silence" /\ open' = "c"
       \/ c = "silence" /\ c' = "top" /\ open' = "no"
    /\ UNCHANGED <<config, status, busy, delayed, proc, lThread, control, rings, history>>

\* ja_process_thread_with_cached_inputs: jack_cycle_wait; when the buffer
\* size has changed the caches are cleared.
JaCycleWait(resized) ==
    /\ Jack /\ recover /\ c = "wait"
    /\ open' = "c" /\ cycle' = cycle + 1 /\ c' = "maybe1"
    /\ IF resized THEN counter' = <<>> /\ cache' = <<>> /\ lost' = TRUE
       ELSE UNCHANGED <<rings, lost>>
    /\ UNCHANGED <<config, status, busy, delayed, proc, lThread, control, done, got>>

\* pa_process_thread_with_cached_inputs: without enough frames one sample of
\* delay, otherwise Pa_ReadStream.
PaReadStream(available) ==
    /\ ~Jack /\ recover /\ c = "wait"
    /\ delayed' = TRUE
    /\ IF available THEN open' = "c" /\ cycle' = cycle + 1 /\ c' = "maybe1"
       ELSE c' = "top" /\ UNCHANGED <<open, cycle>>
    /\ UNCHANGED <<config, status, busy, proc, lThread, control, rings, done, got, lost>>

After(pc) == CASE pc = "maybe1" -> "store" [] pc = "maybe2" -> "maybe3" [] pc = "maybe3" -> "signal"

JaMaybeContinueInLisp_AnyCycle ==
    /\ Jack /\ c \in {"maybe1", "maybe2", "maybe3"}
    /\ IF ~busy
       THEN IncrementCycleCounter(Last(cycle)) /\ c' = "resume"
       ELSE c' = After(c) /\ UNCHANGED counter
    /\ UNCHANGED <<config, status, busy, delayed, proc, lThread, control, open, cache, history>>

\* MAYBE_CONTINUE_IN_LISP of rtjack.h and of rtpa.h.
JaMaybeContinueInLisp ==
    /\ Jack /\ c \in {"maybe1", "maybe2", "maybe3"}
    /\ IF ~busy /\ ~HasCachedInputs
       THEN IncrementCycleCounter(Last(cycle)) /\ c' = "resume"
       ELSE c' = After(c) /\ UNCHANGED counter
    /\ UNCHANGED <<config, status, busy, delayed, proc, lThread, control, open, cache, history>>

PaMaybeContinueInLisp ==
    /\ ~Jack /\ c \in {"maybe1", "maybe2", "maybe3"}
    /\ c' = IF ~busy /\ ~HasCachedInputs THEN "resume" ELSE After(c)
    /\ UNCHANGED <<config, status, busy, delayed, proc, lThread, control, open, rings, history>>

\* The inputs of the cycle go to the cache ...
StoreInputs ==
    /\ c = "store"
    /\ WriteInputs(cycle)
    /\ lost' = (lost \/ Len(cache) + 2 > CacheCapacity)
    /\ c' = "maybe2"
    /\ UNCHANGED <<config, status, busy, delayed, proc, lThread, control, open, counter, cycle,
                   done, got>>

\* ... the cycle ends with silence, jack_cycle_signal or Pa_WriteStream ...
SuspendCycle ==
    /\ c = "signal"
    /\ open' = "no" /\ c' = "count"
    /\ UNCHANGED <<config, status, busy, delayed, proc, lThread, control, rings, history>>

\* ... and is counted.
CountCycle ==
    /\ c = "count"
    /\ IncrementCycleCounter(Suspended(cycle))
    /\ lost' = (lost \/ Len(counter) = CounterCapacity)
    /\ c' = "top"
    /\ UNCHANGED <<config, status, busy, delayed, proc, lThread, control, open, cache, cycle, done,
                   got>>

JaResumeLisp ==
    /\ Jack /\ c = "resume"
    /\ calm => l # "towait"
    /\ SignalLisp /\ c' = "towait"
    /\ UNCHANGED <<config, status, busy, delayed, proc, rtState, restarts, gc, control, open,
                   rings, history>>

\* PortAudio takes any cycle after a transfer as the last one.
PaResumeLisp ==
    /\ ~Jack /\ c = "resume"
    /\ calm => l # "towait"
    /\ IF recover /\ delayed /\ ~HasCachedInputs
       THEN IncrementCycleCounter(Last(IF open = "c" THEN cycle ELSE 0))
       ELSE UNCHANGED counter
    /\ SignalLisp /\ c' = "towait"
    /\ UNCHANGED <<config, status, busy, delayed, proc, rtState, restarts, gc, control, open,
                   cache, history>>

WaitForTransfer ==
    /\ c = "towait"
    /\ c' = "blocked" /\ delayed' = FALSE
    /\ UNCHANGED <<config, status, busy, proc, lThread, control, open, rings, history>>

-----------------------------------------------------------------------------
(* The Lisp thread: with-restart-point *)

RestartPoint ==
    /\ l = "label"
    /\ l' = IF ~rtState THEN "loop" ELSE IF recover THEN "recover" ELSE "unbusy"
    /\ UNCHANGED <<config, status, busy, cThread, rtState, restarts, gc, control, open, rings,
                   history>>

\* recover-suspended-audio-cycles: the inputs of the oldest cycle ...
InputsFromCacheBegin ==
    /\ l = "recover" /\ HasCachedInputs
    /\ got' = SubSeq(cache, 1, IF Len(cache) < 2 THEN Len(cache) ELSE 2)
    /\ cache' = SubSeq(cache, Len(got') + 1, Len(cache))
    /\ l' = "recovering"
    /\ UNCHANGED <<config, status, busy, cThread, rtState, restarts, gc, control, open, counter,
                   cycle, done, lost>>

\* ... and after the cycle the counter.
InputsFromCacheEnd ==
    /\ l = "recovering"
    /\ IF HasCachedInputs THEN counter' = Tail(counter) /\ done' = Head(counter).id
       ELSE UNCHANGED <<counter, done>>
    /\ l' = "recover"
    /\ UNCHANGED <<config, status, busy, cThread, rtState, restarts, gc, control, open, cache,
                   cycle, got, lost>>

RecoveryDone ==
    /\ l = "recover" /\ ~HasCachedInputs
    /\ l' = "unbusy"
    /\ UNCHANGED <<config, status, busy, cThread, rtState, restarts, gc, control, open, rings,
                   history>>

RestartAllowed == restarts < RestartLimit

\* After the wait: the last cycle of the C thread, another recovery, or none.
Woken ==
    /\ l = "woken"
    /\ IF ~recover THEN l' = "loop" /\ UNCHANGED <<rings, history, restarts, gc>>
       ELSE IF ~HasCachedInputs
            THEN ClearCachedInputs /\ l' = "loop" /\ gc' = FALSE /\ UNCHANGED restarts
            ELSE /\ UNCHANGED <<rings, history>>
                 /\ \/ IsLastCycle /\ l' = "continue" /\ UNCHANGED <<restarts, gc>>
                    \/ /\ ~IsLastCycle /\ RestartAllowed
                       /\ restarts' = restarts + 1 /\ l' = "transfer" /\ gc' = FALSE
                    \/ /\ ~IsLastCycle /\ ~RestartAllowed
                       /\ l' = "abort" /\ UNCHANGED <<restarts, gc>>
    /\ UNCHANGED <<config, status, busy, cThread, rtState, control, open>>

\* continue-last-audio-cycle: ja_continue_cycle_begin, pa_continue_cycle_begin,
ContinueCycleBegin ==
    /\ l \in {"continue", "abort"}
    /\ open' = "lisp"
    /\ l' = IF l = "abort" THEN "aborting" ELSE "continuing"
    /\ UNCHANGED <<config, status, busy, cThread, rtState, restarts, gc, control, rings, history>>

ContinueCycleEnd_NoClear ==
    /\ l \in {"continuing", "aborting"}
    /\ open' = "no" /\ gc' = FALSE
    /\ done' = cycle /\ UNCHANGED <<rings, cycle, got, lost>>
    /\ l' = IF gc /\ l = "continuing" THEN "transfer" ELSE "loop"
    /\ UNCHANGED <<config, status, busy, cThread, rtState, restarts, control>>

\* the cycle, and its end; the caches are cleared.
ContinueCycleEnd ==
    /\ l \in {"continuing", "aborting"}
    /\ open' = "no" /\ gc' = FALSE
    /\ ClearCachedInputs
    /\ l' = IF gc /\ l = "continuing" THEN "transfer" ELSE "loop"
    /\ UNCHANGED <<config, status, busy, cThread, rtState, restarts, control>>

-----------------------------------------------------------------------------
(* The Lisp thread: the loop of rt-loop-form *)

\* ja_cycle_begin, pa_cycle_begin
CycleBegin ==
    /\ l = "loop" /\ rtState
    /\ status = "running"
    /\ open' = "lisp" /\ cycle' = IF recover THEN 1 ELSE 0
    /\ l' = "incycle"
    /\ UNCHANGED <<config, status, busy, cThread, rtState, restarts, gc, control, rings, done, got,
                   lost>>

\* With a collection that waits the cycle is cached and runs no frame.
CycleBody ==
    /\ l = "incycle"
    /\ IF gc /\ recover THEN CacheInputs ELSE UNCHANGED <<rings, lost>>
    /\ l' = IF gc THEN "empty" ELSE "full"
    /\ UNCHANGED <<config, status, busy, cThread, rtState, restarts, gc, control, open, cycle,
                   done, got>>

\* ja_cycle_end, pa_cycle_end and the transfer before a collection.
CycleEnd ==
    /\ l \in {"full", "empty"}
    /\ open' = "no" /\ gc' = FALSE
    /\ cycle' = IF l = "full" THEN 0 ELSE cycle
    /\ l' = IF gc THEN "transfer" ELSE "loop"
    /\ UNCHANGED <<config, status, busy, cThread, rtState, restarts, control, rings, done, got,
                   lost>>

Leave ==
    /\ l = "loop" /\ ~rtState
    /\ l' = "leave"
    /\ UNCHANGED <<config, status, busy, cThread, rtState, restarts, gc, control, open, rings,
                   history>>

\* Another thread wants to collect while this one is in without-gcing.
RequestGc ==
    /\ l \in {"woken", "continue", "continuing", "incycle", "full"} /\ ~gc
    /\ gc' = TRUE
    /\ UNCHANGED <<config, status, busy, cThread, l, rtState, restarts, control, open, rings,
                   history>>

-----------------------------------------------------------------------------
(* Start and stop *)

\* A thread that was detached and still runs is left out of a new start.
RtStart ==
    /\ ctl = "idle" /\ l = "off" /\ status = "stopped"
    /\ c \in {"none", "dead"} /\ starts < MaxStarts
    /\ starts' = starts + 1 /\ l' = "init"
    /\ UNCHANGED <<config, status, busy, cThread, rtState, restarts, gc, ctl, open, rings, history>>

\* An error ends the thread, and rt-start calls after-rt-stop.
Failed == l' = "off" /\ ctl' = "stop" /\ UNCHANGED <<rtState, restarts, gc>>

Initialized ==
    /\ status' = "initializing" /\ proc' = "stopped" /\ busy' = TRUE
    /\ ClearCachedInputs
    /\ l' = "start" /\ UNCHANGED <<rtState, restarts, gc, ctl>>

\* jack_client_open fails, or a later step, and ja_error cleans up.
JaInitialize ==
    /\ Jack /\ l = "init"
    /\ \/ Initialized
       \/ Failed /\ proc' = "stopped" /\ UNCHANGED <<status, busy, rings, history>>
    /\ UNCHANGED <<config, c, delayed, starts, open>>

\* A failure of malloc cleans up, one of PortAudio leaves PA_INITIALIZING.
PaInitialize ==
    /\ ~Jack /\ l = "init"
    /\ \/ Initialized
       \/ /\ Failed /\ proc' = "stopped" /\ status' \in {"stopped", "initializing"}
          /\ UNCHANGED <<busy, rings, history>>
    /\ UNCHANGED <<config, c, delayed, starts, open>>

\* rt-loop-form: rt-state is true and a new loop has made no restart.
Looping == l' = "label" /\ rtState' = TRUE /\ restarts' = 0 /\ UNCHANGED <<gc, ctl>>

JaStart ==
    /\ Jack /\ l = "start"
    /\ \/ status' = "running" /\ c' = "start" /\ Looping
       \/ status' = "stopped" /\ UNCHANGED c /\ Failed
    /\ UNCHANGED <<config, busy, delayed, proc, starts, open, rings, history>>

\* pthread_create; the thread sets the status.
PaStart ==
    /\ ~Jack /\ l = "start"
    /\ \/ c' = "start" /\ UNCHANGED status /\ Looping
       \/ status' = "stopped" /\ UNCHANGED c /\ Failed
    /\ UNCHANGED <<config, busy, delayed, proc, starts, open, rings, history>>

\* rt-stop waits for the end of the Lisp thread.
RtStop ==
    /\ ctl = "idle" /\ rtState
    /\ calm => c # "start"
    /\ rtState' = FALSE /\ ctl' = "join"
    /\ UNCHANGED <<config, status, busy, cThread, l, restarts, gc, starts, open, rings, history>>

RtJoin ==
    /\ ctl = "join" /\ l = "off"
    /\ ctl' = "stop"
    /\ UNCHANGED <<config, status, busy, cThread, lThread, starts, open, rings, history>>

\* ja_cleanup and pa_stop.
Stopping ==
    /\ ctl = "stop"
    /\ IF status = "stopped" THEN ctl' = "idle" /\ UNCHANGED status
       ELSE status' = "stopping" /\ ctl' = IF proc # "stopped" THEN "wait3" ELSE "free"
    /\ UNCHANGED <<config, busy, cThread, lThread, starts, open, rings, history>>

\* After three seconds the C thread gets a signal,
ProcessThreadWait ==
    /\ ctl = "wait3" /\ proc # "stopped"
    /\ calm => c = "blocked"
    /\ SignalC
    /\ ctl' = "wait2"
    /\ UNCHANGED <<config, status, busy, delayed, proc, lThread, starts, open, rings, history>>

\* after two more it is detached.
DetachThread ==
    /\ ctl = "wait2" /\ proc # "stopped"
    /\ calm => c = "blocked"
    /\ ctl' = "free"
    /\ UNCHANGED <<config, status, busy, cThread, lThread, starts, open, rings, history>>

ThreadEnded ==
    /\ ctl \in {"wait3", "wait2"} /\ proc = "stopped"
    /\ ctl' = "free"
    /\ UNCHANGED <<config, status, busy, cThread, lThread, starts, open, rings, history>>

\* jack_deactivate ends a process thread that has not begun.
JaCleanup ==
    /\ Jack /\ ctl = "free"
    /\ c' = IF c = "start" THEN "dead" ELSE c
    /\ status' = "stopped" /\ open' = "no" /\ ClearCachedInputs
    /\ ctl' = "idle"
    /\ UNCHANGED <<config, busy, delayed, proc, lThread, starts>>

PaStop ==
    /\ ~Jack /\ ctl = "free"
    /\ status' = "stopped" /\ open' = "no" /\ ClearCachedInputs
    /\ ctl' = "idle"
    /\ UNCHANGED <<config, busy, cThread, lThread, starts>>

-----------------------------------------------------------------------------
CStep == \/ JaThreadBegin \/ PaThreadBegin \/ ThreadLoop \/ SilentCycle
         \/ \E resized \in BOOLEAN : JaCycleWait(resized)
         \/ \E available \in BOOLEAN : PaReadStream(available)
         \/ JaMaybeContinueInLisp \/ PaMaybeContinueInLisp
         \/ StoreInputs \/ SuspendCycle \/ CountCycle
         \/ JaResumeLisp \/ PaResumeLisp \/ WaitForTransfer
LispStep == \/ RestartPoint \/ InputsFromCacheBegin \/ InputsFromCacheEnd \/ RecoveryDone
            \/ LispSetIdle \/ ConditionWait \/ Woken
            \/ ContinueCycleBegin \/ ContinueCycleEnd
            \/ CycleBegin \/ CycleBody \/ CycleEnd \/ Leave
            \/ TransferToCThread \/ TransferSignal
            \/ JaInitialize \/ PaInitialize \/ JaStart \/ PaStart
ControlStep == \/ RtJoin \/ Stopping \/ ProcessThreadWait \/ DetachThread \/ ThreadEnded
               \/ JaCleanup \/ PaStop

Next == CStep \/ LispStep \/ ControlStep \/ RequestGc \/ RtStart \/ RtStop

\* Both threads are real-time threads and rt-stop runs; nobody has to
\* collect, start or stop.
Spec == Init /\ [][Next]_vars /\ WF_vars(CStep) /\ WF_vars(LispStep) /\ WF_vars(ControlStep)

-----------------------------------------------------------------------------
(* Properties *)

ThreadsTyped ==
    /\ status \in {"stopped", "initializing", "running", "stopping"}
    /\ proc \in {"stopped", "running"} /\ busy \in BOOLEAN
    /\ c \in {"none", "start", "top", "wait", "silence", "maybe1", "store", "maybe2", "maybe3",
              "signal", "count", "resume", "towait", "blocked", "dead"}
    /\ l \in {"off", "init", "start", "label", "recover", "recovering", "unbusy", "towait",
              "waiting", "woken", "continue", "continuing", "abort", "aborting", "loop", "incycle",
              "full", "empty", "leave", "transfer", "signal", "bye"}
    /\ ctl \in {"idle", "join", "stop", "wait3", "wait2", "free"}
    /\ open \in {"no", "c", "lisp"}
    /\ {recover, calm, delayed, rtState, gc, lost} \subseteq BOOLEAN

RingsTyped ==
    /\ counter \in Seq(Entry) /\ Len(counter) <= CounterCapacity
    /\ cache \in Seq(Nat \X {1, 2}) /\ Len(cache) <= CacheCapacity
    /\ got \in Seq(Nat \X {1, 2})

NumbersTyped == cycle \in 0 .. MaxSuspended + 1 /\ done \in 0 .. cycle /\ restarts \in 0 .. RestartLimit

\* The places and flags of the threads, and what the rings and the counters
\* can hold: cycle counter and inputs cache never hold more than they may.
TypeOK == ThreadsTyped /\ RingsTyped /\ NumbersTyped

\* While Lisp runs a cycle, continues one or clears the caches the C thread
\* is out of the client and of the ring buffers: it waits, or is about to.
\* The caches have one writer at a time and are reset by the only user.
LispAlone ==
    rtState /\ l \in {"woken", "continue", "continuing", "abort", "aborting", "loop", "incycle",
                      "full", "empty"}
        => ~busy /\ c \in {"towait", "blocked"}

\* A JACK cycle that a thread ends has been begun: jack_cycle_wait and
\* jack_cycle_signal alternate, also when a cycle begins in the C thread and
\* ends in Lisp.  An aborted recovery, that continues a cycle which
\* is not open, is the exception.
CyclesPaired ==
    Jack /\ status = "running" =>
        /\ c \in {"maybe1", "store", "maybe2", "maybe3", "signal", "silence"} => open = "c"
        /\ l = "continue" => open = "c"
        /\ l \in {"continuing", "incycle", "full", "empty"} => open = "lisp"
        /\ l \in {"loop", "recover"} /\ c \in {"top", "wait", "blocked"} => open = "no"

\* The cycles that the counter holds are those that Lisp has not processed,
\* without a gap: a cycle that the C thread has run while Lisp was busy is
\* neither forgotten nor run twice, whenever Lisp stops being busy, unless
\* the counter was full or the buffer size has changed.  The entry of a cycle
\* that PortAudio has not begun is no cycle.
CyclesAccounted ==
    recover /\ status = "running" /\ ctl \in {"idle", "join"} /\ ~lost =>
        LET real == IF HasCachedInputs /\ Head(counter).id = 0 THEN Tail(counter) ELSE counter
            uncounted == \/ c \in {"maybe1", "store", "maybe2", "maybe3", "signal", "count"}
                         \/ ~Jack /\ c = "resume" /\ open = "c"
                         \/ l \in {"incycle", "full"}
        IN  /\ \A k \in DOMAIN real : real[k].id = done + k
            /\ cycle = done + Len(real) + (IF uncounted THEN 1 ELSE 0)

\* A cycle that Lisp recovers gets its own inputs, unless something was
\* dropped: the counter and the inputs cache stay in step although the C
\* thread writes them at different moments.
RecoversOwnInputs ==
    l = "recovering" /\ ~lost => HasCachedInputs /\ got = Block(Head(counter).id)

\* When rt-audio-stop has freed the buffers no C thread is left to use them.
FreedUnused ==
    calm /\ status = "stopped" /\ ctl = "idle" => c \in {"none", "dead"}

\* One thread at a time has the client, the rings and the buffers, its JACK
\* cycles are begun before they end, and rt-stop frees when nobody is left.
HandOverInv == TypeOK /\ LispAlone /\ CyclesPaired /\ FreedUnused

\* The client is always in somebody's hands: a Lisp thread that waits for it
\* is woken, and a C thread that is blocked goes on when Lisp becomes busy.
HandOverEnds ==
    /\ (calm /\ l = "waiting") ~> (l # "waiting")
    /\ (calm /\ busy /\ c = "blocked") ~> (c # "blocked")

\* rt-stop ends: both threads leave and the client is closed.
StopReturns == (calm /\ ctl = "join") ~> (ctl = "idle")
=============================================================================
