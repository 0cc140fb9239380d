------------------------------ MODULE JackMidi ------------------------------
(***************************************************************************)
(* One MIDI input and one MIDI output of JACK, src/src/rtjack.c from line  *)
(* 828, with the receiver thread of src/src/jackmidi.lisp and the cycles   *)
(* of src/src/rt.lisp.                                                     *)
(*                                                                         *)
(* jm_process2 copies the events of the port to the ring rb, from Lisp, or *)
(* to the ring cache, from the C thread while Lisp collects; Lisp moves    *)
(* the cached events to rb when it recovers the suspended cycles.  The     *)
(* receiver reads rb and waits on a condition variable.  An event is       *)
(* stamped with the number of its cycle, counted from the last clear; a    *)
(* cycle has one frame.  The pad buffer is shared: jm_process2 of the C    *)
(* thread and jm_read_cached_midi_inputs of Lisp write it without a lock.  *)
(* The rings are those of RingBuffer, one operation is one step.           *)
(*                                                                         *)
(* A behaviour has one use: a receiver without collections, collections    *)
(* without a receiver, or an output.  A definition D_Fault is D with a     *)
(* fault that no action has.                                               *)
(***************************************************************************)
EXTENDS Integers, Sequences, SequencesExt, FiniteSetsExt

CONSTANTS CycleLens,      \* by use, the events of a cycle: sequences of data lengths
          RingBytes,      \* bytes that rb and cache can hold
          BufSize,        \* bytes of the event buffer of the receiver
          OutBytes,       \* bytes that the cache of the output can hold
          RestartLimit,   \* +recovery-cycles-restart-limit+
          MaxEvents,      \* bound of the events of the input
          MaxMessages,    \* bound of the messages to the output
          MaxSuspended,   \* bound of the C thread's cycles between two clears
          MaxStarts       \* bound of the calls of recv-start

Header == 12
Uses == {"receive", "recover", "output"}

\* The buffer of the receiver is aligned as its events are.
ASSUME MidiAssumption ==
    /\ CycleLens \in [Uses -> SUBSET Seq(Nat \ {0})] /\ CycleLens["output"] = {<<>>}
    /\ {RingBytes, OutBytes, RestartLimit, MaxEvents, MaxMessages, MaxSuspended, MaxStarts}
           \subseteq Nat \ {0}
    /\ BufSize \in Nat /\ BufSize % 4 = 0 /\ BufSize > Header

VARIABLES use,          \* what happens: receive, recover or output
          rb, cache,    \* the rings of the input, sequences of events
          pad,          \* jm_pad_buffer
          port,         \* events of the port buffer that are not copied yet
          any,          \* whether the port buffer had events
          open,         \* events of the C thread's last cycle
          proc,         \* where jm_process2 is
          mode,         \* where Lisp is
          k,            \* where the C thread is
          suspended,    \* cycles in the cycle counter
          restarts,     \* recovery-cycles-restart
          now,          \* *ja_sample_counter
          start,        \* ja_cycle_start_time in the C thread
          offset,       \* cycle_time_offset
          size          \* n of jm_read_cached_midi_inputs

VARIABLES ocache,       \* the ring of the output
          sent          \* what has gone to the port

VARIABLES r,            \* where the receiver is
          n, space,     \* n and remain of jm_read
          batch,        \* the events of the buffer
          remain,       \* p->remain
          status,       \* receiver-status
          s,            \* where recv-stop is
          starts,       \* calls of recv-start
          lock,         \* owner of p->lock
          toSignal      \* p->to_signal

VARIABLES nextEvent, nextMessage,   \* history: next numbers
          got,          \* history: the last event that the receiver delivered
          raced,        \* history: both threads used the pad buffer at once
          early,        \* history: the C thread's stamps are too early
          missed        \* history: an event came since the receiver's lock

inputs == <<use, rb, cache, pad, port, any, open, proc>>
cycles == <<mode, k, suspended, restarts, now, start, offset, size>>
outputs == <<ocache, sent, nextMessage>>
reader == <<r, n, space, batch, remain, status, starts>>
sync == <<s, lock, toSignal, missed>>
history == <<nextEvent, got, raced, early>>
vars == <<inputs, cycles, outputs, reader, sync, history>>

Event(id, len, time) == [id |-> id, len |-> len, size |-> len + Header, time |-> time]
Torn(bytes) == [id |-> 0, len |-> 0, size |-> bytes, time |-> 0]

\* A recursive function, so that the proofs can use it.
Total(nums) ==
    LET sum[i \in 0 .. Len(nums)] == IF i = 0 THEN 0 ELSE sum[i - 1] + nums[i]
    IN  sum[Len(nums)]

Bytes(evs) == Total([i \in DOMAIN evs |-> evs[i].size])
Ids(evs) == [i \in DOMAIN evs |-> evs[i].id]
FirstBytes(evs, bytes) ==
    IF \E i \in DOMAIN evs : Bytes(SubSeq(evs, 1, i)) = bytes
    THEN SubSeq(evs, 1, Min({i \in DOMAIN evs : Bytes(SubSeq(evs, 1, i)) = bytes}))
    ELSE <<Torn(bytes)>>

Init ==
    /\ use \in Uses
    /\ rb = <<>> /\ cache = <<>> /\ pad = <<>> /\ port = <<>> /\ any = FALSE /\ open = <<>>
    /\ proc = "none" /\ mode = "live" /\ k = "blocked"
    /\ suspended = 0 /\ restarts = 0 /\ now = 0 /\ start = 0 /\ offset = 0 /\ size = 0
    /\ ocache = <<>> /\ sent = <<>> /\ nextMessage = 1
    /\ r = "off" /\ n = 0 /\ space = 0 /\ batch = <<>> /\ remain = 0 /\ status = FALSE
    /\ starts = 0 /\ s = "idle" /\ lock = "free" /\ toSignal = FALSE /\ missed = FALSE
    /\ nextEvent = 1 /\ got = 0 /\ raced = FALSE /\ early = FALSE

-----------------------------------------------------------------------------
(* jm_process2: from Lisp to rb, from the C thread to cache *)

Cached == k = "process"

\* jack_midi_get_event_count: the events of a new cycle.
Arrive(lens, time) ==
    /\ nextEvent + Len(lens) <= MaxEvents + 1
    /\ port' = [i \in 1 .. Len(lens) |-> Event(nextEvent + i - 1, lens[i], time)]
    /\ any' = (lens # <<>>) /\ nextEvent' = nextEvent + Len(lens)
    /\ proc' = "write"

\* Lisp has data in the pad buffer; what is in it otherwise is not read.
PadUsed == mode \in {"parse", "put"}

\* What the pad buffer holds when an event is put at its beginning.
Overlay(evs, e) ==
    IF evs # <<>> /\ Head(evs).size = e.size THEN <<e>> \o Tail(evs)
    ELSE IF Bytes(evs) > e.size THEN <<e, Torn(Bytes(evs) - e.size)>> ELSE <<e>>

Ring == IF Cached THEN cache ELSE rb

HasSpace(ring, e) == RingBytes - Bytes(ring) >= e.size

\* An event without enough space is dropped.
FillPad ==
    /\ proc = "write" /\ port # <<>>
    /\ IF HasSpace(Ring, Head(port))
       THEN /\ pad' = Overlay(pad, Head(port)) /\ proc' = "put" /\ UNCHANGED port
            /\ raced' = (raced \/ PadUsed)
       ELSE port' = Tail(port) /\ UNCHANGED <<pad, proc, raced>>
    /\ UNCHANGED <<use, rb, cache, any, open, cycles, outputs, reader, sync, nextEvent, got,
                   early>>

PutEvent ==
    /\ proc = "put"
    /\ LET written == FirstBytes(pad, Head(port).size)
       IN  IF Cached THEN cache' = cache \o written /\ UNCHANGED <<rb, missed>>
           ELSE /\ rb' = rb \o written
                /\ missed' = (missed \/ r \in {"enter", "waiting"})
                /\ UNCHANGED cache
    /\ port' = Tail(port) /\ proc' = "write"
    /\ pad' = IF PadUsed THEN pad ELSE <<>>
    /\ UNCHANGED <<use, any, open, cycles, outputs, reader, s, lock, toSignal, history>>

EventsDone ==
    /\ proc = "write" /\ port = <<>>
    /\ proc' = IF any \/ toSignal THEN "signal" ELSE "none"
    /\ any' = FALSE
    /\ UNCHANGED <<use, rb, cache, pad, port, open, cycles, outputs, reader, sync, history>>

Signal_NotRepeated ==
    /\ proc = "signal" /\ proc' = "none"
    /\ r' = IF lock = "free" /\ r = "waiting" THEN "woken" ELSE r
    /\ toSignal' = FALSE
    /\ UNCHANGED <<use, rb, cache, pad, port, any, open, cycles, outputs, n, space, batch, remain,
                   status, starts, s, lock, missed, history>>

\* pthread_mutex_trylock; when it fails the next cycle signals.
Signal ==
    /\ proc = "signal" /\ proc' = "none"
    /\ r' = IF lock = "free" /\ r = "waiting" THEN "woken" ELSE r
    /\ toSignal' = (lock # "free")
    /\ UNCHANGED <<use, rb, cache, pad, port, any, open, cycles, outputs, n, space, batch, remain,
                   status, starts, s, lock, missed, history>>

-----------------------------------------------------------------------------
(* The cycles of Lisp *)

\* rt-audio-cycle: jm_process, jm_write_cached_midi_outputs, the functions.
LiveCycle(lens) ==
    /\ mode = "live"
    /\ Arrive(lens, 0) /\ mode' = "cycle"
    /\ UNCHANGED <<use, rb, cache, pad, open, k, suspended, restarts, now, start, offset, size,
                   outputs, reader, sync, got, raced, early>>

\* continue-last-audio-cycle: the port buffer is that of the C thread's cycle.
ContinueLastCycle ==
    /\ mode = "last"
    /\ port' = open /\ any' = (open # <<>>) /\ proc' = "write" /\ mode' = "lastcycle"
    /\ UNCHANGED <<use, rb, cache, pad, open, k, suspended, restarts, now, start, offset, size,
                   outputs, reader, sync, history>>

\* The cached bytes are one event of the port, or stay where they are.
WriteCachedOutputs(reserved) ==
    /\ mode \in {"cycle", "lastcycle"} /\ proc = "none"
    /\ ocache = <<>> => reserved
    /\ IF reserved THEN sent' = sent \o ocache /\ ocache' = <<>>
       ELSE UNCHANGED <<sent, ocache>>
    /\ mode' = IF mode = "cycle" THEN "run" ELSE "lastrun"
    /\ UNCHANGED <<inputs, k, suspended, restarts, now, start, offset, size, nextMessage, reader,
                   sync, history>>

\* jm_write_short and jm_write: while Lisp is busy the ring takes the bytes
\* that fit.
JmWrite(reserved) ==
    /\ mode \in {"run", "lastrun", "recrun"} /\ use = "output" /\ nextMessage <= MaxMessages
    /\ nextMessage' = nextMessage + 1
    /\ LET msg == <<<<nextMessage, 1>>, <<nextMessage, 2>>>>
       IN  IF mode = "recrun"
           THEN /\ ocache' = SubSeq(ocache \o msg, 1, Min({Len(ocache) + 2, OutBytes}))
                /\ UNCHANGED sent
           ELSE /\ sent' = IF reserved THEN sent \o msg ELSE sent
                /\ UNCHANGED ocache
    /\ UNCHANGED <<inputs, cycles, reader, sync, history>>

ClearCachedEvents_Inputs == cache' = <<>> /\ UNCHANGED ocache

\* jm_clear_cached_events
ClearCachedEvents == cache' = <<>> /\ ocache' = <<>>

\* The next stamps count from here.
Recounted == now' = 0 /\ start' = 0 /\ offset' = 0 /\ open' = <<>>

\* The end of a cycle, and a collection if one waits: the C thread goes on.
\* A collection that came before the cycle has made Lisp cache it.
CycleEnd(collect, byLisp) ==
    /\ mode = "run" /\ (byLisp => collect) /\ (collect => use # "receive")
    /\ mode' = IF collect THEN "gc" ELSE "live"
    /\ k' = IF collect THEN "wait" ELSE k
    /\ suspended' = IF byLisp THEN 1 ELSE 0
    /\ early' = (early \/ byLisp)
    /\ UNCHANGED <<inputs, restarts, now, start, offset, size, outputs, reader, sync, nextEvent,
                   got, raced>>

LastCycleEnd(collect) ==
    /\ mode = "lastrun" /\ (collect => suspended = 0)
    /\ ClearCachedEvents /\ Recounted /\ suspended' = 0
    /\ mode' = IF collect THEN "gc" ELSE "live"
    /\ k' = IF collect THEN "wait" ELSE k
    /\ UNCHANGED <<use, rb, pad, port, any, proc, restarts, size, sent, nextMessage, reader, sync,
                   nextEvent, got, raced, early>>

\* with-restart-point after the wait: nothing to recover, another recovery,
\* or an aborted one, which continues a cycle that is over.
Resume ==
    /\ mode = "resume"
    /\ \/ /\ suspended = 0
          /\ ClearCachedEvents /\ Recounted
          /\ mode' = "live" /\ UNCHANGED <<k, suspended, restarts, early>>
       \/ /\ suspended > 0 /\ restarts < RestartLimit
          /\ mode' = "recover" /\ k' = "wait" /\ restarts' = restarts + 1
          /\ start' = now /\ offset' = 0 /\ early' = TRUE
          /\ UNCHANGED <<cache, ocache, suspended, now, open>>
       \/ /\ suspended > 0 /\ restarts >= RestartLimit
          /\ mode' = "last"
          /\ UNCHANGED <<cache, ocache, k, suspended, restarts, early, now, start, offset, open>>
    /\ UNCHANGED <<use, rb, pad, port, any, proc, size, sent, nextMessage, reader, sync,
                   nextEvent, got, raced>>

-----------------------------------------------------------------------------
(* The cycles of the C thread while Lisp is busy *)

CycleWait(lens) ==
    /\ k = "wait" /\ mode # "idle" /\ offset < MaxSuspended
    /\ Arrive(lens, start + offset)
    /\ open' = port' /\ offset' = offset + 1 /\ k' = "process"
    /\ UNCHANGED <<use, rb, cache, pad, mode, suspended, restarts, now, start, size, outputs,
                   reader, sync, got, raced, early>>

\* The cycle continues in Lisp, or is counted.
CycleDone ==
    /\ k = "process" /\ proc = "none"
    /\ IF mode = "idle" /\ suspended = 0
       THEN k' = "blocked" /\ mode' = "last" /\ UNCHANGED suspended
       ELSE k' = "wait" /\ suspended' = suspended + 1 /\ UNCHANGED mode
    /\ UNCHANGED <<inputs, restarts, now, start, offset, size,
                   outputs, reader, sync, history>>

ResumeLisp ==
    /\ k = "wait" /\ mode = "idle"
    /\ k' = "blocked" /\ mode' = "resume"
    /\ UNCHANGED <<inputs, suspended, restarts, now, start, offset, size, outputs, reader, sync,
                   history>>

-----------------------------------------------------------------------------
(* Recovery of a suspended cycle *)

GcEnd ==
    /\ mode = "gc" /\ mode' = "recover"
    /\ UNCHANGED <<inputs, k, suspended, restarts, now, start, offset, size, outputs, reader,
                   sync, history>>

RecoveryDone ==
    /\ mode = "recover" /\ suspended = 0
    /\ mode' = "done"
    /\ UNCHANGED <<inputs, k, suspended, restarts, now, start, offset, size, outputs, reader,
                   sync, history>>

\* The C thread may have suspended another cycle since.
SetBusyState ==
    /\ mode = "done" /\ mode' = "idle"
    /\ UNCHANGED <<inputs, k, suspended, restarts, now, start, offset, size, outputs, reader,
                   sync, history>>

\* jm_cached_midi_inputs_read_space: a copy of the cache in the pad buffer,
Peek ==
    /\ mode = "recover" /\ suspended > 0
    /\ IF cache = <<>> THEN mode' = "recrun" /\ UNCHANGED <<pad, size, raced>>
       ELSE /\ pad' = cache /\ size' = Bytes(cache) /\ mode' = "parse"
            /\ raced' = (raced \/ proc = "put")
    /\ UNCHANGED <<use, rb, cache, port, any, open, proc, k, suspended, restarts, now, start,
                   offset, outputs, reader, sync, nextEvent, got, early>>

Sum(i) == Bytes(SubSeq(pad, 1, i))

ReadSpace_AnyTime ==
    LET Stop(i) == \/ i = Len(pad) \/ 2 * Sum(i) >= size
                   \/ pad[i + 1].len >= size - Sum(i) \/ size <= Sum(i + 1)
    IN  Sum(Min({i \in 0 .. Len(pad) : Stop(i)}))

\* and the events of the cycle that it finds: bufsize shrinks with every
\* event while n, which is compared with it, grows.
ReadSpace ==
    LET Stop(i) == \/ i = Len(pad) \/ 2 * Sum(i) >= size
                   \/ pad[i + 1].time - now >= 1
                   \/ pad[i + 1].len >= size - Sum(i) \/ size <= Sum(i + 1)
    IN  Sum(Min({i \in 0 .. Len(pad) : Stop(i)}))

\* jm_read_cached_midi_inputs
TakeCached ==
    /\ mode = "parse"
    /\ IF ReadSpace > 0 /\ ReadSpace <= RingBytes - Bytes(rb)
       THEN /\ size' = ReadSpace
            /\ pad' = FirstBytes(cache, ReadSpace)
            /\ cache' = SubSeq(cache, Len(pad') + 1, Len(cache))
            /\ raced' = (raced \/ proc = "put") /\ mode' = "put"
       ELSE /\ mode' = "recrun" /\ size' = 0 /\ pad' = (IF proc = "put" THEN pad ELSE <<>>)
            /\ UNCHANGED <<cache, raced>>
    /\ UNCHANGED <<use, rb, port, any, open, proc, k, suspended, restarts, now, start, offset,
                   outputs, reader, sync, nextEvent, got, early>>

PutCached ==
    /\ mode = "put"
    /\ rb' = rb \o FirstBytes(pad, size) /\ mode' = "recrun"
    /\ size' = 0 /\ pad' = IF proc = "put" THEN pad ELSE <<>>
    /\ UNCHANGED <<use, cache, port, any, open, proc, k, suspended, restarts, now, start, offset,
                   outputs, reader, sync, history>>

\* The functions of the cycle (JmWrite), the sample counter and the cycle
\* counter.
RecoverCycleEnd ==
    /\ mode = "recrun"
    /\ now' = now + 1 /\ suspended' = suspended - 1 /\ mode' = "recover"
    /\ UNCHANGED <<inputs, k, restarts, start, offset, size, outputs, reader, sync, history>>

-----------------------------------------------------------------------------
(* The receiver thread *)

\* with-receiver: jm_flush_pending before the loop.
RecvStart ==
    /\ r = "off" /\ s = "idle" /\ use = "receive" /\ starts < MaxStarts
    /\ starts' = starts + 1 /\ status' = TRUE /\ r' = "flush"
    /\ UNCHANGED <<inputs, cycles, outputs, n, space, batch, remain, sync, history>>

FlushPending ==
    /\ r = "flush"
    /\ rb' = <<>> /\ r' = "loop"
    /\ UNCHANGED <<use, cache, pad, port, any, open, proc, cycles, outputs, n, space, batch,
                   remain, status, starts, sync, history>>

RecvLoop ==
    /\ r = "loop"
    /\ IF status THEN /\ n' = Bytes(rb) /\ space' = BufSize /\ batch' = <<>> /\ r' = "read"
                      /\ UNCHANGED status
       ELSE r' = "off" /\ status' = FALSE /\ UNCHANGED <<n, space, batch>>
    /\ UNCHANGED <<inputs, cycles, outputs, remain, starts, sync, history>>

Aligned(bytes) == bytes + ((-bytes) % 4)

TooLarge_Never(e) == FALSE
TooLarge(e) == e.size > BufSize

Reading == r = "read" /\ n > 0 /\ space > Header

\* jm_read: an event that fits in the rest of the buffer is read, one that
\* does not fit in the whole buffer is skipped, and a header without a
\* length is the sign of corrupted data.
ReadEvent ==
    /\ Reading /\ Head(rb).len # 0 /\ Head(rb).size < space
    /\ batch' = Append(batch, Head(rb)) /\ space' = space - Aligned(Head(rb).size)
    /\ rb' = Tail(rb) /\ n' = Bytes(rb')
    /\ UNCHANGED <<use, cache, pad, port, any, open, proc, cycles, outputs, r, remain, status,
                   starts, sync, history>>

SkipEvent ==
    /\ Reading /\ Head(rb).len # 0 /\ TooLarge(Head(rb))
    /\ rb' = Tail(rb) /\ n' = Bytes(rb')
    /\ UNCHANGED <<use, cache, pad, port, any, open, proc, cycles, outputs, r, space, batch,
                   remain, status, starts, sync, history>>

\* The ring is empty, the buffer is full or the data is corrupted.
ReadDone ==
    /\ r = "read"
    /\ Reading /\ Head(rb).len # 0 => Head(rb).size >= space /\ ~TooLarge(Head(rb))
    /\ rb' = IF Reading /\ Head(rb).len = 0 THEN <<>> ELSE rb
    /\ remain' = n /\ r' = "deliver"
    /\ UNCHANGED <<use, cache, pad, port, any, open, proc, cycles, outputs, n, space, batch,
                   status, starts, sync, history>>

\* doevent calls the responders.
Deliver ==
    /\ r = "deliver"
    /\ got' = Last(<<got>> \o Ids(batch)) /\ batch' = <<>> /\ r' = IF status THEN "test" ELSE "loop"
    /\ n' = 0 /\ space' = 0
    /\ UNCHANGED <<inputs, cycles, outputs, remain, status, starts, sync, nextEvent, raced, early>>

\* jm_waiting_for: the test is outside of the lock.
TestRemain ==
    /\ r = "test"
    /\ r' = IF remain = 0 THEN "lock" ELSE "loop"
    /\ UNCHANGED <<inputs, cycles, outputs, n, space, batch, remain, status, starts, sync,
                   history>>

WaitLock ==
    /\ r \in {"lock", "woken"} /\ lock = "free"
    /\ lock' = "receiver" /\ missed' = FALSE
    /\ r' = IF r = "lock" THEN "enter" ELSE "leave"
    /\ UNCHANGED <<inputs, cycles, outputs, n, space, batch, remain, status, starts, s, toSignal,
                   history>>

WaitUnlock ==
    /\ r \in {"enter", "leave"}
    /\ lock' = "free" /\ r' = IF r = "enter" THEN "waiting" ELSE "loop"
    /\ UNCHANGED <<inputs, cycles, outputs, n, space, batch, remain, status, starts, s, toSignal,
                   missed, history>>

\* recv-stop: the status, a tenth of a second, jm_force_cond_signal, the end
\* of the thread.  The receiver is assumed to be out of the way from its test
\* of the status to its wait when the tenth of a second is over.
RecvStop ==
    /\ s = "idle" /\ status
    /\ status' = FALSE /\ s' = "sleep"
    /\ UNCHANGED <<inputs, cycles, outputs, r, n, space, batch, remain, starts, lock, toSignal,
                   missed, history>>

\* recv-stop has slept 0.1 s since it set the status: the receiver is assumed to
\* have got by then from its test of the status to the wait or out of its loop.
ForceLock ==
    /\ s = "sleep" /\ r \notin {"test", "lock", "enter"} /\ lock = "free"
    /\ lock' = "stop" /\ s' = "signal"
    /\ UNCHANGED <<inputs, cycles, outputs, reader, toSignal, missed, history>>

ForceCondSignal_Unlock ==
    /\ s = "signal"
    /\ lock' = "free" /\ s' = "join"
    /\ UNCHANGED <<inputs, cycles, outputs, reader, toSignal, missed, history>>

ForceCondSignal ==
    /\ s = "signal"
    /\ r' = IF r = "waiting" THEN "woken" ELSE r
    /\ lock' = "free" /\ s' = "join"
    /\ UNCHANGED <<inputs, cycles, outputs, n, space, batch, remain, status, starts, toSignal,
                   missed, history>>

ForceClear ==
    /\ s = "join"
    /\ toSignal' = FALSE /\ s' = "ended"
    /\ UNCHANGED <<inputs, cycles, outputs, reader, lock, missed, history>>

RecvJoin ==
    /\ s = "ended" /\ r = "off"
    /\ s' = "idle"
    /\ UNCHANGED <<inputs, cycles, outputs, reader, lock, toSignal, missed, history>>

-----------------------------------------------------------------------------
ProcessStep == FillPad \/ PutEvent \/ EventsDone \/ Signal
LispStep == \/ \E lens \in CycleLens[use] : LiveCycle(lens)
            \/ ContinueLastCycle
            \/ \E reserved \in BOOLEAN : WriteCachedOutputs(reserved)
            \/ \E collect, byLisp \in BOOLEAN : CycleEnd(collect, byLisp)
            \/ \E collect \in BOOLEAN : LastCycleEnd(collect)
            \/ Resume \/ GcEnd \/ RecoveryDone \/ SetBusyState
            \/ Peek \/ TakeCached \/ PutCached \/ RecoverCycleEnd
CStep == (\E lens \in CycleLens[use] : CycleWait(lens)) \/ CycleDone \/ ResumeLisp
RecvStep == \/ FlushPending \/ RecvLoop \/ ReadEvent \/ SkipEvent \/ ReadDone
            \/ Deliver \/ TestRemain \/ WaitLock \/ WaitUnlock
StopStep == ForceLock \/ ForceCondSignal \/ ForceClear \/ RecvJoin

Next == \/ ProcessStep \/ LispStep \/ CStep \/ RecvStep \/ StopStep
        \/ RecvStart \/ RecvStop
        \/ \E reserved \in BOOLEAN : JmWrite(reserved)

\* The audio cycles, the receiver and recv-stop go on; nobody has to start,
\* stop or write.
Spec == /\ Init /\ [][Next]_vars
        /\ WF_vars(ProcessStep \/ LispStep \/ CStep)
        /\ WF_vars(RecvStep) /\ WF_vars(StopStep)

-----------------------------------------------------------------------------
(* Properties *)

\* The places of the threads, and the rings never hold more than they may.
TypeOK ==
    /\ Bytes(rb) <= RingBytes /\ Bytes(cache) <= RingBytes /\ Len(ocache) <= OutBytes
    /\ proc \in {"none", "write", "put", "signal"} /\ k \in {"blocked", "wait", "process"}
    /\ mode \in {"live", "cycle", "run", "gc", "recover", "parse", "put", "recrun", "done",
                 "idle", "resume", "last", "lastcycle", "lastrun"}
    /\ r \in {"off", "flush", "loop", "read", "deliver", "test", "lock", "enter", "waiting",
              "woken", "leave"}
    /\ lock \in {"free", "receiver", "stop"} /\ toSignal \in BOOLEAN
    /\ suspended \in 0 .. MaxSuspended * (RestartLimit + 1) + 1
    /\ nextEvent \in 1 .. MaxEvents + 1

\* The receiver gets the events of a port in the order of their arrival and
\* none twice, although a part of them goes through the cache and the events
\* of the last cycle are both cached by the C thread and copied by Lisp.  The
\* exceptions are events torn in the pad buffer, and cycles whose stamps are
\* too early.
ReceivedInOrder ==
    ~raced /\ ~early =>
        LET order == <<got>> \o Ids(batch) \o Ids(rb)
        IN  \A i, j \in DOMAIN order : i < j => order[i] < order[j]

\* What jm_read has copied, each event aligned to four bytes, fits in the
\* buffer of the caller: remain does not wrap below zero.
ReadFits ==
    r = "read" => /\ space >= 0
                  /\ space + Total([i \in DOMAIN batch |-> Aligned(batch[i].size)]) = BufSize

\* jm_read that leaves events behind has read one: the loop of the receiver
\* does not spin, except on an event of exactly the size of the buffer.
ReadsProgress ==
    r = "deliver" /\ remain > 0 /\ batch = <<>> /\ rb # <<>>
        => Head(rb).size = BufSize \/ raced

\* jm_read fills the buffer of its caller, not more, and gets on.
ReadInv == TypeOK /\ ReadFits /\ ReadsProgress

\* An event that arrives when the receiver has the lock or waits ends the
\* wait, also when the lock was taken: to_signal repeats the signal.
ArrivalWakes == (r = "waiting" /\ missed) ~> (r # "waiting")

\* recv-stop ends: the receiver sees the status or is woken, given that 0.1 s are
\* enough for it to get from the test of the status to the wait (ForceLock).
StopEnds == (s = "sleep") ~> (s = "idle")

\* The bytes of the output keep the order of the calls of jm_write, also
\* those that were cached during a recovery.
OutputsInOrder ==
    \A i, j \in DOMAIN sent :
        i < j => \/ sent[i][1] < sent[j][1]
                 \/ sent[i][1] = sent[j][1] /\ sent[i][2] < sent[j][2]
=============================================================================
