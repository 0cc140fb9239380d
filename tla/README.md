# Incudine: TLA+ models, checks and proofs

Incudine is a music and audio programming environment: a Common Lisp image that
runs an audio engine in a real-time thread, fed by C callbacks of JACK or
PortAudio, and lets other threads schedule functions, build a graph of DSP nodes
and exchange MIDI, OSC and sound data with it. This directory keeps the TLA+
specifications of the parts whose correctness is hard to test, the TLC
configurations that check them on small instances, and TLAPS proofs of the
properties that matter most. `PROJECT.json` holds the same information for
machines: components, runs, mutants, the map from definitions to source lines,
findings, hazards and theorems. Paths below are relative to `src/src/`.

## 1. Inventory of the system

### 1.1 The parts with a model

| Part | Sources | State | Operations | Hard behaviour | What makes it correct |
|---|---|---|---|---|---|
| EDF scheduler | `edf-sched.lisp`, `rt.lisp` | array heap, ordering tag, result slot, sample counter | `schedule-at`, `get-heap`, `sched-loop`, `unschedule-if`, `flush-pending`, `force-pending-events`, `next-time`, `last-time`, `resize-heap` | order among equal times, events moved under a running scan, full heap | earliest first, nothing late, nothing lost or invented |
| with-schedule | `edf-sched.lisp` | temporary heaps, heap pool, flush hooks | `with-schedule`, `pour-on-rt-heap`, hooks, pool push and pop | flush from another thread while a heap is being poured | every event is called once, on time, in order; a heap has one owner |
| Function FIFOs | `fifo.lisp`, `nrt.lisp` | ring of functions, two heads | `enqueue`, `fifo-perform-functions`, `fifo-flush` | lock-free producer and consumer, full ring, flush from one of the sides | called once, in order, none lost |
| Engine threads | `fifo.lisp`, `sync-condition.lisp`, `spinlock.lisp`, `rt.lisp` | five FIFOs, two sync conditions, a spinlock | `nrt-funcall`, `fast-nrt-funcall`, `rt-funcall`, `fast-rt-funcall`, `any-to-rt-funcall`, `rt-eval`, the loops of the threads | lost wake-up, lock held while functions are called, dropped functions | functions arrive in order, every function is called or dropped |
| Node graph | `graph.lisp`, `rt.lisp` | doubly linked list, parent and last links, list of functions (funcons), pause flags | `play` with five add-actions, `make-group`, `move`, `free`, `stop`, `pause`, `unpause` | every operation repairs three structures by hand | the structures agree; nodes go where asked; exactly the asked nodes are freed |
| C ring buffer | `ringbuffer.c` | bytes, two heads | write, read, peek, the two advances, reset | lock-free writer and reader, copies in two parts | a bounded stream: nothing lost, repeated, torn or stale |
| Foreign memory pools | `contrib/tlsf/src/tlsf.c` | headers of the blocks, free lists by class, two bitmaps, used size | `malloc_ex`, `calloc_ex`, `free_ex`, `realloc_ex` | headers say things about neighbours that are true only at times; search by class | blocks tile the area, lists and bitmaps are exact, blocks are large enough, no needless refusal |
| JACK and PortAudio backends, real-time thread lifecycle | `rtjack.c`, `rtjack.h`, `rtpa.c`, `rtpa.h`, `rt.lisp` | status of client and thread, busy flag, cycle counter, inputs cache, `rt-state` | the loop of the C thread, `rt-loop`, transfer, recovery of the suspended cycles, `rt-start`, `rt-stop` | hand-over of the client at a collection, waits without predicate, stop with a timeout | one user of the client at a time, no cycle lost or run twice, hand-over and stop end |
| JACK MIDI | `rtjack.c`, `jackmidi.lisp` | event ring, cache ring, pad buffer, `remain`, `to_signal`, receiver status | `jm_process2`, `jm_read`, `jm_write`, `jm_read_cached_midi_inputs`, `jm_waiting_for`, `recv-start`, `recv-stop` | events of suspended cycles, lost signals, full buffers | events in order, none twice; reads fit and progress; waits end |
| OSC packets | `network/osc.c`, `network/osc.h`, `network/osc.lisp` | buffer, index of the values, type tags, lengths | `start-message`, `simple-bundle`, `bundle`, `(setf value)`, `send`, `receive`, `flush-bundle` | a value that grows in the middle of a bundle moves everything behind it | the receiver reads what was written; lengths chain |
| OSC server | `network/osc.c`, `network/osc.lisp` | table of descriptors, last descriptor, bytes of a message | `osc_recv`, accept, close, `close-connections` | messages in pieces, connections that end at any moment | the table is right; messages are whole; what arrives is read |

### 1.2 The parts without a model yet

| Part | Sources | State and operations | Hard behaviour |
|---|---|---|---|
| Node hash table | `int-hash.lisp`, `graph.lisp` | open addressing with linear probing over preallocated nodes; lookup, new identifier, `fix-collisions-from`, `swap-replaced` | a freed group leaves a hole in a probe sequence |
| MIDI and responders | `midi.lisp`, `receiver.lisp` | lists of functions, table of responders, status | compare-and-swap that is not retried |
| Rendering to a file or buffer | `nrt.lisp` | scheduler and graph of their own, frames | the end of the rendering against pending events |
| Cons and node pools | `pool.lisp`, `node-pool.lisp`, `alloc.lisp` | free lists, sizes, growth | a cons given back twice; growth while locked |
| Voicer | `voicer/` | doubly linked voices, lists by tag, counters | stealing a voice whose release is pending |
| Time and tempo | `time.lisp` | tempo envelopes | real-valued integration |
| Datagram sockets, serial port | `network/`, `serial/` | file descriptors | input and output mostly |
| Score | `score.lisp` | time stack, event list | text processing mostly |
| MIDI and sound files, buffers, buses, envelopes, tuning, analysis, generators | as named | arrays of samples | numeric |
| VUG compiler, unit generators | `vug/` | compile-time graphs | code generation |
| Logger, configuration, executable, utilities | as named | no state across calls that matters | |
| `contrib/` | bindings, CLM port | third-party | |

### 1.3 How the parts interact

The audio callback drives `rt-audio-cycle`: for each block it performs the
functions of `*to-engine-fifo*` and `*fast-to-engine-fifo*`, runs `sched-loop`
and, for each tick, `compute-tick`, which follows the funcons of the root node.
All changes of the graph and of the scheduler happen inside one of these three:
`rt-eval` and `at` called in another thread travel through a FIFO. The
rt-thread in turn hands work to the nrt-thread and the fast-nrt-thread by FIFO
and sync condition. `with-schedule` lets a user thread fill a heap of its own,
which crosses to the rt-thread by `at`, and whose end action crosses to the
nrt-thread; `flush-pending` may cut through this from any thread.

The audio callback itself has two homes. Normally the Lisp thread waits for a
cycle and runs it; before a garbage collection stops the world it hands the
client over to a C thread, which keeps the cycles going with silence, stores the
inputs and the MIDI events in rings of `ringbuffer.c`, and hands the client back.
Lisp then replays the stored cycles. MIDI and OSC reach Lisp through receiver
threads of their own, which call the responders; buffers of signals, messages and
nodes live in memory of the TLSF pools.

The hazards, each at its line, are listed in `PROJECT.json` under `hazards`,
with the property that would catch it.

## 2. Modules

| Module | Models | Extends or instantiates |
|---|---|---|
| `EdfQueue` | what the scheduler promises: a bounded set of events | |
| `EdfHeap` | the array heap, one action per loop iteration | |
| `EdfHeapRefinement` | the refinement mapping | `EdfHeap`, instance of `EdfQueue` |
| `FunctionQueue` | what a FIFO promises | |
| `Fifo` | the ring, one action per shared access | |
| `FifoRefinement` | the refinement mapping | `Fifo`, instance of `FunctionQueue` |
| `QueueProofs` | seven theorems about the FIFO, ten about the heap | `EdfHeapRefinement`, `FifoRefinement` |
| `EngineThreads` | threads, five FIFOs taken as queues, sync conditions, spinlock | |
| `EngineThreadsProofs` | six theorems | `EngineThreads` |
| `WithSchedule` | temporary heaps, pouring, end actions, flush | |
| `WithScheduleProofs` | four theorems | `WithSchedule` |
| `NodeGraph` | the tree of nodes | |
| `ByteStream` | what a ring buffer of bytes promises | |
| `RingBuffer` | the ring, one action per load, store or copy | |
| `RingBufferRefinement` | the refinement mapping | `RingBuffer`, instance of `ByteStream` |
| `Tlsf` | the allocator of the pools | |
| `ClibProofs` | four theorems about the ring, four about the allocator | `RingBufferRefinement`, `Tlsf` |
| `AudioThreads` | the hand-over between Lisp and the C thread, both backends | |
| `AudioThreadsProofs` | four theorems | `AudioThreads` |
| `JackMidi` | one MIDI input and one output | |
| `JackMidiProofs` | four theorems | `JackMidi` |
| `OscPacket` | messages and bundles, from writer to reader | |
| `OscPacketProofs` | four theorems | `OscPacket` |
| `OscServer` | the receiver of a stream-oriented server | |
| `OscServerProofs` | two theorems | `OscServer` |
| `MC...` | instances for TLC | the module of the same name |

The modules build on each other by abstraction: `EngineThreads` uses FIFOs as
`FunctionQueue` describes them, which `Fifo` is shown to implement;
`WithSchedule` uses sorted heaps, which `EdfHeap` is shown to implement, and
channels that keep the order, as `EngineThreads` shows. `AudioThreads` and
`JackMidi` take an operation of a ring buffer as one step, which the refinement
to `ByteStream` justifies, and `JackMidi` has the audio cycles of `AudioThreads`
reduced to what decides where an event goes.

A definition named `D_Fault` is the definition `D` with a fault. No action uses
it: `PROJECT.json` lists, for each property, a mutant that breaks it.

### 2.1 EdfHeap

`data`, `size`, `next`, `tag` are the slots of `heap`; `temp` is `temp-node`,
`now` the sample counter in samples. Times of events are in half samples, so the
tolerance of `sched-loop`, half a sample, is exact. Each iteration of a loop is
an action (`SiftUp`, `SiftDown`, `ScanKeep`, `ScanDelete`, ...), because the
properties speak about the array between two iterations and the proof needs an
invariant there; `pc` and `ret` say which loop runs and who called it. No other
thread sees the heap in between. `Crucial` are the functions with a
`force-scheduled-function-p` that returns true. `ResizePending` says whether
`rt-start` may find events when it resizes the heap.

### 2.2 Fifo

One step is one read or write of a head or a slot. The barriers of the code
keep the accesses in the order of the program. Functions are numbers in the
order of their enqueue. `FlushedBy` says which side of the FIFO the rt-thread is
on, since `flush-all-fifos` always runs there.

### 2.3 EngineThreads

A task is a function together with the functions it passes on: `Route[t]` are
the FIFOs it goes through. `fifo-perform-functions` is `Perform`, `Call`,
`Performed`. `fast-nrt-perform-functions` advances the read head only after the
call, and calls under the spinlock (`FastLock` to `FastDone`). The counters
`read` and `write` of a sync condition are kept modulo `CounterMod`, 2^24 as in
the code.

### 2.4 WithSchedule

A user thread takes heaps from the pool, fills them and sends them. The
rt-thread pours: it calls what is due and moves one event at a tick.
`cleanup` and `flushing` are the local state of `nrt-flush` in each thread.
`PourFlush` is an event that the pour calls and that calls `flush-pending`: the
real-time heap is emptied and the pour goes on. `startAt`, `calledAt`, `cancelled`
and `spared` (the events left to such a pour) are history.

### 2.5 NodeGraph

The graph is one record (`Graph`); an operation is a function from graphs to
graphs written as the chain of assignments of the code, and the action applies
it. A cell of a funcons is named by its node. `program` fixes which calls the
behaviour may make, which lets one run check several sets of calls, and `did` is
the last call. Some operations are split by what they meet (`free-group`,
`group-tail-end`, `move-into-empty`, ...), because they go wrong in some cases
and not in others: section 6.

### 2.6 RingBuffer

`buf`, `writeHead`, `readHead` are the slots of `struct incudine_ringbuffer`; the
local variables of a write and of a read are variables of the model, because the
other thread moves between two of their steps. Heads are unsigned and the size
is a power of two, so the bitwise and with the mask is a remainder. The bytes are
numbered in the order of writing. `FillInPlace` is a caller that asks for the
space, fills it and calls `incudine_ringbuffer_write_advance`. `Reset` is a step
of a thread that is alone in the ring, as in the code that handles the caches.

### 2.7 Tlsf

An address is the offset of a header in the area; `hdr` maps it to its size, its
state, the state of the block before and, when that is free, its address. An
operation is a function from heaps to heaps, made of the functions of the code
(`ExtractBlock`, `InsertBlock`, `MappingSearch`, ...) and of its parts:
`free_ex` is `JoinNext`, `JoinPrevious` and `PutBack`, `realloc_ex` grows with
`JoinNext` and gives back with `Trim`. The list links are not modelled: a list is a
sequence. `prev_hdr`, which only a free block before makes valid, is `Null`
elsewhere. The constants of the class table are parameters.

### 2.8 AudioThreads

`c`, `l` and `ctl` say where the C thread, the Lisp thread and the caller of
`rt-start` or `rt-stop` are. `driver` chooses JACK or PortAudio; steps in which
`rtpa.c` differs are disjuncts. `recover` is the choice of the thread callback.
A cycle has a number, an inputs block has two halves since a full cache can take
the first only. `calm` is chosen once: in a calm behaviour no thread stops
between its decision to wait and `pthread_cond_wait`, the stream starts, and no
thread sleeps for the five seconds of `ja_cleanup`; in the others a signal can be
lost, as in the code. The safety properties hold in both, but for `FreedUnused`.

### 2.9 JackMidi

An event is a record with its number, its size with the header, and its stamp.
`jm_process2` is `ProcessStep`; `LispStep` and `CStep` are the cycles; the
receiver is `RecvStep`. `use` splits behaviours into a receiver without
collections, collections without a receiver, and an output, as the three only
share the rings; `CycleLens` gives the events of the cycles of each. The end of a
collection has the steps of `with-restart-point` (`GcEnd`, `RecoveryDone`,
`SetBusyState`, `Resume`), with the restart and the abort of a recovery; `open`
are the events of the cycle that the C thread has begun, which Lisp reads again
when it continues that cycle. `raced`, `early` and `missed` record that one of the situations
of section 6.2 has happened.

### 2.10 OscPacket and OscServer

`OscPacket`: a packet is an array of words of four bytes; a word knows what it
holds and in which byte order, so that swapping, indexing and lengths are what
the code does, and a word read in the wrong order, or as something it is not,
shows. Each packet is written within the buffers (`Room`), which the code leaves to
the caller. `OscServer`: a byte knows its message and its place. `Others` and
`Network` are external: connections open, send, close and reset, and bytes arrive
in pieces of any size. `uneven` are the connections that are out of step with the
message boundaries, `stale` the closed descriptors still in `fds`.

## 3. Runs

| Run | Result | Question |
|---|---|---|
| `edf_heap` | pass | Is the heap, with every interleaving of its operations, the abstract queue? Does the scheduler call the earliest event, and none late? |
| `fifo` | pass | Is the ring, at the grain of single accesses, the abstract queue, also when its consumer flushes it? |
| `engine_threads` | pass | Do functions sent between the threads arrive in order, is each one called or dropped, and does a caller that waits for a result go on unless its function was dropped? |
| `with_schedule` | pass | Is every event of `with-schedule` called once, on time and in order, and are events not called after a `flush-pending`, but for those of a pour that has called it? |
| `node_graph` | pass | Do list, tree and functions agree after every sequence of calls? |
| `ring_buffer` | pass | Is the ring of bytes, at the grain of single loads, stores and copies, a stream? |
| `tlsf` | pass | Does the allocator keep its books after every sequence of requests? |
| `audio_threads` | pass | Has the client one user at a time, is every suspended cycle recovered once with its own inputs, do hand-over and stop end? |
| `jack_midi` | pass | Do events reach the receiver in order and none twice, does an event that arrives after the receiver has the lock wake it, and does `recv-stop` end? |
| `osc_packet` | pass | Does the receiver of a packet read what was written, however often values were set again? |
| `osc_bundle` | violation | And is the length of the only message of a bundle right? |
| `osc_server` | pass | Are messages whole and the table of descriptors right, while connections come, go and break? Is what arrives read again and again under traffic without end, but for connections above a busy one? |

### 3.1 Bounds

- `EdfHeap.cfg`: sizes 4 and 8 give a tree of three levels, so a sift loop makes
  several iterations and meets both children; three times and a tag limit of
  six produce equal times, full heaps and restarted tags; the test sets cancel
  ordinary functions, or crucial ones and the continuation of
  `force-pending-events`. `MCView` leaves out dead registers. The scan of
  `unschedule-if` misses an event only from twelve events on (section 6.2), more
  than the heaps of this run hold.
- `Fifo.cfg`: four slots, nine functions, so the heads wrap around twice.
- `EngineThreads.cfg`: two user threads and four tasks that use all five FIFOs
  with capacity two, so `*from-world-fifo*` is full in some behaviours; one task
  waits for its results. More blocks in a cycle add no new interleaving.
- `WithSchedule.cfg`: three uses with two or three events each, equal times,
  events that are due at once and later, a pool of one heap that has to grow,
  one flush from the rt-thread (in a pour, too) or the user thread at every point. `MaxNow` is
  never reached; `IdleTicks` lets time pass while nothing is pending.
- `NodeGraph.cfg`: five sets of calls with three to five nodes. Five nodes give
  groups with several nodes around a group with several nodes, which is as much
  as any operation looks at: the node, its neighbours, its parent and its last
  descendant. Items are symmetric.
- `RingBuffer.cfg`: four bytes, requests of one, two and three bytes and of more
  than fits, eight bytes in all: both heads wrap and meet every position.
- `Tlsf.cfg`: a class table of six by four lists; requests below the small block,
  in the middle and of half the area, three blocks held: blocks split, merge with
  either neighbour and with both, move, and requests are refused.
- `AudioThreads.cfg`: a counter of three cycles that four suspended ones
  overfill, a cache of seven half blocks that takes a part of the fourth, two
  starts, two rounds of recovery before the restart limit.
- `JackMidi.cfg`: cycles without events, with a short event, with two, and with
  one that has exactly, or exceeds, the size of the read buffer; two cycles between
  clears, two starts. The three events of a recovery with a long one take up to 64
  bytes, one more than the cache holds.
- `OscPacket.cfg`: bundles of one or two messages of two forms (string before a
  number; tag without value, blob, string), values with and without full words,
  set again twice at any index.
- `OscServer.cfg`: two connections, messages of two lengths, a buffer that one of
  them overfills, pieces of any size, any number of messages with at most four unread
  bytes of a connection at a time (`MaxWay`): with the prefix two short messages or
  the one that is too long, with SLIP one that fills the buffer. There is no bound of
  the messages in all, so a connection may stay busy for ever.

### 3.2 Deadlock

Deadlock is checked where the system never stops: `edf_heap` (the scheduler can
always tick or schedule up to its bounds, and flush after them), `fifo`,
`engine_threads`, `ring_buffer`, `tlsf` and `jack_midi`. `with_schedule`, `node_graph`, `audio_threads` (all starts used up, or both threads in a wait whose
signal was lost), `osc_packet` and `osc_server` may stop and say
`CHECK_DEADLOCK FALSE`.

### 3.3 Fairness

`EngineThreads` and `WithSchedule` assume weak fairness of each thread's next
step. The rt-thread is driven by the audio callback, which the sound card calls
for ever; the other threads are scheduled by the operating system. Weak fairness
is enough: no thread waits for a lock that others can take infinitely often
while it is refused, since in the instances each task takes the spinlock a
bounded number of times. `EveryTaskEnds` and `AllCalled` need it. The spinlock
itself gives no more: with unbounded traffic a user thread could starve, and
`EveryTaskEnds` is about finitely many tasks. It also leaves one thread waiting,
and says so: the caller of `rt-eval` whose function was dropped.

`AudioThreads`: the C thread, the Lisp thread and a running `rt-start` or
`rt-stop` take their steps; nobody has to collect, start or stop. `JackMidi`: the
cycles go on, the receiver and a running `recv-stop` take their steps; nobody has
to write, start or stop. `OscServer`: the receiver thread calls `receive` again
and what was sent arrives; nobody has to send or to close, and the others may send
for ever. `ArrivedIsRead` names what then keeps a connection from being read: a
lower one that is ready again and again, since `osc_recv` begins with the lowest
descriptor and returns after one message, and a descriptor that stays in `fds`
(`stale`). Without either exception TLC finds such a behaviour. A thread that waits on
a condition variable has no step until it is signalled, so no fairness wakes it.

## 4. Properties

Where several conjuncts of one invariant are worth a name they are definitions of
their own, and the run checks the conjunction.

- Scheduler: `HeapInv` (the inductive invariant; it implies `HeapOrdered`,
  `GotEarliest` and `NoCorruptedNode`, no pending event is the filler whose
  function signals "Corrupted EDF heap.", which are proved from it),
  `ScansExact` (`SearchesExact`: `next-time` and `last-time`, which prune,
  against the definition; `UnscheduleExact`: `unschedule-if` cancels nothing else,
  and misses nothing while fewer than eight events are pending), `NoMissedDeadline`,
  `ImplementsQueue`.
- FIFO: `FifoInv` (inductive; it implies `CalledOnceInOrder`, `NothingLost`,
  `SlotsDisjoint` and `FlushedNeverCalled`, which are proved),
  `ImplementsFunctionQueue`.
- Threads: `SyncInv` (`NoLostWakeup`: a thread never sleeps while a function
  waits for it and no signal is under way; `LockHeld`), `CallsInSendingOrder`,
  `EveryTaskEnds`.
- with-schedule: `HeapsInv` (`HeapHasOneOwner`, `NoEventLost`),
  `CalledAsScheduled` (`CalledOnTime`, `CalledInOrder`) and `AllCalled` hold until
  the first `flush-pending`; `FlushCancels` is about what follows it, but for the
  events left to a pour that called it (`spared`, section 6.2).
- Graph: `GraphInv` (`OrderIsLive`, `LinkedBack`, `LastChild`), `FunconsInOrder`
  (the list that `compute-tick` follows is the list of unpaused nodes in tree
  order), `PlacedAsAsked`, `FreedExactly`.
- Ring of bytes: `RingInv` (inductive), `CopiesDisjoint`, `ReturnsOldest`,
  `ImplementsByteStream`.
- Pools: `PoolInv` (`Tiled`, `Coalesced`, `ListsExact`, `UsedExact`),
  `LargeEnough`, `RefusedOnlyWhenFull`.
- Backends: `HandOverInv` (`LispAlone`, `CyclesPaired`, `FreedUnused`),
  `CyclesAccounted` (the counter holds the cycles that Lisp has not processed,
  without a gap), `RecoversOwnInputs`, `HandOverEnds`, `StopReturns`.
- MIDI: `ReadInv` (`ReadFits`, `ReadsProgress`), `ReceivedInOrder`,
  `OutputsInOrder`, `ArrivalWakes`, `StopEnds`.
- OSC packets: `PacketInv` (`ValuesKept`, `LengthsChain`), `ReceivedAsWritten`,
  `BundleNotOverrun`, and `FirstLength`, which the code violates.
- OSC server: `TableInv` (`ConnectionsKnown`, `LastIsOpen`), `MessagesWhole`,
  `ArrivedIsRead`.

## 5. Proofs

### 5.1 QueueProofs: the scheduler heap

For every set of times, functions, sizes, every block size and every tag limit.
Assumptions: those named in `EdfHeap` (times are naturals, sizes are at least
two, ...); all theorems but `TypeCorrect` also assume `~ResizePending`: no event
is pending when the heap is resized. With pending events they are false
(section 6.2).

`HeapOrdered` speaks of idle states and is not inductive. The invariant
`HeapInv` adds, for every loop:
- `Control`: which loop can be called from where, and the bounds of its index;
- `GenuineEvents`: occupied slots hold events, not fillers, with distinct tags
  below the current tag;
- `Ordered`: every occupied slot whose parent is occupied comes after it, and
  the children of the hole of the running loop come after the hole's parent,
  which is what lets the hole move;
- `Carried`: how the event in hand compares with the parent and the children
  of the hole.

Each loop has a lemma (`EventsSiftUp`, `EventsSiftDown`, ...); `EventsNext` puts
them together by the disjuncts of `Next`. `RootEarliest` derives from the order
of neighbours that the root is the least event, by the least counterexample, as
induction over the tree is out of reach of the provers. From it follow
`GotEarliestCorrect` and `NoMissedDeadlineCorrect`.

`ImplementsQueueCorrect` is the refinement of `EdfQueue`. Its invariant,
`RefinementInv`, adds what a running `unschedule-if` or `flush-pending` owes to
the events that were pending before it, which the variable `before` remembers:
only events of the test are missing (`ScanInv`), in a small heap the slots that
the scan has passed are tested (`ScannedInv`), the rebuilt heap holds the crucial
events that were passed (`FlushInv`). The set of pending events changes only at
the last step of a loop, and that step is one of `EdfQueue`. A deletion in the
middle moves the last event up or down; `OldRoot` follows the root through it,
so that the scan may go back to the level of the hole without missing an event.
`UnscheduleExactCorrect` follows from the same invariant; its bound of eight
events is that of a heap whose last level starts where the scan goes on.

`SearchesExactCorrect` is about the two queries, which change nothing.
`next-time` walks the tree and leaves out the subtree of an event it has found.
Its model is a recursive function on the nodes; the proof shows that the function
exists, from the end of the array on, then that a search below a node returns at
most one event and none later than any event of the subtree (`SearchOne`,
`SearchClimbs`: from a node to its parent until the root). `last-time` starts
from a power of two: `NextPowerOfTwoBound` shows that the doubling stops below
twice its argument, so that the start is not behind the first leaf
(`LastStartBound`), and from every event the heap order leads down to a leaf that
is not earlier (`LastTimeExact`).
`ScansExactCorrect` joins this with `UnscheduleExactCorrect`.

### 5.2 QueueProofs: the FIFO

For every size and number of functions, with `FlushedBy = "consumer"`, the FIFOs
to the engine. For a FIFO that its producer flushes the theorems are false
(section 6.2). `FifoInv` relates heads, slots and the two threads to history: the
slots behind the read head hold the functions `taken + 1 .. sent` (`Window`), the
slot of the producer is still free (`Producing`), the consumer takes the function
behind the read head (`Consuming`), a flush goes to a slot between the heads
(`Clearing`), and what left the ring was called or flushed (`Accounted`). The size
need not be a power of two: the mask is written as the remainder, and
`HeadNextWraps` replaces it by a comparison, so that all arithmetic is linear.
`WaitingNumbered` shows that the slots between the heads are the functions
`taken + 1 .. sent`; with it `FunctionQueueImplemented` follows by the actions:
the stores and loads are stutters, the moves of the heads are the steps of the
queue.

### 5.3 ClibProofs

The two parts of the C library: the ring of bytes and the allocator.

#### The ring buffer

For every size, all requests and any number of bytes. `RingInv` says, besides the
types: the positions from the read head on hold the bytes `received + 1 .. sent`
(`Window`); the message of the writer fits behind them, and lies there as far as
it was copied (`Writing`); the reader asks for no more than is published, and
what it has copied are the oldest bytes (`Reading`). It has to speak about the
middle of a write and of a read, where the other thread may move its head.
`MaskWraps` and `HeadWraps` replace remainders by comparisons, `SpacesExact` shows
that the spaces both sides compute are those of the history, `PublishedPlace`
where a published byte lies as seen from the writer; then there is one lemma per
action. `CopiesDisjoint` and `ReturnsOldest` follow. For the refinement,
`NumberedConcat` and `NumberedSub` say what concatenation and `SubSeq` do to the
abstract stream; a publishing step is a write, a releasing one a read or a skip,
and all others leave the stream alone.

#### The allocator

For every geometry of the class table, every alignment, overhead, area and set of
requests that `TlsfAssumption` allows: sizes are multiples of what a class of small
blocks is wide, and no size of the pool goes past the last class. The values that the
build gives these constants (`tlsf.c:132-141`) are such, for pools up to half of the
largest size. The number of blocks that callers hold is not bounded in the proof.

`PoolInv`, `LargeEnough` and `RefusedOnlyWhenFull` are not inductive by themselves:
that a free merges the right bytes depends on what headers say, that a list holds
a block of the class on what sizes were, and the count on both. `PoolIInv` joins
them. Its core is `HeapInv(h, H)`, for a heap `h` whose callers hold the blocks `H`:
- `Blocks`: from every header but the last the next one is the nearest, and
  no block is smaller than the minimum;
- `Tagged`: a header says of the block before it whether it is free and, if so,
  where it is, and two neighbours are not free;
- the free blocks are those that nobody holds, and are in the lists of their classes
  (`Listed`): no block twice, and the bitmaps name the lists that are not empty;
- `used` counts the blocks of `H` with their headers.

TLC has checked `PoolIInv` on the states of the run. An operation leaves this
invariant in its middle, and the steps between are stated as predicates of a heap:
`Ready` (a block is out of its list and nobody's yet), `Merging` (a block is
being freed), `Made` and `Grown` (a block has got its size). The lemmas go from the
bottom up:
- numbers: the powers of two, which are a recursive function, exist and grow
  (`BitIs`, `BitGrows`); division and remainder (`DivFacts`, ...);
- classes: `MsBitFacts`, `LargeSizes`; `ClassOrder` says that a block is in the
  class of the rounded request or in a later one exactly when it is not smaller.
  `LargeEnough`, in spite of a search that does not look at sizes, rests on one
  direction of it, `RefusedOnlyWhenFull` on the other;
- sums: `BytesRemove`, any block can be taken out of the sum first, which is
  proved by the number of blocks;
- blocks and headers: what absorbing and splitting do to them (`AbsorbBlocks`,
  `SplitBlocks`, `SplitHeader`, `FreeingNext`, `FreeingPrevious`);
- lists: `ExtractLists`, `ExtractHdrLists`, `InsertLists`;
- operations: `MallocKeeps`, `FreeKeeps`, `ReallocKeeps`. The last has the four
  ways of `realloc_ex`: shrink, grow into the next block, move, refuse.

A lemma per action and `PoolStep` put them together; `PoolTiled`, `PoolCoalesced`,
`PoolLists` and `PoolUsed` derive the properties.

### 5.4 EngineThreadsProofs

For any number of threads, tasks, FIFO sizes and blocks and any routes that
`RouteAssumption` allows: a function goes into a FIFO only from a thread that is
its producer. What the threads do to the functions is separated from how they do
it: `Flow` relates the functions in the FIFOs (`live`), the one that each thread
has in hand (`holder`) and how far each has got. A function that is sent is in
exactly one place (`WaitsOnce`, `HeldBySender`, `NotLost`), and one that was sent
earlier the same way is never behind (`NotOvertaken`). Lemmas say that
taking, passing on, dropping and ending a function preserve `Flow`; every action
is one of these or leaves the flow alone. `EngineInv` adds where the threads can be
(`ControlOK`), the registers they need there (`JobOK`) and the spinlock
(`FastOK`): the fast-nrt-thread leaves a function in `*from-world-fifo*` while it
calls it, so `live` is the tail of that FIFO then. From `EngineSafe` follow
`EngineTypes`, `SpinlockHeld`, `TasksInOnePlace` and `SendingOrderKept`.

`NoWakeupLost` needs the counters of a sync condition to be different after a
signal (`CountersApart`): 2^24 signals that nobody takes would make a waiting
thread sleep. The code counts modulo 2^24 without a test, so this is a condition of
the theorem; in the run, which has the modulus of the code, there are fewer
signals. `WakeOK` says that for a FIFO with a function there is a signal, a
thread about to signal, or a thread that has not looked into it yet.

### 5.5 WithScheduleProofs

For every list of bodies, any number of heaps, size of the pool, ticks and
flushes. An action (a heap and the schedule in it) travels through five places
(`Holding`); each step moves one action from one place to another, and
`Distinct` says that no heap and no schedule is in two. Which events are in a
heap (`ContentsRight`), whether its offset is set (`StartsRight`) and how early
its events can be (`EntriesRight`, `PouringInTime`) depends on the place.
`QueuesOrdered` is about neighbours in the real-time heap and in the two
channels, `PouredFirst` about the events that are still in the temporary heap.
All of this is `Calm` and holds until the first `flush-pending`; afterwards only
`StateTyped` is left, which is why `ScheduleInv` is a disjunction. `HeapsCorrect`
and `CalledOnTimeCorrect` follow. The order of the calls needs `InSamples`: the
times are whole samples. Otherwise `pour-on-rt-heap` can swap two events whose
times are half a sample apart, since both are due at the same tick
(section 6.2). `OrderInv` adds that nothing of the schedule that is being poured
is overdue in the real-time heap (`CaughtUp`).

### 5.6 AudioThreadsProofs

For both backends, with and without cached inputs, for every capacity of the
counter and of the cache, every restart limit and every number of cycles and
starts. `AudioInv` says, for each place of the C thread, where the Lisp thread and
`rt-start` or `rt-stop` can be (`Places`, `Freed`), who has the open cycle and
where the entry of a last cycle can be (`Opened`), and when the rings are empty
(`Emptied`). The rest relates the rings to the history: the entries of the
counter are the cycles after the last one that Lisp has processed, one after the
other (`Accounted`), the cache holds both halves of their inputs (`CacheInStep`),
but for the steps in which one of the rings is behind the other (`Stored`,
`Read`), and what Lisp has read belongs to the first entry (`Recovering`). The
three parts are claimed while no input was cut off (`lost`) and the client runs
(`Watched`), as the properties are. `HandOverCorrect`,
`CyclesAccountedCorrect` and `RecoversOwnInputsCorrect` follow. Signals that are
lost do not matter for safety: the theorems hold whether `calm` is chosen or not,
except that the buffers are freed unused only in the calm behaviours.

### 5.7 JackMidiProofs

For every set of cycles, all sizes of rings and buffers, every number of
messages, cycles and starts. `MidiInv` says where the threads are (`Control`),
that a ring never holds more bytes than it has (`RingsFit`), that what the
receiver was told it may take is still there (`ReaderFits`), and that events keep
their order from one place to the next: what the receiver got, what it holds,
`rb`, the pad buffer, the cache, the port, the open cycle (`Arranged`). While
Lisp processes suspended cycles the C thread begins the next one, so the cache
also holds events that have to stay there; their stamp, the frames since the last
wait, keeps them apart from the ones that Lisp moves, and `Arranged` says so.
`Genuine` (what is in the pad buffer) is claimed until the two threads meet in the
pad buffer (`raced`), `Arranged` until a restart of the recovery makes the
stamps start again too early (`early`); the two are shown in section 6.2, and
`ReceivedInOrder` has the same conditions. The bytes in a ring are a sum over a
sequence. A sum is a recursive function, and its laws (`Bytes` of a
concatenation, of a tail, the bound for each part) need induction, which is done
by the least number at which a law fails: the naturals are well founded.
`ReadInvCorrect`, `ReceivedInOrderCorrect` and `OutputsInOrderCorrect` follow.

### 5.8 OscPacketProofs

For every set of type tags, every length of strings and blobs, any number of messages
and of calls of `(setf value)`, and any buffer that what is written fits in
(`OscAssumption`; `Room`). Of a bundle of one message, whose length the code can leave
wrong (section 6.1, `lone`), the properties, and so the theorems, speak only as far as
its index and its values in the output stream go, not of its length or its reception.

`PacketInv` says where values and messages are, but not that nothing else is in
between, and a change of a value in the middle moves all that follows; what a receiver
reads depends on what was sent. `PacketIInv` joins four parts:
- `OutputInv`: an entry of the index per value, in order, the words of the value
  there (`IndexInv`); the messages have their places and their ranges of values
  (`Layout`: `MessageParts`, `MessagePlaces`), no value reaches into the next message
  (`Apart`) and the length words before them are right (`LengthWordsRight`), also
  while a bundle still waits for its values (`ValuesInv`) and when it is complete
  (`ReadyInv`);
- `SentInv` and `NetInv`: a packet on its way is a chain of the messages that
  were sent, from one length word to the next (`PacketOf`);
- `InputInv`: the message that was received has its values where its index says, in
  the order of the host, and what is left of a bundle is the chain of the messages
  that are not received yet, still in the order of the network (`BundleLeft`).

TLC has checked `PacketIInv` on the states of the run. The lemmas:
- words: what the scan of a value relies on (`Shaped`): the size of a value is the
  same when it is read from the words in either order, and the zero that
  `osc_maybe_reserve_space` leaves behind a growing value is no part of it;
- recursive functions: the walks over the words (`IndexOscValues`, `LengthWords`,
  `FixLength`) exist and obey their equations, which is shown by the least number at
  which one would fail (`Steps`, `Follow`, `Lead`);
- moves: `osc_move_data_right` copies from the end and `osc_move_data_left` from the
  start, so that neither reads a word it has already written (`Moved`);
- changes: `SetWords` and `EditOf` follow one `(setf value)` through buffer, index and
  length; `EditParts`, `EditPlaces` and `EditApart` are the messages after it;
- appending (`Appending`) and sending (`Copied`, `Laid`): the words in the packet
  are those of the stream, moved by the header;
- receiving: `Chain` loses its first message (`RestAt`), and to index a message swaps
  words of this message only (`SameFrom`).

`PacketKept` puts them together, a step per action. From the invariant follow
`PacketInvCorrect`, `ReceivedAsWrittenCorrect` and `BundleNotOverrunCorrect`: that the
test `>=` of `receive` and the test `=` of `end-of-bundle-p` never disagree.

### 5.9 OscServerProofs

For any set of message sizes, prefix, buffer, numbers of connections and accepts, and
however many bytes are under way; the other sides may close or reset a connection whenever they like.
The table (`TablePart`): a descriptor that the loop has still to read is open,
the one of a message in the making is not among them, the descriptors that stay
in `fds` after a close are not open. That `accept` finds a free number uses that
a set with fewer elements than an interval does not cover it. The messages
(`StreamPart`): the bytes of a connection, in the buffer, arrived and under way,
are messages back to back, of which only the last may be cut off, when the other
side has gone (`Framed`, `Complete`); the count of missing bytes is that of the
message in the buffer (`CountRight`). `Framed` survives cutting the
stream before or behind a message and appending one (`FramedPrefix`, `FramedRest`,
`FramedAppend`), so every step of `osc_recv` and of the network keeps it. `TableCorrect` and
`MessagesWholeCorrect` follow.

### 5.10 Only model-checked

- Liveness under fairness (`EveryTaskEnds`, `AllCalled`, `HandOverEnds`,
  `StopReturns`, `ArrivalWakes`, `StopEnds`, `ArrivedIsRead`): out of the
  prover's reach.
- `FlushCancels`, what a `flush-pending` during `with-schedule` leaves.
- `CalledInOrder` for times between two samples, which is false, and
  `NoLostWakeup` when 2^24 signals wait.
- `NodeGraph`, which walks the tree with recursive operators that the provers
  cannot use.

## 6. Where the code surprises

### 6.1 Shown by a run

`osc_bundle`: `bundle` relies on `maybe-reserve-space` to set the length of the
first message, but `osc_maybe_reserve_space` leaves it alone when the bundle has
one message: with a string or a blob of more than one word the message is sent
with the length it had before its values were set. `PROJECT.json` quotes the
lines.

### 6.2 Seen while modelling

The properties leave these out, each by the condition or the constant named.

Scheduler and FIFOs:
- `resize-heap` copies one slot too few: with pending events the last one is lost
  and a filler takes its place (`ResizePending`).
- `unschedule-if` goes on from the number of the tree level instead of its first
  index: with twelve or more events, one moved before it survives.
- A hook added between the `dolist` and `clear-flush-pending-hook` is cleared
  uncalled (`edf-sched.lisp:447`).
- `flush-all-fifos` writes a head that belongs to another thread: for a FIFO from
  the engine, functions can be called twice or be lost (`FlushedBy`).
- `rt-eval` with a return value waits for ever for a function that a full FIFO has
  dropped; `EveryTaskEnds` excepts this caller.
- `fast-nrt-perform-functions` has no handler: a condition in a function leaves
  the read head behind it (`fifo.lisp:158`).
- `pour-on-rt-heap` can swap two events of the same fractional time (the times of
  the run are whole), and `flush-pending` of a user thread gives a heap back while
  it is being poured, so that an event scheduled later can be lost
  (`CalledAsScheduled` and `HeapsInv` end with the first flush).
- When `pour-on-rt-heap` itself calls an event that is due and this event calls
  `flush-pending` (`PourFlush`), only the real-time heap is emptied. The loop of the
  pour goes on with its temporary heap: the events in it, scheduled before the
  flush, are called or moved to the real-time heap, one at a tick, although
  `flush-pending` is to "cancel all the scheduled events" (`edf-sched.lisp:436`).
  `FlushCancels` excepts them (`spared`); without the exception TLC finds one.

Graph; the run leaves out the calls named in parentheses:
- `dogroup` of a group that is the last one of its parent runs on into the nodes
  behind the parent (nested groups freed, stopped or replaced): `FreedExactly`.
- `make-group :tail` at the end of the list keeps an old funcons
  (`group-tail-end`): `FunconsInOrder`.
- `make-group :after` does not set the back link of the next node
  (`group-after-inner`): `LinkedBack`.
- `move` into an empty group does not update the funcons of the group
  (`move-into-empty`): `FunconsInOrder`; the first node of a group moved to its
  tail stays where it is (`move-first-to-tail`): `PlacedAsAsked`.
- `move` of a group next to a node inside it closes a cycle (`move-inside`).
- `play` into a paused group, or `:tail` into an empty group before a paused
  node, links functions that are wrong after `unpause` (`unpause` or `play-tail`
  together with groups and `pause`): `FunconsInOrder`.
- `free` while the root is paused asks whether `:dummy-node` is paused
  (`pause-root` with `free`): an error in the code.
- A function that `compute-tick` calls may free or move nodes while the cell of
  the current node keeps its old `cdr` (`rt.lisp:180`). A group leaves the hash
  table without `fix-collisions-from` (`graph.lisp:1049`), and `swap-replaced`
  takes index 0 for a corrupted table (`graph.lisp:557`).

Pools:
- `used_size` can exceed the pool by one header, so a free size computed from it
  can be negative. Sizes from 2^30 on index past `sl_bitmap` (`tlsf.c:346`;
  `TlsfAssumption`), the product in `calloc_ex` is not checked, and pointers are
  not all aligned to `BLOCK_ALIGN`.
- The compiler macro of `foreign-nrt-alloc` calls the allocator without the
  spinlock that the function takes (`pool.lisp`).

Backends (`calm`, `lost` and the abort in `CyclesPaired`):
- The waits have no predicate: a signal that comes before the wait is lost, and
  both threads may wait for each other.
- When `Pa_StartStream` fails the C thread ends while Lisp waits for its signal;
  a stop can meet the C thread inside `Pa_StartStream`; a failed `pa_initialize`
  leaves the status `PA_INITIALIZING`; a failed `malloc` ends the C thread
  (`rtjack.c:368`).
- `recovery-cycles-restart` is not reset by a recovery that succeeds; the aborted
  recovery continues a cycle that is not open (`rt.lisp:327`).
- A full inputs cache takes a part of a block (`rtjack.c:394`), and
  `pa_get_time_offset_frames` compares frames with seconds (`rtpa.c:700`).

JACK MIDI (`raced`, `early`, `missed`):
- Events are received twice when a recovery starts with a cycle that was also
  cached, or after a restart of the recovery; the stamps are then too early.
- `jm_pad_buffer` is written by two threads without a lock.
- Recovered events are written without a signal (`rtjack.c:1306`).
- An event of exactly the size of the read buffer is neither read nor skipped
  (`rtjack.c:1151`), so the receiver spins.
- `recv-stop` sleeps 0.1 s and signals once (`jackmidi.lisp:890`): a receiver that is
  still between its test of the status and its wait sleeps through the signal
  (`ForceLock` leaves this out).
- `jm_waiting_for` tests `remain` before it has the lock (`rtjack.c:1178`): an
  event that arrives in between waits for the next one.
- A message cut by a full output cache is still sent (`rtjack.c:1076`, 1109), and
  all cached messages become one JACK event (`rtjack.c:1217`).
- A single cached event, or the last one, is moved only when another follows
  (`rtjack.c:1256`).

OSC server (`uneven`, `stale`):
- A connection that ends in the middle of a message is closed but stays in `fds`:
  `select` fails with `EBADF` from then on.
- When the rest of a message is not there yet `osc_recv` returns an error, and
  the rest is later taken for the beginning of a message; of two messages that
  one `recv` returns the second is lost; a `recv` of -1 is treated as data.
- A SLIP message that fills the buffer in the first `recv` is returned cut
  instead of refused; `is_slip_msg` does not look at the first byte of a chunk.
- `close-connections` of another thread changes the table under `osc_recv`; the
  loop serves low descriptors first, so a busy one can starve the others
  (`LowerReady`).

## 7. What is not modelled, and why

- Of the scheduler: the argument lists of events, and `at` in the nrt contexts,
  which use a heap of their own.
- Of the threads: conditions signalled by the functions.
- Of `with-schedule`: `:start-time`, `reduce-heap-pool`, a full real-time heap,
  use in the rt-thread.
- Of the graph: the hash table, hooks, fades (a replaced node goes at once, as
  without `*node-enable-gain-p*`), controls, `reinit`, temporary nodes, and
  functions that change the graph while `compute-tick` follows it.
- Of the ring buffer: a reset during an operation of the other thread.
- Of the pools: `add_new_area`, which nothing calls, the contents of blocks, the
  spinlocks around the calls.
- Of the backends: the shutdown by the JACK server, names and connections of
  ports, latencies and xrun counters, the change of the block size in Lisp, the
  dummy backend.
- Of JACK MIDI: the vectors of ports and their pending changes, SysEx that spans
  events, several ports that share the pad buffer.
- Of OSC: address patterns, time tags, copies and conversions of packets,
  datagram sockets, the nonblocking mode, Windows, and the bounds of the buffers,
  which the code leaves to the caller.
- The parts of section 1.2: some are planned (section 8); numeric code, code
  generation, file formats and glue are outside of what TLC and TLAPS can say
  something useful about.

## 8. Plan

Done, in this order: scheduler, FIFO, threads, with-schedule, graph, ring buffer,
pools, backends with the lifecycle of the real-time thread, JACK MIDI, OSC.

Next, by importance:

1. `NodeHash`: the table of identifiers under play, free and replace; lookups
   find every live node, identifiers are unique. It composes with `NodeGraph`
   by the operations that add and remove items.
2. `Receiver` and `Voicer`: responders under concurrent changes; voices, tags
   and counters under stealing and late release.
3. `ConsPool`, the loops of `nrt.lisp`, the time stack of `score.lisp`,
   `note-priority`.

Theorem worth proving: `OrderIsLive` of a `NodeGraph` that walks its lists with
recursive functions.
