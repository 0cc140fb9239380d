---------------------------- MODULE WithSchedule ----------------------------
(***************************************************************************)
(* with-schedule of src/src/edf-sched.lisp: a thread of the user takes a   *)
(* temporary heap from the pool, fills it and sends it to the rt-thread;   *)
(* pour-on-rt-heap calls the events that are due and moves the others, one *)
(* at a tick, to the real-time heap; the end action, in the nrt-thread,    *)
(* gives the heap back.  flush-pending cancels the events and calls the    *)
(* end actions that are registered as hooks.                               *)
(*                                                                         *)
(* A heap is a sequence sorted by time, as EdfHeap is shown to be one.     *)
(* Times are in half samples.  The functions for the rt- and for the       *)
(* nrt-thread travel in order, as EngineThreads shows.                     *)
(* A definition D_Fault is D with a fault that no action has.              *)
(***************************************************************************)
EXTENDS Naturals, FiniteSets, Sequences, SequencesExt

CONSTANTS Bodies,      \* the times that each use of with-schedule schedules at
          PoolSize,    \* +heap-pool-size+
          MaxHeaps,    \* bound of the heaps of an expanded pool
          Flushers,    \* threads that call flush-pending
          MaxFlushes,  \* bound of its calls
          IdleTicks,   \* bound of the ticks without a pending event
          MaxNow       \* bound of the sample counter, which no run reaches

ASSUME BodiesAssumption == Bodies \in Seq(Seq(Nat))
ASSUME BoundsAssumption == /\ MaxHeaps \in Nat /\ PoolSize \in 0 .. MaxHeaps
                           /\ Flushers \subseteq {"user", "rt"}
                           /\ MaxFlushes \in Nat /\ MaxNow \in Nat /\ IdleTicks \in 0 .. MaxNow

VARIABLES pool,       \* *heap-pool*
          made,       \* the number of heaps that exist: 1 .. made
          content,    \* the events of each temporary heap
          offset,     \* heap-time-offset, in samples
          hooks,      \* *flush-pending-hook*: end actions
          rtHeap,     \* the real-time heap
          now,        \* the sample counter
          pouring,    \* the end action of the pour-on-rt-heap that runs
          toRt,       \* functions on the way to the rt-thread
          toNrt,      \* functions on the way to the nrt-thread
          current,    \* how many with-schedule the user has entered
          filled,     \* the heap that is filled, 0 outside of with-schedule
          filledTo,   \* how many events of the body are in it
          cleanup,    \* hooks that nrt-flush has still to call, by thread
          flushing,   \* whether the thread is in nrt-flush
          flushes     \* how many calls of flush-pending

VARIABLES startAt,    \* history: when the pouring of a schedule began
          calledAt,   \* history: when an event was called
          cancelled,  \* history: events sent before a flush-pending
          spared      \* history: events left to a pour that called flush-pending

rtVars == <<rtHeap, now, pouring>>
mail == <<toRt, toNrt>>
userVars == <<current, filled, filledTo>>
flushVars == <<cleanup, flushing, flushes>>
history == <<startAt, calledAt, cancelled, spared>>
vars == <<pool, made, content, offset, hooks, rtVars, mail, userVars, flushVars, history>>

Schedules == DOMAIN Bodies
Events == UNION {{s} \X DOMAIN Bodies[s] : s \in Schedules}
Rel(e) == Bodies[e[1]][e[2]]
Heaps == 1 .. MaxHeaps
Never == MaxNow + 1
NoEvent == <<0, 0>>
NoAction == [heap |-> 0, schedule |-> 0]

-----------------------------------------------------------------------------
\* schedule-at: before the first later entry, so behind those of the same time.
Insert(heap, entry) ==
    LET later == {k \in 1 .. Len(heap) + 1 : k <= Len(heap) => heap[k].time > entry.time}
    IN  InsertAt(heap, Min(later), entry)

Due(time) == 2 * now + 1 >= time

\* An entry of the real-time heap: an event, or a call of pour-on-rt-heap.
EventEntry(time, e) == [time |-> time, what |-> "event", event |-> e, action |-> NoAction]
PourEntry(time, what, action) ==
    [time |-> time, what |-> what, event |-> NoEvent, action |-> action]

Init ==
    /\ pool = [k \in 1 .. PoolSize |-> k] /\ made = PoolSize
    /\ content = [h \in Heaps |-> <<>>] /\ offset = [h \in Heaps |-> 0]
    /\ hooks = {} /\ rtHeap = <<>> /\ now = 0 /\ pouring = NoAction
    /\ toRt = <<>> /\ toNrt = <<>>
    /\ current = 0 /\ filled = 0 /\ filledTo = 0
    /\ cleanup = [th \in {"user", "nrt"} |-> {}]
    /\ flushing = [th \in {"user", "nrt"} |-> FALSE] /\ flushes = 0
    /\ startAt = [s \in Schedules |-> Never]
    /\ calledAt = [e \in Events |-> Never] /\ cancelled = {} /\ spared = {}

-----------------------------------------------------------------------------
(* with-schedule in a thread of the user                                   *)

\* heap-pool-pop, with a new heap when the pool is empty.
HeapPoolPop ==
    /\ current < Len(Bodies) /\ filled = 0 /\ ~flushing["user"]
    /\ IF pool = <<>>
       THEN made < MaxHeaps /\ made' = made + 1 /\ filled' = made' /\ UNCHANGED pool
       ELSE filled' = Head(pool) /\ pool' = Tail(pool) /\ UNCHANGED made
    /\ content' = [content EXCEPT ![filled'] = <<>>]
    /\ current' = current + 1
    /\ filledTo' = 0
    /\ UNCHANGED <<offset, hooks, rtVars, mail, flushVars, history>>

FillHeap ==
    /\ filled # 0 /\ filledTo < Len(Bodies[current])
    /\ filledTo' = filledTo + 1
    /\ content' = [content EXCEPT ![filled] =
                     Insert(@, EventEntry(Bodies[current][filledTo'], <<current, filledTo'>>))]
    /\ UNCHANGED <<pool, made, offset, hooks, rtVars, mail, current, filled, flushVars, history>>

\* at 0, from a thread that is not the rt-thread.
SendHeap ==
    /\ filled # 0 /\ filledTo = Len(Bodies[current])
    /\ toRt' = Append(toRt, PourEntry(0, "start", [heap |-> filled, schedule |-> current]))
    /\ filled' = 0
    /\ UNCHANGED <<pool, made, content, offset, hooks, rtVars, toNrt, current, filledTo,
                   flushVars, history>>

-----------------------------------------------------------------------------
(* flush-pending                                                           *)

FlushEntry == PourEntry(0, "flush", NoAction)

\* The functions rt-flush goes to the rt-thread, nrt-flush begins here.
UserFlush ==
    /\ "user" \in Flushers /\ flushes < MaxFlushes
    /\ filled = 0 /\ ~flushing["user"]
    /\ flushes' = flushes + 1
    /\ toRt' = Append(toRt, FlushEntry)
    /\ cleanup' = [cleanup EXCEPT !["user"] = hooks]
    /\ flushing' = [flushing EXCEPT !["user"] = TRUE]
    /\ cancelled' = cancelled \cup {e \in Events : e[1] <= current}
    /\ UNCHANGED <<pool, made, content, offset, hooks, rtVars, toNrt, userVars, startAt, calledAt,
                   spared>>

\* In the rt-thread: rt-flush empties the real-time heap, nrt-flush is for the
\* nrt-thread.
FlushInRt ==
    /\ "rt" \in Flushers /\ flushes < MaxFlushes
    /\ flushes' = flushes + 1
    /\ rtHeap' = <<>>
    /\ toNrt' = Append(toNrt, FlushEntry)
    /\ cancelled' = cancelled \cup {e \in Events : startAt[e[1]] # Never \/
                        \E k \in DOMAIN rtHeap : rtHeap[k].action.schedule = e[1]}
    /\ UNCHANGED <<pool, made, offset, hooks, now, pouring, toRt, userVars, cleanup, flushing,
                   startAt>>

\* From a function of the FIFO or of the real-time heap.
RtFlush ==
    /\ pouring = NoAction
    /\ FlushInRt
    /\ UNCHANGED <<content, calledAt, spared>>

\* A hook is an end action: heap-pool-push.
RunHook(th) ==
    /\ flushing[th]
    /\ \E action \in cleanup[th] :
         /\ pool' = <<action.heap>> \o pool
         /\ cleanup' = [cleanup EXCEPT ![th] = @ \ {action}]
    /\ UNCHANGED <<made, content, offset, hooks, rtVars, mail, userVars, flushing, flushes, history>>

ClearHooks(th) ==
    /\ flushing[th] /\ cleanup[th] = {}
    /\ hooks' = {}
    /\ flushing' = [flushing EXCEPT ![th] = FALSE]
    /\ UNCHANGED <<pool, made, content, offset, rtVars, mail, userVars, cleanup, flushes, history>>

-----------------------------------------------------------------------------
(* The nrt-thread                                                          *)

NrtEndAction ==
    /\ toNrt # <<>> /\ Head(toNrt).what = "end" /\ ~flushing["nrt"]
    /\ toNrt' = Tail(toNrt)
    /\ pool' = <<Head(toNrt).action.heap>> \o pool
    /\ UNCHANGED <<made, content, offset, hooks, rtVars, toRt, userVars, flushVars, history>>

NrtFlush ==
    /\ toNrt # <<>> /\ Head(toNrt).what = "flush" /\ ~flushing["nrt"]
    /\ toNrt' = Tail(toNrt)
    /\ cleanup' = [cleanup EXCEPT !["nrt"] = hooks]
    /\ flushing' = [flushing EXCEPT !["nrt"] = TRUE]
    /\ UNCHANGED <<pool, made, content, offset, hooks, rtVars, toRt, userVars, flushes, history>>

-----------------------------------------------------------------------------
(* The rt-thread                                                           *)

\* A function of the FIFO: schedule-at for a new pour, or rt-flush.
RtReceive_KeepsPours ==
    /\ toRt # <<>> /\ pouring = NoAction
    /\ toRt' = Tail(toRt)
    /\ rtHeap' = IF Head(toRt).what = "flush" THEN SelectSeq(rtHeap, LAMBDA x : x.what # "event")
                                              ELSE Insert(rtHeap, Head(toRt))
    /\ UNCHANGED <<pool, made, content, offset, hooks, now, pouring, toNrt, userVars, flushVars,
                   history>>

RtReceive ==
    /\ toRt # <<>> /\ pouring = NoAction
    /\ toRt' = Tail(toRt)
    /\ rtHeap' = IF Head(toRt).what = "flush" THEN <<>> ELSE Insert(rtHeap, Head(toRt))
    /\ UNCHANGED <<pool, made, content, offset, hooks, now, pouring, toNrt, userVars, flushVars,
                   history>>

RtDue == pouring = NoAction /\ rtHeap # <<>> /\ Due(Head(rtHeap).time)

CallEvent ==
    /\ RtDue /\ Head(rtHeap).what = "event"
    /\ rtHeap' = Tail(rtHeap)
    /\ calledAt' = [calledAt EXCEPT ![Head(rtHeap).event] = now]
    /\ UNCHANGED <<pool, made, content, offset, hooks, now, pouring, mail, userVars, flushVars,
                   startAt, cancelled, spared>>

\* The function of with-schedule sets the time offset and adds the hook before
\* it calls pour-on-rt-heap.
StartPour ==
    /\ RtDue /\ Head(rtHeap).what = "start"
    /\ LET action == Head(rtHeap).action
       IN  /\ rtHeap' = Tail(rtHeap)
           /\ pouring' = action
           /\ offset' = [offset EXCEPT ![action.heap] = now]
           /\ hooks' = hooks \cup {action}
           /\ startAt' = [startAt EXCEPT ![action.schedule] = now]
    /\ UNCHANGED <<pool, made, content, now, mail, userVars, flushVars, calledAt, cancelled, spared>>

ContinuePour ==
    /\ RtDue /\ Head(rtHeap).what = "pour"
    /\ rtHeap' = Tail(rtHeap)
    /\ pouring' = Head(rtHeap).action
    /\ UNCHANGED <<pool, made, content, offset, hooks, now, mail, userVars, flushVars, history>>

Poured == content[pouring.heap]
PouredTime == Head(Poured).time + 2 * offset[pouring.heap]
PouredDue == Poured # <<>> /\ Due(PouredTime)

\* The loop of pour-on-rt-heap calls the events that are due.
CallPoured ==
    /\ pouring # NoAction /\ PouredDue
    /\ content' = [content EXCEPT ![pouring.heap] = Tail(@)]
    /\ calledAt' = [calledAt EXCEPT ![Head(Poured).event] = now]

PourCall ==
    /\ CallPoured
    /\ UNCHANGED <<pool, made, offset, hooks, rtVars, mail, userVars, flushVars, startAt, cancelled,
                   spared>>

\* The event that it calls calls flush-pending: the pour goes on with the rest
\* of its heap.
PourFlush ==
    /\ CallPoured
    /\ FlushInRt
    /\ spared' = spared \cup {x.event : x \in ToSet(Tail(Poured))}

\* Then the next event goes to the real-time heap, if there is one, and the
\* heap is given back when that was the last.
PourEnd_KeepsLast ==
    /\ pouring # NoAction /\ ~PouredDue /\ Len(Poured) <= 1
    /\ hooks' = hooks \ {pouring}
    /\ toNrt' = Append(toNrt, PourEntry(0, "end", pouring))
    /\ pouring' = NoAction
    /\ UNCHANGED <<pool, made, content, offset, rtHeap, now, toRt, userVars, flushVars, history>>

PourEnd ==
    /\ pouring # NoAction /\ ~PouredDue /\ Len(Poured) <= 1
    /\ rtHeap' = IF Poured = <<>> THEN rtHeap
                 ELSE Insert(rtHeap, EventEntry(PouredTime, Head(Poured).event))
    /\ content' = [content EXCEPT ![pouring.heap] = <<>>]
    /\ hooks' = hooks \ {pouring}
    /\ toNrt' = Append(toNrt, PourEntry(0, "end", pouring))
    /\ pouring' = NoAction
    /\ UNCHANGED <<pool, made, offset, now, toRt, userVars, flushVars, history>>

\* Otherwise it continues to pour at the next tick.
PourNext_GivesHeapBack ==
    /\ pouring # NoAction /\ ~PouredDue /\ Len(Poured) > 1
    /\ rtHeap' = Insert(Insert(rtHeap, EventEntry(PouredTime, Head(Poured).event)),
                        PourEntry(2 * (now + 1), "pour", pouring))
    /\ content' = [content EXCEPT ![pouring.heap] = Tail(@)]
    /\ toNrt' = Append(toNrt, PourEntry(0, "end", pouring))
    /\ pouring' = NoAction
    /\ UNCHANGED <<pool, made, offset, hooks, now, toRt, userVars, flushVars, history>>

PourNext_PourFirst ==
    /\ pouring # NoAction /\ ~PouredDue /\ Len(Poured) > 1
    /\ rtHeap' = Insert(Insert(rtHeap, PourEntry(2 * (now + 1), "pour", pouring)),
                        EventEntry(PouredTime, Head(Poured).event))
    /\ content' = [content EXCEPT ![pouring.heap] = Tail(@)]
    /\ pouring' = NoAction
    /\ UNCHANGED <<pool, made, offset, hooks, now, mail, userVars, flushVars, history>>

PourNext ==
    /\ pouring # NoAction /\ ~PouredDue /\ Len(Poured) > 1
    /\ rtHeap' = Insert(Insert(rtHeap, EventEntry(PouredTime, Head(Poured).event)),
                        PourEntry(2 * (now + 1), "pour", pouring))
    /\ content' = [content EXCEPT ![pouring.heap] = Tail(@)]
    /\ pouring' = NoAction
    /\ UNCHANGED <<pool, made, offset, hooks, now, mail, userVars, flushVars, history>>

Tick ==
    /\ pouring = NoAction /\ ~RtDue
    /\ now < IF rtHeap = <<>> THEN IdleTicks ELSE MaxNow
    /\ now' = now + 1
    /\ UNCHANGED <<pool, made, content, offset, hooks, rtHeap, pouring, mail, userVars, flushVars,
                   history>>

-----------------------------------------------------------------------------
UserStep == HeapPoolPop \/ FillHeap \/ SendHeap \/ RunHook("user") \/ ClearHooks("user")
NrtStep == NrtEndAction \/ NrtFlush \/ RunHook("nrt") \/ ClearHooks("nrt")
RtStep == \/ RtReceive \/ CallEvent \/ StartPour \/ ContinuePour
          \/ PourCall \/ PourEnd \/ PourNext \/ Tick

Next == UserStep \/ UserFlush \/ RtFlush \/ PourFlush \/ NrtStep \/ RtStep

\* The threads run; nobody has to call flush-pending.
Spec == Init /\ [][Next]_vars /\ WF_vars(UserStep) /\ WF_vars(NrtStep) /\ WF_vars(RtStep)

-----------------------------------------------------------------------------
(* Properties *)

\* Heaps are those that the pool has made.
TypeOK ==
    /\ pool \in Seq(1 .. made) /\ made \in 0 .. MaxHeaps
    /\ filled \in 0 .. made /\ current \in 0 .. Len(Bodies)
    /\ pouring.heap \in 0 .. made
    /\ now \in 0 .. MaxNow /\ startAt \in [Schedules -> 0 .. Never]
    /\ calledAt \in [Events -> 0 .. Never] /\ cancelled \subseteq Events /\ spared \subseteq Events

Owners(h, s) == {k \in DOMAIN s : s[k].action.heap = h}
Count(h) == Cardinality({k \in DOMAIN pool : pool[k] = h})
            + Cardinality(Owners(h, toRt)) + Cardinality(Owners(h, toNrt))
            + Cardinality(Owners(h, rtHeap))
            + (IF filled = h THEN 1 ELSE 0) + (IF pouring.heap = h THEN 1 ELSE 0)

Entered(e) == e[1] < current \/ (e[1] = current /\ e[2] <= filledTo)
Stored(e) == \/ \E h \in Heaps : \E k \in DOMAIN content[h] : content[h][k].event = e
             \/ \E k \in DOMAIN rtHeap : rtHeap[k].event = e
Pending == {e \in Events : Entered(e) /\ calledAt[e] = Never}
Flushed == flushes > 0

\* Until flush-pending is called, a temporary heap has one owner: it is in the
\* pool, or with one with-schedule on its way from heap-pool-pop to the end
\* action.  None is lost either.
HeapHasOneOwner == Flushed \/ \A h \in 1 .. made : Count(h) = 1

\* Until flush-pending is called, an event that with-schedule has scheduled and
\* that was not called is in a temporary heap or in the real-time heap.
NoEventLost == Flushed \/ \A e \in Pending : Stored(e)

\* Heaps and events are not shared and not lost on their way through the
\* threads, until flush-pending is called.
HeapsInv == TypeOK /\ HeapHasOneOwner /\ NoEventLost

\* Until flush-pending is called, an event is called at the tick of its time,
\* counted from the beginning of the pouring, although the events reach the
\* real-time heap one at a tick.
CalledOnTime ==
    Flushed \/ \A e \in Events : calledAt[e] # Never => calledAt[e] = startAt[e[1]] + Rel(e) \div 2

\* Until flush-pending is called, the events of a schedule are called in the
\* order of their times, and those of the same time in the order of their
\* scheduling.
CalledInOrder ==
    Flushed \/ \A e, f \in Events :
                 /\ e[1] = f[1] /\ calledAt[f] # Never
                 /\ Rel(e) < Rel(f) \/ (Rel(e) = Rel(f) /\ e[2] < f[2])
                 => calledAt[e] # Never

\* Until flush-pending is called, pour-on-rt-heap calls the events when and in
\* the order in which a heap that holds them all would call them.
CalledAsScheduled == CalledOnTime /\ CalledInOrder

\* Every event that with-schedule schedules is called in the end, unless
\* somebody calls flush-pending.
AllCalled == <>(Flushed \/ \A e \in Events : calledAt[e] # Never)

\* When flush-pending has run in the rt-thread, or has arrived there from
\* another thread, the events scheduled before it are not called any more.  It
\* says "cancel all the scheduled events", but when pour-on-rt-heap itself has
\* called it, from an event, the pour goes on: those still in the heap that it
\* pours (spared) are called.
FlushCancels ==
    [][\A e \in Events : /\ calledAt[e] = Never /\ calledAt'[e] # Never
                         /\ e \in cancelled \ spared
                         => \E k \in DOMAIN toRt : toRt[k].what = "flush"]_vars
=============================================================================
