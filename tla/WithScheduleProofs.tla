------------------------- MODULE WithScheduleProofs -------------------------
(***************************************************************************)
(* Proofs about WithSchedule, for every body of with-schedule, every size  *)
(* of the pool and any number of heaps, flushes and ticks.                 *)
(*                                                                         *)
(* A temporary heap and the schedule in it travel as an action through     *)
(* five places: the thread of the user, the functions for the rt-thread,   *)
(* the real-time heap, pour-on-rt-heap and the functions for the           *)
(* nrt-thread.  A step moves one action from a place to another, so heaps  *)
(* and schedules stay apart.  Everything else hangs on the place where the *)
(* action of a schedule is: which events are in its heap, whether its      *)
(* offset is set and how early its events can be.  After flush-pending     *)
(* only the types are left.                                                *)
(***************************************************************************)
EXTENDS WithSchedule, SequenceTheorems, FiniteSetTheorems, WellFoundedInduction,
        NaturalsInduction, TLAPS

\* The times of all the events are whole samples.
InSamples == \A e \in Events : Rel(e) % 2 = 0

-----------------------------------------------------------------------------
(* Entries, and the places of the actions *)

Actions(m) == [heap : 1 .. m, schedule : Schedules]
Shape == [time : Nat, what : {"event", "start", "pour", "end", "flush"},
          event : Events \cup {NoEvent}, action : [heap : Nat, schedule : Nat]]
EventEntries == {x \in Shape : x.what = "event" /\ x.event \in Events /\ x.action = NoAction}
Carriers(m, kinds) ==
    {x \in Shape : x.what \in kinds /\ x.event = NoEvent /\ x.action \in Actions(m)}
FlushEntries ==
    {x \in Shape : x.what = "flush" /\ x.event = NoEvent /\ x.action = NoAction}
RtEntries(m) == EventEntries \cup Carriers(m, {"start", "pour"})
ToRtEntries(m) == Carriers(m, {"start"}) \cup FlushEntries
ToNrtEntries(m) == Carriers(m, {"end"}) \cup FlushEntries

\* The event e is to be called before f of the same schedule.
Before(e, f) ==
    /\ e[1] = f[1]
    /\ Rel(e) < Rel(f) \/ (Rel(e) = Rel(f) /\ e[2] < f[2])

IsEvent(x) == x.what = "event"
Carries(x) == x.action # NoAction

\* The entry x may stand before y in a heap: times do not decrease, events of
\* one schedule keep their order, an event stands before the pour that
\* follows it, and no event and no action stands twice.
Fine(x, y) ==
    /\ x.time <= y.time
    /\ IsEvent(x) /\ IsEvent(y) => /\ x.event # y.event
                                   /\ x.event[1] = y.event[1] /\ x.time = y.time
                                        => x.event[2] < y.event[2]
    /\ Carries(x) /\ Carries(y) => /\ x.action.heap # y.action.heap
                                   /\ x.action.schedule # y.action.schedule
    /\ Carries(x) /\ IsEvent(y) /\ x.action.schedule = y.event[1] => x.time < y.time

Ordered(q) == \A j, k \in DOMAIN q : j < k => Fine(q[j], q[k])

Acts(q) == {x.action : x \in Range(q)} \ {NoAction}
Places == {"user", "toRt", "rtHeap", "rt", "toNrt"}
Holding ==
    [p \in Places |->
        IF p = "user"
        THEN IF filled = 0 THEN {} ELSE {[heap |-> filled, schedule |-> current]}
        ELSE IF p = "toRt" THEN Acts(toRt)
        ELSE IF p = "rtHeap" THEN Acts(rtHeap)
        ELSE IF p = "rt" THEN {pouring} \ {NoAction}
        ELSE Acts(toNrt)]

\* No heap and no schedule is in two places.
Distinct(held) ==
    \A p, q \in Places : \A a \in held[p], b \in held[q] :
        p # q \/ a # b => a.heap # b.heap /\ a.schedule # b.schedule

-----------------------------------------------------------------------------
(* The inductive invariant *)

StateTyped ==
    /\ TypeOK
    /\ rtHeap \in Seq(RtEntries(made))
    /\ toRt \in Seq(ToRtEntries(made))
    /\ toNrt \in Seq(ToNrtEntries(made))
    /\ content \in [Heaps -> Seq(EventEntries)]
    /\ offset \in [Heaps -> Nat]
    /\ pouring \in Actions(made) \cup {NoAction}
    /\ hooks \subseteq Actions(made)
    /\ cleanup \in [{"user", "nrt"} -> SUBSET Actions(made)]
    /\ flushing \in [{"user", "nrt"} -> BOOLEAN] /\ flushes \in Nat
    /\ filledTo \in Nat
    /\ filled # 0 => current \in Schedules /\ filledTo <= Len(Bodies[current])

\* No part of flush-pending is on its way.
NoFlush ==
    /\ \A th \in {"user", "nrt"} : ~flushing[th]
    /\ \A x \in Range(toRt) : x.what = "start" /\ x.time = 0
    /\ \A x \in Range(toNrt) : x.what = "end" /\ x.time = 0

QueuesOrdered == Ordered(toRt) /\ Ordered(rtHeap) /\ Ordered(toNrt)

\* A heap is in the pool or with one action.
HeapsApart ==
    /\ Distinct(Holding)
    /\ \A j, k \in DOMAIN pool : pool[j] = pool[k] => j = k
    /\ \A p \in Places : \A a \in Holding[p] : a.heap \notin Range(pool) /\ a.schedule <= current
    /\ \A h \in 1 .. made : h \in Range(pool) \/ \E p \in Places : \E a \in Holding[p] : a.heap = h

\* The user has left a with-schedule with all of its events.
BodyDone == filled = 0 /\ current > 0 => filledTo = Len(Bodies[current])

\* What is in the temporary heaps.
ContentsRight ==
    /\ \A h \in Heaps :
          /\ Ordered(content[h])
          /\ \A x \in Range(content[h]) : /\ x.time = Rel(x.event) /\ calledAt[x.event] = Never
                                          /\ Entered(x.event)
    /\ \A h \in Heaps : h > made \/ h \in Range(pool) => content[h] = <<>>
    /\ \A a \in Holding["toNrt"] : content[a.heap] = <<>>
    /\ \A p \in Places : \A a \in Holding[p] : \A x \in Range(content[a.heap]) :
          x.event[1] = a.schedule

Started(s) == startAt[s] # Never

\* A schedule starts once, and its offset is the time of its start.
StartsRight ==
    /\ \A s \in Schedules : Started(s) => s <= current /\ startAt[s] <= now
    /\ \A a \in Holding["user"] \cup Holding["toRt"] : ~Started(a.schedule)
    /\ pouring # NoAction => Started(pouring.schedule)
                             /\ offset[pouring.heap] = startAt[pouring.schedule]
    /\ \A e \in Events : calledAt[e] # Never => Started(e[1])

StartRight(x) == ~Started(x.action.schedule) /\ x.time = 0

PourRight(x) ==
    /\ Started(x.action.schedule) /\ offset[x.action.heap] = startAt[x.action.schedule]
    /\ x.time >= 2 * now /\ x.time % 2 = 0
    /\ \A y \in Range(content[x.action.heap]) : y.time + 2 * offset[x.action.heap] >= x.time

EventRight(x) ==
    /\ Started(x.event[1]) /\ x.time = Rel(x.event) + 2 * startAt[x.event[1]]
    /\ x.time >= 2 * now /\ calledAt[x.event] = Never

\* No entry of the real-time heap is late, nor is what follows a pour.
EntriesRight ==
    \A x \in Range(rtHeap) : /\ x.what = "start" => StartRight(x)
                             /\ x.what = "pour" => PourRight(x)
                             /\ x.what = "event" => EventRight(x)

PouringInTime ==
    pouring # NoAction =>
        \A y \in Range(content[pouring.heap]) : y.time + 2 * offset[pouring.heap] >= 2 * now

\* What is still in a temporary heap comes after what was poured.
PouredFirst ==
    \A a \in Holding["rtHeap"] \cup Holding["rt"] :
        \A x \in Range(rtHeap) : \A y \in Range(content[a.heap]) :
            IsEvent(x) /\ x.event[1] = a.schedule => Before(x.event, y.event)

Calm == /\ NoFlush /\ QueuesOrdered /\ HeapsApart /\ BodyDone /\ ContentsRight /\ StartsRight
        /\ EntriesRight /\ PouringInTime /\ PouredFirst /\ NoEventLost /\ CalledOnTime

ScheduleInv == StateTyped /\ (Flushed \/ Calm)

\* While a schedule is poured its events of this tick are called.
CaughtUp ==
    pouring # NoAction =>
        \A x \in Range(rtHeap) : IsEvent(x) /\ x.event[1] = pouring.schedule => x.time > 2 * now + 1

\* In whole samples the events of a schedule are called in their order.
OrderInv == ScheduleInv /\ (Flushed \/ (CaughtUp /\ CalledInOrder))

-----------------------------------------------------------------------------
(* Sequences *)

\* A set of numbers that is not empty has a smallest one.
LEMMA MinIsFirst ==
    ASSUME NEW S, S \subseteq Nat, S # {}
    PROVE  Min(S) \in S /\ \A y \in S : Min(S) <= y
<1>1. PICK m \in S : \A j \in S : ~(<<j, m>> \in OpToRel(<, Nat))
  BY NatLessThanWellFounded, WFMin
<1>2. \A j \in S : ~(j < m)
  BY <1>1 DEF OpToRel
<1>3. \E x \in S : \A y \in S : x <= y
  BY <1>2
<1>. QED BY <1>3, Zenon DEF Min

\* Where the elements of two sequences are in their concatenation.
LEMMA ConcatParts ==
    ASSUME NEW E, NEW q \in Seq(E), NEW u \in Seq(E), NEW t, t = q \o u
    PROVE  /\ t \in Seq(E) /\ Len(t) = Len(q) + Len(u)
           /\ \A k \in 1 .. Len(q) : t[k] = q[k]
           /\ \A k \in 1 .. Len(u) : t[Len(q) + k] = u[k]
<1>2. /\ t \in Seq(E) /\ Len(t) = Len(q) + Len(u)
      /\ \A i \in 1 .. Len(q) + Len(u) : t[i] = IF i <= Len(q) THEN q[i] ELSE u[i - Len(q)]
  BY ConcatProperties, Zenon
<1>3. Len(q) \in Nat /\ Len(u) \in Nat
  BY LenProperties
<1>4. \A k \in 1 .. Len(q) : t[k] = q[k]
  BY <1>2, <1>3
<1>5. \A k \in 1 .. Len(u) : t[Len(q) + k] = u[k]
  BY <1>2, <1>3
<1>. QED BY <1>2, <1>4, <1>5

Timed(E) == \A x \in E : x.time \in Nat

\* t is q with x before the first later entry.
Inserted(q, x, t) ==
    \E i \in 1 .. Len(q) + 1 :
        /\ Len(t) = Len(q) + 1 /\ t[i] = x
        /\ \A k \in 1 .. i - 1 : t[k] = q[k] /\ q[k].time <= x.time
        /\ \A k \in i .. Len(q) : t[k + 1] = q[k]
        /\ i <= Len(q) => q[i].time > x.time

\* schedule-at puts an entry behind the last one that is not later.
LEMMA InsertPlace ==
    ASSUME NEW E, Timed(E), NEW q \in Seq(E), NEW x \in E
    PROVE  Insert(q, x) \in Seq(E) /\ Inserted(q, x, Insert(q, x))
<1> DEFINE later == {k \in 1 .. Len(q) + 1 : k <= Len(q) => q[k].time > x.time}
<1>1. Len(q) \in Nat /\ \A k \in 1 .. Len(q) : q[k] \in E
  OBVIOUS
<1>2. later \subseteq Nat /\ later # {}
  <2>1. Len(q) + 1 \in later
    BY <1>1
  <2>. QED BY <2>1
<1>3. PICK i : i = Min(later)
  OBVIOUS
<1>4. i \in later /\ \A y \in later : i <= y
  <2> HIDE DEF later
  <2>. QED BY <1>2, <1>3, MinIsFirst
<1>5. i \in 1 .. Len(q) + 1 /\ (i <= Len(q) => q[i].time > x.time)
  BY <1>4
<1>6. \A k \in 1 .. i - 1 : q[k].time <= x.time
  <2> SUFFICES ASSUME NEW k \in 1 .. i - 1 PROVE q[k].time <= x.time
    OBVIOUS
  <2>1. k \notin later /\ k \in 1 .. Len(q)
    BY <1>1, <1>4, <1>5
  <2>2. q[k].time \in Nat /\ x.time \in Nat
    BY <1>1, <2>1 DEF Timed
  <2>. QED BY <2>1, <2>2
<1>7. PICK front : front = SubSeq(q, 1, i - 1)
  OBVIOUS
<1>8. PICK rest : rest = SubSeq(q, i, Len(q))
  OBVIOUS
<1>9. /\ front \in Seq(E) /\ Len(front) = i - 1
      /\ \A k \in 1 .. i - 1 : front[k] = q[k]
  BY <1>1, <1>5, <1>7
<1>10. /\ rest \in Seq(E) /\ Len(rest) = Len(q) - i + 1
       /\ \A k \in 1 .. Len(q) - i + 1 : rest[k] = q[i + k - 1]
  BY <1>1, <1>5, <1>8
<1>11. PICK t : t = (front \o <<x>>) \o rest
  OBVIOUS
<1>12. Insert(q, x) = t
  BY <1>3, <1>7, <1>8, <1>11 DEF Insert, InsertAt
<1>13. PICK ft : ft = front \o <<x>>
  OBVIOUS
<1>14. /\ ft \in Seq(E) /\ Len(ft) = i /\ ft[i] = x
       /\ \A k \in 1 .. i - 1 : ft[k] = q[k]
  <2>1. <<x>> \in Seq(E) /\ Len(<<x>>) = 1 /\ <<x>>[1] = x
    OBVIOUS
  <2>2. /\ ft \in Seq(E) /\ Len(ft) = Len(front) + 1
        /\ \A k \in 1 .. Len(front) : ft[k] = front[k]
    BY <1>9, <1>13, <2>1, ConcatProperties
  <2>3. ft[Len(front) + 1] = x
    BY <1>9, <1>13, <2>1
  <2>. QED BY <1>5, <1>9, <2>2, <2>3
<1>15. /\ t \in Seq(E) /\ Len(t) = Len(q) + 1
       /\ \A k \in 1 .. i : t[k] = ft[k]
  <2>1. t = ft \o rest
    BY <1>11, <1>13
  <2>2. t \in Seq(E) /\ Len(t) = Len(ft) + Len(rest) /\ \A k \in 1 .. Len(ft) : t[k] = ft[k]
    BY <1>10, <1>14, <2>1, ConcatParts
  <2>. QED BY <1>1, <1>5, <1>10, <1>14, <2>2
<1>16. \A k \in i .. Len(q) : t[k + 1] = q[k]
  <2> SUFFICES ASSUME NEW k \in i .. Len(q) PROVE t[k + 1] = q[k]
    OBVIOUS
  <2>1. t = ft \o rest
    BY <1>11, <1>13
  <2>2. PICK m : m = k - i + 1
    OBVIOUS
  <2>3. m \in 1 .. Len(rest) /\ k + 1 = Len(ft) + m /\ i + m - 1 = k
    BY <1>1, <1>5, <1>10, <1>14, <2>2
  <2>4. t[Len(ft) + m] = rest[m]
    <3>1. ft \in Seq(E) /\ rest \in Seq(E)
      BY <1>10, <1>14
    <3>2. \A l \in 1 .. Len(rest) : t[Len(ft) + l] = rest[l]
      BY <2>1, <3>1, ConcatParts
    <3>. QED BY <2>1, <2>3, <3>2
  <2>. QED BY <1>10, <2>3, <2>4
<1>17. Inserted(q, x, t)
  BY <1>5, <1>6, <1>14, <1>15, <1>16 DEF Inserted
<1>. QED BY <1>12, <1>15, <1>17

\* The entries of a heap after schedule-at.
LEMMA InsertRange ==
    ASSUME NEW E, Timed(E), NEW q \in Seq(E), NEW x \in E
    PROVE  Insert(q, x) \in Seq(E) /\ Range(Insert(q, x)) = Range(q) \cup {x}
<1>1. PICK t : t = Insert(q, x)
  OBVIOUS
<1>2. t \in Seq(E) /\ Inserted(q, x, t)
  BY <1>1, InsertPlace
<1>3. PICK i \in 1 .. Len(q) + 1 :
        /\ Len(t) = Len(q) + 1 /\ t[i] = x
        /\ \A k \in 1 .. i - 1 : t[k] = q[k]
        /\ \A k \in i .. Len(q) : t[k + 1] = q[k]
  BY <1>2 DEF Inserted
<1>4. DOMAIN t = 1 .. Len(q) + 1 /\ DOMAIN q = 1 .. Len(q) /\ Len(q) \in Nat
  BY <1>2, <1>3
<1>5. ASSUME NEW k \in DOMAIN t PROVE t[k] \in Range(q) \cup {x}
  <2>1. CASE k < i
    <3>1. k \in 1 .. i - 1 /\ k \in DOMAIN q
      BY <1>3, <1>4, <2>1
    <3>. QED BY <1>3, <3>1 DEF Range
  <2>2. CASE k = i
    BY <1>3, <2>2
  <2>3. CASE k > i
    <3>1. PICK m : m = k - 1
      OBVIOUS
    <3>2. m \in i .. Len(q) /\ m \in DOMAIN q /\ k = m + 1
      BY <1>3, <1>4, <2>3, <3>1
    <3>. QED BY <1>3, <3>2 DEF Range
  <2>. QED BY <1>3, <1>4, <2>1, <2>2, <2>3
<1>6. ASSUME NEW k \in DOMAIN q PROVE q[k] \in Range(t)
  <2>1. CASE k < i
    <3>1. k \in 1 .. i - 1 /\ k \in DOMAIN t
      BY <1>3, <1>4, <2>1
    <3>. QED BY <1>3, <3>1 DEF Range
  <2>2. CASE k >= i
    <3>1. PICK m : m = k + 1
      OBVIOUS
    <3>2. k \in i .. Len(q) /\ m \in DOMAIN t /\ t[m] = q[k]
      BY <1>3, <1>4, <2>2, <3>1
    <3>. QED BY <3>2 DEF Range
  <2>. QED BY <1>3, <1>4, <2>1, <2>2
<1>7. x \in Range(t)
  BY <1>3, <1>4 DEF Range
<1>8. Range(t) \subseteq Range(q) \cup {x}
  BY <1>5 DEF Range
<1>9. Range(q) \subseteq Range(t)
  BY <1>6 DEF Range
<1>. QED BY <1>1, <1>2, <1>7, <1>8, <1>9

\* schedule-at keeps the order of a heap that is ordered.
LEMMA InsertOrdered ==
    ASSUME NEW E, Timed(E), NEW q \in Seq(E), NEW x \in E, Ordered(q),
           \A y \in Range(q) : /\ y.time <= x.time => Fine(y, x)
                               /\ y.time > x.time => Fine(x, y)
    PROVE  Ordered(Insert(q, x))
<1>1. PICK t : t = Insert(q, x)
  OBVIOUS
<1>2. t \in Seq(E) /\ Inserted(q, x, t)
  BY <1>1, InsertPlace
<1>3. PICK i \in 1 .. Len(q) + 1 :
        /\ Len(t) = Len(q) + 1 /\ t[i] = x
        /\ \A k \in 1 .. i - 1 : t[k] = q[k] /\ q[k].time <= x.time
        /\ \A k \in i .. Len(q) : t[k + 1] = q[k]
        /\ i <= Len(q) => q[i].time > x.time
  BY <1>2 DEF Inserted
<1>4. DOMAIN t = 1 .. Len(q) + 1 /\ DOMAIN q = 1 .. Len(q) /\ Len(q) \in Nat
  BY <1>2, <1>3
<1>5. \A k \in DOMAIN q : q[k] \in E /\ q[k] \in Range(q) /\ q[k].time \in Nat
  BY <1>4 DEF Range, Timed
<1>6. x.time \in Nat
  BY DEF Timed
<1>7. ASSUME NEW k \in i .. Len(q) PROVE q[k].time > x.time
  <2>1. k \in DOMAIN q /\ i \in DOMAIN q /\ q[i].time > x.time
    BY <1>3, <1>4
  <2>2. CASE k = i
    BY <2>1, <2>2
  <2>3. CASE k # i
    <3>1. Fine(q[i], q[k])
      BY <1>3, <1>4, <2>1, <2>3 DEF Ordered
    <3>2. q[i].time <= q[k].time
      BY <3>1 DEF Fine
    <3>. QED BY <1>5, <1>6, <2>1, <3>2
  <2>. QED BY <2>2, <2>3
<1>8. ASSUME NEW j \in DOMAIN t, NEW k \in DOMAIN t, j < k PROVE Fine(t[j], t[k])
  <2>1. CASE k < i
    <3>1. j \in 1 .. i - 1 /\ k \in 1 .. i - 1 /\ j \in DOMAIN q /\ k \in DOMAIN q
      BY <1>3, <1>4, <1>8, <2>1
    <3>. QED BY <1>3, <1>8, <3>1 DEF Ordered
  <2>2. CASE k = i
    <3>1. j \in 1 .. i - 1 /\ j \in DOMAIN q
      BY <1>3, <1>4, <1>8, <2>2
    <3>. QED BY <1>3, <1>5, <2>2, <3>1
  <2>3. CASE k > i
    <3>1. PICK m : m = k - 1
      OBVIOUS
    <3>2. m \in i .. Len(q) /\ m \in DOMAIN q /\ k = m + 1
      BY <1>3, <1>4, <2>3, <3>1
    <3>3. t[k] = q[m] /\ q[m].time > x.time
      BY <1>3, <1>7, <3>2
    <3>4. CASE j < i
      <4>1. j \in 1 .. i - 1 /\ j \in DOMAIN q /\ j < m
        BY <1>3, <1>4, <3>2, <3>4
      <4>. QED BY <1>3, <3>2, <3>3, <4>1 DEF Ordered
    <3>5. CASE j = i
      BY <1>3, <1>5, <3>2, <3>3, <3>5
    <3>6. CASE j > i
      <4>1. PICK l : l = j - 1
        OBVIOUS
      <4>2. l \in i .. Len(q) /\ l \in DOMAIN q /\ j = l + 1 /\ l < m
        BY <1>3, <1>4, <1>8, <3>2, <3>6, <4>1
      <4>3. t[j] = q[l]
        BY <1>3, <4>2
      <4>. QED BY <3>2, <3>3, <4>2, <4>3 DEF Ordered
    <3>. QED BY <1>3, <1>4, <3>4, <3>5, <3>6
  <2>. QED BY <1>3, <1>4, <2>1, <2>2, <2>3
<1>. QED BY <1>1, <1>8 DEF Ordered

\* What is left when the first entry is taken.
LEMMA TailRange ==
    ASSUME NEW E, NEW q \in Seq(E), q # <<>>
    PROVE  /\ Tail(q) \in Seq(E) /\ Head(q) \in E /\ Head(q) \in Range(q)
           /\ Range(q) = Range(Tail(q)) \cup {Head(q)}
<1>1. PICK t : t = Tail(q)
  OBVIOUS
<1>2. PICK n : n = Len(q)
  OBVIOUS
<1>3. /\ n \in Nat \ {0} /\ DOMAIN q = 1 .. n /\ t \in Seq(E) /\ DOMAIN t = 1 .. n - 1
      /\ Head(q) = q[1] /\ Head(q) \in E
      /\ \A k \in 1 .. n - 1 : t[k] = q[k + 1]
  <2>1. n \in Nat \ {0} /\ DOMAIN q = 1 .. n /\ Head(q) = q[1]
    BY <1>2, EmptySeq
  <2>2. t \in Seq(E) /\ Len(t) = n - 1 /\ \A k \in 1 .. n - 1 : t[k] = q[k + 1]
    BY <1>1, <1>2, <2>1, HeadTailProperties
  <2>. QED BY <2>1, <2>2
<1>4. ASSUME NEW k \in DOMAIN q PROVE q[k] \in Range(t) \cup {Head(q)}
  <2>1. CASE k = 1
    BY <1>3, <2>1
  <2>2. CASE k # 1
    <3>1. PICK m : m = k - 1
      OBVIOUS
    <3>2. m \in DOMAIN t /\ t[m] = q[k]
      BY <1>3, <2>2, <3>1
    <3>. QED BY <3>2 DEF Range
  <2>. QED BY <2>1, <2>2
<1>5. ASSUME NEW k \in DOMAIN t PROVE t[k] \in Range(q)
  <2>1. PICK m : m = k + 1
    OBVIOUS
  <2>2. m \in DOMAIN q /\ t[k] = q[m]
    BY <1>3, <2>1
  <2>. QED BY <2>2 DEF Range
<1>6. Head(q) \in Range(q)
  BY <1>3 DEF Range
<1>7. Range(q) \subseteq Range(t) \cup {Head(q)}
  BY <1>4 DEF Range
<1>8. Range(t) \subseteq Range(q)
  BY <1>5 DEF Range
<1>. QED BY <1>1, <1>3, <1>6, <1>7, <1>8

\* The first entry of an ordered heap may stand before all the others.
LEMMA TailOrdered ==
    ASSUME NEW E, NEW q \in Seq(E), q # <<>>, Ordered(q)
    PROVE  Ordered(Tail(q)) /\ \A y \in Range(Tail(q)) : Fine(Head(q), y)
<1>1. PICK t : t = Tail(q)
  OBVIOUS
<1>2. PICK n : n = Len(q)
  OBVIOUS
<1>3. /\ n \in Nat \ {0} /\ DOMAIN q = 1 .. n /\ DOMAIN t = 1 .. n - 1
      /\ Head(q) = q[1]
      /\ \A k \in 1 .. n - 1 : t[k] = q[k + 1]
  <2>1. n \in Nat \ {0} /\ DOMAIN q = 1 .. n /\ Head(q) = q[1]
    BY <1>2, EmptySeq
  <2>2. t \in Seq(E) /\ Len(t) = n - 1 /\ \A k \in 1 .. n - 1 : t[k] = q[k + 1]
    BY <1>1, <1>2, <2>1, HeadTailProperties
  <2>. QED BY <2>1, <2>2
<1>4. ASSUME NEW j \in DOMAIN t, NEW k \in DOMAIN t, j < k PROVE Fine(t[j], t[k])
  <2>1. PICK m, l : m = j + 1 /\ l = k + 1
    OBVIOUS
  <2>2. m \in DOMAIN q /\ l \in DOMAIN q /\ m < l /\ t[j] = q[m] /\ t[k] = q[l]
    BY <1>3, <1>4, <2>1
  <2>. QED BY <2>2 DEF Ordered
<1>5. ASSUME NEW k \in DOMAIN t PROVE Fine(Head(q), t[k])
  <2>1. PICK l : l = k + 1
    OBVIOUS
  <2>2. 1 \in DOMAIN q /\ l \in DOMAIN q /\ 1 < l /\ Head(q) = q[1] /\ t[k] = q[l]
    BY <1>3, <2>1
  <2>. QED BY <2>2 DEF Ordered
<1>. QED BY <1>1, <1>4, <1>5 DEF Ordered, Range

\* A queue with one more entry.
LEMMA AppendRange ==
    ASSUME NEW E, NEW q \in Seq(E), NEW x \in E
    PROVE  Append(q, x) \in Seq(E) /\ Range(Append(q, x)) = Range(q) \cup {x}
<1>1. PICK t : t = Append(q, x)
  OBVIOUS
<1>2. PICK n : n = Len(q)
  OBVIOUS
<1>3. /\ n \in Nat /\ DOMAIN q = 1 .. n /\ t \in Seq(E) /\ DOMAIN t = 1 .. n + 1
      /\ \A k \in 1 .. n : t[k] = q[k]
      /\ t[n + 1] = x
  BY <1>1, <1>2, AppendProperties
<1>4. \A k \in DOMAIN t : t[k] \in Range(q) \cup {x}
  BY <1>3 DEF Range
<1>5. \A k \in DOMAIN q : q[k] \in Range(t)
  BY <1>3 DEF Range
<1>6. x \in Range(t)
  <2>1. n + 1 \in DOMAIN t
    BY <1>3
  <2>. QED BY <1>3, <2>1 DEF Range
<1>7. Range(t) \subseteq Range(q) \cup {x}
  BY <1>4 DEF Range
<1>8. Range(q) \subseteq Range(t)
  BY <1>5 DEF Range
<1>. QED BY <1>1, <1>3, <1>6, <1>7, <1>8

LEMMA AppendOrdered ==
    ASSUME NEW E, NEW q \in Seq(E), NEW x \in E, Ordered(q), \A y \in Range(q) : Fine(y, x)
    PROVE  Ordered(Append(q, x))
<1>1. PICK t : t = Append(q, x)
  OBVIOUS
<1>2. PICK n : n = Len(q)
  OBVIOUS
<1>3. /\ n \in Nat /\ DOMAIN q = 1 .. n /\ t \in Seq(E) /\ DOMAIN t = 1 .. n + 1
      /\ \A k \in 1 .. n : t[k] = q[k]
      /\ t[n + 1] = x
  BY <1>1, <1>2, AppendProperties
<1>4. ASSUME NEW j \in DOMAIN t, NEW k \in DOMAIN t, j < k PROVE Fine(t[j], t[k])
  <2>1. j \in DOMAIN q /\ t[j] = q[j]
    BY <1>3, <1>4
  <2>2. CASE k = n + 1
    BY <1>3, <2>1, <2>2 DEF Range
  <2>3. CASE k # n + 1
    <3>1. k \in DOMAIN q /\ t[k] = q[k]
      BY <1>3, <2>3
    <3>. QED BY <1>4, <2>1, <3>1 DEF Ordered
  <2>. QED BY <2>2, <2>3
<1>. QED BY <1>1, <1>4 DEF Ordered

LEMMA EmptyRange == Range(<<>>) = {} /\ Ordered(<<>>) /\ Acts(<<>>) = {}
BY DEF Range, Ordered, Acts

\* The actions of a queue with one more entry, and without its first one.
LEMMA ActsAdd ==
    ASSUME NEW q, NEW t, NEW x, Range(t) = Range(q) \cup {x}
    PROVE  Acts(t) = Acts(q) \cup ({x.action} \ {NoAction})
BY DEF Acts

LEMMA ActsTail ==
    ASSUME NEW E, NEW q \in Seq(E), q # <<>>, Ordered(q)
    PROVE  Acts(Tail(q)) = Acts(q) \ {Head(q).action}
<1>1. PICK R, S, x : R = Range(q) /\ S = Range(Tail(q)) /\ x = Head(q)
  OBVIOUS
<1>2. R = S \cup {x} /\ \A y \in S : Fine(x, y)
  BY <1>1, TailRange, TailOrdered
<1>3. \A y \in S : y.action # NoAction => y.action # x.action
  BY <1>2 DEF Fine, Carries
<1>4. {y.action : y \in S} \ {NoAction} = ({y.action : y \in R} \ {NoAction}) \ {x.action}
  BY <1>2, <1>3
<1>. QED BY <1>1, <1>4 DEF Acts

\* An action in a queue is the action of an entry.
LEMMA ActsAre ==
    ASSUME NEW q
    PROVE  /\ \A x \in Range(q) : Carries(x) => x.action \in Acts(q)
           /\ \A a \in Acts(q) : a # NoAction /\ \E x \in Range(q) : Carries(x) /\ x.action = a
BY DEF Acts, Carries

-----------------------------------------------------------------------------
(* The pool *)

\* heap-pool-push
LEMMA PoolPush ==
    ASSUME NEW m \in Nat, NEW q \in Seq(1 .. m), NEW h \in 1 .. m
    PROVE  /\ <<h>> \o q \in Seq(1 .. m) /\ Range(<<h>> \o q) = Range(q) \cup {h}
           /\ (h \notin Range(q) /\ \A j, k \in DOMAIN q : q[j] = q[k] => j = k)
                => \A j, k \in DOMAIN (<<h>> \o q) : (<<h>> \o q)[j] = (<<h>> \o q)[k] => j = k
<1>1. PICK t : t = <<h>> \o q
  OBVIOUS
<1>2. PICK n : n = Len(q)
  OBVIOUS
<1>3. /\ n \in Nat /\ DOMAIN q = 1 .. n /\ t \in Seq(1 .. m) /\ DOMAIN t = 1 .. n + 1
      /\ t[1] = h /\ \A k \in 1 .. n : t[1 + k] = q[k]
  <2>1. <<h>> \in Seq(1 .. m) /\ Len(<<h>>) = 1 /\ <<h>>[1] = h
    OBVIOUS
  <2>2. /\ t \in Seq(1 .. m) /\ Len(t) = 1 + n /\ \A k \in 1 .. 1 : t[k] = <<h>>[k]
        /\ \A k \in 1 .. n : t[1 + k] = q[k]
    BY <1>1, <1>2, <2>1, ConcatParts
  <2>. QED BY <1>2, <2>1, <2>2
<1>4. ASSUME NEW k \in DOMAIN t PROVE k = 1 \/ (k - 1 \in DOMAIN q /\ t[k] = q[k - 1])
  <2>1. CASE k # 1
    <3>1. PICK l : l = k - 1
      OBVIOUS
    <3>2. l \in 1 .. n /\ k = 1 + l
      BY <1>3, <2>1, <3>1, SMTT(30)
    <3>. QED BY <1>3, <3>1, <3>2
  <2>. QED BY <2>1
<1>5. Range(t) = Range(q) \cup {h}
  <2>1. \A k \in DOMAIN t : t[k] \in Range(q) \cup {h}
    BY <1>3, <1>4 DEF Range
  <2>2. ASSUME NEW k \in DOMAIN q PROVE q[k] \in Range(t)
    <3>1. 1 + k \in DOMAIN t /\ t[1 + k] = q[k]
      BY <1>3
    <3>. QED BY <3>1 DEF Range
  <2>3. h \in Range(t)
    <3>1. 1 \in DOMAIN t /\ t[1] = h
      BY <1>3
    <3>. QED BY <3>1 DEF Range
  <2>4. Range(t) \subseteq Range(q) \cup {h}
    BY <2>1 DEF Range
  <2>5. Range(q) \subseteq Range(t)
    BY <2>2 DEF Range
  <2>. QED BY <2>3, <2>4, <2>5
<1>6. ASSUME h \notin Range(q), \A j, k \in DOMAIN q : q[j] = q[k] => j = k,
             NEW j \in DOMAIN t, NEW k \in DOMAIN t, t[j] = t[k]
      PROVE  j = k
  <2>1. \A l \in DOMAIN q : q[l] # h
    BY <1>6 DEF Range
  <2>2. j = 1 <=> k = 1
    BY <1>3, <1>4, <1>6, <2>1
  <2>3. CASE j # 1
    <3>1. j - 1 \in DOMAIN q /\ k - 1 \in DOMAIN q /\ q[j - 1] = q[k - 1]
      BY <1>4, <1>6, <2>2, <2>3
    <3>2. j - 1 = k - 1
      BY <1>6, <3>1
    <3>. QED BY <1>3, <3>2
  <2>. QED BY <2>2, <2>3
<1>. QED BY <1>1, <1>3, <1>5, <1>6

\* heap-pool-pop of a pool that is not empty
LEMMA PoolPop ==
    ASSUME NEW m \in Nat, NEW q \in Seq(1 .. m), q # <<>>
    PROVE  /\ Tail(q) \in Seq(1 .. m) /\ Head(q) \in 1 .. m
           /\ Range(q) = Range(Tail(q)) \cup {Head(q)}
           /\ (\A j, k \in DOMAIN q : q[j] = q[k] => j = k)
                => /\ Head(q) \notin Range(Tail(q))
                   /\ \A j, k \in DOMAIN Tail(q) : Tail(q)[j] = Tail(q)[k] => j = k
<1>1. PICK t : t = Tail(q)
  OBVIOUS
<1>2. PICK n : n = Len(q)
  OBVIOUS
<1>3. /\ n \in Nat \ {0} /\ DOMAIN q = 1 .. n /\ DOMAIN t = 1 .. n - 1
      /\ Head(q) = q[1] /\ \A k \in 1 .. n - 1 : t[k] = q[k + 1]
  <2>1. n \in Nat \ {0} /\ DOMAIN q = 1 .. n /\ Head(q) = q[1]
    BY <1>2, EmptySeq
  <2>2. t \in Seq(1 .. m) /\ Len(t) = n - 1 /\ \A k \in 1 .. n - 1 : t[k] = q[k + 1]
    BY <1>1, <1>2, <2>1, HeadTailProperties
  <2>. QED BY <2>1, <2>2
<1>4. t \in Seq(1 .. m) /\ Head(q) \in 1 .. m /\ Range(q) = Range(t) \cup {Head(q)}
  BY <1>1, TailRange
<1>5. ASSUME \A j, k \in DOMAIN q : q[j] = q[k] => j = k
      PROVE  /\ Head(q) \notin Range(t)
             /\ \A j, k \in DOMAIN t : t[j] = t[k] => j = k
  <2>1. ASSUME NEW k \in DOMAIN t PROVE t[k] # Head(q)
    <3>1. 1 \in DOMAIN q /\ k + 1 \in DOMAIN q /\ k + 1 # 1 /\ t[k] = q[k + 1]
      BY <1>3
    <3>. QED BY <1>3, <1>5, <3>1
  <2>2. ASSUME NEW j \in DOMAIN t, NEW k \in DOMAIN t, t[j] = t[k] PROVE j = k
    <3>1. /\ j \in 1 .. n - 1 /\ k \in 1 .. n - 1
          /\ j + 1 \in DOMAIN q /\ k + 1 \in DOMAIN q /\ t[j] = q[j + 1] /\ t[k] = q[k + 1]
      <4>1. j \in 1 .. n - 1 /\ k \in 1 .. n - 1
        BY <1>3
      <4>2. j + 1 \in 1 .. n /\ k + 1 \in 1 .. n
        BY <1>3, <4>1
      <4>3. t[j] = q[j + 1] /\ t[k] = q[k + 1]
        BY <1>3, <4>1
      <4>. QED BY <1>3, <4>1, <4>2, <4>3
    <3>2. j + 1 = k + 1
      BY <1>5, <2>2, <3>1
    <3>. QED BY <1>3, <3>2
  <2>. QED BY <2>1, <2>2 DEF Range
<1>. QED BY <1>1, <1>4, <1>5

-----------------------------------------------------------------------------
(* Actions on their way *)

\* The same actions, wherever they are.
SameActions(held, left) ==
    /\ \A p \in Places : \A a \in left[p] : \E q \in Places : a \in held[q]
    /\ \A p \in Places : \A a \in held[p] : \E q \in Places : a \in left[q]

\* The action a goes from one place to another.
Moves(held, left, from, to, a) ==
    /\ from \in Places /\ to \in Places /\ from # to
    /\ a \in held[from]
    /\ left[from] = held[from] \ {a} /\ left[to] = held[to] \cup {a}
    /\ \A p \in Places : p \notin {from, to} => left[p] = held[p]

LEMMA Moved ==
    ASSUME NEW held, NEW left, NEW from, NEW to, NEW a, Distinct(held),
           Moves(held, left, from, to, a)
    PROVE  Distinct(left) /\ SameActions(held, left)
<1>1. SameActions(held, left)
  BY DEF Moves, SameActions
<1>2. ASSUME NEW p \in Places, NEW q \in Places, NEW b \in left[p], NEW c \in left[q],
             p # q \/ b # c
      PROVE  b.heap # c.heap /\ b.schedule # c.schedule
  <2>1. CASE b \in held[p] /\ c \in held[q]
    BY <1>2, <2>1 DEF Distinct
  <2>2. CASE b \notin held[p]
    <3>1. b = a /\ p = to /\ a \in held[from]
      BY <2>2 DEF Moves
    <3>2. CASE c \notin held[q]
      BY <1>2, <3>1, <3>2 DEF Moves
    <3>3. CASE c \in held[q]
      <4>1. from # q \/ a # c
        BY <1>2, <3>1 DEF Moves
      <4>. QED BY <3>1, <3>3, <4>1 DEF Distinct, Moves
    <3>. QED BY <3>2, <3>3
  <2>3. CASE c \notin held[q] /\ b \in held[p]
    <3>1. c = a /\ q = to /\ a \in held[from]
      BY <2>3 DEF Moves
    <3>2. from # p \/ a # b
      BY <1>2, <3>1 DEF Moves
    <3>. QED BY <2>3, <3>1, <3>2 DEF Distinct, Moves
  <2>. QED BY <2>1, <2>2, <2>3
<1>. QED BY <1>1, <1>2 DEF Distinct

-----------------------------------------------------------------------------
(* Types *)

\* What an event and an entry are made of.
LEMMA EventsAre ==
    /\ Schedules = 1 .. Len(Bodies) /\ Len(Bodies) \in Nat /\ Schedules \subseteq Nat
    /\ \A s \in Schedules : Len(Bodies[s]) \in Nat /\ DOMAIN Bodies[s] = 1 .. Len(Bodies[s])
    /\ \A s \in Schedules : \A i \in 1 .. Len(Bodies[s]) : <<s, i>> \in Events
    /\ \A e \in Events : /\ e[1] \in Schedules /\ e[2] \in 1 .. Len(Bodies[e[1]])
                         /\ e = <<e[1], e[2]>> /\ Rel(e) \in Nat
    /\ NoEvent \notin Events
<1>1. /\ Schedules = 1 .. Len(Bodies) /\ Len(Bodies) \in Nat /\ Schedules \subseteq Nat
  BY BodiesAssumption DEF Schedules
<1>2. \A s \in Schedules : Bodies[s] \in Seq(Nat)
  BY <1>1, BodiesAssumption
<1>3. \A s \in Schedules : Len(Bodies[s]) \in Nat /\ DOMAIN Bodies[s] = 1 .. Len(Bodies[s])
  BY <1>2
<1>4. \A s \in Schedules : \A i \in 1 .. Len(Bodies[s]) : <<s, i>> \in Events
  BY <1>3 DEF Events
<1>5. ASSUME NEW e \in Events
      PROVE  /\ e[1] \in Schedules /\ e[2] \in 1 .. Len(Bodies[e[1]])
             /\ e = <<e[1], e[2]>> /\ Rel(e) \in Nat
  <2>1. PICK s \in Schedules : e \in {s} \X DOMAIN Bodies[s]
    BY DEF Events
  <2>2. PICK i \in DOMAIN Bodies[s] : e = <<s, i>>
    BY <2>1
  <2>3. Bodies[s][i] \in Nat
    BY <1>2, <1>3, <2>2
  <2>. QED BY <1>3, <2>2, <2>3 DEF Rel
<1>6. NoEvent \notin Events
  BY <1>1, <1>5 DEF NoEvent
<1>. QED BY <1>1, <1>3, <1>4, <1>5, <1>6

LEMMA EventEntryIs ==
    ASSUME NEW t \in Nat, NEW e \in Events, NEW x, x = EventEntry(t, e)
    PROVE  /\ x \in EventEntries /\ x.time = t /\ x.what = "event" /\ x.event = e
           /\ x.action = NoAction
<1>1. NoAction \in [heap : Nat, schedule : Nat]
  BY DEF NoAction
<1>. QED BY <1>1 DEF EventEntry, EventEntries, Shape

LEMMA PourEntryIs ==
    ASSUME NEW m \in Nat, NEW t \in Nat, NEW w \in {"start", "pour", "end"}, NEW a \in Actions(m),
           NEW x, x = PourEntry(t, w, a)
    PROVE  /\ x \in Carriers(m, {w}) /\ x.time = t /\ x.what = w /\ x.action = a
           /\ x.event = NoEvent
<1>1. a \in [heap : Nat, schedule : Nat]
  BY EventsAre DEF Actions
<1>2. x.time = t /\ x.what = w /\ x.action = a /\ x.event = NoEvent
  BY DEF PourEntry
<1>3. x \in Shape
  BY <1>1 DEF PourEntry, Shape
<1>. QED BY <1>2, <1>3 DEF Carriers

LEMMA FlushEntryIs == FlushEntry \in FlushEntries
<1>1. NoAction \in [heap : Nat, schedule : Nat]
  BY DEF NoAction
<1>. QED BY <1>1 DEF FlushEntry, FlushEntries, PourEntry, Shape

LEMMA EntriesTimed ==
    ASSUME NEW m
    PROVE  /\ Timed(RtEntries(m)) /\ Timed(EventEntries)
           /\ EventEntries \subseteq RtEntries(m)
           /\ Carriers(m, {"start"}) \subseteq RtEntries(m)
           /\ Carriers(m, {"pour"}) \subseteq RtEntries(m)
           /\ Carriers(m, {"start"}) \subseteq ToRtEntries(m)
           /\ Carriers(m, {"end"}) \subseteq ToNrtEntries(m)
           /\ FlushEntries \subseteq ToRtEntries(m) /\ FlushEntries \subseteq ToNrtEntries(m)
BY DEF Timed, RtEntries, EventEntries, Carriers, Shape, ToRtEntries, ToNrtEntries

\* What the fields of the entries say.
LEMMA EntriesAre ==
    ASSUME NEW m \in Nat
    PROVE  /\ \A x \in RtEntries(m) :
                 /\ x.time \in Nat /\ x.what \in {"event", "start", "pour"}
                 /\ x.what = "event" => x.event \in Events /\ x.action = NoAction
                 /\ x.what # "event" => x.event = NoEvent /\ x.action \in Actions(m)
           /\ \A x \in ToRtEntries(m) :
                 /\ x.time \in Nat /\ x.what \in {"start", "flush"} /\ x.event = NoEvent
                 /\ x.what = "start" => x.action \in Actions(m)
                 /\ x.what = "flush" => x.action = NoAction
                 /\ x.what = "start" => x \in RtEntries(m)
           /\ \A x \in ToNrtEntries(m) :
                 /\ x.time \in Nat /\ x.what \in {"end", "flush"} /\ x.event = NoEvent
                 /\ x.what = "end" => x.action \in Actions(m)
                 /\ x.what = "flush" => x.action = NoAction
           /\ \A x \in EventEntries :
                 x.time \in Nat /\ x.what = "event" /\ x.event \in Events /\ x.action = NoAction
           /\ NoAction \notin Actions(m)
           /\ \A a \in Actions(m) : a.heap \in 1 .. m /\ a.schedule \in Schedules
<1>1. NoAction \notin Actions(m)
  BY DEF NoAction, Actions
<1>2. \A a \in Actions(m) : a.heap \in 1 .. m /\ a.schedule \in Schedules
  BY DEF Actions
<1>. QED BY <1>1, <1>2 DEF RtEntries, EventEntries, Carriers, Shape, ToRtEntries, ToNrtEntries,
                          FlushEntries

\* A larger pool has more heaps.
LEMMA MoreHeaps ==
    ASSUME NEW m \in Nat, NEW n \in Nat, m <= n
    PROVE  /\ Actions(m) \subseteq Actions(n)
           /\ Seq(1 .. m) \subseteq Seq(1 .. n)
           /\ Seq(RtEntries(m)) \subseteq Seq(RtEntries(n))
           /\ Seq(ToRtEntries(m)) \subseteq Seq(ToRtEntries(n))
           /\ Seq(ToNrtEntries(m)) \subseteq Seq(ToNrtEntries(n))
<1>1. Actions(m) \subseteq Actions(n)
  <2>1. 1 .. m \subseteq 1 .. n
    OBVIOUS
  <2>. QED BY <2>1 DEF Actions
<1>2. /\ RtEntries(m) \subseteq RtEntries(n) /\ ToRtEntries(m) \subseteq ToRtEntries(n)
      /\ ToNrtEntries(m) \subseteq ToNrtEntries(n) /\ 1 .. m \subseteq 1 .. n
  <2>1. \A kinds : Carriers(m, kinds) \subseteq Carriers(n, kinds)
    BY <1>1 DEF Carriers
  <2>. QED BY <2>1 DEF RtEntries, ToRtEntries, ToNrtEntries
<1>3. \A S, T : S \subseteq T => Seq(S) \subseteq Seq(T)
  <2> SUFFICES ASSUME NEW S, NEW T, S \subseteq T, NEW q \in Seq(S) PROVE q \in Seq(T)
    OBVIOUS
  <2>1. Len(q) \in Nat /\ q \in [1 .. Len(q) -> S]
    OBVIOUS
  <2>2. q \in [1 .. Len(q) -> T]
    BY <2>1
  <2>. QED BY <2>1, <2>2, SeqDef
<1>. QED BY <1>1, <1>2, <1>3

\* What the bounds are.
LEMMA BoundsAre ==
    /\ MaxHeaps \in Nat /\ MaxNow \in Nat /\ Never \in Nat /\ Never > MaxNow
    /\ Heaps = 1 .. MaxHeaps
BY BoundsAssumption DEF Never, Heaps

LEMMA InitTyped == Init => StateTyped
<1> SUFFICES ASSUME Init PROVE StateTyped
  OBVIOUS
<1>1. PoolSize \in Nat /\ PoolSize <= MaxHeaps /\ MaxNow \in Nat /\ Never \in Nat
  BY BoundsAssumption DEF Never
<1>2. pool \in Seq(1 .. made) /\ made \in 0 .. MaxHeaps
  BY <1>1, SeqDef DEF Init
<1>3. /\ filled \in 0 .. made /\ current \in 0 .. Len(Bodies) /\ pouring.heap \in 0 .. made
      /\ now \in 0 .. MaxNow
  BY <1>1, EventsAre DEF Init, NoAction
<1>4. /\ startAt \in [Schedules -> 0 .. Never]
      /\ calledAt \in [Events -> 0 .. Never] /\ cancelled \subseteq Events /\ spared \subseteq Events
  BY <1>1 DEF Init
<1>5. /\ rtHeap \in Seq(RtEntries(made)) /\ toRt \in Seq(ToRtEntries(made))
      /\ toNrt \in Seq(ToNrtEntries(made)) /\ content \in [Heaps -> Seq(EventEntries)]
  BY DEF Init
<1>6. /\ offset \in [Heaps -> Nat] /\ pouring \in Actions(made) \cup {NoAction}
      /\ hooks \subseteq Actions(made) /\ cleanup \in [{"user", "nrt"} -> SUBSET Actions(made)]
      /\ flushing \in [{"user", "nrt"} -> BOOLEAN] /\ flushes \in Nat
      /\ filledTo \in Nat /\ filled = 0
  BY DEF Init
<1>. QED BY <1>2, <1>3, <1>4, <1>5, <1>6 DEF StateTyped, TypeOK

LEMMA HeapPoolPopTyped == ASSUME StateTyped, HeapPoolPop PROVE StateTyped'
<1>1. made \in Nat /\ made <= MaxHeaps /\ MaxHeaps \in Nat /\ current \in Nat
  BY BoundsAre, EventsAre DEF StateTyped, TypeOK
<1>2. /\ made' \in 0 .. MaxHeaps /\ made <= made' /\ filled' \in 1 .. made'
      /\ pool' \in Seq(1 .. made)
  <2>1. CASE pool = <<>>
    BY <1>1, <2>1 DEF HeapPoolPop, StateTyped, TypeOK
  <2>2. CASE pool # <<>>
    <3>1. pool \in Seq(1 .. made)
      BY DEF StateTyped, TypeOK
    <3>2. Tail(pool) \in Seq(1 .. made) /\ Head(pool) \in 1 .. made
      BY <1>1, <2>2, <3>1, PoolPop
    <3>3. made' = made /\ filled' = Head(pool) /\ pool' = Tail(pool)
      BY <2>2 DEF HeapPoolPop
    <3>. QED BY <1>1, <3>2, <3>3
  <2>. QED BY <2>1, <2>2
<1>3. /\ pool' \in Seq(1 .. made') /\ rtHeap' \in Seq(RtEntries(made'))
      /\ toRt' \in Seq(ToRtEntries(made')) /\ toNrt' \in Seq(ToNrtEntries(made'))
      /\ Actions(made) \subseteq Actions(made')
  <2>1. PICK n : n = made'
    OBVIOUS
  <2>2. n \in Nat /\ made <= n
    BY <1>1, <1>2, <2>1
  <2>. QED BY <1>1, <1>2, <2>1, <2>2, MoreHeaps DEF HeapPoolPop, StateTyped, rtVars, mail
<1>4. content' \in [Heaps -> Seq(EventEntries)] /\ offset' \in [Heaps -> Nat]
  <2>1. PICK f : f = filled'
    OBVIOUS
  <2>2. content' = [content EXCEPT ![f] = <<>>] /\ offset' = offset
    BY <2>1 DEF HeapPoolPop
  <2>3. <<>> \in Seq(EventEntries)
    OBVIOUS
  <2>. QED BY <2>2, <2>3 DEF StateTyped
<1>5. /\ pouring' \in Actions(made') \cup {NoAction} /\ hooks' \subseteq Actions(made')
      /\ cleanup' \in [{"user", "nrt"} -> SUBSET Actions(made')]
      /\ flushing' \in [{"user", "nrt"} -> BOOLEAN] /\ flushes' \in Nat
  BY <1>3 DEF HeapPoolPop, StateTyped, rtVars, flushVars
<1>6. /\ current' \in Schedules /\ current' \in 0 .. Len(Bodies) /\ filledTo' = 0
      /\ filledTo' <= Len(Bodies[current'])
  BY <1>1, EventsAre DEF HeapPoolPop
<1>7. /\ now' \in 0 .. MaxNow /\ startAt' \in [Schedules -> 0 .. Never]
      /\ calledAt' \in [Events -> 0 .. Never] /\ cancelled' \subseteq Events /\ spared' \subseteq Events
  BY DEF HeapPoolPop, StateTyped, TypeOK, rtVars, history
<1>8. pouring'.heap \in 0 .. made' /\ filled' \in 0 .. made'
  BY <1>1, <1>2 DEF HeapPoolPop, StateTyped, TypeOK, rtVars
<1>. QED BY <1>2, <1>3, <1>4, <1>5, <1>6, <1>7, <1>8 DEF StateTyped, TypeOK

LEMMA FillHeapTyped == ASSUME StateTyped, FillHeap PROVE StateTyped'
<1>1. current \in Schedules /\ filled \in Heaps /\ filledTo \in Nat
  <2>1. filled # 0 /\ filled \in 0 .. made /\ made \in 0 .. MaxHeaps
    BY DEF FillHeap, StateTyped, TypeOK
  <2>2. filled \in 1 .. MaxHeaps
    BY <2>1, BoundsAre
  <2>3. current \in Schedules /\ filledTo \in Nat
    BY <2>1, ZenonT(30) DEF StateTyped
  <2>. QED BY <2>2, <2>3, BoundsAre, ZenonT(30)
<1>2. PICK x : x = EventEntry(Bodies[current][filledTo'], <<current, filledTo'>>)
  OBVIOUS
<1>3. filledTo' = filledTo + 1 /\ filledTo' \in 1 .. Len(Bodies[current])
  BY <1>1, EventsAre DEF FillHeap
<1>4. <<current, filledTo'>> \in Events /\ Bodies[current][filledTo'] \in Nat
  BY <1>1, <1>3, EventsAre, BodiesAssumption
<1>5. x \in EventEntries
  BY <1>2, <1>4, EventEntryIs
<1>6. PICK q : q = content[filled]
  OBVIOUS
<1>7. q \in Seq(EventEntries) /\ Insert(q, x) \in Seq(EventEntries)
  <2>1. q \in Seq(EventEntries)
    BY <1>1, <1>6 DEF StateTyped
  <2>. QED BY <1>5, <2>1, EntriesTimed, InsertRange
<1>8. content' = [content EXCEPT ![filled] = Insert(q, x)]
  BY <1>2, <1>6 DEF FillHeap
<1>9. content' \in [Heaps -> Seq(EventEntries)]
  BY <1>1, <1>7, <1>8 DEF StateTyped
<1>10. filledTo' \in Nat /\ filledTo' <= Len(Bodies[current]) /\ current' = current
  BY <1>1, <1>3, EventsAre DEF FillHeap
<1>11. TypeOK'
  BY DEF FillHeap, StateTyped, TypeOK, rtVars, history
<1>. QED BY <1>1, <1>9, <1>10, <1>11 DEF FillHeap, StateTyped, rtVars, mail, flushVars

LEMMA SendHeapTyped == ASSUME StateTyped, SendHeap PROVE StateTyped'
<1>1. made \in Nat /\ current \in Schedules /\ filled \in 1 .. made
  BY BoundsAre DEF SendHeap, StateTyped, TypeOK
<1>2. PICK a : a = [heap |-> filled, schedule |-> current]
  OBVIOUS
<1>3. PICK x : x = PourEntry(0, "start", a)
  OBVIOUS
<1>4. a \in Actions(made)
  BY <1>1, <1>2 DEF Actions
<1>5. x \in ToRtEntries(made)
  BY <1>1, <1>3, <1>4, PourEntryIs, EntriesTimed
<1>6. toRt' = Append(toRt, x)
  BY <1>2, <1>3 DEF SendHeap
<1>7. toRt' \in Seq(ToRtEntries(made))
  <2>1. toRt \in Seq(ToRtEntries(made))
    BY DEF StateTyped
  <2>. QED BY <1>5, <1>6, <2>1, AppendRange
<1>8. 0 \in 0 .. made
  BY <1>1
<1>. QED BY <1>7, <1>8 DEF SendHeap, StateTyped, TypeOK, rtVars, flushVars, history

LEMMA UserFlushTyped == ASSUME StateTyped, UserFlush PROVE StateTyped'
<1>1. toRt' \in Seq(ToRtEntries(made))
  <2>1. toRt \in Seq(ToRtEntries(made)) /\ toRt' = Append(toRt, FlushEntry)
    BY DEF StateTyped, UserFlush
  <2>2. FlushEntry \in ToRtEntries(made)
    BY FlushEntryIs, EntriesTimed
  <2>. QED BY <2>1, <2>2, AppendRange
<1>2. flushes' \in Nat /\ cleanup' \in [{"user", "nrt"} -> SUBSET Actions(made)]
  BY DEF StateTyped, UserFlush
<1>3. flushing' \in [{"user", "nrt"} -> BOOLEAN]
  BY DEF StateTyped, UserFlush
<1>4. cancelled' \subseteq Events
  BY DEF StateTyped, TypeOK, UserFlush
<1>. QED BY <1>1, <1>2, <1>3, <1>4 DEF UserFlush, StateTyped, TypeOK, rtVars, userVars

\* What flush-pending of the rt-thread changes keeps its type.
LEMMA FlushInRtTyped ==
    ASSUME StateTyped, FlushInRt
    PROVE  /\ toNrt' \in Seq(ToNrtEntries(made)) /\ rtHeap' \in Seq(RtEntries(made))
           /\ flushes' \in Nat /\ cancelled' \subseteq Events
<1>1. toNrt' \in Seq(ToNrtEntries(made))
  <2>1. toNrt \in Seq(ToNrtEntries(made)) /\ toNrt' = Append(toNrt, FlushEntry)
    BY DEF StateTyped, FlushInRt
  <2>2. FlushEntry \in ToNrtEntries(made)
    BY FlushEntryIs, EntriesTimed
  <2>. QED BY <2>1, <2>2, AppendRange
<1>2. flushes' \in Nat /\ rtHeap' \in Seq(RtEntries(made))
  BY DEF StateTyped, FlushInRt
<1>3. cancelled' \subseteq Events
  BY DEF StateTyped, TypeOK, FlushInRt
<1>. QED BY <1>1, <1>2, <1>3

LEMMA RtFlushTyped == ASSUME StateTyped, RtFlush PROVE StateTyped'
BY FlushInRtTyped DEF RtFlush, FlushInRt, StateTyped, TypeOK, userVars

LEMMA RunHookTyped ==
    ASSUME StateTyped, NEW th \in {"user", "nrt"}, RunHook(th) PROVE StateTyped'
<1>1. PICK a \in cleanup[th] : /\ pool' = <<a.heap>> \o pool
                               /\ cleanup' = [cleanup EXCEPT ![th] = @ \ {a}]
  BY DEF RunHook
<1>2. a \in Actions(made) /\ made \in Nat /\ pool \in Seq(1 .. made)
  BY <1>1, BoundsAre DEF StateTyped, TypeOK
<1>3. pool' \in Seq(1 .. made)
  BY <1>1, <1>2, EntriesAre, PoolPush
<1>4. cleanup' \in [{"user", "nrt"} -> SUBSET Actions(made)]
  BY <1>1 DEF StateTyped
<1>. QED BY <1>3, <1>4 DEF RunHook, StateTyped, TypeOK, rtVars, mail, userVars, history

LEMMA ClearHooksTyped ==
    ASSUME StateTyped, NEW th \in {"user", "nrt"}, ClearHooks(th) PROVE StateTyped'
<1>1. flushing' \in [{"user", "nrt"} -> BOOLEAN] /\ hooks' \subseteq Actions(made)
  BY DEF ClearHooks, StateTyped
<1>. QED BY <1>1 DEF ClearHooks, StateTyped, TypeOK, rtVars, mail, userVars, history

LEMMA NrtEndActionTyped == ASSUME StateTyped, NrtEndAction PROVE StateTyped'
<1>1. toNrt \in Seq(ToNrtEntries(made)) /\ toNrt # <<>> /\ made \in Nat /\ pool \in Seq(1 .. made)
  BY BoundsAre DEF StateTyped, TypeOK, NrtEndAction
<1>2. Tail(toNrt) \in Seq(ToNrtEntries(made)) /\ Head(toNrt) \in ToNrtEntries(made)
  BY <1>1, TailRange
<1>3. PICK a : a = Head(toNrt).action
  OBVIOUS
<1>4. a \in Actions(made)
  BY <1>1, <1>2, <1>3, EntriesAre DEF NrtEndAction
<1>5. pool' \in Seq(1 .. made)
  BY <1>1, <1>3, <1>4, EntriesAre, PoolPush DEF NrtEndAction
<1>. QED BY <1>2, <1>5 DEF NrtEndAction, StateTyped, TypeOK, rtVars, userVars, flushVars, history

LEMMA NrtFlushTyped == ASSUME StateTyped, NrtFlush PROVE StateTyped'
<1>1. toNrt \in Seq(ToNrtEntries(made)) /\ toNrt # <<>>
  BY DEF StateTyped, NrtFlush
<1>2. Tail(toNrt) \in Seq(ToNrtEntries(made))
  BY <1>1, TailRange
<1>3. cleanup' \in [{"user", "nrt"} -> SUBSET Actions(made)]
  BY DEF StateTyped, NrtFlush
<1>4. flushing' \in [{"user", "nrt"} -> BOOLEAN]
  BY DEF StateTyped, NrtFlush
<1>. QED BY <1>2, <1>3, <1>4 DEF NrtFlush, StateTyped, TypeOK, rtVars, userVars, history

LEMMA RtReceiveTyped == ASSUME StateTyped, RtReceive PROVE StateTyped'
<1>1. /\ toRt \in Seq(ToRtEntries(made)) /\ toRt # <<>> /\ made \in Nat
      /\ rtHeap \in Seq(RtEntries(made))
  BY BoundsAre DEF StateTyped, TypeOK, RtReceive
<1>2. Tail(toRt) \in Seq(ToRtEntries(made)) /\ Head(toRt) \in ToRtEntries(made)
  BY <1>1, TailRange
<1>3. rtHeap' \in Seq(RtEntries(made))
  <2>1. CASE Head(toRt).what = "flush"
    BY <2>1 DEF RtReceive
  <2>2. CASE Head(toRt).what # "flush"
    <3>1. PICK x : x = Head(toRt)
      OBVIOUS
    <3>2. x \in RtEntries(made) /\ rtHeap' = Insert(rtHeap, x)
      BY <1>1, <1>2, <2>2, <3>1, EntriesAre DEF RtReceive
    <3>. QED BY <1>1, <3>2, EntriesTimed, InsertRange
  <2>. QED BY <2>1, <2>2
<1>. QED BY <1>2, <1>3 DEF RtReceive, StateTyped, TypeOK, userVars, flushVars, history

\* What is known of the first entry of the real-time heap.
LEMMA FirstOfRtHeap ==
    ASSUME StateTyped, rtHeap # <<>>
    PROVE  /\ made \in Nat /\ rtHeap \in Seq(RtEntries(made))
           /\ Tail(rtHeap) \in Seq(RtEntries(made)) /\ Head(rtHeap) \in RtEntries(made)
           /\ Range(rtHeap) = Range(Tail(rtHeap)) \cup {Head(rtHeap)}
<1>1. made \in Nat /\ rtHeap \in Seq(RtEntries(made))
  BY BoundsAre DEF StateTyped, TypeOK
<1>. QED BY <1>1, TailRange

LEMMA CallEventTyped == ASSUME StateTyped, CallEvent PROVE StateTyped'
<1>1. rtHeap' \in Seq(RtEntries(made))
  BY FirstOfRtHeap DEF CallEvent, RtDue
<1>2. PICK e : e = Head(rtHeap).event
  OBVIOUS
<1>3. calledAt' = [calledAt EXCEPT ![e] = now]
  BY <1>2 DEF CallEvent
<1>4. now \in 0 .. Never
  BY BoundsAre DEF StateTyped, TypeOK
<1>5. calledAt' \in [Events -> 0 .. Never]
  BY <1>3, <1>4 DEF StateTyped, TypeOK
<1>. QED BY <1>1, <1>5 DEF CallEvent, StateTyped, TypeOK, mail, userVars, flushVars

LEMMA StartPourTyped == ASSUME StateTyped, StartPour PROVE StateTyped'
<1>1. /\ made \in Nat /\ made <= MaxHeaps /\ Head(rtHeap) \in RtEntries(made)
      /\ rtHeap' \in Seq(RtEntries(made)) /\ MaxHeaps \in Nat
  BY FirstOfRtHeap, BoundsAre DEF StartPour, RtDue, StateTyped, TypeOK
<1>2. PICK a : a = Head(rtHeap).action
  OBVIOUS
<1>3. a \in Actions(made)
  BY <1>1, <1>2, EntriesAre DEF StartPour
<1>4. a.heap \in 1 .. made /\ a.schedule \in Schedules
  BY <1>1, <1>3, EntriesAre
<1>5. /\ pouring' = a /\ offset' = [offset EXCEPT ![a.heap] = now]
      /\ hooks' = hooks \cup {a} /\ startAt' = [startAt EXCEPT ![a.schedule] = now]
  BY <1>2 DEF StartPour
<1>6. now \in 0 .. Never /\ now \in Nat
  BY BoundsAre DEF StateTyped, TypeOK
<1>7. offset' \in [Heaps -> Nat]
  BY <1>5, <1>6 DEF StateTyped
<1>8. startAt' \in [Schedules -> 0 .. Never]
  BY <1>5, <1>6 DEF StateTyped, TypeOK
<1>9. hooks' \subseteq Actions(made) /\ pouring' \in Actions(made) \cup {NoAction}
  BY <1>3, <1>5 DEF StateTyped
<1>10. pouring'.heap \in 0 .. made
  BY <1>1, <1>4, <1>5
<1>. QED BY <1>1, <1>7, <1>8, <1>9, <1>10
         DEF StartPour, StateTyped, TypeOK, mail, userVars, flushVars

LEMMA ContinuePourTyped == ASSUME StateTyped, ContinuePour PROVE StateTyped'
<1>1. /\ made \in Nat /\ Head(rtHeap) \in RtEntries(made)
      /\ rtHeap' \in Seq(RtEntries(made))
  BY FirstOfRtHeap DEF ContinuePour, RtDue
<1>2. PICK a : a = Head(rtHeap).action
  OBVIOUS
<1>3. a \in Actions(made) /\ pouring' = a
  BY <1>1, <1>2, EntriesAre DEF ContinuePour
<1>4. pouring'.heap \in 0 .. made
  BY <1>1, <1>3, EntriesAre
<1>. QED BY <1>1, <1>3, <1>4
         DEF ContinuePour, StateTyped, TypeOK, mail, userVars, flushVars, history

\* What is known of the heap that is poured.
LEMMA PouredAre ==
    ASSUME StateTyped, pouring # NoAction
    PROVE  /\ made \in Nat /\ pouring \in Actions(made) /\ pouring.heap \in Heaps
           /\ pouring.heap \in 1 .. made /\ pouring.schedule \in Schedules
           /\ Poured \in Seq(EventEntries) /\ now \in Nat /\ offset[pouring.heap] \in Nat
           /\ Poured # <<>> => /\ Head(Poured) \in EventEntries /\ Tail(Poured) \in Seq(EventEntries)
                               /\ PouredTime \in Nat
                               /\ Range(Poured) = Range(Tail(Poured)) \cup {Head(Poured)}
<1>1. made \in Nat /\ made <= MaxHeaps /\ pouring \in Actions(made) /\ now \in Nat
  BY BoundsAre DEF StateTyped, TypeOK
<1>2. /\ pouring.heap \in Heaps /\ pouring.heap \in 1 .. made
      /\ pouring.schedule \in Schedules
  BY <1>1, EntriesAre, BoundsAre
<1>3. Poured \in Seq(EventEntries) /\ offset[pouring.heap] \in Nat
  BY <1>2 DEF StateTyped, Poured
<1>4. ASSUME Poured # <<>>
      PROVE  /\ Head(Poured) \in EventEntries /\ Tail(Poured) \in Seq(EventEntries)
             /\ Range(Poured) = Range(Tail(Poured)) \cup {Head(Poured)}
  BY <1>3, <1>4, TailRange
<1>5. Poured # <<>> => PouredTime \in Nat
  BY <1>1, <1>3, <1>4, EntriesAre DEF PouredTime
<1>. QED BY <1>1, <1>2, <1>3, <1>4, <1>5

\* What the pour changes by a call of an event keeps its type.
LEMMA CallPouredTyped ==
    ASSUME StateTyped, CallPoured
    PROVE  /\ content' \in [Heaps -> Seq(EventEntries)] /\ calledAt' \in [Events -> 0 .. Never]
           /\ Tail(Poured) \in Seq(EventEntries)
<1>1. Poured # <<>> /\ pouring # NoAction
  BY DEF CallPoured, PouredDue
<1>2. pouring.heap \in Heaps /\ Tail(Poured) \in Seq(EventEntries)
  BY <1>1, PouredAre
<1>3. content' = [content EXCEPT ![pouring.heap] = Tail(Poured)]
  BY DEF CallPoured, Poured
<1>4. content' \in [Heaps -> Seq(EventEntries)]
  BY <1>2, <1>3 DEF StateTyped
<1>5. PICK e : e = Head(Poured).event
  OBVIOUS
<1>6. calledAt' = [calledAt EXCEPT ![e] = now]
  BY <1>5 DEF CallPoured
<1>7. now \in 0 .. Never
  BY BoundsAre DEF StateTyped, TypeOK
<1>8. calledAt' \in [Events -> 0 .. Never]
  BY <1>6, <1>7 DEF StateTyped, TypeOK
<1>. QED BY <1>2, <1>4, <1>8

LEMMA PourCallTyped == ASSUME StateTyped, PourCall PROVE StateTyped'
BY CallPouredTyped DEF PourCall, StateTyped, TypeOK, rtVars, mail, userVars, flushVars

LEMMA PourFlushTyped == ASSUME StateTyped, PourFlush PROVE StateTyped'
<1>1. CallPoured /\ FlushInRt
  BY DEF PourFlush
<1>2. spared' \subseteq Events
  <2>1. PICK q : q = Tail(Poured)
    OBVIOUS
  <2>2. q \in Seq(EventEntries)
    BY <1>1, <2>1, CallPouredTyped
  <2>3. \A x \in ToSet(q) : x.event \in Events
    BY <2>2 DEF ToSet, EventEntries
  <2>4. spared' = spared \cup {x.event : x \in ToSet(q)}
    BY <2>1 DEF PourFlush
  <2>. QED BY <2>3, <2>4 DEF StateTyped, TypeOK
<1>3. /\ content' \in [Heaps -> Seq(EventEntries)] /\ calledAt' \in [Events -> 0 .. Never]
      /\ toNrt' \in Seq(ToNrtEntries(made)) /\ rtHeap' \in Seq(RtEntries(made))
      /\ flushes' \in Nat /\ cancelled' \subseteq Events
  BY <1>1, CallPouredTyped, FlushInRtTyped
<1>. QED BY <1>1, <1>2, <1>3 DEF FlushInRt, StateTyped, TypeOK, userVars

LEMMA PourEndTyped == ASSUME StateTyped, PourEnd PROVE StateTyped'
<1>1. pouring # NoAction /\ rtHeap \in Seq(RtEntries(made)) /\ toNrt \in Seq(ToNrtEntries(made))
  BY DEF PourEnd, StateTyped
<1>2. rtHeap' \in Seq(RtEntries(made))
  <2>1. CASE Poured = <<>>
    BY <1>1, <2>1 DEF PourEnd
  <2>2. CASE Poured # <<>>
    <3>1. PICK x : x = EventEntry(PouredTime, Head(Poured).event)
      OBVIOUS
    <3>2. x \in RtEntries(made)
      BY <1>1, <2>2, <3>1, PouredAre, EntriesAre, EventEntryIs, EntriesTimed
    <3>3. rtHeap' = Insert(rtHeap, x)
      BY <2>2, <3>1 DEF PourEnd
    <3>. QED BY <1>1, <3>2, <3>3, EntriesTimed, InsertRange
  <2>. QED BY <2>1, <2>2
<1>3. toNrt' \in Seq(ToNrtEntries(made))
  <2>1. PICK x : x = PourEntry(0, "end", pouring)
    OBVIOUS
  <2>2. x \in ToNrtEntries(made)
    BY <1>1, <2>1, PouredAre, PourEntryIs, EntriesTimed
  <2>. QED BY <1>1, <2>1, <2>2, AppendRange DEF PourEnd
<1>4. content' \in [Heaps -> Seq(EventEntries)]
  <2>1. <<>> \in Seq(EventEntries)
    OBVIOUS
  <2>. QED BY <2>1 DEF PourEnd, StateTyped
<1>5. hooks' \subseteq Actions(made) /\ pouring' = NoAction
  BY DEF PourEnd, StateTyped
<1>6. pouring'.heap \in 0 .. made
  BY <1>1, <1>5, PouredAre DEF NoAction
<1>. QED BY <1>2, <1>3, <1>4, <1>5, <1>6 DEF PourEnd, StateTyped, TypeOK, userVars, flushVars, history

LEMMA PourNextTyped == ASSUME StateTyped, PourNext PROVE StateTyped'
<1>1. /\ pouring # NoAction /\ rtHeap \in Seq(RtEntries(made)) /\ Poured # <<>>
      /\ made \in Nat /\ now \in Nat
  <2>1. pouring # NoAction /\ Len(Poured) > 1 /\ rtHeap \in Seq(RtEntries(made))
    BY DEF PourNext, StateTyped
  <2>2. Poured # <<>>
    BY <2>1
  <2>. QED BY <2>1, <2>2, PouredAre
<1>2. rtHeap' \in Seq(RtEntries(made))
  <2>1. PICK x : x = EventEntry(PouredTime, Head(Poured).event)
    OBVIOUS
  <2>2. PICK y : y = PourEntry(2 * (now + 1), "pour", pouring)
    OBVIOUS
  <2>3. x \in RtEntries(made)
    BY <1>1, <2>1, PouredAre, EntriesAre, EventEntryIs, EntriesTimed
  <2>4. y \in RtEntries(made)
    <3>1. 2 * (now + 1) \in Nat
      BY <1>1
    <3>. QED BY <1>1, <2>2, <3>1, PouredAre, PourEntryIs, EntriesTimed
  <2>5. PICK q : q = Insert(rtHeap, x)
    OBVIOUS
  <2>6. q \in Seq(RtEntries(made))
    BY <1>1, <2>3, <2>5, EntriesTimed, InsertRange
  <2>7. rtHeap' = Insert(q, y)
    BY <2>1, <2>2, <2>5 DEF PourNext
  <2>. QED BY <2>4, <2>6, <2>7, EntriesTimed, InsertRange
<1>3. content' \in [Heaps -> Seq(EventEntries)]
  <2>1. content' = [content EXCEPT ![pouring.heap] = Tail(Poured)]
    BY DEF PourNext, Poured
  <2>2. Tail(Poured) \in Seq(EventEntries)
    BY <1>1, PouredAre
  <2>. QED BY <2>1, <2>2 DEF StateTyped
<1>4. pouring' = NoAction /\ pouring'.heap \in 0 .. made
  BY <1>1 DEF PourNext, NoAction
<1>. QED BY <1>2, <1>3, <1>4 DEF PourNext, StateTyped, TypeOK, mail, userVars, flushVars, history

LEMMA TickTyped == ASSUME StateTyped, Tick PROVE StateTyped'
<1>1. now' \in 0 .. MaxNow
  <2>1. now \in Nat /\ now <= MaxNow /\ MaxNow \in Nat /\ IdleTicks \in Nat
    BY BoundsAssumption DEF StateTyped, TypeOK
  <2>. QED BY <2>1, BoundsAssumption DEF Tick
<1>. QED BY <1>1 DEF Tick, StateTyped, TypeOK, mail, userVars, flushVars, history

-----------------------------------------------------------------------------
(* The places *)

LEMMA HoldingAre ==
    /\ Holding["user"] = IF filled = 0 THEN {} ELSE {[heap |-> filled, schedule |-> current]}
    /\ Holding["toRt"] = Acts(toRt) /\ Holding["rtHeap"] = Acts(rtHeap)
    /\ Holding["rt"] = {pouring} \ {NoAction} /\ Holding["toNrt"] = Acts(toNrt)
BY DEF Holding, Places

LEMMA HoldersTyped ==
    ASSUME StateTyped, NEW p \in Places, NEW a \in Holding[p]
    PROVE  /\ a \in Actions(made) /\ a.heap \in 1 .. made /\ a.heap \in Heaps
           /\ a.schedule \in Schedules /\ a # NoAction
<1>1. made \in Nat /\ made <= MaxHeaps /\ MaxHeaps \in Nat
  BY BoundsAre DEF StateTyped, TypeOK
<1>2. a \in Actions(made)
  <2>1. CASE p = "user"
    <3>1. filled # 0 /\ a = [heap |-> filled, schedule |-> current]
      BY <2>1, HoldingAre
    <3>2. filled \in 1 .. made /\ current \in Schedules
      BY <1>1, <3>1 DEF StateTyped, TypeOK
    <3>. QED BY <3>1, <3>2 DEF Actions
  <2>2. CASE p = "toRt"
    <3>1. PICK x \in Range(toRt) : x.action = a /\ a # NoAction
      BY <2>2, HoldingAre, ActsAre
    <3>2. x \in ToRtEntries(made)
      BY <3>1 DEF StateTyped, Range
    <3>. QED BY <1>1, <3>1, <3>2, EntriesAre
  <2>3. CASE p = "rtHeap"
    <3>1. PICK x \in Range(rtHeap) : x.action = a /\ a # NoAction
      BY <2>3, HoldingAre, ActsAre
    <3>2. x \in RtEntries(made)
      BY <3>1 DEF StateTyped, Range
    <3>. QED BY <1>1, <3>1, <3>2, EntriesAre
  <2>4. CASE p = "rt"
    BY <2>4, HoldingAre DEF StateTyped
  <2>5. CASE p = "toNrt"
    <3>1. PICK x \in Range(toNrt) : x.action = a /\ a # NoAction
      BY <2>5, HoldingAre, ActsAre
    <3>2. x \in ToNrtEntries(made)
      BY <3>1 DEF StateTyped, Range
    <3>. QED BY <1>1, <3>1, <3>2, EntriesAre
  <2>. QED BY <2>1, <2>2, <2>3, <2>4, <2>5 DEF Places
<1>. QED BY <1>1, <1>2, EntriesAre, BoundsAre

\* An action that moves leaves the heaps apart.
LEMMA MovedApart ==
    ASSUME HeapsApart, NEW from, NEW to, NEW a, Moves(Holding, Holding', from, to, a),
           pool' = pool, made' = made, current' = current
    PROVE  HeapsApart' /\ SameActions(Holding, Holding')
<1>1. PICK held, left : held = Holding /\ left = Holding'
  OBVIOUS
<1>2. Distinct(left) /\ SameActions(held, left)
  <2>1. Distinct(held) /\ Moves(held, left, from, to, a)
    BY <1>1 DEF HeapsApart
  <2>. QED BY <2>1, Moved
<1>3. \A p \in Places : \A b \in left[p] : b.heap \notin Range(pool') /\ b.schedule <= current'
  BY <1>1, <1>2 DEF SameActions, HeapsApart
<1>4. \A h \in 1 .. made' : h \in Range(pool') \/ \E p \in Places : \E b \in left[p] : b.heap = h
  BY <1>1, <1>2 DEF SameActions, HeapsApart
<1>. QED BY <1>1, <1>2, <1>3, <1>4 DEF HeapsApart

\* The entries of the real-time heap, and the actions of the places.
LEMMA RtEntryIs ==
    ASSUME StateTyped, NEW x \in Range(rtHeap)
    PROVE  /\ x \in RtEntries(made) /\ x.time \in Nat /\ x.what \in {"event", "start", "pour"}
           /\ x.what = "event" => x.event \in Events /\ x.action = NoAction
           /\ x.what # "event" => /\ x.action \in Holding["rtHeap"] /\ Carries(x)
                                  /\ x.event = NoEvent /\ x.action.heap \in Heaps
                                  /\ x.action.heap \in 1 .. made /\ x.action.schedule \in Schedules
<1>1. x \in RtEntries(made) /\ made \in Nat
  BY BoundsAre DEF StateTyped, TypeOK, Range
<1>2. /\ x.time \in Nat /\ x.what \in {"event", "start", "pour"}
      /\ x.what = "event" => x.event \in Events /\ x.action = NoAction
      /\ x.what # "event" => x.event = NoEvent /\ x.action \in Actions(made)
  BY <1>1, EntriesAre
<1>3. ASSUME x.what # "event"
      PROVE  /\ x.action \in Holding["rtHeap"] /\ Carries(x) /\ x.action.heap \in Heaps
             /\ x.action.heap \in 1 .. made /\ x.action.schedule \in Schedules
  <2>1. Carries(x)
    BY <1>1, <1>2, <1>3, EntriesAre DEF Carries
  <2>2. x.action \in Holding["rtHeap"]
    BY <2>1, ActsAre, HoldingAre
  <2>. QED BY <2>1, <2>2, HoldersTyped DEF Places
<1>. QED BY <1>1, <1>2, <1>3

\* The events of the temporary heaps.
LEMMA ContentIs ==
    ASSUME StateTyped, NEW h \in Heaps, NEW y \in Range(content[h])
    PROVE  y.time \in Nat /\ y.what = "event" /\ y.event \in Events /\ y.action = NoAction
           /\ y \in EventEntries
<1>1. y \in EventEntries
  BY DEF StateTyped, Range
<1>2. 0 \in Nat
  OBVIOUS
<1>. QED BY <1>1, <1>2, EntriesAre

\* A heap with events belongs to an action that is not at its end.
LEMMA HasOwner ==
    ASSUME StateTyped, HeapsApart, ContentsRight, NEW h \in Heaps, NEW y \in Range(content[h])
    PROVE  \E p \in Places \ {"toNrt"} : \E a \in Holding[p] : a.heap = h /\ a.schedule = y.event[1]
<1>1. content[h] # <<>>
  BY EmptyRange
<1>2. h \in 1 .. made /\ h \notin Range(pool)
  BY <1>1, BoundsAre DEF ContentsRight, StateTyped, TypeOK
<1>3. PICK p \in Places : \E a \in Holding[p] : a.heap = h
  BY <1>2 DEF HeapsApart
<1>4. PICK a \in Holding[p] : a.heap = h
  BY <1>3
<1>5. p # "toNrt"
  BY <1>1, <1>4 DEF ContentsRight
<1>6. a.schedule = y.event[1]
  BY <1>4 DEF ContentsRight
<1>. QED BY <1>4, <1>5, <1>6

\* When its schedule has started, the heap is poured or waits for it.
LEMMA StartedOwner ==
    ASSUME StateTyped, Calm, NEW h \in Heaps, NEW y \in Range(content[h]), Started(y.event[1])
    PROVE  \E a \in Holding["rtHeap"] \cup Holding["rt"] : a.heap = h /\ a.schedule = y.event[1]
<1>1. PICK p \in Places \ {"toNrt"} :
         \E a \in Holding[p] : a.heap = h /\ a.schedule = y.event[1]
  BY HasOwner DEF Calm
<1>2. p \notin {"user", "toRt"}
  BY <1>1 DEF Calm, StartsRight
<1>. QED BY <1>1, <1>2 DEF Places

\* All the events of a schedule that has started were scheduled.
LEMMA StartedEntered ==
    ASSUME StateTyped, Calm, NEW e \in Events, Started(e[1])
    PROVE  Entered(e)
<1>1. /\ e[1] \in Schedules /\ e[1] <= current /\ e[1] \in Nat /\ current \in Nat
      /\ e[2] \in 1 .. Len(Bodies[e[1]]) /\ Len(Bodies[e[1]]) \in Nat /\ e[1] > 0
  <2>1. /\ e[1] \in Schedules /\ e[2] \in 1 .. Len(Bodies[e[1]])
        /\ Len(Bodies[e[1]]) \in Nat
    BY EventsAre
  <2>2. e[1] \in Nat /\ e[1] > 0
    BY <2>1, EventsAre
  <2>3. current \in Nat
    BY EventsAre DEF StateTyped, TypeOK
  <2>4. e[1] <= current
    BY <2>1 DEF Calm, StartsRight
  <2>. QED BY <2>1, <2>2, <2>3, <2>4
<1>2. CASE e[1] = current
  <2>1. filled = 0
    <3>1. SUFFICES ASSUME filled # 0 PROVE FALSE
      OBVIOUS
    <3>2. PICK a : a = [heap |-> filled, schedule |-> current]
      OBVIOUS
    <3>3. a \in Holding["user"] /\ a.schedule = current
      BY <3>1, <3>2, HoldingAre
    <3>. QED BY <1>2, <3>3 DEF Calm, StartsRight
  <2>2. filledTo = Len(Bodies[current])
    BY <1>1, <1>2, <2>1 DEF Calm, BodyDone
  <2>. QED BY <1>1, <1>2, <2>2 DEF Entered
<1>. QED BY <1>1, <1>2 DEF Entered

\* The places after a step.
LEMMA HoldingNext ==
    /\ Holding'["user"]
         = IF filled' = 0 THEN {} ELSE {[heap |-> filled', schedule |-> current']}
    /\ Holding'["toRt"] = Acts(toRt') /\ Holding'["rtHeap"] = Acts(rtHeap')
    /\ Holding'["rt"] = {pouring'} \ {NoAction} /\ Holding'["toNrt"] = Acts(toNrt')
BY DEF Holding, Places, Acts

LEMMA StoredIs ==
    ASSUME NEW e
    PROVE  /\ Stored(e) <=> \/ \E h \in Heaps : \E y \in Range(content[h]) : y.event = e
                            \/ \E x \in Range(rtHeap) : x.event = e
           /\ Stored(e)' <=> \/ \E h \in Heaps : \E y \in Range(content'[h]) : y.event = e
                             \/ \E x \in Range(rtHeap') : x.event = e
BY DEF Stored, Range

-----------------------------------------------------------------------------
(* The thread of the user *)

LEMMA HeapPoolPopCalm ==
    ASSUME StateTyped, StateTyped', ~Flushed, Calm, HeapPoolPop
    PROVE  Calm'
<1>1. /\ filled = 0 /\ current' = current + 1 /\ filledTo' = 0
      /\ made \in Nat /\ made' \in Nat /\ current \in Nat /\ MaxHeaps \in Nat
      /\ pool \in Seq(1 .. made) /\ made' <= MaxHeaps
  BY BoundsAre, EventsAre DEF HeapPoolPop, StateTyped, TypeOK
<1>2. PICK f : f = filled'
  OBVIOUS
<1>3. /\ f \in 1 .. made' /\ f \in Heaps /\ made <= made' /\ (f > made \/ f \in Range(pool))
      /\ Range(pool') \subseteq Range(pool) /\ f \notin Range(pool')
      /\ \A j, k \in DOMAIN pool' : pool'[j] = pool'[k] => j = k
      /\ \A h \in 1 .. made' : h \in Range(pool') \/ h = f
                               \/ (h \in 1 .. made /\ h \notin Range(pool))
  <2>1. CASE pool = <<>>
    <3>1. made' = made + 1 /\ f = made' /\ pool' = <<>>
      BY <1>2, <2>1 DEF HeapPoolPop
    <3>2. Range(pool) = {} /\ Range(pool') = {}
      BY <2>1, <3>1, EmptyRange
    <3>. QED BY <1>1, <3>1, <3>2, BoundsAre
  <2>2. CASE pool # <<>>
    <3>1. made' = made /\ f = Head(pool) /\ pool' = Tail(pool)
      BY <1>2, <2>2 DEF HeapPoolPop
    <3>2. /\ Head(pool) \in 1 .. made /\ Range(pool) = Range(Tail(pool)) \cup {Head(pool)}
          /\ Head(pool) \notin Range(Tail(pool))
          /\ \A j, k \in DOMAIN Tail(pool) : Tail(pool)[j] = Tail(pool)[k] => j = k
      BY <1>1, <2>2, PoolPop DEF Calm, HeapsApart
    <3>. QED BY <1>1, <3>1, <3>2, BoundsAre
  <2>. QED BY <2>1, <2>2
<1>4. content' = content
  <2>1. content[f] = <<>>
    BY <1>3 DEF Calm, ContentsRight
  <2>2. content' = [content EXCEPT ![f] = <<>>]
    BY <1>2 DEF HeapPoolPop
  <2>. QED BY <2>1, <2>2 DEF StateTyped
<1>5. /\ offset' = offset /\ rtHeap' = rtHeap /\ now' = now /\ pouring' = pouring
      /\ toRt' = toRt /\ toNrt' = toNrt /\ flushing' = flushing /\ flushes' = flushes
      /\ startAt' = startAt /\ calledAt' = calledAt
  BY DEF HeapPoolPop, rtVars, mail, flushVars, history
<1>6. PICK a : a = [heap |-> f, schedule |-> current']
  OBVIOUS
<1>7. /\ Holding["user"] = {} /\ Holding'["user"] = {a}
      /\ \A p \in Places : p # "user" => Holding'[p] = Holding[p]
  <2>1. f # 0
    BY <1>1, <1>3
  <2>. QED BY <1>1, <1>2, <1>5, <1>6, <2>1, HoldingAre, HoldingNext DEF Places
<1>8. a.heap = f /\ a.schedule = current'
  BY <1>6
<1>9. ASSUME NEW p \in Places, NEW b \in Holding[p]
      PROVE  /\ b.heap # f /\ b.schedule # current' /\ b.schedule <= current
             /\ b.schedule <= current' /\ b.heap \notin Range(pool')
  <2>1. b.heap \in 1 .. made /\ b.schedule \in Schedules
    BY HoldersTyped
  <2>2. b.heap \notin Range(pool) /\ b.schedule <= current
    BY DEF Calm, HeapsApart
  <2>3. b.schedule \in Nat
    BY <2>1, EventsAre
  <2>. QED BY <1>1, <1>3, <2>1, <2>2, <2>3
<1>10. HeapsApart'
  <2>1. ASSUME NEW p \in Places, NEW q \in Places, NEW b \in Holding'[p], NEW c \in Holding'[q],
               p # q \/ b # c
        PROVE  b.heap # c.heap /\ b.schedule # c.schedule
    <3>1. CASE p = "user" /\ q = "user"
      BY <1>7, <2>1, <3>1
    <3>2. CASE p # "user" /\ q # "user"
      BY <1>7, <2>1, <3>2 DEF Calm, HeapsApart, Distinct
    <3>3. CASE p = "user" /\ q # "user"
      BY <1>7, <1>8, <1>9, <3>3
    <3>4. CASE p # "user" /\ q = "user"
      BY <1>7, <1>8, <1>9, <3>4
    <3>. QED BY <3>1, <3>2, <3>3, <3>4
  <2>2. Distinct(Holding)'
    BY <2>1 DEF Distinct
  <2>3. ASSUME NEW p \in Places, NEW b \in Holding'[p]
        PROVE  b.heap \notin Range(pool') /\ b.schedule <= current'
    <3>1. CASE p = "user"
      BY <1>1, <1>3, <1>7, <1>8, <3>1
    <3>. QED BY <1>7, <1>9, <3>1
  <2>4. ASSUME NEW h \in 1 .. made'
        PROVE  h \in Range(pool') \/ \E p \in Places : \E b \in Holding'[p] : b.heap = h
    <3>1. CASE h = f
      BY <1>7, <1>8, <3>1 DEF Places
    <3>2. CASE h \in 1 .. made /\ h \notin Range(pool)
      <4>1. PICK p \in Places : \E b \in Holding[p] : b.heap = h
        BY <3>2 DEF Calm, HeapsApart
      <4>2. p # "user"
        BY <1>7, <4>1
      <4>. QED BY <1>7, <4>1, <4>2
    <3>. QED BY <1>3, <3>1, <3>2
  <2>. QED BY <1>3, <2>2, <2>3, <2>4 DEF HeapsApart
<1>11. \A e \in Events : Entered(e)' <=> Entered(e)
  <2> SUFFICES ASSUME NEW e \in Events PROVE Entered(e)' <=> Entered(e)
    OBVIOUS
  <2>1. /\ e[1] \in Nat /\ e[1] > 0 /\ e[2] \in Nat /\ e[2] > 0
        /\ e[2] <= Len(Bodies[e[1]]) /\ Len(Bodies[e[1]]) \in Nat
    <3>1. e[1] \in Schedules /\ e[2] \in 1 .. Len(Bodies[e[1]])
      BY EventsAre
    <3>. QED BY <3>1, EventsAre
  <2>2. e[1] = current => filledTo = Len(Bodies[e[1]])
    BY <1>1, <2>1 DEF Calm, BodyDone
  <2>. QED BY <1>1, <2>1, <2>2 DEF Entered
<1>12. ContentsRight'
  <2>1. \A h \in Heaps :
          /\ Ordered(content'[h])
          /\ \A x \in Range(content'[h]) : /\ x.time = Rel(x.event) /\ calledAt'[x.event] = Never
                                           /\ Entered(x.event)'
    BY <1>4, <1>5, <1>11, ContentIs DEF Calm, ContentsRight
  <2>2. ASSUME NEW h \in Heaps, h > made' \/ h \in Range(pool') PROVE content'[h] = <<>>
    <3>1. h > made \/ h \in Range(pool)
      BY <1>1, <1>3, <2>2, BoundsAre
    <3>. QED BY <1>4, <3>1 DEF Calm, ContentsRight
  <2>3. \A b \in Holding'["toNrt"] : content'[b.heap] = <<>>
    BY <1>4, <1>7 DEF Calm, ContentsRight, Places
  <2>4. ASSUME NEW p \in Places, NEW b \in Holding'[p], NEW x \in Range(content'[b.heap])
        PROVE  x.event[1] = b.schedule
    <3>1. CASE p = "user"
      <4>1. content'[b.heap] = <<>>
        BY <1>3, <1>4, <1>7, <1>8, <3>1 DEF Calm, ContentsRight
      <4>. QED BY <4>1, EmptyRange
    <3>2. CASE p # "user"
      BY <1>4, <1>7, <3>2 DEF Calm, ContentsRight
    <3>. QED BY <3>1, <3>2
  <2>. QED BY <2>1, <2>2, <2>3, <2>4 DEF ContentsRight
<1>13. StartsRight'
  <2>1. ASSUME NEW s \in Schedules, Started(s)' PROVE s <= current' /\ startAt'[s] <= now'
    <3>1. Started(s)
      BY <1>5, <2>1 DEF Started
    <3>2. s <= current /\ startAt[s] <= now /\ s \in Nat
      BY <3>1, EventsAre DEF Calm, StartsRight
    <3>. QED BY <1>1, <1>5, <3>2
  <2>2. ASSUME NEW b \in Holding'["user"] \cup Holding'["toRt"] PROVE ~Started(b.schedule)'
    <3>1. CASE b \in Holding'["user"]
      <4>1. b.schedule = current + 1 /\ b.schedule \in Schedules
        <5>1. current' \in Schedules
          BY <1>1, EventsAre DEF HeapPoolPop
        <5>. QED BY <1>1, <1>7, <1>8, <3>1, <5>1
      <4>2. Started(b.schedule) => b.schedule <= current
        BY <4>1 DEF Calm, StartsRight
      <4>3. Started(b.schedule)' <=> Started(b.schedule)
        BY <1>5 DEF Started
      <4>. QED BY <1>1, <4>1, <4>2, <4>3
    <3>2. CASE b \in Holding'["toRt"]
      BY <1>5, <1>7, <3>2 DEF Calm, StartsRight, Started, Places
    <3>. QED BY <2>2, <3>1, <3>2
  <2>3. pouring' # NoAction => Started(pouring.schedule)'
                               /\ offset'[pouring'.heap] = startAt'[pouring'.schedule]
    BY <1>5 DEF Calm, StartsRight, Started
  <2>4. \A e \in Events : calledAt'[e] # Never => Started(e[1])'
    BY <1>5 DEF Calm, StartsRight, Started
  <2>. QED BY <2>1, <2>2, <2>3, <2>4 DEF StartsRight
<1>14. EntriesRight' /\ PouringInTime'
  BY <1>4, <1>5 DEF Calm, EntriesRight, PouringInTime, StartRight, PourRight, EventRight, Started
<1>15. PouredFirst'
  BY <1>4, <1>5, <1>7 DEF Calm, PouredFirst, Places
<1>16. NoEventLost'
  <2>1. \A e \in Events : Stored(e)' <=> Stored(e)
    BY <1>4, <1>5, StoredIs
  <2>. QED BY <1>5, <1>11, <2>1 DEF Calm, NoEventLost, Pending, Flushed
<1>17. NoFlush' /\ QueuesOrdered' /\ CalledOnTime'
  BY <1>5 DEF Calm, NoFlush, QueuesOrdered, CalledOnTime, Flushed
<1>18. BodyDone'
  BY <1>1, <1>2, <1>3 DEF BodyDone
<1>. QED BY <1>10, <1>12, <1>13, <1>14, <1>15, <1>16, <1>17, <1>18 DEF Calm

LEMMA FillHeapCalm ==
    ASSUME StateTyped, StateTyped', ~Flushed, Calm, FillHeap
    PROVE  Calm'
<1>1. /\ current \in Schedules /\ filled \in Heaps /\ filled \in 1 .. made /\ filledTo \in Nat
      /\ filled # 0 /\ filledTo' = filledTo + 1 /\ made \in Nat
      /\ filledTo' \in 1 .. Len(Bodies[current])
  <2>1. /\ filled # 0 /\ filledTo' = filledTo + 1 /\ filledTo < Len(Bodies[current])
        /\ filledTo \in Nat /\ current \in Schedules
    BY DEF FillHeap, StateTyped
  <2>2. filled \in 1 .. made /\ made \in Nat /\ filled \in Heaps
    BY <2>1, BoundsAre DEF StateTyped, TypeOK
  <2>3. filledTo' \in 1 .. Len(Bodies[current])
    BY <2>1, EventsAre
  <2>. QED BY <2>1, <2>2, <2>3
<1>2. PICK f, e : f = filled /\ e = <<current, filledTo + 1>>
  OBVIOUS
<1>3. PICK x : x = EventEntry(Rel(e), e)
  OBVIOUS
<1>4. e \in Events /\ Rel(e) \in Nat /\ e[1] = current /\ e[2] = filledTo + 1
  BY <1>1, <1>2, EventsAre
<1>5. x \in EventEntries /\ x.time = Rel(e) /\ x.what = "event" /\ x.event = e /\ x.action = NoAction
  BY <1>3, <1>4, EventEntryIs
<1>6. PICK q : q = content[f]
  OBVIOUS
<1>7. content' = [content EXCEPT ![f] = Insert(q, x)]
  BY <1>1, <1>2, <1>3, <1>4, <1>6 DEF FillHeap, Rel
<1>8. q \in Seq(EventEntries) /\ Range(Insert(q, x)) = Range(q) \cup {x}
  <2>1. q \in Seq(EventEntries)
    BY <1>1, <1>2, <1>6 DEF StateTyped
  <2>. QED BY <1>5, <2>1, EntriesTimed, InsertRange
<1>9. /\ content'[f] = Insert(q, x)
      /\ \A h \in Heaps : h # f => content'[h] = content[h]
  BY <1>1, <1>2, <1>7 DEF StateTyped
<1>10. /\ pool' = pool /\ made' = made
       /\ offset' = offset /\ rtHeap' = rtHeap /\ now' = now /\ pouring' = pouring
       /\ toRt' = toRt /\ toNrt' = toNrt /\ flushing' = flushing /\ flushes' = flushes
       /\ startAt' = startAt /\ calledAt' = calledAt /\ filled' = filled /\ current' = current
  BY DEF FillHeap, rtVars, mail, flushVars, history
<1>11. Holding' = Holding
  BY <1>10 DEF Holding, Acts
<1>12. PICK a : a = [heap |-> f, schedule |-> current]
  OBVIOUS
<1>13. Holding["user"] = {a} /\ a.heap = f /\ a.schedule = current
  BY <1>1, <1>2, <1>12, HoldingAre
<1>14. ASSUME NEW p \in Places, NEW b \in Holding[p], p # "user"
       PROVE  b.heap # f /\ b.heap \in Heaps /\ content'[b.heap] = content[b.heap]
  <2>1. b.heap # a.heap
    BY <1>13, <1>14 DEF Calm, HeapsApart, Distinct, Places
  <2>. QED BY <1>9, <1>13, <2>1, HoldersTyped
<1>15. /\ calledAt[e] = Never
       /\ \A y \in Range(q) : /\ y.event[1] = current /\ y.event[2] <= filledTo
                              /\ y.event \in Events /\ y.time \in Nat /\ y.time = Rel(y.event)
                              /\ y.what = "event" /\ y.action = NoAction
  <2>1. ~Started(current)
    BY <1>13 DEF Calm, StartsRight
  <2>2. calledAt[e] = Never
    BY <1>4, <2>1 DEF Calm, StartsRight
  <2>3. ASSUME NEW y \in Range(q)
        PROVE  /\ y.event[1] = current /\ y.event[2] <= filledTo
               /\ y.event \in Events /\ y.time \in Nat /\ y.time = Rel(y.event)
               /\ y.what = "event" /\ y.action = NoAction
    <3>1. y.event[1] = current
      BY <1>6, <1>13 DEF Calm, ContentsRight, Places
    <3>2. Entered(y.event) /\ y.time = Rel(y.event)
      BY <1>1, <1>2, <1>6 DEF Calm, ContentsRight
    <3>3. y.event \in Events /\ y.time \in Nat /\ y.what = "event" /\ y.action = NoAction
      BY <1>1, <1>2, <1>6, ContentIs
    <3>4. current \in Nat
      BY <1>1, EventsAre
    <3>. QED BY <3>1, <3>2, <3>3, <3>4 DEF Entered
  <2>. QED BY <2>2, <2>3
<1>16. Ordered(Insert(q, x))
  <2>1. Ordered(q)
    BY <1>1, <1>2, <1>6 DEF Calm, ContentsRight
  <2>2. ASSUME NEW y \in Range(q)
        PROVE  /\ y.time <= x.time => Fine(y, x)
               /\ y.time > x.time => Fine(x, y)
    <3>1. y.event[2] \in Nat /\ y.event[2] < e[2]
      <4>1. y.event[2] \in 1 .. Len(Bodies[y.event[1]]) /\ y.event[1] \in Schedules
        BY <1>15, EventsAre
      <4>2. y.event[2] \in Nat
        BY <4>1, EventsAre
      <4>. QED BY <1>1, <1>4, <1>15, <4>2
    <3>2. y.event # x.event
      BY <1>4, <1>5, <3>1
    <3>. QED BY <1>4, <1>5, <1>15, <3>1, <3>2 DEF Fine, IsEvent, Carries
  <2>. QED BY <1>5, <1>8, <2>1, <2>2, EntriesTimed, InsertOrdered
<1>17. \A d \in Events : Entered(d)' <=> (Entered(d) \/ d = e)
  <2> SUFFICES ASSUME NEW d \in Events PROVE Entered(d)' <=> (Entered(d) \/ d = e)
    OBVIOUS
  <2>1. /\ d[1] \in Schedules /\ d[2] \in 1 .. Len(Bodies[d[1]]) /\ d = <<d[1], d[2]>>
        /\ d[1] \in Nat /\ d[2] \in Nat
    <3>1. d[1] \in Schedules /\ d[2] \in 1 .. Len(Bodies[d[1]]) /\ d = <<d[1], d[2]>>
      BY EventsAre
    <3>. QED BY <3>1, EventsAre
  <2>2. current \in Nat
    BY <1>1, EventsAre
  <2>3. d = e <=> d[1] = current /\ d[2] = filledTo + 1
    BY <1>2, <2>1
  <2>. QED BY <1>1, <1>10, <2>1, <2>2, <2>3 DEF Entered
<1>18. HeapsApart' /\ NoFlush' /\ QueuesOrdered' /\ CalledOnTime' /\ BodyDone'
  BY <1>1, <1>10, <1>11
     DEF Calm, HeapsApart, NoFlush, QueuesOrdered, CalledOnTime, BodyDone, Flushed
<1>19. StartsRight'
  BY <1>10, <1>11 DEF Calm, StartsRight, Started
<1>20. ContentsRight'
  <2>1. ASSUME NEW h \in Heaps
        PROVE  /\ Ordered(content'[h])
               /\ \A y \in Range(content'[h]) : /\ y.time = Rel(y.event)
                                                /\ calledAt'[y.event] = Never
                                                /\ Entered(y.event)'
    <3>1. CASE h = f
      <4>1. Ordered(content'[h]) /\ Range(content'[h]) = Range(q) \cup {x}
        BY <1>8, <1>9, <1>16, <3>1
      <4>2. ASSUME NEW y \in Range(q)
            PROVE  /\ y.time = Rel(y.event) /\ calledAt'[y.event] = Never /\ Entered(y.event)'
        <5>1. y.event \in Events
          BY <1>15
        <5>2. y.time = Rel(y.event) /\ calledAt[y.event] = Never /\ Entered(y.event)
          BY <1>1, <1>2, <1>6 DEF Calm, ContentsRight
        <5>. QED BY <1>10, <1>17, <5>1, <5>2
      <4>3. x.time = Rel(x.event) /\ calledAt'[x.event] = Never /\ Entered(x.event)'
        BY <1>4, <1>5, <1>10, <1>15, <1>17
      <4>. QED BY <4>1, <4>2, <4>3
    <3>2. CASE h # f
      <4>1. content'[h] = content[h]
        BY <1>9, <3>2
      <4>2. ASSUME NEW y \in Range(content[h])
            PROVE  /\ y.time = Rel(y.event) /\ calledAt'[y.event] = Never /\ Entered(y.event)'
        <5>1. y.event \in Events
          BY ContentIs
        <5>2. y.time = Rel(y.event) /\ calledAt[y.event] = Never /\ Entered(y.event)
          BY DEF Calm, ContentsRight
        <5>. QED BY <1>10, <1>17, <5>1, <5>2
      <4>. QED BY <4>1, <4>2 DEF Calm, ContentsRight
    <3>. QED BY <3>1, <3>2
  <2>2. ASSUME NEW h \in Heaps, h > made' \/ h \in Range(pool') PROVE content'[h] = <<>>
    <3>1. h # f
      <4>1. f \notin Range(pool)
        BY <1>13 DEF Calm, HeapsApart, Places
      <4>. QED BY <1>1, <1>2, <1>10, <2>2, <4>1
    <3>. QED BY <1>9, <1>10, <2>2, <3>1 DEF Calm, ContentsRight
  <2>3. ASSUME NEW b \in Holding'["toNrt"] PROVE content'[b.heap] = <<>>
    BY <1>11, <1>14 DEF Calm, ContentsRight, Places
  <2>4. ASSUME NEW p \in Places, NEW b \in Holding'[p], NEW y \in Range(content'[b.heap])
        PROVE  y.event[1] = b.schedule
    <3>1. CASE p = "user"
      BY <1>4, <1>5, <1>8, <1>9, <1>11, <1>13, <1>15, <3>1
    <3>2. CASE p # "user"
      BY <1>11, <1>14, <3>2 DEF Calm, ContentsRight
    <3>. QED BY <3>1, <3>2
  <2>. QED BY <2>1, <2>2, <2>3, <2>4 DEF ContentsRight
<1>21. EntriesRight'
  <2> SUFFICES ASSUME NEW z \in Range(rtHeap)
               PROVE  /\ z.what = "start" => StartRight(z)'
                      /\ z.what = "pour" => PourRight(z)'
                      /\ z.what = "event" => EventRight(z)'
    BY <1>10 DEF EntriesRight
  <2>1. z.what = "start" => StartRight(z)'
    BY <1>10 DEF Calm, EntriesRight, StartRight, Started
  <2>2. z.what = "event" => EventRight(z)'
    BY <1>10 DEF Calm, EntriesRight, EventRight, Started
  <2>3. ASSUME z.what = "pour" PROVE PourRight(z)'
    <3>1. z.action \in Holding["rtHeap"]
      BY <2>3, RtEntryIs
    <3>2. content'[z.action.heap] = content[z.action.heap]
      BY <1>14, <3>1 DEF Places
    <3>3. PourRight(z)
      BY <2>3 DEF Calm, EntriesRight
    <3>. QED BY <1>10, <3>2, <3>3 DEF PourRight, Started
  <2>. QED BY <2>1, <2>2, <2>3
<1>22. PouringInTime'
  <2> SUFFICES ASSUME pouring # NoAction
               PROVE  \A y \in Range(content'[pouring.heap]) :
                         y.time + 2 * offset[pouring.heap] >= 2 * now
    BY <1>10 DEF PouringInTime
  <2>1. pouring \in Holding["rt"]
    BY HoldingAre
  <2>2. content'[pouring.heap] = content[pouring.heap]
    BY <1>14, <2>1 DEF Places
  <2>. QED BY <2>2 DEF Calm, PouringInTime
<1>23. PouredFirst'
  <2>1. \A b \in Holding["rtHeap"] \cup Holding["rt"] : content'[b.heap] = content[b.heap]
    BY <1>14 DEF Places
  <2>. QED BY <1>10, <1>11, <2>1 DEF Calm, PouredFirst
<1>24. NoEventLost'
  <2> SUFFICES ASSUME NEW d \in Events, Entered(d)', calledAt'[d] = Never
               PROVE  Stored(d)'
    BY DEF NoEventLost, Pending
  <2>1. CASE d = e
    <3>1. x \in Range(content'[f]) /\ x.event = d
      BY <1>5, <1>8, <1>9, <2>1
    <3>. QED BY <1>1, <1>2, <3>1, StoredIs
  <2>2. CASE d # e
    <3>1. Stored(d)
      BY <1>10, <1>17, <2>2 DEF Calm, NoEventLost, Pending
    <3>2. \A h \in Heaps : Range(content[h]) \subseteq Range(content'[h])
      BY <1>6, <1>8, <1>9
    <3>. QED BY <1>10, <3>1, <3>2, StoredIs
  <2>. QED BY <2>1, <2>2
<1>. QED BY <1>18, <1>19, <1>20, <1>21, <1>22, <1>23, <1>24 DEF Calm

\* An action that moves, but not to its end, takes the events along.
LEMMA ContentsMoved ==
    ASSUME ContentsRight, SameActions(Holding, Holding'), toNrt' = toNrt,
           content' = content, pool' = pool, made' = made, calledAt' = calledAt,
           current' = current, filledTo' = filledTo
    PROVE  ContentsRight'
<1>1. \A e : Entered(e)' <=> Entered(e)
  BY DEF Entered
<1>2. Holding'["toNrt"] = Holding["toNrt"]
  BY HoldingAre, HoldingNext
<1>3. ASSUME NEW p \in Places, NEW b \in Holding'[p], NEW x \in Range(content'[b.heap])
      PROVE  x.event[1] = b.schedule
  <2>1. PICK q \in Places : b \in Holding[q]
    BY DEF SameActions
  <2>. QED BY <2>1 DEF ContentsRight
<1>. QED BY <1>1, <1>2, <1>3 DEF ContentsRight

LEMMA SendHeapCalm ==
    ASSUME StateTyped, StateTyped', ~Flushed, Calm, SendHeap
    PROVE  Calm'
<1>1. /\ made \in Nat /\ current \in Schedules /\ filled \in 1 .. made /\ filled # 0
      /\ filledTo = Len(Bodies[current]) /\ filled' = 0
  BY BoundsAre DEF SendHeap, StateTyped, TypeOK
<1>2. PICK a : a = [heap |-> filled, schedule |-> current]
  OBVIOUS
<1>3. PICK x : x = PourEntry(0, "start", a)
  OBVIOUS
<1>4. a \in Actions(made) /\ a # NoAction /\ a.heap = filled /\ a.schedule = current
  BY <1>1, <1>2 DEF Actions, NoAction
<1>5. x \in ToRtEntries(made) /\ x.time = 0 /\ x.what = "start" /\ x.action = a
  <2>1. x \in Carriers(made, {"start"}) /\ x.time = 0 /\ x.what = "start" /\ x.action = a
    BY <1>1, <1>3, <1>4, PourEntryIs
  <2>. QED BY <2>1, EntriesTimed
<1>6. /\ toRt \in Seq(ToRtEntries(made)) /\ toRt' = Append(toRt, x)
      /\ Range(toRt') = Range(toRt) \cup {x}
  <2>1. toRt \in Seq(ToRtEntries(made)) /\ toRt' = Append(toRt, x)
    BY <1>2, <1>3 DEF SendHeap, StateTyped
  <2>. QED BY <1>5, <2>1, AppendRange
<1>7. /\ pool' = pool /\ made' = made /\ content' = content
      /\ offset' = offset /\ rtHeap' = rtHeap /\ now' = now /\ pouring' = pouring
      /\ toNrt' = toNrt /\ flushing' = flushing /\ flushes' = flushes
      /\ startAt' = startAt /\ calledAt' = calledAt /\ current' = current
      /\ filledTo' = filledTo
  BY DEF SendHeap, rtVars, flushVars, history
<1>8. Holding["user"] = {a} /\ Holding'["user"] = {}
  BY <1>1, <1>2, HoldingAre, HoldingNext
<1>9. Holding'["toRt"] = Holding["toRt"] \cup {a}
  BY <1>4, <1>5, <1>6, ActsAdd, HoldingAre, HoldingNext
<1>10. Moves(Holding, Holding', "user", "toRt", a)
  <2>1. \A p \in Places : p \notin {"user", "toRt"} => Holding'[p] = Holding[p]
    BY <1>7, HoldingAre, HoldingNext DEF Places
  <2>. QED BY <1>8, <1>9, <2>1 DEF Moves, Places
<1>11. HeapsApart' /\ SameActions(Holding, Holding')
  BY <1>7, <1>10, MovedApart DEF Calm
<1>12. ContentsRight'
  BY <1>7, <1>11, ContentsMoved DEF Calm
<1>13. QueuesOrdered'
  <2>1. ASSUME NEW y \in Range(toRt) PROVE Fine(y, x)
    <3>1. y.what = "start" /\ y.time = 0
      BY DEF Calm, NoFlush
    <3>2. Carries(y) => y.action \in Holding["toRt"]
      BY ActsAre, HoldingAre
    <3>3. Carries(y) => y.action.heap # a.heap /\ y.action.schedule # a.schedule
      BY <1>8, <3>2 DEF Calm, HeapsApart, Distinct, Places
    <3>. QED BY <1>5, <3>1, <3>3 DEF Fine, IsEvent
  <2>2. Ordered(toRt')
    BY <1>5, <1>6, <2>1, AppendOrdered DEF Calm, QueuesOrdered
  <2>. QED BY <1>7, <2>2 DEF Calm, QueuesOrdered
<1>14. NoFlush'
  BY <1>5, <1>6, <1>7 DEF Calm, NoFlush
<1>15. BodyDone'
  BY <1>1, <1>7 DEF BodyDone
<1>16. StartsRight'
  <2>1. Holding'["user"] \cup Holding'["toRt"] = Holding["user"] \cup Holding["toRt"]
    BY <1>8, <1>9
  <2>. QED BY <1>7, <2>1 DEF Calm, StartsRight, Started
<1>17. EntriesRight' /\ PouringInTime'
  BY <1>7 DEF Calm, EntriesRight, PouringInTime, StartRight, PourRight, EventRight, Started
<1>18. PouredFirst'
  BY <1>7, HoldingAre, HoldingNext DEF Calm, PouredFirst
<1>19. NoEventLost'
  BY <1>7, StoredIs DEF Calm, NoEventLost, Pending, Entered, Flushed
<1>20. CalledOnTime'
  BY <1>7 DEF Calm, CalledOnTime, Flushed
<1>. QED BY <1>11, <1>12, <1>13, <1>14, <1>15, <1>16, <1>17, <1>18, <1>19, <1>20 DEF Calm

-----------------------------------------------------------------------------
(* The nrt-thread *)

LEMMA NrtEndActionCalm ==
    ASSUME StateTyped, StateTyped', ~Flushed, Calm, NrtEndAction
    PROVE  Calm'
<1>1. toNrt \in Seq(ToNrtEntries(made)) /\ toNrt # <<>> /\ made \in Nat /\ pool \in Seq(1 .. made)
  BY BoundsAre DEF StateTyped, TypeOK, NrtEndAction
<1>2. PICK x, a : x = Head(toNrt) /\ a = x.action
  OBVIOUS
<1>3. /\ toNrt' = Tail(toNrt) /\ Range(toNrt) = Range(toNrt') \cup {x}
      /\ x \in ToNrtEntries(made) /\ x \in Range(toNrt) /\ x.what = "end"
  BY <1>1, <1>2, TailRange DEF NrtEndAction
<1>4. a \in Actions(made) /\ a.heap \in 1 .. made /\ a # NoAction /\ a.heap \in Heaps
  <2>1. a \in Actions(made)
    BY <1>1, <1>2, <1>3, EntriesAre
  <2>2. made <= MaxHeaps /\ MaxHeaps \in Nat
    BY BoundsAre DEF StateTyped, TypeOK
  <2>3. a.heap \in 1 .. made /\ a # NoAction
    BY <1>1, <2>1, EntriesAre
  <2>. QED BY <1>1, <2>1, <2>2, <2>3, BoundsAre
<1>5. Holding'["toNrt"] = Holding["toNrt"] \ {a} /\ a \in Holding["toNrt"]
  <2>1. Ordered(toNrt)
    BY DEF Calm, QueuesOrdered
  <2>2. Acts(toNrt') = Acts(toNrt) \ {a}
    BY <1>1, <1>2, <1>3, <2>1, ActsTail
  <2>3. a \in Acts(toNrt)
    BY <1>2, <1>3, <1>4, ActsAre DEF Carries
  <2>. QED BY <2>2, <2>3, HoldingAre, HoldingNext
<1>6. /\ made' = made /\ content' = content /\ filled' = filled
      /\ offset' = offset /\ rtHeap' = rtHeap /\ now' = now /\ pouring' = pouring
      /\ toRt' = toRt /\ flushing' = flushing /\ flushes' = flushes
      /\ startAt' = startAt /\ calledAt' = calledAt /\ current' = current
      /\ filledTo' = filledTo
  BY DEF NrtEndAction, rtVars, userVars, flushVars, history
<1>7. \A p \in Places : p # "toNrt" => Holding'[p] = Holding[p]
  BY <1>6, HoldingAre, HoldingNext DEF Places
<1>8. a.heap \notin Range(pool) /\ content[a.heap] = <<>>
  BY <1>5 DEF Calm, HeapsApart, ContentsRight, Places
<1>9. /\ Range(pool') = Range(pool) \cup {a.heap}
      /\ \A j, k \in DOMAIN pool' : pool'[j] = pool'[k] => j = k
  <2>1. pool' = <<a.heap>> \o pool
    BY <1>2 DEF NrtEndAction
  <2>2. a.heap \notin Range(pool) /\ \A j, k \in DOMAIN pool : pool[j] = pool[k] => j = k
    BY <1>8 DEF Calm, HeapsApart
  <2>. QED BY <1>1, <1>4, <2>1, <2>2, PoolPush
<1>10. \A p \in Places : Holding'[p] \subseteq Holding[p]
  BY <1>5, <1>7
<1>11. ASSUME NEW p \in Places, NEW b \in Holding'[p] PROVE b.heap # a.heap
  <2>1. b \in Holding[p] /\ (p # "toNrt" \/ b # a)
    BY <1>5, <1>10
  <2>. QED BY <1>5, <2>1 DEF Calm, HeapsApart, Distinct, Places
<1>12. HeapsApart'
  <2>1. Distinct(Holding)'
    BY <1>10 DEF Calm, HeapsApart, Distinct
  <2>2. \A p \in Places : \A b \in Holding'[p] : b.heap \notin Range(pool') /\ b.schedule <= current'
    BY <1>6, <1>9, <1>10, <1>11 DEF Calm, HeapsApart
  <2>3. ASSUME NEW h \in 1 .. made'
        PROVE  h \in Range(pool') \/ \E p \in Places : \E b \in Holding'[p] : b.heap = h
    <3>1. CASE h = a.heap
      BY <1>9, <3>1
    <3>2. CASE h # a.heap /\ h \notin Range(pool)
      <4>1. PICK p \in Places : \E b \in Holding[p] : b.heap = h
        BY <1>6, <3>2 DEF Calm, HeapsApart
      <4>2. PICK b \in Holding[p] : b.heap = h
        BY <4>1
      <4>3. b \in Holding'[p]
        BY <1>5, <1>7, <3>2, <4>2
      <4>. QED BY <4>2, <4>3
    <3>. QED BY <1>9, <3>1, <3>2
  <2>. QED BY <1>9, <2>1, <2>2, <2>3 DEF HeapsApart
<1>13. ContentsRight'
  <2>1. \A e : Entered(e)' <=> Entered(e)
    BY <1>6 DEF Entered
  <2>. QED BY <1>6, <1>8, <1>9, <1>10, <2>1 DEF Calm, ContentsRight, Places
<1>14. QueuesOrdered'
  BY <1>1, <1>3, <1>6, TailOrdered DEF Calm, QueuesOrdered
<1>15. NoFlush'
  BY <1>3, <1>6 DEF Calm, NoFlush
<1>16. StartsRight' /\ BodyDone'
  BY <1>6, <1>7 DEF Calm, StartsRight, Started, BodyDone, Places
<1>17. EntriesRight' /\ PouringInTime'
  BY <1>6 DEF Calm, EntriesRight, PouringInTime, StartRight, PourRight, EventRight, Started
<1>18. PouredFirst'
  BY <1>6, <1>7 DEF Calm, PouredFirst, Places
<1>19. NoEventLost'
  BY <1>6, StoredIs DEF Calm, NoEventLost, Pending, Entered, Flushed
<1>20. CalledOnTime'
  BY <1>6 DEF Calm, CalledOnTime, Flushed
<1>. QED BY <1>12, <1>13, <1>14, <1>15, <1>16, <1>17, <1>18, <1>19, <1>20 DEF Calm

-----------------------------------------------------------------------------
(* The rt-thread *)

LEMMA RtReceiveCalm ==
    ASSUME StateTyped, StateTyped', ~Flushed, Calm, RtReceive
    PROVE  Calm'
<1>1. /\ toRt \in Seq(ToRtEntries(made)) /\ toRt # <<>> /\ made \in Nat
      /\ rtHeap \in Seq(RtEntries(made)) /\ pouring = NoAction
  BY BoundsAre DEF StateTyped, TypeOK, RtReceive
<1>2. PICK x, a : x = Head(toRt) /\ a = x.action
  OBVIOUS
<1>3. /\ toRt' = Tail(toRt) /\ Range(toRt) = Range(toRt') \cup {x}
      /\ x \in ToRtEntries(made) /\ x \in Range(toRt)
  BY <1>1, <1>2, TailRange DEF RtReceive
<1>4. x.what = "start" /\ x.time = 0
  BY <1>3 DEF Calm, NoFlush
<1>5. x \in RtEntries(made) /\ a \in Actions(made) /\ a # NoAction
  BY <1>1, <1>2, <1>3, <1>4, EntriesAre
<1>6. rtHeap' = Insert(rtHeap, x) /\ Range(rtHeap') = Range(rtHeap) \cup {x}
  <2>1. rtHeap' = Insert(rtHeap, x)
    BY <1>2, <1>4 DEF RtReceive
  <2>. QED BY <1>1, <1>5, <2>1, EntriesTimed, InsertRange
<1>7. /\ pool' = pool /\ made' = made /\ content' = content /\ filled' = filled
      /\ offset' = offset /\ now' = now /\ pouring' = pouring
      /\ toNrt' = toNrt /\ flushing' = flushing /\ flushes' = flushes
      /\ startAt' = startAt /\ calledAt' = calledAt /\ current' = current
      /\ filledTo' = filledTo
  BY DEF RtReceive, userVars, flushVars, history
<1>8. Holding'["toRt"] = Holding["toRt"] \ {a} /\ a \in Holding["toRt"]
  <2>1. Ordered(toRt)
    BY DEF Calm, QueuesOrdered
  <2>2. Acts(toRt') = Acts(toRt) \ {a}
    BY <1>1, <1>2, <1>3, <2>1, ActsTail
  <2>3. a \in Acts(toRt)
    BY <1>2, <1>3, <1>5, ActsAre DEF Carries
  <2>. QED BY <2>2, <2>3, HoldingAre, HoldingNext
<1>9. Holding'["rtHeap"] = Holding["rtHeap"] \cup {a}
  BY <1>2, <1>5, <1>6, ActsAdd, HoldingAre, HoldingNext
<1>10. Moves(Holding, Holding', "toRt", "rtHeap", a)
  <2>1. \A p \in Places : p \notin {"toRt", "rtHeap"} => Holding'[p] = Holding[p]
    BY <1>7, HoldingAre, HoldingNext DEF Places
  <2>. QED BY <1>8, <1>9, <2>1 DEF Moves, Places
<1>11. HeapsApart' /\ SameActions(Holding, Holding')
  BY <1>7, <1>10, MovedApart DEF Calm
<1>12. ContentsRight'
  BY <1>7, <1>11, ContentsMoved DEF Calm
<1>13. ~Started(a.schedule)
  BY <1>8 DEF Calm, StartsRight
<1>14. ASSUME NEW y \in Range(rtHeap), IsEvent(y) PROVE y.event[1] # a.schedule
  BY <1>13, <1>14 DEF Calm, EntriesRight, EventRight, IsEvent
<1>15. QueuesOrdered'
  <2>1. ASSUME NEW y \in Range(rtHeap)
        PROVE  /\ y.time <= x.time => Fine(y, x)
               /\ y.time > x.time => Fine(x, y)
    <3>1. y.time \in Nat /\ (Carries(y) => y.action \in Holding["rtHeap"])
      BY RtEntryIs, ActsAre, HoldingAre
    <3>2. Carries(y) => y.action.heap # a.heap /\ y.action.schedule # a.schedule
      BY <1>8, <3>1 DEF Calm, HeapsApart, Distinct, Places
    <3>. QED BY <1>2, <1>4, <1>14, <3>1, <3>2 DEF Fine, IsEvent
  <2>2. Ordered(rtHeap')
    BY <1>1, <1>5, <1>6, <2>1, EntriesTimed, InsertOrdered DEF Calm, QueuesOrdered
  <2>3. Ordered(toRt')
    BY <1>1, <1>3, TailOrdered DEF Calm, QueuesOrdered
  <2>. QED BY <1>7, <2>2, <2>3 DEF Calm, QueuesOrdered
<1>16. NoFlush'
  BY <1>3, <1>7 DEF Calm, NoFlush
<1>17. BodyDone' /\ CalledOnTime'
  BY <1>7 DEF Calm, BodyDone, CalledOnTime, Flushed
<1>18. StartsRight'
  <2>1. Holding'["user"] \cup Holding'["toRt"] \subseteq Holding["user"] \cup Holding["toRt"]
    BY <1>7, <1>8, HoldingAre, HoldingNext
  <2>. QED BY <1>7, <2>1 DEF Calm, StartsRight, Started
<1>19. EntriesRight'
  <2>1. StartRight(x)'
    BY <1>2, <1>4, <1>7, <1>13 DEF StartRight, Started
  <2>2. ASSUME NEW y \in Range(rtHeap)
        PROVE  /\ y.what = "start" => StartRight(y)'
               /\ y.what = "pour" => PourRight(y)'
               /\ y.what = "event" => EventRight(y)'
    BY <1>7 DEF Calm, EntriesRight, StartRight, PourRight, EventRight, Started
  <2>. QED BY <1>4, <1>6, <2>1, <2>2 DEF EntriesRight
<1>20. PouringInTime'
  BY <1>1, <1>7 DEF PouringInTime
<1>21. PouredFirst'
  <2> SUFFICES ASSUME NEW b \in Holding'["rtHeap"] \cup Holding'["rt"], NEW y \in Range(rtHeap'),
                      NEW z \in Range(content'[b.heap]), IsEvent(y), y.event[1] = b.schedule
               PROVE  Before(y.event, z.event)
    BY DEF PouredFirst, Before, Rel
  <2>1. y \in Range(rtHeap)
    BY <1>4, <1>6 DEF IsEvent
  <2>2. b # a
    BY <1>14, <2>1
  <2>3. b \in Holding["rtHeap"] \cup Holding["rt"]
    BY <1>7, <1>9, <2>2, HoldingAre, HoldingNext
  <2>. QED BY <1>7, <2>1, <2>3 DEF Calm, PouredFirst
<1>22. NoEventLost'
  <2>1. \A e \in Events : Stored(e) => Stored(e)'
    BY <1>6, <1>7, StoredIs
  <2>. QED BY <1>7, <2>1 DEF Calm, NoEventLost, Pending, Entered, Flushed
<1>. QED BY <1>11, <1>12, <1>15, <1>16, <1>17, <1>18, <1>19, <1>20, <1>21, <1>22 DEF Calm

\* What is known of the entry that the rt-thread takes.
LEMMA RtTakes ==
    ASSUME StateTyped, Calm, RtDue
    PROVE  /\ rtHeap # <<>> /\ made \in Nat /\ now \in Nat /\ pouring = NoAction
           /\ Tail(rtHeap) \in Seq(RtEntries(made)) /\ Head(rtHeap) \in Range(rtHeap)
           /\ Range(rtHeap) = Range(Tail(rtHeap)) \cup {Head(rtHeap)}
           /\ Ordered(Tail(rtHeap)) /\ Ordered(rtHeap)
           /\ \A y \in Range(Tail(rtHeap)) : Fine(Head(rtHeap), y)
           /\ Acts(Tail(rtHeap)) = Acts(rtHeap) \ {Head(rtHeap).action}
           /\ Head(rtHeap).time <= 2 * now + 1
<1>1. rtHeap # <<>> /\ pouring = NoAction /\ Due(Head(rtHeap).time) /\ now \in Nat
  BY BoundsAre DEF RtDue, StateTyped, TypeOK
<1>2. /\ made \in Nat /\ rtHeap \in Seq(RtEntries(made)) /\ Tail(rtHeap) \in Seq(RtEntries(made))
      /\ Range(rtHeap) = Range(Tail(rtHeap)) \cup {Head(rtHeap)}
  BY <1>1, FirstOfRtHeap
<1>3. Ordered(rtHeap)
  BY DEF Calm, QueuesOrdered
<1>4. Ordered(Tail(rtHeap)) /\ \A y \in Range(Tail(rtHeap)) : Fine(Head(rtHeap), y)
  BY <1>1, <1>2, <1>3, TailOrdered
<1>5. Acts(Tail(rtHeap)) = Acts(rtHeap) \ {Head(rtHeap).action}
  BY <1>1, <1>2, <1>3, ActsTail
<1>6. Head(rtHeap).time \in Nat
  BY <1>2, RtEntryIs
<1>7. Head(rtHeap).time <= 2 * now + 1
  BY <1>1, <1>6 DEF Due
<1>. QED BY <1>1, <1>2, <1>3, <1>4, <1>5, <1>7

LEMMA CallEventCalm ==
    ASSUME StateTyped, StateTyped', ~Flushed, Calm, CallEvent
    PROVE  Calm'
<1>1. RtDue
  BY DEF CallEvent
<1>2. PICK x, f : x = Head(rtHeap) /\ f = x.event
  OBVIOUS
<1>3. /\ x.what = "event" /\ x \in Range(rtHeap) /\ rtHeap' = Tail(rtHeap) /\ now \in Nat
      /\ Range(rtHeap) = Range(rtHeap') \cup {x} /\ Ordered(rtHeap')
      /\ \A y \in Range(rtHeap') : Fine(x, y)
      /\ Acts(rtHeap') = Acts(rtHeap) \ {x.action} /\ x.time <= 2 * now + 1
      /\ pouring = NoAction
  BY <1>1, <1>2, RtTakes DEF CallEvent
<1>4. x.time \in Nat /\ f \in Events /\ x.action = NoAction
  BY <1>2, <1>3, RtEntryIs
<1>5. /\ Started(f[1]) /\ x.time = Rel(f) + 2 * startAt[f[1]] /\ x.time >= 2 * now
      /\ calledAt[f] = Never
  BY <1>2, <1>3 DEF Calm, EntriesRight, EventRight
<1>6. calledAt' = [calledAt EXCEPT ![f] = now]
  BY <1>2 DEF CallEvent
<1>7. /\ calledAt'[f] = now /\ \A e \in Events : e # f => calledAt'[e] = calledAt[e]
  BY <1>4, <1>6 DEF StateTyped, TypeOK
<1>8. /\ pool' = pool /\ made' = made /\ content' = content /\ filled' = filled
      /\ offset' = offset /\ now' = now /\ pouring' = pouring
      /\ toRt' = toRt /\ toNrt' = toNrt /\ flushing' = flushing /\ flushes' = flushes
      /\ startAt' = startAt /\ current' = current /\ filledTo' = filledTo
  BY DEF CallEvent, mail, userVars, flushVars
<1>9. Acts(rtHeap') = Acts(rtHeap)
  BY <1>3, <1>4 DEF Acts
<1>10. Holding' = Holding
  BY <1>8, <1>9 DEF Holding, Acts
<1>11. ASSUME NEW h \in Heaps, NEW y \in Range(content[h]) PROVE y.event # f
  <2> SUFFICES ASSUME y.event = f PROVE FALSE
    OBVIOUS
  <2>1. PICK a \in Holding["rtHeap"] \cup Holding["rt"] : a.heap = h /\ a.schedule = f[1]
    BY <1>5, StartedOwner
  <2>2. Before(f, f)
    BY <1>2, <1>3, <2>1 DEF Calm, PouredFirst, IsEvent
  <2>3. Rel(f) \in Nat /\ f[2] \in Nat
    <3>1. f[1] \in Schedules /\ f[2] \in 1 .. Len(Bodies[f[1]]) /\ Rel(f) \in Nat
      BY <1>4, EventsAre
    <3>. QED BY <3>1, EventsAre
  <2>. QED BY <2>2, <2>3 DEF Before
<1>12. HeapsApart' /\ NoFlush' /\ BodyDone'
  BY <1>8, <1>10 DEF Calm, HeapsApart, NoFlush, BodyDone
<1>13. QueuesOrdered'
  BY <1>3, <1>8 DEF Calm, QueuesOrdered
<1>14. ContentsRight'
  <2>1. \A e : Entered(e)' <=> Entered(e)
    BY <1>8 DEF Entered
  <2>2. ASSUME NEW h \in Heaps, NEW y \in Range(content[h])
        PROVE  calledAt'[y.event] = Never
    <3>1. y.event \in Events /\ y.event # f
      BY <1>11, ContentIs
    <3>. QED BY <1>7, <3>1 DEF Calm, ContentsRight
  <2>. QED BY <1>8, <1>10, <2>1, <2>2 DEF Calm, ContentsRight
<1>15. StartsRight'
  <2>1. ASSUME NEW e \in Events, calledAt'[e] # Never PROVE Started(e[1])'
    <3>1. Started(e[1])
      BY <1>5, <1>7, <2>1 DEF Calm, StartsRight
    <3>. QED BY <1>8, <3>1 DEF Started
  <2>. QED BY <1>8, <1>10, <2>1 DEF Calm, StartsRight, Started
<1>16. EntriesRight'
  <2> SUFFICES ASSUME NEW y \in Range(rtHeap')
               PROVE  /\ y.what = "start" => StartRight(y)'
                      /\ y.what = "pour" => PourRight(y)'
                      /\ y.what = "event" => EventRight(y)'
    BY DEF EntriesRight
  <2>0. y \in Range(rtHeap)
    BY <1>3
  <2>1. y.what = "start" => StartRight(y)'
    BY <1>8, <2>0 DEF Calm, EntriesRight, StartRight, Started
  <2>2. y.what = "pour" => PourRight(y)'
    BY <1>8, <2>0 DEF Calm, EntriesRight, PourRight, Started
  <2>3. ASSUME y.what = "event" PROVE EventRight(y)'
    <3>1. y.event # f /\ y.event \in Events
      BY <1>2, <1>3, <2>0, <2>3, RtEntryIs DEF Fine, IsEvent
    <3>2. EventRight(y)
      BY <2>0, <2>3 DEF Calm, EntriesRight
    <3>. QED BY <1>7, <1>8, <3>1, <3>2 DEF EventRight, Started
  <2>. QED BY <2>1, <2>2, <2>3
<1>17. PouringInTime'
  BY <1>3, <1>8 DEF PouringInTime
<1>18. PouredFirst'
  BY <1>3, <1>8, <1>10 DEF Calm, PouredFirst
<1>19. NoEventLost'
  <2> SUFFICES ASSUME NEW e \in Events, Entered(e)', calledAt'[e] = Never
               PROVE  Stored(e)'
    BY DEF NoEventLost, Pending
  <2>1. e # f
    <3>1. now # Never
      BY BoundsAre DEF StateTyped, TypeOK
    <3>. QED BY <1>7, <3>1
  <2>2. Entered(e) /\ calledAt[e] = Never
    BY <1>7, <1>8, <2>1 DEF Entered
  <2>3. Stored(e)
    BY <2>2 DEF Calm, NoEventLost, Pending
  <2>. QED BY <1>2, <1>3, <1>8, <2>1, <2>3, StoredIs
<1>20. CalledOnTime'
  <2>1. ASSUME NEW e \in Events, calledAt'[e] # Never
        PROVE  calledAt'[e] = startAt'[e[1]] + Rel(e) \div 2
    <3>1. CASE e = f
      <4>1. Rel(f) \in Nat /\ startAt[f[1]] \in Nat
        <5>1. Rel(f) \in Nat /\ f[1] \in Schedules
          BY <1>4, EventsAre
        <5>2. startAt[f[1]] \in 0 .. Never
          BY <5>1 DEF StateTyped, TypeOK
        <5>. QED BY <5>1, <5>2, BoundsAre
      <4>2. PICK t, s : t = Rel(f) /\ s = startAt[f[1]]
        OBVIOUS
      <4>3. t \in Nat /\ s \in Nat /\ t + 2 * s <= 2 * now + 1 /\ t + 2 * s >= 2 * now
        BY <1>3, <1>5, <4>1, <4>2
      <4>4. now = s + t \div 2
        BY <1>3, <4>3
      <4>. QED BY <1>7, <1>8, <3>1, <4>2, <4>4
    <3>2. CASE e # f
      BY <1>7, <1>8, <2>1, <3>2 DEF Calm, CalledOnTime
    <3>. QED BY <3>1, <3>2
  <2>. QED BY <2>1 DEF CalledOnTime, Rel
<1>. QED BY <1>12, <1>13, <1>14, <1>15, <1>16, <1>17, <1>18, <1>19, <1>20 DEF Calm

\* The first entry of the real-time heap becomes the action that is poured.
LEMMA PourMoves ==
    ASSUME StateTyped, ~Flushed, Calm, RtDue, Head(rtHeap).what # "event",
           rtHeap' = Tail(rtHeap), pouring' = Head(rtHeap).action,
           pool' = pool, made' = made, toRt' = toRt, toNrt' = toNrt, current' = current,
           filled' = filled
    PROVE  /\ Moves(Holding, Holding', "rtHeap", "rt", Head(rtHeap).action)
           /\ HeapsApart' /\ SameActions(Holding, Holding')
           /\ Holding'["rtHeap"] \cup Holding'["rt"] = Holding["rtHeap"] \cup Holding["rt"]
           /\ Holding'["user"] = Holding["user"] /\ Holding'["toRt"] = Holding["toRt"]
<1>1. PICK x, a : x = Head(rtHeap) /\ a = x.action
  OBVIOUS
<1>2. x \in Range(rtHeap) /\ Acts(rtHeap') = Acts(rtHeap) \ {a} /\ pouring = NoAction
  BY <1>1, RtTakes
<1>3. a \in Holding["rtHeap"] /\ a # NoAction
  BY <1>1, <1>2, RtEntryIs DEF Carries
<1>4. /\ Holding["rt"] = {} /\ Holding'["rt"] = {a}
      /\ Holding'["rtHeap"] = Holding["rtHeap"] \ {a}
  BY <1>1, <1>2, <1>3, HoldingAre, HoldingNext
<1>5. Holding'["user"] = Holding["user"] /\ Holding'["toRt"] = Holding["toRt"]
      /\ Holding'["toNrt"] = Holding["toNrt"]
  BY HoldingAre, HoldingNext
<1>6. Moves(Holding, Holding', "rtHeap", "rt", a)
  BY <1>3, <1>4, <1>5 DEF Moves, Places
<1>7. HeapsApart' /\ SameActions(Holding, Holding')
  BY <1>6, MovedApart DEF Calm
<1>. QED BY <1>1, <1>3, <1>4, <1>5, <1>6, <1>7

LEMMA StartPourCalm ==
    ASSUME StateTyped, StateTyped', ~Flushed, Calm, StartPour
    PROVE  Calm'
<1>1. RtDue
  BY DEF StartPour
<1>2. PICK x, a : x = Head(rtHeap) /\ a = x.action
  OBVIOUS
<1>3. /\ x.what = "start" /\ x \in Range(rtHeap) /\ rtHeap' = Tail(rtHeap) /\ now \in Nat
      /\ Range(rtHeap) = Range(rtHeap') \cup {x} /\ Ordered(rtHeap')
      /\ \A y \in Range(rtHeap') : Fine(x, y)
      /\ pouring = NoAction
  BY <1>1, <1>2, RtTakes DEF StartPour
<1>4. /\ a \in Holding["rtHeap"] /\ a # NoAction /\ Carries(x) /\ a.heap \in Heaps
      /\ a.schedule \in Schedules
  BY <1>2, <1>3, RtEntryIs DEF Carries
<1>5. /\ pouring' = a /\ offset' = [offset EXCEPT ![a.heap] = now]
      /\ startAt' = [startAt EXCEPT ![a.schedule] = now]
  BY <1>2 DEF StartPour
<1>6. /\ offset'[a.heap] = now /\ \A h \in Heaps : h # a.heap => offset'[h] = offset[h]
      /\ startAt'[a.schedule] = now
      /\ \A s \in Schedules : s # a.schedule => startAt'[s] = startAt[s]
  BY <1>4, <1>5 DEF StateTyped, TypeOK
<1>7. /\ pool' = pool /\ made' = made /\ content' = content /\ filled' = filled
      /\ now' = now /\ toRt' = toRt /\ toNrt' = toNrt /\ flushing' = flushing
      /\ flushes' = flushes /\ calledAt' = calledAt /\ current' = current /\ filledTo' = filledTo
  BY DEF StartPour, mail, userVars, flushVars
<1>8. /\ Moves(Holding, Holding', "rtHeap", "rt", a)
      /\ HeapsApart' /\ SameActions(Holding, Holding')
      /\ Holding'["rtHeap"] \cup Holding'["rt"] = Holding["rtHeap"] \cup Holding["rt"]
      /\ Holding'["user"] = Holding["user"] /\ Holding'["toRt"] = Holding["toRt"]
  BY <1>1, <1>2, <1>3, <1>5, <1>7, PourMoves
<1>9. ~Started(a.schedule)
  BY <1>2, <1>3 DEF Calm, EntriesRight, StartRight
<1>10. \A s \in Schedules : Started(s)' <=> Started(s) \/ s = a.schedule
  <2>1. now # Never
    BY BoundsAre DEF StateTyped, TypeOK
  <2>. QED BY <1>6, <2>1 DEF Started
<1>11. ContentsRight'
  BY <1>7, <1>8, ContentsMoved DEF Calm
<1>12. NoFlush' /\ BodyDone'
  BY <1>7 DEF Calm, NoFlush, BodyDone
<1>13. QueuesOrdered'
  BY <1>3, <1>7 DEF Calm, QueuesOrdered
<1>14. StartsRight'
  <2>1. ASSUME NEW s \in Schedules, Started(s)' PROVE s <= current' /\ startAt'[s] <= now'
    <3>1. CASE s = a.schedule
      <4>1. s <= current
        BY <1>4, <3>1 DEF Calm, HeapsApart, Places
      <4>. QED BY <1>3, <1>6, <1>7, <3>1, <4>1
    <3>2. CASE s # a.schedule
      BY <1>6, <1>7, <1>10, <2>1, <3>2 DEF Calm, StartsRight
    <3>. QED BY <3>1, <3>2
  <2>2. ASSUME NEW b \in Holding'["user"] \cup Holding'["toRt"] PROVE ~Started(b.schedule)'
    <3>1. b.schedule # a.schedule /\ b.schedule \in Schedules
      <4>1. PICK p \in {"user", "toRt"} : b \in Holding[p]
        BY <1>8, <2>2
      <4>. QED BY <1>4, <4>1, HoldersTyped DEF Calm, HeapsApart, Distinct, Places
    <3>. QED BY <1>8, <1>10, <2>2, <3>1 DEF Calm, StartsRight
  <2>3. Started(a.schedule)' /\ offset'[a.heap] = startAt'[a.schedule]
    BY <1>4, <1>6, <1>10
  <2>4. ASSUME NEW e \in Events, calledAt'[e] # Never PROVE Started(e[1])'
    BY <1>7, <1>10, <2>4, EventsAre DEF Calm, StartsRight
  <2>5. Started(pouring.schedule)' <=> Started(a.schedule)'
    BY <1>5 DEF Started
  <2>. QED BY <1>5, <2>1, <2>2, <2>3, <2>4, <2>5 DEF StartsRight
<1>15. EntriesRight'
  <2> SUFFICES ASSUME NEW y \in Range(rtHeap')
               PROVE  /\ y.what = "start" => StartRight(y)'
                      /\ y.what = "pour" => PourRight(y)'
                      /\ y.what = "event" => EventRight(y)'
    BY DEF EntriesRight
  <2>0. y \in Range(rtHeap) /\ Fine(x, y)
    BY <1>3
  <2>1. ASSUME y.what # "event"
        PROVE  /\ y.action.heap # a.heap /\ y.action.schedule # a.schedule
               /\ y.action.heap \in Heaps /\ y.action.schedule \in Schedules
    BY <1>2, <1>4, <2>0, <2>1, RtEntryIs DEF Fine
  <2>2. ASSUME y.what = "start" PROVE StartRight(y)'
    BY <1>10, <2>0, <2>1, <2>2 DEF Calm, EntriesRight, StartRight
  <2>3. ASSUME y.what = "pour" PROVE PourRight(y)'
    <3>1. PourRight(y)
      BY <2>0, <2>3 DEF Calm, EntriesRight
    <3>2. Started(y.action.schedule)'
      BY <1>10, <2>1, <2>3, <3>1 DEF PourRight
    <3>3. offset'[y.action.heap] = offset[y.action.heap]
          /\ startAt'[y.action.schedule] = startAt[y.action.schedule]
      BY <1>6, <2>1, <2>3
    <3>. QED BY <1>7, <3>1, <3>2, <3>3 DEF PourRight, Started
  <2>4. ASSUME y.what = "event" PROVE EventRight(y)'
    <3>1. EventRight(y) /\ y.event \in Events
      BY <2>0, <2>4, RtEntryIs DEF Calm, EntriesRight
    <3>2. y.event[1] \in Schedules /\ y.event[1] # a.schedule
      BY <1>9, <3>1, EventsAre DEF EventRight
    <3>. QED BY <1>6, <1>7, <3>1, <3>2 DEF EventRight, Started
  <2>. QED BY <2>2, <2>3, <2>4
<1>16. PouringInTime'
  <2>1. ASSUME NEW y \in Range(content[a.heap]) PROVE y.time + 2 * now >= 2 * now
    BY <1>3, <1>4, ContentIs
  <2>. QED BY <1>5, <1>6, <1>7, <2>1 DEF PouringInTime
<1>17. PouredFirst'
  BY <1>3, <1>7, <1>8 DEF Calm, PouredFirst
<1>18. NoEventLost'
  <2>1. ASSUME NEW e \in Events, Stored(e) PROVE Stored(e)'
    <3>1. x.event # e
      BY <1>2, <1>3, RtEntryIs, EventsAre
    <3>. QED BY <1>3, <1>7, <2>1, <3>1, StoredIs
  <2>. QED BY <1>7, <2>1 DEF Calm, NoEventLost, Pending, Entered, Flushed
<1>19. CalledOnTime'
  <2>1. ASSUME NEW e \in Events, calledAt'[e] # Never
        PROVE  calledAt'[e] = startAt'[e[1]] + Rel(e) \div 2
    <3>1. e[1] \in Schedules /\ e[1] # a.schedule
      BY <1>7, <1>9, <2>1, EventsAre DEF Calm, StartsRight
    <3>. QED BY <1>6, <1>7, <2>1, <3>1 DEF Calm, CalledOnTime
  <2>. QED BY <2>1 DEF CalledOnTime, Rel
<1>. QED BY <1>8, <1>11, <1>12, <1>13, <1>14, <1>15, <1>16, <1>17, <1>18, <1>19 DEF Calm

LEMMA ContinuePourCalm ==
    ASSUME StateTyped, StateTyped', ~Flushed, Calm, ContinuePour
    PROVE  Calm'
<1>1. RtDue
  BY DEF ContinuePour
<1>2. PICK x, a : x = Head(rtHeap) /\ a = x.action
  OBVIOUS
<1>3. /\ x.what = "pour" /\ x \in Range(rtHeap) /\ rtHeap' = Tail(rtHeap) /\ now \in Nat
      /\ Range(rtHeap) = Range(rtHeap') \cup {x} /\ Ordered(rtHeap')
      /\ pouring' = a
  BY <1>1, <1>2, RtTakes DEF ContinuePour
<1>4. a.heap \in Heaps /\ a.schedule \in Schedules /\ x.time \in Nat
  BY <1>2, <1>3, RtEntryIs
<1>5. /\ pool' = pool /\ made' = made /\ content' = content /\ filled' = filled
      /\ offset' = offset /\ startAt' = startAt
      /\ now' = now /\ toRt' = toRt /\ toNrt' = toNrt /\ flushing' = flushing
      /\ flushes' = flushes /\ calledAt' = calledAt /\ current' = current /\ filledTo' = filledTo
  BY DEF ContinuePour, mail, userVars, flushVars, history
<1>6. /\ HeapsApart' /\ SameActions(Holding, Holding')
      /\ Holding'["rtHeap"] \cup Holding'["rt"] = Holding["rtHeap"] \cup Holding["rt"]
      /\ Holding'["user"] = Holding["user"] /\ Holding'["toRt"] = Holding["toRt"]
  BY <1>1, <1>2, <1>3, <1>5, PourMoves
<1>7. /\ Started(a.schedule) /\ offset[a.heap] = startAt[a.schedule] /\ x.time >= 2 * now
      /\ \A y \in Range(content[a.heap]) : y.time + 2 * offset[a.heap] >= x.time
  BY <1>2, <1>3 DEF Calm, EntriesRight, PourRight
<1>8. ContentsRight'
  BY <1>5, <1>6, ContentsMoved DEF Calm
<1>9. NoFlush' /\ BodyDone' /\ CalledOnTime'
  BY <1>5 DEF Calm, NoFlush, BodyDone, CalledOnTime, Flushed
<1>10. QueuesOrdered'
  BY <1>3, <1>5 DEF Calm, QueuesOrdered
<1>11. StartsRight'
  BY <1>3, <1>5, <1>6, <1>7 DEF Calm, StartsRight, Started
<1>12. EntriesRight'
  BY <1>3, <1>5 DEF Calm, EntriesRight, StartRight, PourRight, EventRight, Started
<1>13. PouringInTime'
  <2>1. ASSUME NEW y \in Range(content[a.heap]) PROVE y.time + 2 * offset[a.heap] >= 2 * now
    <3>1. y.time \in Nat /\ offset[a.heap] \in Nat
      BY <1>4, ContentIs DEF StateTyped
    <3>. QED BY <1>3, <1>4, <1>7, <3>1
  <2>. QED BY <1>3, <1>5, <2>1 DEF PouringInTime
<1>14. PouredFirst'
  BY <1>3, <1>5, <1>6 DEF Calm, PouredFirst
<1>15. NoEventLost'
  <2>1. ASSUME NEW e \in Events, Stored(e) PROVE Stored(e)'
    <3>1. x.event # e
      BY <1>2, <1>3, RtEntryIs, EventsAre
    <3>. QED BY <1>3, <1>5, <2>1, <3>1, StoredIs
  <2>. QED BY <1>5, <2>1 DEF Calm, NoEventLost, Pending, Entered, Flushed
<1>. QED BY <1>6, <1>8, <1>9, <1>10, <1>11, <1>12, <1>13, <1>14, <1>15 DEF Calm

\* What is known of the event that is poured.
LEMMA PouredIs ==
    ASSUME StateTyped, Calm, pouring # NoAction, Poured # <<>>, NEW y, y = Head(Poured)
    PROVE  /\ y \in Range(content[pouring.heap]) /\ y.event \in Events
           /\ y.event[1] = pouring.schedule /\ y.time = Rel(y.event) /\ y.time \in Nat
           /\ calledAt[y.event] = Never /\ Started(pouring.schedule)
           /\ startAt[pouring.schedule] \in Nat
           /\ PouredTime = Rel(y.event) + 2 * startAt[pouring.schedule]
           /\ PouredTime \in Nat /\ PouredTime >= 2 * now
           /\ Tail(Poured) \in Seq(EventEntries)
           /\ Range(Poured) = Range(Tail(Poured)) \cup {y}
           /\ Ordered(Tail(Poured)) /\ \A z \in Range(Tail(Poured)) : Fine(y, z)
<1>1. /\ pouring.heap \in Heaps /\ pouring.schedule \in Schedules /\ Poured \in Seq(EventEntries)
      /\ Tail(Poured) \in Seq(EventEntries)
      /\ Range(Poured) = Range(Tail(Poured)) \cup {y} /\ PouredTime \in Nat
  BY PouredAre
<1>2. y \in Range(content[pouring.heap])
  BY <1>1 DEF Poured
<1>3. y.event \in Events /\ y.time \in Nat
  BY <1>1, <1>2, ContentIs
<1>4. pouring \in Holding["rt"]
  BY HoldingAre
<1>5. y.event[1] = pouring.schedule
  BY <1>2, <1>4 DEF Calm, ContentsRight, Places
<1>6. y.time = Rel(y.event) /\ calledAt[y.event] = Never
  BY <1>1, <1>2 DEF Calm, ContentsRight
<1>7. Started(pouring.schedule) /\ offset[pouring.heap] = startAt[pouring.schedule]
  BY DEF Calm, StartsRight
<1>8. startAt[pouring.schedule] \in Nat
  <2>1. startAt[pouring.schedule] \in 0 .. Never
    BY <1>1 DEF StateTyped, TypeOK
  <2>. QED BY <2>1, BoundsAre
<1>9. PouredTime = Rel(y.event) + 2 * startAt[pouring.schedule]
  BY <1>6, <1>7 DEF PouredTime
<1>10. PouredTime >= 2 * now
  BY <1>2 DEF Calm, PouringInTime, PouredTime
<1>11. Ordered(Poured)
  BY <1>1 DEF Calm, ContentsRight, Poured
<1>12. Ordered(Tail(Poured)) /\ \A z \in Range(Tail(Poured)) : Fine(y, z)
  BY <1>1, <1>11, TailOrdered
<1>. QED BY <1>1, <1>2, <1>3, <1>5, <1>6, <1>7, <1>8, <1>9, <1>10, <1>12

\* Other actions have other heaps and schedules, other heaps other events.
LEMMA OthersAre ==
    ASSUME StateTyped, Calm, pouring # NoAction
    PROVE  /\ \A p \in Places : \A b \in Holding[p] :
                 p # "rt" => b.heap # pouring.heap /\ b.schedule # pouring.schedule
           /\ \A h \in Heaps : \A y \in Range(content[h]) :
                 y.event[1] = pouring.schedule => h = pouring.heap
           /\ Holding["rt"] = {pouring}
<1>1. Holding["rt"] = {pouring}
  BY HoldingAre
<1>2. \A p \in Places : \A b \in Holding[p] :
                 p # "rt" => b.heap # pouring.heap /\ b.schedule # pouring.schedule
  BY <1>1 DEF Calm, HeapsApart, Distinct, Places
<1>3. ASSUME NEW h \in Heaps, NEW y \in Range(content[h]), y.event[1] = pouring.schedule
      PROVE  h = pouring.heap
  <2>1. PICK p \in Places \ {"toNrt"} :
           \E a \in Holding[p] : a.heap = h /\ a.schedule = y.event[1]
    BY HasOwner DEF Calm
  <2>2. PICK a \in Holding[p] : a.heap = h /\ a.schedule = y.event[1]
    BY <2>1
  <2>. QED BY <1>1, <1>2, <1>3, <2>2
<1>. QED BY <1>1, <1>2, <1>3

LEMMA PourCallCalm ==
    ASSUME StateTyped, StateTyped', ~Flushed, Calm, PourCall
    PROVE  Calm'
<1>1. pouring # NoAction /\ Poured # <<>> /\ Due(PouredTime)
  BY DEF PourCall, CallPoured, PouredDue
<1>2. PICK y, f, a : y = Head(Poured) /\ f = y.event /\ a = pouring
  OBVIOUS
<1>3. /\ y \in Range(content[a.heap]) /\ f \in Events
      /\ f[1] = a.schedule /\ y.time = Rel(f) /\ y.time \in Nat
      /\ calledAt[f] = Never /\ Started(a.schedule)
      /\ startAt[a.schedule] \in Nat
      /\ PouredTime = Rel(f) + 2 * startAt[a.schedule]
      /\ PouredTime \in Nat /\ PouredTime >= 2 * now
      /\ Range(Poured) = Range(Tail(Poured)) \cup {y}
      /\ Ordered(Tail(Poured)) /\ \A z \in Range(Tail(Poured)) : Fine(y, z)
  BY <1>1, <1>2, PouredIs
<1>4. a.heap \in Heaps /\ now \in Nat /\ PouredTime <= 2 * now + 1
  BY <1>1, <1>2, <1>3, PouredAre DEF Due
<1>5. content' = [content EXCEPT ![a.heap] = Tail(Poured)]
  BY <1>2 DEF PourCall, CallPoured, Poured
<1>6. /\ content'[a.heap] = Tail(Poured) /\ \A h \in Heaps : h # a.heap => content'[h] = content[h]
      /\ \A h \in Heaps : Range(content'[h]) \subseteq Range(content[h])
  <2>1. content'[a.heap] = Tail(Poured) /\ \A h \in Heaps : h # a.heap => content'[h] = content[h]
    BY <1>4, <1>5 DEF StateTyped
  <2>. QED BY <1>2, <1>3, <2>1 DEF Poured
<1>7. calledAt' = [calledAt EXCEPT ![f] = now]
  BY <1>2 DEF PourCall, CallPoured
<1>8. calledAt'[f] = now /\ \A e \in Events : e # f => calledAt'[e] = calledAt[e]
  BY <1>3, <1>7 DEF StateTyped, TypeOK
<1>9. /\ pool' = pool /\ made' = made /\ filled' = filled /\ rtHeap' = rtHeap
      /\ offset' = offset /\ now' = now /\ pouring' = pouring
      /\ toRt' = toRt /\ toNrt' = toNrt /\ flushing' = flushing /\ flushes' = flushes
      /\ startAt' = startAt /\ current' = current /\ filledTo' = filledTo
  BY DEF PourCall, CallPoured, rtVars, mail, userVars, flushVars
<1>10. Holding' = Holding
  BY <1>9 DEF Holding, Acts
<1>11. ASSUME NEW h \in Heaps, NEW z \in Range(content'[h]) PROVE z.event # f
  <2>1. CASE h = a.heap
    <3>1. Fine(y, z) /\ z.what = "event" /\ y.what = "event"
      BY <1>3, <1>4, <1>6, <2>1, ContentIs
    <3>. QED BY <1>2, <3>1 DEF Fine, IsEvent
  <2>2. CASE h # a.heap
    BY <1>1, <1>2, <1>3, <1>6, <2>2, OthersAre
  <2>. QED BY <2>1, <2>2
<1>12. HeapsApart' /\ NoFlush' /\ BodyDone' /\ QueuesOrdered'
  BY <1>9, <1>10 DEF Calm, HeapsApart, NoFlush, BodyDone, QueuesOrdered
<1>13. ContentsRight'
  <2>1. \A e : Entered(e)' <=> Entered(e)
    BY <1>9 DEF Entered
  <2>2. ASSUME NEW h \in Heaps
        PROVE  /\ Ordered(content'[h])
               /\ \A z \in Range(content'[h]) : /\ z.time = Rel(z.event)
                                                /\ calledAt'[z.event] = Never
                                                /\ Entered(z.event)'
    <3>1. Ordered(content'[h])
      BY <1>3, <1>6 DEF Calm, ContentsRight
    <3>2. ASSUME NEW z \in Range(content'[h])
          PROVE  z.time = Rel(z.event) /\ calledAt'[z.event] = Never /\ Entered(z.event)'
      <4>1. z \in Range(content[h]) /\ z.event # f
        BY <1>6, <1>11
      <4>2. z.event \in Events
        BY <4>1, ContentIs
      <4>. QED BY <1>8, <2>1, <4>1, <4>2 DEF Calm, ContentsRight
    <3>. QED BY <3>1, <3>2
  <2>3. ASSUME NEW h \in Heaps, content[h] = <<>> PROVE content'[h] = <<>>
    BY <1>1, <1>2, <1>6, <2>3 DEF Poured
  <2>4. \A h \in Heaps : h > made' \/ h \in Range(pool') => content'[h] = <<>>
    BY <1>9, <2>3 DEF Calm, ContentsRight
  <2>5. ASSUME NEW b \in Holding'["toNrt"] PROVE content'[b.heap] = <<>>
    BY <1>10, <2>3, HoldersTyped DEF Calm, ContentsRight, Places
  <2>6. ASSUME NEW p \in Places, NEW b \in Holding'[p], NEW z \in Range(content'[b.heap])
        PROVE  z.event[1] = b.schedule
    <3>1. b.heap \in Heaps
      BY <1>10, HoldersTyped
    <3>. QED BY <1>6, <1>10, <3>1 DEF Calm, ContentsRight
  <2>. QED BY <2>2, <2>4, <2>5, <2>6 DEF ContentsRight
<1>14. StartsRight'
  <2>1. ASSUME NEW e \in Events, calledAt'[e] # Never PROVE Started(e[1])'
    <3>1. Started(e[1])
      BY <1>3, <1>8, <2>1 DEF Calm, StartsRight
    <3>. QED BY <1>9, <3>1 DEF Started
  <2>. QED BY <1>9, <1>10, <2>1 DEF Calm, StartsRight, Started
<1>15. EntriesRight'
  <2> SUFFICES ASSUME NEW x \in Range(rtHeap)
               PROVE  /\ x.what = "start" => StartRight(x)'
                      /\ x.what = "pour" => PourRight(x)'
                      /\ x.what = "event" => EventRight(x)'
    BY <1>9 DEF EntriesRight
  <2>1. x.what = "start" => StartRight(x)'
    BY <1>9 DEF Calm, EntriesRight, StartRight, Started
  <2>2. ASSUME x.what = "pour" PROVE PourRight(x)'
    <3>1. PourRight(x) /\ x.action.heap \in Heaps
      BY <2>2, RtEntryIs DEF Calm, EntriesRight
    <3>. QED BY <1>6, <1>9, <3>1 DEF PourRight, Started
  <2>3. ASSUME x.what = "event" PROVE EventRight(x)'
    <3>1. EventRight(x) /\ x.event \in Events
      BY <2>3, RtEntryIs DEF Calm, EntriesRight
    <3>2. x.event # f
      <4> SUFFICES ASSUME x.event = f PROVE FALSE
        OBVIOUS
      <4>1. Before(f, f)
        BY <1>1, <1>2, <1>3, <2>3, OthersAre DEF Calm, PouredFirst, IsEvent
      <4>2. Rel(f) \in Nat /\ f[2] \in Nat
        <5>1. f[1] \in Schedules /\ f[2] \in 1 .. Len(Bodies[f[1]]) /\ Rel(f) \in Nat
          BY <1>3, EventsAre
        <5>. QED BY <5>1, EventsAre
      <4>. QED BY <4>1, <4>2 DEF Before
    <3>. QED BY <1>8, <1>9, <3>1, <3>2 DEF EventRight, Started
  <2>. QED BY <2>1, <2>2, <2>3
<1>16. PouringInTime'
  BY <1>2, <1>4, <1>6, <1>9 DEF Calm, PouringInTime
<1>17. PouredFirst'
  <2>1. \A b \in Holding["rtHeap"] \cup Holding["rt"] :
          Range(content'[b.heap]) \subseteq Range(content[b.heap])
    BY <1>6, HoldersTyped DEF Places
  <2>. QED BY <1>9, <1>10, <2>1 DEF Calm, PouredFirst
<1>18. NoEventLost'
  <2> SUFFICES ASSUME NEW e \in Events, Entered(e)', calledAt'[e] = Never
               PROVE  Stored(e)'
    BY DEF NoEventLost, Pending
  <2>1. e # f
    <3>1. now # Never
      BY BoundsAre DEF StateTyped, TypeOK
    <3>. QED BY <1>8, <3>1
  <2>2. Entered(e) /\ calledAt[e] = Never
    BY <1>8, <1>9, <2>1 DEF Entered
  <2>3. Stored(e)
    BY <2>2 DEF Calm, NoEventLost, Pending
  <2>4. ASSUME NEW h \in Heaps, NEW z \in Range(content[h]), z.event = e
        PROVE  z \in Range(content'[h])
    <3>1. z # y
      BY <1>2, <2>1, <2>4
    <3>. QED BY <1>2, <1>3, <1>6, <3>1 DEF Poured
  <2>. QED BY <1>9, <2>3, <2>4, StoredIs
<1>19. CalledOnTime'
  <2>1. ASSUME NEW e \in Events, calledAt'[e] # Never
        PROVE  calledAt'[e] = startAt'[e[1]] + Rel(e) \div 2
    <3>1. CASE e = f
      <4>1. PICK t, s : t = Rel(f) /\ s = startAt[f[1]]
        OBVIOUS
      <4>2. t \in Nat /\ s \in Nat /\ t + 2 * s <= 2 * now + 1 /\ t + 2 * s >= 2 * now
        BY <1>3, <1>4, <4>1
      <4>3. now = s + t \div 2
        BY <1>4, <4>2
      <4>. QED BY <1>8, <1>9, <3>1, <4>1, <4>3
    <3>2. CASE e # f
      BY <1>8, <1>9, <2>1, <3>2 DEF Calm, CalledOnTime
    <3>. QED BY <3>1, <3>2
  <2>. QED BY <2>1 DEF CalledOnTime, Rel
<1>. QED BY <1>12, <1>13, <1>14, <1>15, <1>16, <1>17, <1>18, <1>19 DEF Calm

\* Contents that only lose events stay right.
LEMMA ContentsShrunk ==
    ASSUME StateTyped, ContentsRight, SameActions(Holding, Holding'), pool' = pool, made' = made,
           calledAt' = calledAt, current' = current, filledTo' = filledTo,
           \A h \in Heaps : /\ Range(content'[h]) \subseteq Range(content[h])
                            /\ Ordered(content'[h])
                            /\ content[h] = <<>> => content'[h] = <<>>,
           \A b \in Holding'["toNrt"] : content'[b.heap] = <<>>
    PROVE  ContentsRight'
<1>1. \A e : Entered(e)' <=> Entered(e)
  BY DEF Entered
<1>2. ASSUME NEW h \in Heaps, NEW z \in Range(content'[h])
      PROVE  z.time = Rel(z.event) /\ calledAt'[z.event] = Never /\ Entered(z.event)'
  BY <1>1 DEF ContentsRight
<1>3. \A h \in Heaps : h > made' \/ h \in Range(pool') => content'[h] = <<>>
  BY DEF ContentsRight
<1>4. ASSUME NEW p \in Places, NEW b \in Holding'[p], NEW z \in Range(content'[b.heap])
      PROVE  z.event[1] = b.schedule
  <2>1. PICK q \in Places : b \in Holding[q]
    BY DEF SameActions
  <2>2. b.heap \in Heaps
    BY <2>1, HoldersTyped
  <2>. QED BY <2>1, <2>2 DEF ContentsRight
<1>. QED BY <1>2, <1>3, <1>4 DEF ContentsRight

\* What is known of an entry does not change while a heap is emptied.
LEMMA EntryKept ==
    ASSUME StateTyped, EntriesRight, NEW x \in Range(rtHeap),
           offset' = offset, startAt' = startAt, now' = now, calledAt' = calledAt,
           \A h \in Heaps : Range(content'[h]) \subseteq Range(content[h])
    PROVE  /\ x.what = "start" => StartRight(x)'
           /\ x.what = "pour" => PourRight(x)'
           /\ x.what = "event" => EventRight(x)'
<1>1. x.what = "start" => StartRight(x)'
  BY DEF EntriesRight, StartRight, Started
<1>2. ASSUME x.what = "pour" PROVE PourRight(x)'
  <2>1. PourRight(x) /\ x.action.heap \in Heaps
    BY <1>2, RtEntryIs DEF EntriesRight
  <2>. QED BY <2>1 DEF PourRight, Started
<1>3. x.what = "event" => EventRight(x)'
  BY DEF EntriesRight, EventRight, Started
<1>. QED BY <1>1, <1>2, <1>3

\* The real-time heap with the event that is poured.
LEMMA PouredInserted ==
    ASSUME StateTyped, Calm, pouring # NoAction, Poured # <<>>,
           NEW y, y = Head(Poured), NEW x, x = EventEntry(PouredTime, y.event),
           NEW q, q = Insert(rtHeap, x)
    PROVE  /\ q \in Seq(RtEntries(made)) /\ Range(q) = Range(rtHeap) \cup {x}
           /\ Ordered(q) /\ Acts(q) = Acts(rtHeap)
           /\ x.what = "event" /\ x.event = y.event /\ x.action = NoAction /\ x.time = PouredTime
           /\ EventRight(x)
<1>1. PICK f, s : f = y.event /\ s = pouring.schedule
  OBVIOUS
<1>2. /\ f \in Events /\ f[1] = s /\ calledAt[f] = Never /\ Started(s)
      /\ startAt[s] \in Nat /\ y \in Range(content[pouring.heap])
      /\ PouredTime = Rel(f) + 2 * startAt[s]
      /\ PouredTime \in Nat /\ PouredTime >= 2 * now
  BY <1>1, PouredIs
<1>3. /\ x \in EventEntries /\ x.what = "event" /\ x.event = f /\ x.action = NoAction
      /\ x.time = PouredTime
  BY <1>1, <1>2, EventEntryIs
<1>4. rtHeap \in Seq(RtEntries(made)) /\ x \in RtEntries(made) /\ Timed(RtEntries(made))
  BY <1>3, EntriesTimed DEF StateTyped
<1>5. q \in Seq(RtEntries(made)) /\ Range(q) = Range(rtHeap) \cup {x}
  BY <1>4, InsertRange
<1>6. Acts(q) = Acts(rtHeap)
  <2>1. Acts(q) = Acts(rtHeap) \cup ({x.action} \ {NoAction})
    BY <1>5 DEF Acts
  <2>. QED BY <1>3, <2>1
<1>7. EventRight(x)
  BY <1>2, <1>3 DEF EventRight
<1>8. ASSUME NEW z \in Range(rtHeap)
      PROVE  /\ z.time <= x.time => Fine(z, x)
             /\ z.time > x.time => Fine(x, z)
  <2>1. z.time \in Nat /\ x.time \in Nat
    BY <1>2, <1>3, RtEntryIs
  <2>2. CASE IsEvent(z)
    <3>1. /\ z.event \in Events /\ z.action = NoAction
          /\ z.time = Rel(z.event) + 2 * startAt[z.event[1]]
      BY <2>2, RtEntryIs DEF Calm, EntriesRight, EventRight, IsEvent
    <3>2. CASE z.event[1] = s
      <4>1. Before(z.event, f)
        BY <1>1, <1>2, <2>2, <3>2, OthersAre DEF Calm, PouredFirst
      <4>2. /\ Rel(z.event) \in Nat /\ Rel(f) \in Nat /\ z.event[2] \in Nat /\ f[2] \in Nat
        BY <1>2, <3>1, EventsAre
      <4>3. z.event # f
        BY <4>1, <4>2 DEF Before
      <4>4. z.time <= x.time /\ (z.time = x.time => z.event[2] < f[2])
        BY <1>2, <1>3, <3>1, <3>2, <4>1, <4>2 DEF Before
      <4>5. Fine(z, x)
        BY <1>3, <3>1, <4>3, <4>4 DEF Fine, Carries
      <4>. QED BY <2>1, <4>4, <4>5
    <3>3. CASE z.event[1] # s
      BY <1>2, <1>3, <2>1, <3>1, <3>3 DEF Fine, Carries
    <3>. QED BY <3>2, <3>3
  <2>3. CASE ~IsEvent(z)
    <3>1. z.action.schedule # s
      BY <1>1, <2>3, RtEntryIs, OthersAre DEF IsEvent, Places
    <3>. QED BY <1>2, <1>3, <2>1, <2>3, <3>1 DEF Fine, Carries
  <2>. QED BY <2>2, <2>3
<1>9. Ordered(rtHeap)
  BY DEF Calm, QueuesOrdered
<1>10. Ordered(q)
  BY <1>4, <1>8, <1>9, InsertOrdered
<1>. QED BY <1>1, <1>3, <1>5, <1>6, <1>7, <1>10

\* What is left in the heap comes after the event that is poured.
LEMMA LeftAfterPoured ==
    ASSUME StateTyped, Calm, pouring # NoAction, Poured # <<>>, NEW y, y = Head(Poured),
           NEW z \in Range(Tail(Poured))
    PROVE  /\ Before(y.event, z.event) /\ z \in Range(content[pouring.heap])
           /\ z.time >= y.time /\ z.time \in Nat /\ z.event[1] = pouring.schedule
<1>1. /\ y.event[1] = pouring.schedule /\ y.time = Rel(y.event) /\ y.time \in Nat
      /\ z \in Range(Poured) /\ Fine(y, z) /\ y \in Range(content[pouring.heap])
  BY PouredIs
<1>2. z \in Range(content[pouring.heap]) /\ pouring.heap \in Heaps
  BY <1>1, PouredAre DEF Poured
<1>3. /\ z.time = Rel(z.event) /\ z.event[1] = pouring.schedule
  BY <1>2, OthersAre DEF Calm, ContentsRight, Places
<1>4. z.time \in Nat /\ z.what = "event" /\ y.what = "event"
  BY <1>1, <1>2, ContentIs
<1>5. Before(y.event, z.event)
  BY <1>1, <1>3, <1>4 DEF Before, Fine, IsEvent
<1>. QED BY <1>1, <1>2, <1>3, <1>4, <1>5 DEF Fine

\* The last event is in the real-time heap when the heap is given back.
LEMMA PourEndCalm ==
    ASSUME StateTyped, StateTyped', ~Flushed, Calm, PourEnd
    PROVE  Calm'
<1>1. pouring # NoAction /\ Len(Poured) <= 1 /\ pouring' = NoAction
  BY DEF PourEnd
<1>2. PICK a : a = pouring
  OBVIOUS
<1>3. PICK u : u = PourEntry(0, "end", a)
  OBVIOUS
<1>4. /\ a \in Actions(made) /\ made \in Nat /\ a # NoAction /\ a.heap \in Heaps
      /\ Poured \in Seq(EventEntries) /\ now \in Nat
  BY <1>1, <1>2, PouredAre
<1>5. u \in ToNrtEntries(made) /\ u.time = 0 /\ u.what = "end" /\ u.action = a
  <2>0. made \in Nat /\ a \in Actions(made) /\ 0 \in Nat /\ "end" \in {"start", "pour", "end"}
    BY <1>4
  <2>1. u \in Carriers(made, {"end"}) /\ u.time = 0 /\ u.what = "end" /\ u.action = a
    BY <1>3, <2>0, PourEntryIs
  <2>. QED BY <2>1, EntriesTimed
<1>6. /\ toNrt \in Seq(ToNrtEntries(made)) /\ toNrt' = Append(toNrt, u)
      /\ Range(toNrt') = Range(toNrt) \cup {u}
  <2>1. toNrt \in Seq(ToNrtEntries(made)) /\ toNrt' = Append(toNrt, u)
    BY <1>2, <1>3 DEF PourEnd, StateTyped
  <2>. QED BY <1>5, <2>1, AppendRange
<1>7. /\ pool' = pool /\ made' = made /\ filled' = filled /\ offset' = offset /\ now' = now
      /\ toRt' = toRt /\ flushing' = flushing /\ flushes' = flushes
      /\ startAt' = startAt /\ calledAt' = calledAt /\ current' = current
      /\ filledTo' = filledTo
  BY DEF PourEnd, userVars, flushVars, history
<1>8. content'[a.heap] = <<>> /\ \A h \in Heaps : h # a.heap => content'[h] = content[h]
  BY <1>2, <1>4 DEF PourEnd, StateTyped
<1>9. \A h \in Heaps : /\ Range(content'[h]) \subseteq Range(content[h])
                       /\ Ordered(content'[h])
                       /\ content[h] = <<>> => content'[h] = <<>>
  BY <1>8, EmptyRange DEF Calm, ContentsRight
<1>10. /\ Ordered(rtHeap') /\ Acts(rtHeap') = Acts(rtHeap) /\ Range(rtHeap) \subseteq Range(rtHeap')
       /\ \A x \in Range(rtHeap') : x \notin Range(rtHeap)
             => /\ IsEvent(x) /\ x.event[1] = a.schedule /\ EventRight(x)
       /\ \A y \in Range(Poured) : \E x \in Range(rtHeap') : x.event = y.event
  <2>1. CASE Poured = <<>>
    <3>1. rtHeap' = rtHeap /\ Range(Poured) = {}
      BY <2>1, EmptyRange DEF PourEnd
    <3>. QED BY <3>1 DEF Calm, QueuesOrdered
  <2>2. CASE Poured # <<>>
    <3>1. PICK y : y = Head(Poured)
      OBVIOUS
    <3>2. PICK x : x = EventEntry(PouredTime, y.event)
      OBVIOUS
    <3>3. rtHeap' = Insert(rtHeap, x)
      BY <2>2, <3>1, <3>2 DEF PourEnd
    <3>4. /\ Range(rtHeap') = Range(rtHeap) \cup {x}
          /\ Ordered(rtHeap') /\ Acts(rtHeap') = Acts(rtHeap)
          /\ x.what = "event" /\ x.event = y.event /\ EventRight(x)
      BY <1>1, <2>2, <3>1, <3>2, <3>3, PouredInserted
    <3>5. y.event[1] = a.schedule /\ Range(Poured) = Range(Tail(Poured)) \cup {y}
      BY <1>1, <1>2, <2>2, <3>1, PouredIs
    <3>6. Range(Tail(Poured)) = {}
      <4>1. Len(Tail(Poured)) = 0 /\ Tail(Poured) \in Seq(EventEntries)
        <5>1. Len(Poured) \in Nat /\ Len(Poured) # 0
          BY <1>4, <2>2, EmptySeq, LenProperties
        <5>2. Len(Poured) = 1
          BY <1>1, <5>1
        <5>. QED BY <1>4, <2>2, <5>2, HeadTailProperties
      <4>2. Tail(Poured) = <<>>
        BY <4>1, EmptySeq
      <4>. QED BY <4>2, EmptyRange
    <3>. QED BY <3>4, <3>5, <3>6 DEF IsEvent
  <2>. QED BY <2>1, <2>2
<1>11. /\ Holding["rt"] = {a} /\ Holding'["rt"] = {}
       /\ Holding'["toNrt"] = Holding["toNrt"] \cup {a}
       /\ Holding'["rtHeap"] = Holding["rtHeap"]
       /\ Holding'["user"] = Holding["user"] /\ Holding'["toRt"] = Holding["toRt"]
  <2>1. Acts(toNrt') = Acts(toNrt) \cup {a}
    <3>1. Acts(toNrt') = Acts(toNrt) \cup ({u.action} \ {NoAction})
      BY <1>6 DEF Acts
    <3>. QED BY <1>4, <1>5, <3>1
  <2>. QED BY <1>1, <1>2, <1>7, <1>10, <2>1, HoldingAre, HoldingNext
<1>12. Moves(Holding, Holding', "rt", "toNrt", a)
  BY <1>11 DEF Moves, Places
<1>13. HeapsApart' /\ SameActions(Holding, Holding')
  BY <1>7, <1>12, MovedApart DEF Calm
<1>14. ContentsRight'
  <2>1. ASSUME NEW b \in Holding'["toNrt"] PROVE content'[b.heap] = <<>>
    <3>1. CASE b = a
      BY <1>8, <3>1
    <3>2. CASE b # a
      BY <1>9, <1>11, <3>2, HoldersTyped DEF Calm, ContentsRight, Places
    <3>. QED BY <3>1, <3>2
  <2>. QED BY <1>7, <1>9, <1>13, <2>1, ContentsShrunk DEF Calm
<1>15. QueuesOrdered'
  <2>1. ASSUME NEW y \in Range(toNrt) PROVE Fine(y, u)
    <3>1. y.what = "end" /\ y.time = 0
      BY DEF Calm, NoFlush
    <3>2. Carries(y) => y.action \in Holding["toNrt"]
      BY ActsAre, HoldingAre
    <3>3. Carries(y) => y.action.heap # a.heap /\ y.action.schedule # a.schedule
      BY <1>11, <3>2 DEF Calm, HeapsApart, Distinct, Places
    <3>. QED BY <1>5, <3>1, <3>3 DEF Fine, IsEvent
  <2>2. Ordered(toNrt')
    BY <1>5, <1>6, <2>1, AppendOrdered DEF Calm, QueuesOrdered
  <2>. QED BY <1>7, <1>10, <2>2 DEF Calm, QueuesOrdered
<1>16. NoFlush'
  BY <1>5, <1>6, <1>7 DEF Calm, NoFlush
<1>17. BodyDone' /\ CalledOnTime'
  BY <1>7 DEF Calm, BodyDone, CalledOnTime, Flushed
<1>18. StartsRight'
  BY <1>1, <1>7, <1>11 DEF Calm, StartsRight, Started
<1>19. EntriesRight'
  <2> SUFFICES ASSUME NEW x \in Range(rtHeap')
               PROVE  /\ x.what = "start" => StartRight(x)'
                      /\ x.what = "pour" => PourRight(x)'
                      /\ x.what = "event" => EventRight(x)'
    BY DEF EntriesRight
  <2>1. CASE x \in Range(rtHeap)
    BY <1>7, <1>9, <2>1, EntryKept DEF Calm
  <2>2. CASE x \notin Range(rtHeap)
    BY <1>7, <1>10, <2>2 DEF IsEvent, EventRight, Started
  <2>. QED BY <2>1, <2>2
<1>20. PouringInTime'
  BY <1>1 DEF PouringInTime
<1>21. PouredFirst'
  <2> SUFFICES ASSUME NEW b \in Holding'["rtHeap"] \cup Holding'["rt"], NEW x \in Range(rtHeap'),
                      NEW z \in Range(content'[b.heap]), IsEvent(x), x.event[1] = b.schedule
               PROVE  Before(x.event, z.event)
    BY DEF PouredFirst, Before, Rel
  <2>1. b \in Holding["rtHeap"] /\ b.heap \in Heaps
    BY <1>11, HoldersTyped DEF Places
  <2>2. b.schedule # a.schedule
    BY <1>1, <1>2, <2>1, OthersAre DEF Places
  <2>3. x \in Range(rtHeap) /\ z \in Range(content[b.heap])
    BY <1>9, <1>10, <2>1, <2>2
  <2>. QED BY <2>1, <2>3 DEF Calm, PouredFirst
<1>22. NoEventLost'
  <2>1. ASSUME NEW e \in Events, Stored(e) PROVE Stored(e)'
    <3>1. CASE \E x \in Range(rtHeap) : x.event = e
      BY <1>10, <3>1, StoredIs
    <3>2. CASE \E h \in Heaps : \E y \in Range(content[h]) : y.event = e
      <4>1. PICK h \in Heaps : \E y \in Range(content[h]) : y.event = e
        BY <3>2
      <4>2. CASE h = a.heap
        BY <1>2, <1>10, <4>1, <4>2, StoredIs DEF Poured
      <4>3. CASE h # a.heap
        BY <1>8, <4>1, <4>3, StoredIs
      <4>. QED BY <4>2, <4>3
    <3>. QED BY <2>1, <3>1, <3>2, StoredIs
  <2>. QED BY <1>7, <2>1 DEF Calm, NoEventLost, Pending, Entered, Flushed
<1>. QED BY <1>13, <1>14, <1>15, <1>16, <1>17, <1>18, <1>19, <1>20, <1>21, <1>22 DEF Calm

\* One event is in the real-time heap, and behind it the pour that follows.
LEMMA PourNextCalm ==
    ASSUME StateTyped, StateTyped', ~Flushed, Calm, PourNext
    PROVE  Calm'
<1>1. pouring # NoAction /\ Poured # <<>> /\ pouring' = NoAction /\ ~Due(PouredTime)
  <2>1. pouring # NoAction /\ Len(Poured) > 1 /\ pouring' = NoAction /\ ~PouredDue
    BY DEF PourNext
  <2>2. Poured # <<>>
    BY <2>1
  <2>. QED BY <2>1, <2>2 DEF PouredDue
<1>2. PICK a, y, f : a = pouring /\ y = Head(Poured) /\ f = y.event
  OBVIOUS
<1>3. PICK x : x = EventEntry(PouredTime, f)
  OBVIOUS
<1>4. PICK u : u = PourEntry(2 * (now + 1), "pour", a)
  OBVIOUS
<1>5. PICK q : q = Insert(rtHeap, x)
  OBVIOUS
<1>6. /\ a \in Actions(made) /\ made \in Nat /\ a # NoAction /\ a.heap \in Heaps
      /\ now \in Nat /\ offset[a.heap] \in Nat
  BY <1>1, <1>2, PouredAre
<1>7. /\ f \in Events /\ f[1] = a.schedule /\ y.time \in Nat
      /\ Started(a.schedule) /\ offset[a.heap] = startAt[a.schedule]
      /\ PouredTime \in Nat /\ PouredTime = y.time + 2 * offset[a.heap]
      /\ Range(Poured) = Range(Tail(Poured)) \cup {y} /\ Ordered(Tail(Poured))
  <2>1. offset[a.heap] = startAt[a.schedule] /\ PouredTime = y.time + 2 * offset[a.heap]
    BY <1>1, <1>2 DEF Calm, StartsRight, PouredTime
  <2>. QED BY <1>1, <1>2, <2>1, PouredIs
<1>8. PouredTime >= 2 * now + 2
  BY <1>1, <1>6, <1>7 DEF Due
<1>9. /\ q \in Seq(RtEntries(made)) /\ Range(q) = Range(rtHeap) \cup {x}
      /\ Ordered(q) /\ Acts(q) = Acts(rtHeap)
      /\ x.what = "event" /\ x.event = f /\ x.action = NoAction /\ x.time = PouredTime
      /\ EventRight(x)
  BY <1>1, <1>2, <1>3, <1>5, PouredInserted
<1>10. u \in RtEntries(made) /\ u.time = 2 * now + 2 /\ u.what = "pour" /\ u.action = a
  <2>1. made \in Nat /\ a \in Actions(made) /\ "pour" \in {"start", "pour", "end"}
        /\ 2 * (now + 1) \in Nat /\ 2 * (now + 1) = 2 * now + 2
    BY <1>6
  <2>2. u \in Carriers(made, {"pour"}) /\ u.time = 2 * (now + 1) /\ u.what = "pour" /\ u.action = a
    BY <1>4, <2>1, PourEntryIs
  <2>. QED BY <2>1, <2>2, EntriesTimed
<1>11. rtHeap' = Insert(q, u) /\ Range(rtHeap') = Range(rtHeap) \cup {x, u}
  <2>1. rtHeap' = Insert(q, u)
    BY <1>2, <1>3, <1>4, <1>5 DEF PourNext
  <2>2. Range(rtHeap') = Range(q) \cup {u}
    BY <1>9, <1>10, <2>1, EntriesTimed, InsertRange
  <2>. QED BY <1>9, <2>1, <2>2
<1>12. /\ pool' = pool /\ made' = made /\ filled' = filled /\ offset' = offset /\ now' = now
       /\ toRt' = toRt /\ toNrt' = toNrt /\ flushing' = flushing /\ flushes' = flushes
       /\ startAt' = startAt /\ calledAt' = calledAt /\ current' = current
       /\ filledTo' = filledTo
  BY DEF PourNext, mail, userVars, flushVars, history
<1>13. content'[a.heap] = Tail(Poured) /\ \A h \in Heaps : h # a.heap => content'[h] = content[h]
  <2>1. content' = [content EXCEPT ![a.heap] = Tail(Poured)]
    BY <1>2 DEF PourNext, Poured
  <2>. QED BY <1>6, <2>1 DEF StateTyped
<1>14. \A h \in Heaps : /\ Range(content'[h]) \subseteq Range(content[h])
                        /\ Ordered(content'[h])
                        /\ content[h] = <<>> => content'[h] = <<>>
  BY <1>1, <1>2, <1>7, <1>13 DEF Calm, ContentsRight, Poured
<1>15. /\ Holding["rt"] = {a} /\ Holding'["rt"] = {}
       /\ Holding'["rtHeap"] = Holding["rtHeap"] \cup {a}
       /\ Holding'["user"] = Holding["user"] /\ Holding'["toRt"] = Holding["toRt"]
       /\ Holding'["toNrt"] = Holding["toNrt"]
  <2>1. Acts(rtHeap') = Acts(rtHeap) \cup {a}
    <3>1. Acts(rtHeap') = Acts(rtHeap) \cup ({x.action, u.action} \ {NoAction})
      BY <1>11 DEF Acts
    <3>. QED BY <1>6, <1>9, <1>10, <3>1
  <2>. QED BY <1>1, <1>2, <1>12, <2>1, HoldingAre, HoldingNext
<1>16. Moves(Holding, Holding', "rt", "rtHeap", a)
  BY <1>15 DEF Moves, Places
<1>17. HeapsApart' /\ SameActions(Holding, Holding')
  BY <1>12, <1>16, MovedApart DEF Calm
<1>18. ContentsRight'
  <2>1. ASSUME NEW b \in Holding'["toNrt"] PROVE content'[b.heap] = <<>>
    BY <1>14, <1>15, HoldersTyped DEF Calm, ContentsRight, Places
  <2>. QED BY <1>12, <1>14, <1>17, <2>1, ContentsShrunk DEF Calm
<1>19. QueuesOrdered'
  <2>1. ASSUME NEW z \in Range(q)
        PROVE  /\ z.time <= u.time => Fine(z, u)
               /\ z.time > u.time => Fine(u, z)
    <3>1. z.time \in Nat
      BY <1>7, <1>9, RtEntryIs
    <3>2. Carries(z) => z.action \in Holding["rtHeap"]
      BY <1>9, ActsAre, HoldingAre
    <3>3. Carries(z) => z.action.heap # a.heap /\ z.action.schedule # a.schedule
      BY <1>1, <1>2, <3>2, OthersAre DEF Places
    <3>. QED BY <1>6, <1>10, <3>1, <3>3 DEF Fine, IsEvent
  <2>2. Ordered(rtHeap')
    BY <1>9, <1>10, <1>11, <2>1, EntriesTimed, InsertOrdered
  <2>. QED BY <1>12, <2>2 DEF Calm, QueuesOrdered
<1>20. NoFlush' /\ BodyDone' /\ CalledOnTime'
  BY <1>12 DEF Calm, NoFlush, BodyDone, CalledOnTime, Flushed
<1>21. StartsRight'
  BY <1>1, <1>12, <1>15 DEF Calm, StartsRight, Started
<1>22. EntriesRight'
  <2> SUFFICES ASSUME NEW z \in Range(rtHeap')
               PROVE  /\ z.what = "start" => StartRight(z)'
                      /\ z.what = "pour" => PourRight(z)'
                      /\ z.what = "event" => EventRight(z)'
    BY DEF EntriesRight
  <2>1. CASE z \in Range(rtHeap)
    BY <1>12, <1>14, <2>1, EntryKept DEF Calm
  <2>2. CASE z = x
    BY <1>9, <1>12, <2>2 DEF EventRight, Started
  <2>3. CASE z = u
    <3>1. ASSUME NEW w \in Range(Tail(Poured)) PROVE w.time + 2 * offset[a.heap] >= u.time
      <4>1. w.time \in Nat /\ w.time >= y.time
        BY <1>1, <1>2, LeftAfterPoured
      <4>. QED BY <1>6, <1>7, <1>8, <1>10, <4>1
    <3>2. u.time >= 2 * now /\ u.time % 2 = 0
      BY <1>6, <1>10
    <3>3. PourRight(u)'
      BY <1>7, <1>10, <1>12, <1>13, <3>1, <3>2 DEF PourRight, Started
    <3>. QED BY <1>10, <2>3, <3>3
  <2>. QED BY <1>11, <2>1, <2>2, <2>3
<1>23. PouringInTime'
  BY <1>1 DEF PouringInTime
<1>24. PouredFirst'
  <2> SUFFICES ASSUME NEW b \in Holding'["rtHeap"] \cup Holding'["rt"], NEW v \in Range(rtHeap'),
                      NEW z \in Range(content'[b.heap]), IsEvent(v), v.event[1] = b.schedule
               PROVE  Before(v.event, z.event)
    BY DEF PouredFirst, Before, Rel
  <2>1. b \in Holding["rtHeap"] \cup Holding["rt"] /\ b.heap \in Heaps
    BY <1>15, HoldersTyped DEF Places
  <2>2. CASE v \in Range(rtHeap)
    BY <1>14, <2>1, <2>2 DEF Calm, PouredFirst
  <2>3. CASE v = x
    <3>1. b = a
      BY <1>1, <1>2, <1>7, <1>9, <2>1, <2>3, OthersAre DEF Places
    <3>. QED BY <1>1, <1>2, <1>9, <1>13, <2>3, <3>1, LeftAfterPoured
  <2>. QED BY <1>10, <1>11, <2>2, <2>3 DEF IsEvent
<1>25. NoEventLost'
  <2>1. ASSUME NEW e \in Events, Stored(e) PROVE Stored(e)'
    <3>1. CASE \E z \in Range(rtHeap) : z.event = e
      BY <1>11, <3>1, StoredIs
    <3>2. CASE \E h \in Heaps : \E z \in Range(content[h]) : z.event = e
      <4>1. PICK h \in Heaps : \E z \in Range(content[h]) : z.event = e
        BY <3>2
      <4>2. PICK z \in Range(content[h]) : z.event = e
        BY <4>1
      <4>3. CASE h # a.heap \/ z # y
        BY <1>2, <1>7, <1>13, <4>2, <4>3, StoredIs DEF Poured
      <4>4. CASE z = y
        BY <1>2, <1>9, <1>11, <4>2, <4>4, StoredIs
      <4>. QED BY <4>3, <4>4
    <3>. QED BY <2>1, <3>1, <3>2, StoredIs
  <2>. QED BY <1>12, <2>1 DEF Calm, NoEventLost, Pending, Entered, Flushed
<1>. QED BY <1>17, <1>18, <1>19, <1>20, <1>21, <1>22, <1>23, <1>24, <1>25 DEF Calm

\* The sample counter waits for the entries that are due.
LEMMA TickCalm ==
    ASSUME StateTyped, StateTyped', ~Flushed, Calm, Tick
    PROVE  Calm'
<1>1. /\ pouring = NoAction /\ ~RtDue /\ now' = now + 1 /\ now \in Nat
      /\ rtHeap \in Seq(RtEntries(made))
  BY DEF Tick, StateTyped, TypeOK
<1>2. /\ pool' = pool /\ made' = made /\ content' = content /\ filled' = filled
      /\ offset' = offset /\ rtHeap' = rtHeap /\ pouring' = pouring
      /\ toRt' = toRt /\ toNrt' = toNrt /\ flushing' = flushing /\ flushes' = flushes
      /\ startAt' = startAt /\ calledAt' = calledAt /\ current' = current
      /\ filledTo' = filledTo
  BY DEF Tick, mail, userVars, flushVars, history
<1>3. Holding' = Holding
  BY <1>2 DEF Holding, Acts
<1>4. ASSUME NEW x \in Range(rtHeap) PROVE x.time >= 2 * now'
  <2>1. rtHeap # <<>>
    BY <1>4, EmptyRange
  <2>2. PICK y : y = Head(rtHeap)
    OBVIOUS
  <2>3. y \in Range(rtHeap) /\ Range(rtHeap) = Range(Tail(rtHeap)) \cup {y}
    BY <1>1, <2>1, <2>2, TailRange
  <2>4. y.time \in Nat /\ x.time \in Nat
    BY <2>3, RtEntryIs
  <2>5. y.time > 2 * now + 1
    BY <1>1, <2>1, <2>2, <2>4 DEF RtDue, Due
  <2>6. x = y \/ Fine(y, x)
    BY <1>1, <2>1, <2>2, <2>3, TailOrdered DEF Calm, QueuesOrdered
  <2>7. y.time <= x.time
    BY <2>4, <2>6 DEF Fine
  <2>. QED BY <1>1, <2>4, <2>5, <2>7
<1>5. HeapsApart' /\ NoFlush' /\ BodyDone' /\ QueuesOrdered' /\ CalledOnTime'
  BY <1>2, <1>3 DEF Calm, HeapsApart, NoFlush, BodyDone, QueuesOrdered, CalledOnTime, Flushed
<1>6. ContentsRight'
  BY <1>2, <1>3 DEF Calm, ContentsRight, Entered
<1>7. StartsRight'
  <2>1. ASSUME NEW s \in Schedules, Started(s)' PROVE s <= current' /\ startAt'[s] <= now'
    <3>1. s <= current /\ startAt[s] <= now /\ startAt[s] \in Nat
      BY <1>2, <2>1, BoundsAre DEF Calm, StartsRight, Started, StateTyped, TypeOK
    <3>. QED BY <1>1, <1>2, <3>1
  <2>. QED BY <1>2, <1>3, <2>1 DEF Calm, StartsRight, Started
<1>8. EntriesRight'
  BY <1>2, <1>4 DEF Calm, EntriesRight, StartRight, PourRight, EventRight, Started
<1>9. PouringInTime' /\ PouredFirst'
  BY <1>1, <1>2, <1>3 DEF Calm, PouringInTime, PouredFirst
<1>10. NoEventLost'
  BY <1>2, StoredIs DEF Calm, NoEventLost, Pending, Entered, Flushed
<1>. QED BY <1>5, <1>6, <1>7, <1>8, <1>9, <1>10 DEF Calm

-----------------------------------------------------------------------------
(* The invariant *)

LEMMA InitCalm == Init => Calm
<1> SUFFICES ASSUME Init PROVE Calm
  OBVIOUS
<1>1. /\ pool = [k \in 1 .. PoolSize |-> k] /\ made = PoolSize
      /\ content = [h \in Heaps |-> <<>>]
      /\ rtHeap = <<>> /\ now = 0 /\ pouring = NoAction
      /\ toRt = <<>> /\ toNrt = <<>> /\ current = 0 /\ filled = 0 /\ filledTo = 0
      /\ flushing = [th \in {"user", "nrt"} |-> FALSE] /\ flushes = 0
      /\ startAt = [s \in Schedules |-> Never]
      /\ calledAt = [e \in Events |-> Never]
  BY DEF Init
<1>2. PoolSize \in Nat
  BY BoundsAssumption
<1>3. \A p \in Places : Holding[p] = {}
  BY <1>1, HoldingAre, EmptyRange DEF Places
<1>4. NoFlush /\ QueuesOrdered /\ BodyDone
  BY <1>1, EmptyRange DEF NoFlush, QueuesOrdered, BodyDone
<1>5. HeapsApart
  <2>1. DOMAIN pool = 1 .. made /\ \A k \in 1 .. made : pool[k] = k
    BY <1>1
  <2>2. \A h \in 1 .. made : h \in Range(pool)
    BY <2>1 DEF Range
  <2>. QED BY <1>3, <2>1, <2>2 DEF HeapsApart, Distinct
<1>6. ContentsRight
  <2>1. \A h \in Heaps : content[h] = <<>>
    BY <1>1
  <2>2. \A h \in Heaps : Ordered(content[h]) /\ Range(content[h]) = {}
    BY <2>1, EmptyRange
  <2>. QED BY <1>3, <2>1, <2>2 DEF ContentsRight, Places
<1>7. StartsRight
  BY <1>1, <1>3 DEF StartsRight, Started, Places
<1>8. EntriesRight /\ PouringInTime /\ PouredFirst
  BY <1>1, <1>3, EmptyRange DEF EntriesRight, PouringInTime, PouredFirst, Places
<1>9. CalledOnTime
  BY <1>1 DEF CalledOnTime
<1>10. NoEventLost
  <2>1. ASSUME NEW e \in Events PROVE ~Entered(e)
    <3>1. e[1] \in Schedules /\ e[1] # 0 /\ e[1] \in Nat
      BY EventsAre
    <3>. QED BY <1>1, <3>1 DEF Entered
  <2>. QED BY <2>1 DEF NoEventLost, Pending
<1>. QED BY <1>4, <1>5, <1>6, <1>7, <1>8, <1>9, <1>10 DEF Calm

LEMMA InitInv == Init => ScheduleInv
BY InitTyped, InitCalm DEF ScheduleInv

\* Without a flush no part of flush-pending runs.
LEMMA NothingToFlush ==
    ASSUME Calm, StateTyped
    PROVE  /\ \A th \in {"user", "nrt"} : ~RunHook(th) /\ ~ClearHooks(th)
           /\ ~NrtFlush
<1>1. \A th \in {"user", "nrt"} : ~RunHook(th) /\ ~ClearHooks(th)
  BY DEF Calm, NoFlush, RunHook, ClearHooks
<1>2. ASSUME toNrt # <<>> PROVE Head(toNrt).what # "flush"
  <2>1. Head(toNrt) \in Range(toNrt)
    BY <1>2, TailRange DEF StateTyped
  <2>. QED BY <2>1 DEF Calm, NoFlush
<1>. QED BY <1>1, <1>2 DEF NrtFlush

\* A flush is never forgotten.
LEMMA FlushedStays ==
    ASSUME StateTyped, Next \/ UNCHANGED vars, Flushed
    PROVE  Flushed'
<1>1. flushes \in Nat /\ flushes > 0
  BY DEF StateTyped, Flushed
<1>2. flushes' = flushes \/ flushes' = flushes + 1
  <2>1. CASE UNCHANGED vars
    BY <2>1 DEF vars, flushVars
  <2>2. CASE UserStep
    BY <2>2 DEF UserStep, HeapPoolPop, FillHeap, SendHeap, RunHook, ClearHooks, flushVars
  <2>3. CASE UserFlush \/ RtFlush \/ PourFlush
    BY <2>3 DEF UserFlush, RtFlush, PourFlush, FlushInRt
  <2>4. CASE NrtStep
    BY <2>4 DEF NrtStep, NrtEndAction, NrtFlush, RunHook, ClearHooks, flushVars
  <2>5. CASE RtStep
    BY <2>5 DEF RtStep, RtReceive, CallEvent, StartPour, ContinuePour, PourCall, CallPoured, PourEnd, PourNext,
                Tick, flushVars
  <2>. QED BY <2>1, <2>2, <2>3, <2>4, <2>5 DEF Next
<1>. QED BY <1>1, <1>2 DEF Flushed

LEMMA NextTyped == ASSUME StateTyped, Next PROVE StateTyped'
<1>1. CASE UserStep
  BY <1>1, HeapPoolPopTyped, FillHeapTyped, SendHeapTyped, RunHookTyped, ClearHooksTyped
     DEF UserStep
<1>2. CASE UserFlush \/ RtFlush \/ PourFlush
  BY <1>2, UserFlushTyped, RtFlushTyped, PourFlushTyped
<1>3. CASE NrtStep
  BY <1>3, NrtEndActionTyped, NrtFlushTyped, RunHookTyped, ClearHooksTyped DEF NrtStep
<1>4. CASE RtStep
  BY <1>4, RtReceiveTyped, CallEventTyped, StartPourTyped, ContinuePourTyped, PourCallTyped,
     PourEndTyped, PourNextTyped, TickTyped DEF RtStep
<1>. QED BY <1>1, <1>2, <1>3, <1>4 DEF Next

LEMMA NextCalm ==
    ASSUME StateTyped, StateTyped', ~Flushed, Calm, Next
    PROVE  Flushed' \/ Calm'
<1>1. CASE UserStep
  BY <1>1, HeapPoolPopCalm, FillHeapCalm, SendHeapCalm, NothingToFlush DEF UserStep
<1>2. CASE UserFlush \/ RtFlush \/ PourFlush
  <2>1. flushes \in Nat /\ flushes' = flushes + 1
    BY <1>2 DEF UserFlush, RtFlush, PourFlush, FlushInRt, StateTyped
  <2>. QED BY <2>1 DEF Flushed
<1>3. CASE NrtStep
  BY <1>3, NrtEndActionCalm, NothingToFlush DEF NrtStep
<1>4. CASE RtStep
  BY <1>4, RtReceiveCalm, CallEventCalm, StartPourCalm, ContinuePourCalm, PourCallCalm,
     PourEndCalm, PourNextCalm, TickCalm DEF RtStep
<1>. QED BY <1>1, <1>2, <1>3, <1>4 DEF Next

LEMMA NextInv == ASSUME ScheduleInv, Next \/ UNCHANGED vars PROVE ScheduleInv'
<1>1. CASE UNCHANGED vars
  <2>1. StateTyped'
    BY <1>1 DEF ScheduleInv, StateTyped, TypeOK, vars, rtVars, mail, userVars, flushVars, history
  <2>2. CASE Flushed
    BY <2>1, <2>2, <1>1 DEF ScheduleInv, Flushed, vars, flushVars
  <2>3. CASE Calm
    <3>1. Holding' = Holding
      BY <1>1 DEF Holding, Acts, vars, rtVars, mail, userVars
    <3>2. /\ pool' = pool /\ made' = made /\ content' = content /\ filled' = filled
          /\ offset' = offset /\ rtHeap' = rtHeap /\ now' = now /\ pouring' = pouring
          /\ toRt' = toRt /\ toNrt' = toNrt /\ flushing' = flushing /\ flushes' = flushes
          /\ startAt' = startAt /\ calledAt' = calledAt /\ current' = current
          /\ filledTo' = filledTo
      BY <1>1 DEF vars, rtVars, mail, userVars, flushVars, history
    <3>3. HeapsApart' /\ NoFlush' /\ BodyDone' /\ QueuesOrdered' /\ CalledOnTime'
      BY <2>3, <3>1, <3>2
         DEF Calm, HeapsApart, NoFlush, BodyDone, QueuesOrdered, CalledOnTime, Flushed
    <3>4. ContentsRight' /\ StartsRight'
      BY <2>3, <3>1, <3>2 DEF Calm, ContentsRight, Entered, StartsRight, Started
    <3>5. EntriesRight' /\ PouringInTime' /\ PouredFirst'
      BY <2>3, <3>1, <3>2 DEF Calm, EntriesRight, StartRight, PourRight, EventRight, Started,
                              PouringInTime, PouredFirst
    <3>6. NoEventLost'
      BY <2>3, <3>2, StoredIs DEF Calm, NoEventLost, Pending, Entered, Flushed
    <3>. QED BY <2>1, <3>3, <3>4, <3>5, <3>6 DEF Calm, ScheduleInv
  <2>. QED BY <2>2, <2>3 DEF ScheduleInv
<1>2. CASE Next
  <2>1. StateTyped'
    BY <1>2, NextTyped DEF ScheduleInv
  <2>2. CASE Flushed
    BY <1>2, <2>1, <2>2, FlushedStays DEF ScheduleInv
  <2>3. CASE ~Flushed
    BY <1>2, <2>1, <2>3, NextCalm DEF ScheduleInv
  <2>. QED BY <2>2, <2>3
<1>. QED BY <1>1, <1>2

\* Heaps, schedules and their actions keep their types in every state, and until
\* flush-pending is called each is where the threads expect it.
THEOREM SchedulesSafe == Spec => []ScheduleInv
<1>1. ScheduleInv /\ [Next]_vars => ScheduleInv'
  BY NextInv
<1>. QED BY InitInv, <1>1, PTL DEF Spec

-----------------------------------------------------------------------------
(* One owner of a heap *)

\* A set whose elements are all the same has none or one.
LEMMA NoneOrOne ==
    ASSUME NEW S, \A j, k \in S : j = k
    PROVE  Cardinality(S) = IF S = {} THEN 0 ELSE 1
<1>1. CASE S = {}
  BY <1>1, FS_EmptySet
<1>2. CASE S # {}
  <2>1. PICK j \in S : TRUE
    BY <1>2
  <2>2. S = {j}
    BY <2>1
  <2>. QED BY <1>2, <2>2, FS_Singleton
<1>. QED BY <1>1, <1>2

HasHeap(A, h) == \E a \in A : a.heap = h

\* A heap is in an ordered queue once if one of its actions has it.
LEMMA OwnersAre ==
    ASSUME NEW E, NEW q \in Seq(E), Ordered(q), NEW h \in Nat, h # 0
    PROVE  Cardinality(Owners(h, q)) = IF HasHeap(Acts(q), h) THEN 1 ELSE 0
<1>1. DOMAIN q \subseteq Nat
  OBVIOUS
<1>2. NoAction.heap = 0
  BY DEF NoAction
<1>3. ASSUME NEW k \in DOMAIN q, q[k].action.heap = h PROVE Carries(q[k])
  BY <1>2, <1>3 DEF Carries
<1>4. ASSUME NEW j \in Owners(h, q), NEW k \in Owners(h, q) PROVE j = k
  <2>1. /\ j \in DOMAIN q /\ k \in DOMAIN q
        /\ q[j].action.heap = h /\ q[k].action.heap = h
    BY DEF Owners
  <2>2. Carries(q[j]) /\ Carries(q[k])
    BY <1>3, <2>1
  <2>3. ~(j < k) /\ ~(k < j)
    BY <2>1, <2>2 DEF Ordered, Fine
  <2>. QED BY <1>1, <2>1, <2>3
<1>5. Owners(h, q) # {} <=> HasHeap(Acts(q), h)
  <2>1. ASSUME NEW k \in Owners(h, q) PROVE HasHeap(Acts(q), h)
    <3>1. k \in DOMAIN q /\ q[k].action.heap = h
      BY DEF Owners
    <3>2. q[k] \in Range(q) /\ Carries(q[k])
      BY <1>3, <3>1 DEF Range
    <3>3. q[k].action \in Acts(q)
      BY <3>2, ActsAre
    <3>. QED BY <3>1, <3>3 DEF HasHeap
  <2>2. ASSUME NEW a \in Acts(q), a.heap = h PROVE Owners(h, q) # {}
    <3>1. PICK k \in DOMAIN q : q[k].action = a
      BY DEF Acts, Range
    <3>. QED BY <2>2, <3>1 DEF Owners
  <2>. QED BY <2>1, <2>2 DEF HasHeap
<1>. QED BY <1>4, <1>5, NoneOrOne

LEMMA OneOwner ==
    ASSUME StateTyped, Calm, NEW h \in 1 .. made
    PROVE  Count(h) = 1
<1> DEFINE Has(p) == HasHeap(Holding[p], h)
<1>1. h \in Nat /\ h # 0 /\ made \in Nat
  BY BoundsAre DEF StateTyped, TypeOK
<1>2. Cardinality(Owners(h, toRt)) = IF Has("toRt") THEN 1 ELSE 0
  BY <1>1, OwnersAre, HoldingAre DEF StateTyped, Calm, QueuesOrdered
<1>3. Cardinality(Owners(h, toNrt)) = IF Has("toNrt") THEN 1 ELSE 0
  BY <1>1, OwnersAre, HoldingAre DEF StateTyped, Calm, QueuesOrdered
<1>4. Cardinality(Owners(h, rtHeap)) = IF Has("rtHeap") THEN 1 ELSE 0
  BY <1>1, OwnersAre, HoldingAre DEF StateTyped, Calm, QueuesOrdered
<1>5. filled = h <=> Has("user")
  <2>1. Holding["user"] = IF filled = 0 THEN {} ELSE {[heap |-> filled, schedule |-> current]}
    BY HoldingAre
  <2>2. CASE filled = 0
    BY <1>1, <2>1, <2>2 DEF HasHeap
  <2>3. CASE filled # 0
    <3>1. PICK a : a = [heap |-> filled, schedule |-> current]
      OBVIOUS
    <3>2. a.heap = filled /\ Holding["user"] = {a}
      BY <2>1, <2>3, <3>1
    <3>. QED BY <3>2 DEF HasHeap
  <2>. QED BY <2>2, <2>3
<1>6. pouring.heap = h <=> Has("rt")
  <2>1. NoAction.heap = 0 /\ Holding["rt"] = {pouring} \ {NoAction}
    BY HoldingAre DEF NoAction
  <2>. QED BY <1>1, <2>1 DEF HasHeap
<1>7. Cardinality({k \in DOMAIN pool : pool[k] = h}) = IF h \in Range(pool) THEN 1 ELSE 0
  <2>1. PICK S : S = {k \in DOMAIN pool : pool[k] = h}
    OBVIOUS
  <2>2. \A j, k \in S : j = k
    BY <2>1 DEF Calm, HeapsApart
  <2>3. S = {} <=> h \notin Range(pool)
    BY <2>1 DEF Range
  <2>. QED BY <2>1, <2>2, <2>3, NoneOrOne
<1>8. h \in Range(pool) => \A p \in Places : ~Has(p)
  BY DEF Calm, HeapsApart, HasHeap
<1>9. h \in Range(pool) \/ \E p \in Places : Has(p)
  BY DEF Calm, HeapsApart, HasHeap
<1>10. \A p, q \in Places : Has(p) /\ Has(q) => p = q
  BY DEF Calm, HeapsApart, Distinct, HasHeap
<1>11. PICK n, r, t, v : /\ n = Cardinality({k \in DOMAIN pool : pool[k] = h})
                         /\ r = Cardinality(Owners(h, toRt)) /\ t = Cardinality(Owners(h, toNrt))
                         /\ v = Cardinality(Owners(h, rtHeap))
  OBVIOUS
<1>12. Count(h) = n + r + t + v + (IF filled = h THEN 1 ELSE 0) + (IF pouring.heap = h THEN 1 ELSE 0)
  BY <1>11 DEF Count
<1> HIDE DEF Has
<1>13. CASE h \in Range(pool)
  <2>1. ~Has("toRt") /\ ~Has("toNrt") /\ ~Has("rtHeap") /\ ~Has("user") /\ ~Has("rt")
    BY <1>8, <1>13 DEF Places
  <2>. QED BY <1>2, <1>3, <1>4, <1>5, <1>6, <1>7, <1>11, <1>12, <1>13, <2>1
<1>14. CASE h \notin Range(pool)
  <2>1. \/ Has("toRt") /\ ~Has("toNrt") /\ ~Has("rtHeap") /\ ~Has("user") /\ ~Has("rt")
        \/ ~Has("toRt") /\ Has("toNrt") /\ ~Has("rtHeap") /\ ~Has("user") /\ ~Has("rt")
        \/ ~Has("toRt") /\ ~Has("toNrt") /\ Has("rtHeap") /\ ~Has("user") /\ ~Has("rt")
        \/ ~Has("toRt") /\ ~Has("toNrt") /\ ~Has("rtHeap") /\ Has("user") /\ ~Has("rt")
        \/ ~Has("toRt") /\ ~Has("toNrt") /\ ~Has("rtHeap") /\ ~Has("user") /\ Has("rt")
    BY <1>9, <1>10, <1>14 DEF Places
  <2>. QED BY <1>2, <1>3, <1>4, <1>5, <1>6, <1>7, <1>11, <1>12, <1>14, <2>1
<1>. QED BY <1>13, <1>14

\* Until flush-pending is called every temporary heap has one owner, the pool
\* or one with-schedule, and every event that was scheduled and not called is
\* in a heap: between the threads of edf-sched.lisp nothing is shared or lost.
THEOREM HeapsCorrect == Spec => []HeapsInv
<1>1. ScheduleInv => HeapsInv
  <2> SUFFICES ASSUME ScheduleInv PROVE HeapsInv
    OBVIOUS
  <2>1. StateTyped /\ TypeOK
    BY DEF ScheduleInv, StateTyped
  <2>2. CASE Flushed
    BY <2>1, <2>2 DEF HeapsInv, HeapHasOneOwner, NoEventLost
  <2>3. CASE Calm
    <3>1. \A h \in 1 .. made : Count(h) = 1
      BY <2>1, <2>3, OneOwner
    <3>. QED BY <2>1, <2>3, <3>1 DEF HeapsInv, HeapHasOneOwner, Calm
  <2>. QED BY <2>2, <2>3 DEF ScheduleInv
<1>. QED BY <1>1, SchedulesSafe, PTL

-----------------------------------------------------------------------------
(* The order of the calls *)

\* Of two events of a schedule one is before the other.
LEMMA BeforeIsOrder ==
    ASSUME NEW e \in Events, NEW f \in Events, Before(e, f)
    PROVE  /\ e # f /\ ~Before(f, e) /\ e[1] = f[1]
           /\ Rel(e) \in Nat /\ Rel(f) \in Nat /\ e[2] \in Nat /\ f[2] \in Nat
<1>1. /\ e[1] \in Schedules /\ e[2] \in 1 .. Len(Bodies[e[1]]) /\ Rel(e) \in Nat
      /\ f[1] \in Schedules /\ f[2] \in 1 .. Len(Bodies[f[1]]) /\ Rel(f) \in Nat
  BY EventsAre
<1>2. e[2] \in Nat /\ f[2] \in Nat
  BY <1>1, EventsAre
<1>. QED BY <1>1, <1>2 DEF Before

\* An event of a schedule that has started is called or stored.
LEMMA CalledOrStored ==
    ASSUME StateTyped, Calm, ~Flushed, NEW e \in Events, Started(e[1]), calledAt[e] = Never
    PROVE  \/ \E h \in Heaps : \E y \in Range(content[h]) : y.event = e
           \/ \E x \in Range(rtHeap) : /\ x.event = e /\ IsEvent(x)
                                       /\ x.time = Rel(e) + 2 * startAt[e[1]]
<1>1. Stored(e)
  BY StartedEntered DEF Calm, NoEventLost, Pending
<1>2. ASSUME NEW x \in Range(rtHeap), x.event = e
      PROVE  IsEvent(x) /\ x.time = Rel(e) + 2 * startAt[e[1]]
  <2>1. x.what = "event"
    BY <1>2, RtEntryIs, EventsAre
  <2>. QED BY <1>2, <2>1 DEF Calm, EntriesRight, EventRight, IsEvent
<1>. QED BY <1>1, <1>2, StoredIs

\* A call keeps the order when all that comes before it was called.
LEMMA CallKeepsOrder ==
    ASSUME StateTyped, ~Flushed, CalledInOrder, NEW f \in Events,
           calledAt' = [calledAt EXCEPT ![f] = now],
           \A e \in Events : Before(e, f) => calledAt[e] # Never
    PROVE  CalledInOrder'
<1>1. now # Never
  BY BoundsAre DEF StateTyped, TypeOK
<1>2. calledAt'[f] = now /\ \A e \in Events : e # f => calledAt'[e] = calledAt[e]
  BY DEF StateTyped, TypeOK
<1>3. ASSUME NEW e \in Events, NEW g \in Events, Before(e, g), calledAt'[g] # Never
      PROVE  calledAt'[e] # Never
  <2>1. calledAt[e] # Never
    BY <1>2, <1>3 DEF CalledInOrder, Before
  <2>. QED BY <1>1, <1>2, <2>1
<1>. QED BY <1>3 DEF CalledInOrder, Before, Rel

LEMMA CallEventOrder ==
    ASSUME StateTyped, ~Flushed, Calm, CalledInOrder, CallEvent
    PROVE  CalledInOrder'
<1>1. RtDue
  BY DEF CallEvent
<1>2. PICK x, f : x = Head(rtHeap) /\ f = x.event
  OBVIOUS
<1>3. /\ x.what = "event" /\ x \in Range(rtHeap)
      /\ Range(rtHeap) = Range(Tail(rtHeap)) \cup {x}
      /\ \A y \in Range(Tail(rtHeap)) : Fine(x, y)
  BY <1>1, <1>2, RtTakes DEF CallEvent
<1>4. x.time \in Nat /\ f \in Events
  BY <1>2, <1>3, RtEntryIs
<1>5. Started(f[1]) /\ x.time = Rel(f) + 2 * startAt[f[1]]
  BY <1>2, <1>3 DEF Calm, EntriesRight, EventRight
<1>6. startAt[f[1]] \in Nat
  BY <1>4, EventsAre, BoundsAre, SMTT(30) DEF StateTyped, TypeOK
<1>7. ASSUME NEW e \in Events, Before(e, f), calledAt[e] = Never PROVE FALSE
  <2>1. /\ e # f /\ ~Before(f, e) /\ e[1] = f[1] /\ Rel(e) \in Nat /\ Rel(f) \in Nat
    BY <1>4, <1>7, BeforeIsOrder
  <2>2. ASSUME NEW h \in Heaps, NEW y \in Range(content[h]), y.event = e PROVE FALSE
    <3>1. PICK a \in Holding["rtHeap"] \cup Holding["rt"] : a.heap = h /\ a.schedule = f[1]
      BY <1>5, <2>1, <2>2, StartedOwner
    <3>2. Before(f, e)
      BY <1>2, <1>3, <2>2, <3>1 DEF Calm, PouredFirst, IsEvent
    <3>. QED BY <2>1, <3>2
  <2>3. ASSUME NEW z \in Range(rtHeap), z.event = e, IsEvent(z),
               z.time = Rel(e) + 2 * startAt[e[1]]
        PROVE  FALSE
    <3>1. Fine(x, z)
      BY <1>2, <1>3, <2>1, <2>3
    <3>2. Rel(f) <= Rel(e) /\ (Rel(f) = Rel(e) => f[2] < e[2])
      BY <1>2, <1>3, <1>5, <1>6, <2>1, <2>3, <3>1 DEF Fine, IsEvent
    <3>3. Before(f, e)
      BY <2>1, <3>2 DEF Before
    <3>. QED BY <2>1, <3>3
  <2>. QED BY <1>5, <1>7, <2>1, <2>2, <2>3, CalledOrStored
<1>8. calledAt' = [calledAt EXCEPT ![f] = now]
  BY <1>2 DEF CallEvent
<1>. QED BY <1>4, <1>7, <1>8, CallKeepsOrder

LEMMA PourCallOrder ==
    ASSUME StateTyped, ~Flushed, Calm, CaughtUp, CalledInOrder, PourCall
    PROVE  CalledInOrder'
<1>1. pouring # NoAction /\ Poured # <<>> /\ Due(PouredTime)
  BY DEF PourCall, CallPoured, PouredDue
<1>2. PICK y, f : y = Head(Poured) /\ f = y.event
  OBVIOUS
<1>3. /\ f \in Events /\ f[1] = pouring.schedule /\ Started(f[1]) /\ startAt[f[1]] \in Nat
      /\ PouredTime = Rel(f) + 2 * startAt[f[1]]
      /\ Range(Poured) = Range(Tail(Poured)) \cup {y}
  BY <1>1, <1>2, PouredIs
<1>4. PouredTime \in Nat /\ now \in Nat /\ PouredTime <= 2 * now + 1
  BY <1>1, PouredAre DEF Due
<1>5. ASSUME NEW e \in Events, Before(e, f), calledAt[e] = Never PROVE FALSE
  <2>1. /\ e # f /\ ~Before(f, e) /\ e[1] = f[1] /\ Rel(e) \in Nat /\ Rel(f) \in Nat
    BY <1>3, <1>5, BeforeIsOrder
  <2>2. ASSUME NEW h \in Heaps, NEW z \in Range(content[h]), z.event = e PROVE FALSE
    <3>1. h = pouring.heap
      BY <1>1, <1>3, <2>1, <2>2, OthersAre
    <3>2. z \in Range(Tail(Poured))
      BY <1>2, <1>3, <2>1, <2>2, <3>1 DEF Poured
    <3>3. Before(f, e)
      BY <1>1, <1>2, <2>2, <3>2, LeftAfterPoured
    <3>. QED BY <2>1, <3>3
  <2>3. ASSUME NEW z \in Range(rtHeap), z.event = e, IsEvent(z),
               z.time = Rel(e) + 2 * startAt[e[1]]
        PROVE  FALSE
    <3>1. z.time > 2 * now + 1
      BY <1>1, <1>3, <2>1, <2>3 DEF CaughtUp
    <3>2. Rel(f) < Rel(e)
      BY <1>3, <1>4, <2>1, <2>3, <3>1
    <3>3. Before(f, e)
      BY <2>1, <3>2 DEF Before
    <3>. QED BY <2>1, <3>3
  <2>. QED BY <1>3, <1>5, <2>1, <2>2, <2>3, CalledOrStored
<1>6. calledAt' = [calledAt EXCEPT ![f] = now]
  BY <1>2 DEF PourCall, CallPoured
<1>. QED BY <1>3, <1>5, <1>6, CallKeepsOrder

\* In whole samples nothing of a schedule is due when its pour continues: the
\* entries of the same tick stand before the pour.
LEMMA ContinuePourCaughtUp ==
    ASSUME InSamples, StateTyped, ~Flushed, Calm, ContinuePour
    PROVE  CaughtUp'
<1>1. RtDue
  BY DEF ContinuePour
<1>2. PICK x, a : x = Head(rtHeap) /\ a = x.action
  OBVIOUS
<1>3. /\ x.what = "pour" /\ x \in Range(rtHeap) /\ rtHeap' = Tail(rtHeap) /\ now \in Nat
      /\ Range(rtHeap) = Range(rtHeap') \cup {x}
      /\ \A z \in Range(rtHeap') : Fine(x, z)
      /\ pouring' = a /\ now' = now /\ x.time <= 2 * now + 1
  BY <1>1, <1>2, RtTakes DEF ContinuePour
<1>4. Carries(x) /\ x.time \in Nat /\ x.time >= 2 * now /\ x.time % 2 = 0
  BY <1>2, <1>3, RtEntryIs DEF Calm, EntriesRight, PourRight
<1>5. x.time = 2 * now
  BY <1>3, <1>4
<1>6. ASSUME NEW z \in Range(rtHeap'), IsEvent(z), z.event[1] = a.schedule
      PROVE  z.time > 2 * now + 1
  <2>1. z \in Range(rtHeap) /\ Fine(x, z)
    BY <1>3
  <2>2. x.time < z.time
    BY <1>2, <1>4, <1>6, <2>1 DEF Fine
  <2>3. /\ z.event \in Events /\ z.time \in Nat
        /\ z.time = Rel(z.event) + 2 * startAt[z.event[1]]
    BY <1>6, <2>1, RtEntryIs DEF Calm, EntriesRight, EventRight, IsEvent
  <2>4. Rel(z.event) \in Nat /\ Rel(z.event) % 2 = 0 /\ startAt[z.event[1]] \in Nat
    <3>1. Rel(z.event) \in Nat /\ z.event[1] \in Schedules
      BY <2>3, EventsAre
    <3>2. Rel(z.event) % 2 = 0
      BY <2>3 DEF InSamples
    <3>3. startAt[z.event[1]] \in Nat
      BY <3>1, BoundsAre DEF StateTyped, TypeOK
    <3>. QED BY <3>1, <3>2, <3>3
  <2>5. PICK t, s : t = Rel(z.event) /\ s = startAt[z.event[1]]
    OBVIOUS
  <2>6. t + 2 * s > 2 * now + 1
    <3>1. t \in Nat /\ s \in Nat /\ t % 2 = 0 /\ t + 2 * s > 2 * now
      BY <1>5, <2>2, <2>3, <2>4, <2>5
    <3>. QED BY <1>3, <3>1
  <2>. QED BY <2>3, <2>5, <2>6
<1>. QED BY <1>3, <1>6 DEF CaughtUp

\* No event of a schedule is in the real-time heap before it starts.
LEMMA StartPourCaughtUp ==
    ASSUME StateTyped, ~Flushed, Calm, StartPour
    PROVE  CaughtUp'
<1>1. RtDue
  BY DEF StartPour
<1>2. PICK x, a : x = Head(rtHeap) /\ a = x.action
  OBVIOUS
<1>3. /\ x.what = "start" /\ x \in Range(rtHeap) /\ pouring' = a
      /\ Range(rtHeap) = Range(rtHeap') \cup {x}
  BY <1>1, <1>2, RtTakes DEF StartPour
<1>4. ~Started(a.schedule)
  BY <1>2, <1>3 DEF Calm, EntriesRight, StartRight
<1>5. \A z \in Range(rtHeap') : IsEvent(z) => z.event[1] # a.schedule
  BY <1>3, <1>4 DEF Calm, EntriesRight, EventRight, IsEvent
<1>. QED BY <1>3, <1>5 DEF CaughtUp

LEMMA NextOrder ==
    ASSUME InSamples, StateTyped, ~Flushed, Calm, CaughtUp, CalledInOrder, Next
    PROVE  Flushed' \/ (CaughtUp' /\ CalledInOrder')
<1>0. ASSUME calledAt' = calledAt, flushes' = flushes PROVE CalledInOrder'
  BY <1>0 DEF CalledInOrder, Flushed, Rel
<1>1. ASSUME rtHeap' = rtHeap, pouring' = pouring, now' = now PROVE CaughtUp'
  BY <1>1 DEF CaughtUp
<1>2. pouring' = NoAction => CaughtUp'
  BY DEF CaughtUp
<1>3. CASE UserStep \/ NrtStep
  <2>1. calledAt' = calledAt /\ flushes' = flushes
    BY <1>3 DEF UserStep, NrtStep, HeapPoolPop, FillHeap, SendHeap, RunHook, ClearHooks,
                NrtEndAction, NrtFlush, flushVars, history
  <2>2. rtHeap' = rtHeap /\ pouring' = pouring /\ now' = now
    BY <1>3 DEF UserStep, NrtStep, HeapPoolPop, FillHeap, SendHeap, RunHook, ClearHooks,
                NrtEndAction, NrtFlush, rtVars
  <2>. QED BY <1>0, <1>1, <2>1, <2>2
<1>4. CASE UserFlush \/ RtFlush \/ PourFlush
  <2>1. flushes \in Nat /\ flushes' = flushes + 1
    BY <1>4 DEF UserFlush, RtFlush, PourFlush, FlushInRt, StateTyped
  <2>. QED BY <2>1 DEF Flushed
<1>5. CASE CallEvent
  <2>1. pouring' = NoAction
    BY <1>5 DEF CallEvent, RtDue
  <2>. QED BY <1>2, <1>5, <2>1, CallEventOrder
<1>6. CASE StartPour
  <2>1. calledAt' = calledAt /\ flushes' = flushes
    BY <1>6 DEF StartPour, flushVars
  <2>. QED BY <1>0, <1>6, <2>1, StartPourCaughtUp
<1>7. CASE ContinuePour
  <2>1. calledAt' = calledAt /\ flushes' = flushes
    BY <1>7 DEF ContinuePour, flushVars, history
  <2>. QED BY <1>0, <1>7, <2>1, ContinuePourCaughtUp
<1>8. CASE PourCall
  <2>1. rtHeap' = rtHeap /\ pouring' = pouring /\ now' = now
    BY <1>8 DEF PourCall, CallPoured, rtVars
  <2>. QED BY <1>1, <1>8, <2>1, PourCallOrder
<1>9. CASE RtReceive \/ PourEnd \/ PourNext \/ Tick
  <2>1. pouring' = NoAction /\ calledAt' = calledAt /\ flushes' = flushes
    BY <1>9 DEF RtReceive, PourEnd, PourNext, Tick, flushVars, history
  <2>. QED BY <1>0, <1>2, <2>1
<1>. QED BY <1>3, <1>4, <1>5, <1>6, <1>7, <1>8, <1>9 DEF Next, RtStep

\* Until flush-pending is called every event that with-schedule has scheduled
\* is called at the tick of its time, counted from the start of the pouring,
\* also when its time is between two samples.
THEOREM CalledOnTimeCorrect == Spec => []CalledOnTime
<1>1. ScheduleInv => CalledOnTime
  BY DEF ScheduleInv, Calm, CalledOnTime
<1>. QED BY <1>1, SchedulesSafe, PTL

\* When the times are whole samples pour-on-rt-heap also keeps the order of the
\* events of a schedule, although it moves one event at a tick to the heap.
THEOREM CalledAsScheduledCorrect ==
    ASSUME InSamples
    PROVE  Spec => []CalledAsScheduled
<1>1. Init => OrderInv
  <2> SUFFICES ASSUME Init PROVE OrderInv
    OBVIOUS
  <2>1. pouring = NoAction /\ calledAt = [e \in Events |-> Never]
    BY DEF Init
  <2>. QED BY <2>1, InitInv DEF OrderInv, CaughtUp, CalledInOrder
<1>2. OrderInv /\ [Next]_vars => OrderInv'
  <2> SUFFICES ASSUME OrderInv, Next \/ UNCHANGED vars PROVE OrderInv'
    OBVIOUS
  <2>1. ScheduleInv'
    BY NextInv DEF OrderInv
  <2>2. CASE Flushed
    <3>1. Flushed'
      BY <2>2, FlushedStays DEF OrderInv, ScheduleInv
    <3>. QED BY <2>1, <3>1 DEF OrderInv
  <2>3. CASE ~Flushed /\ UNCHANGED vars
    <3>1. CaughtUp' /\ CalledInOrder'
      BY <2>3 DEF OrderInv, CaughtUp, CalledInOrder, Flushed, Rel, vars, rtVars, flushVars, history
    <3>. QED BY <2>1, <3>1 DEF OrderInv
  <2>4. CASE ~Flushed /\ Next
    BY <2>1, <2>4, NextOrder DEF OrderInv, ScheduleInv
  <2>. QED BY <2>2, <2>3, <2>4
<1>3. OrderInv => CalledAsScheduled
  BY DEF OrderInv, ScheduleInv, Calm, CalledAsScheduled, CalledOnTime, CalledInOrder
<1>. QED BY <1>1, <1>2, <1>3, PTL DEF Spec
=============================================================================
