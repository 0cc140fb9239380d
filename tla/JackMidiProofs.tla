--------------------------- MODULE JackMidiProofs ---------------------------
(***************************************************************************)
(* JackMidi, for every cycle of events, every size of the rings and of the *)
(* buffers and every number of cycles: the rings never hold more than they *)
(* may, jm_read stays in the buffer of its caller and gets on, the events  *)
(* reach the receiver in order and once, and the bytes of the output keep  *)
(* their order.                                                            *)
(*                                                                         *)
(* MidiInv is inductive.  What is in the pad buffer is known as long as    *)
(* the two threads did not meet there (Genuine), and which cached events   *)
(* are moved to rb as long as the stamps count from the last clear         *)
(* (Arranged).  The rest holds in all states.                              *)
(***************************************************************************)
EXTENDS JackMidi, NaturalsInduction, WellFoundedInduction, SequenceTheorems, TLAPS

Events == [id : Nat, len : Nat, size : Nat, time : Nat]

Types ==
    /\ use \in Uses
    /\ rb \in Seq(Events) /\ cache \in Seq(Events) /\ pad \in Seq(Events)
    /\ port \in Seq(Events) /\ open \in Seq(Events) /\ batch \in Seq(Events)
    /\ suspended \in Nat /\ restarts \in Nat /\ now \in Nat /\ start \in Nat /\ offset \in Nat
    /\ size \in Nat /\ n \in Nat /\ space \in Int /\ remain \in Nat
    /\ nextEvent \in 1 .. MaxEvents + 1 /\ got \in Nat
    /\ toSignal \in BOOLEAN

\* Lisp has the client, and the C thread is blocked.
LispModes == {"live", "cycle", "run", "resume", "last", "lastcycle", "lastrun"}

\* The C thread has the client; Lisp collects or recovers.
BusyModes == {"gc", "recover", "parse", "put", "recrun", "done", "idle"}

\* Where the threads are: jm_process2 runs in the thread with the client.
Control ==
    /\ proc \in {"none", "write", "put", "signal"} /\ k \in {"blocked", "wait", "process"}
    /\ IF k = "blocked" THEN mode \in LispModes ELSE mode \in BusyModes
    /\ proc # "none" => mode \in {"cycle", "lastcycle"} \/ k = "process"
    /\ proc \in {"none", "signal"} => port = <<>>
    /\ proc = "put" => port # <<>>
    /\ r \in {"off", "flush", "loop", "read", "deliver", "test", "lock", "enter", "waiting",
              "woken", "leave"}
    /\ lock \in {"free", "receiver", "stop"}

\* A bound of the cycles that were begun before the last restart.
Earlier == restarts * MaxSuspended

\* A cycle of the C thread is begun and not counted.
InCycle == k = "process" \/ mode \in {"last", "lastcycle", "lastrun"}

\* The cycles in the cycle counter were begun since the last clear, and at
\* most MaxSuspended between two restarts of the recovery.
Counted ==
    /\ restarts <= RestartLimit /\ offset <= MaxSuspended
    /\ suspended <= Earlier + offset + 1
    /\ k = "process" => suspended <= Earlier + offset
    /\ mode \in {"parse", "put", "recrun"} => suspended > 0
    /\ restarts > 0 => early
    /\ mode \in {"live", "cycle", "run"} => now = 0 /\ offset = 0 /\ suspended = 0 /\ start = 0
    /\ ~early => /\ start = 0
                 /\ InCycle => now + suspended + 1 = offset
                 /\ ~InCycle => now + suspended = offset

\* The space that was found for an event is still there when it is written.
RingsFit ==
    /\ Bytes(rb) <= RingBytes /\ Bytes(cache) <= RingBytes
    /\ proc = "put" => Bytes(Ring) + Head(port).size <= RingBytes
    /\ mode = "put" => Bytes(rb) + size <= RingBytes

\* jm_read: the rest of the buffer and what it has copied are the buffer.
ReaderFits ==
    /\ r = "read" => /\ space \in Nat /\ space % 4 = 0
                     /\ space + Total([i \in DOMAIN batch |-> Aligned(batch[i].size)]) = BufSize
                     /\ n > 0 => rb # <<>>
    /\ r = "deliver" /\ remain > 0 /\ batch = <<>> /\ ~raced
           => rb # <<>> /\ Head(rb).size = BufSize

Real(q) == \A i \in 1 .. Len(q) : q[i].len > 0

\* The pad buffer has what its last user wrote.
Genuine ==
    /\ Real(rb) /\ Real(cache) /\ Real(pad) /\ Real(port) /\ Real(open)
    /\ proc = "put" => pad = <<Head(port)>> /\ mode \notin {"parse", "put"}
    /\ mode = "parse" => /\ Len(pad) <= Len(cache)
                         /\ \A i \in 1 .. Len(pad) : pad[i] = cache[i]
    /\ mode = "put" => pad # <<>> /\ Bytes(pad) = size
    /\ proc # "put" /\ mode \notin {"parse", "put"} => pad = <<>>

Rising(q) == \A i, j \in 1 .. Len(q) : i < j => q[i].id < q[j].id
Under(q, id) == \A i \in 1 .. Len(q) : q[i].id < id
Lower(p, q) == \A i \in 1 .. Len(p) : \A j \in 1 .. Len(q) : p[i].id < q[j].id

\* The receiver has got up to the event g, holds p, and will read q: in order,
\* and no event is m or later.
InOrder(g, p, q, m) ==
    /\ Rising(p) /\ Rising(q) /\ Lower(p, q) /\ Under(p, m) /\ Under(q, m) /\ g < m
    /\ \A i \in 1 .. Len(p) : g < p[i].id
    /\ \A i \in 1 .. Len(q) : g < q[i].id

GoneOf(g, p, q) ==
    {g} \cup {p[i].id : i \in 1 .. Len(p)} \cup {q[i].id : i \in 1 .. Len(q)}
Gone == GoneOf(got, batch, rb)

Follows(q, F) == \A x \in F : \A i \in 1 .. Len(q) : x < q[i].id

\* The cycle that the C thread has begun and not counted.
Begun == k = "process" \/ mode = "last"

\* The order of the events on their ways: what the receiver has got, what it
\* holds, rb, what Lisp moves, the cache, and what is still in the port.  The
\* events of the cycle that the C thread has begun may be in the cache too:
\* their stamps say that they stay there.
Arranged ==
    /\ InOrder(got, batch, rb, nextEvent)
    /\ Rising(cache) /\ Rising(port) /\ Rising(pad)
    /\ Under(cache, nextEvent) /\ Under(port, nextEvent) /\ Under(pad, nextEvent)
    /\ Follows(port, Gone)
    /\ mode \notin {"last", "lastcycle", "lastrun"} => Follows(cache, Gone)
    /\ mode \in {"live", "cycle", "run"} => cache = <<>>
    /\ k = "process" => Lower(cache, port)
    /\ mode = "put" => Follows(pad, Gone) /\ Lower(pad, cache) /\ Lower(pad, port)
    /\ Begun => Rising(open) /\ Under(open, nextEvent) /\ Follows(open, Gone)
    /\ k = "process" =>
          /\ \A i \in 1 .. Len(port) : port[i].time = offset - 1
          /\ \A i \in 1 .. Len(cache) : cache[i].time <= offset - 1
          /\ \A i \in 1 .. Len(cache) : \A j \in 1 .. Len(open) :
                cache[i].time < offset - 1 => cache[i].id < open[j].id
          /\ mode = "put" => Lower(pad, open)
    /\ k = "wait" => \A i \in 1 .. Len(cache) : cache[i].time < offset

\* A byte of the output: its message and its place.
Pairs == Nat \X Nat
Before(a, b) == a[1] < b[1] \/ (a[1] = b[1] /\ a[2] < b[2])

Sorted(q) == \A i, j \in 1 .. Len(q) : i < j => Before(q[i], q[j])
Written(q, m) == \A i \in 1 .. Len(q) : q[i][1] < m
Precede(p, q) == \A i \in 1 .. Len(p) : \A j \in 1 .. Len(q) : Before(p[i], q[j])

\* What is cached for the output comes after what was sent, until the last
\* cycle of a recovery sends the messages of its own functions.
Outputs ==
    /\ nextMessage \in Nat /\ sent \in Seq(Pairs) /\ ocache \in Seq(Pairs)
    /\ Written(sent, nextMessage) /\ Written(ocache, nextMessage)
    /\ Sorted(sent) /\ Sorted(ocache)
    /\ mode # "lastrun" => Precede(sent, ocache)
    /\ mode \in {"live", "cycle", "run", "gc"} => ocache = <<>>
    /\ Len(ocache) <= OutBytes

MidiInv ==
    /\ Types /\ Control /\ Counted /\ RingsFit /\ ReaderFits
    /\ ~raced => Genuine
    /\ ~raced /\ ~early => Arranged
    /\ Outputs

-----------------------------------------------------------------------------
(* Sequences and sums *)

\* Where the elements of two sequences are in their concatenation.
LEMMA ConcatParts ==
    ASSUME NEW E, NEW p \in Seq(E), NEW q \in Seq(E), NEW t, t = p \o q
    PROVE  /\ t \in Seq(E) /\ Len(t) = Len(p) + Len(q)
           /\ \A i \in 1 .. Len(p) : t[i] = p[i]
           /\ \A i \in 1 .. Len(q) : t[Len(p) + i] = q[i]
<1>1. /\ t \in Seq(E) /\ Len(t) = Len(p) + Len(q)
      /\ \A i \in 1 .. Len(p) + Len(q) : t[i] = IF i <= Len(p) THEN p[i] ELSE q[i - Len(p)]
  BY ConcatProperties, Zenon
<1>2. Len(p) \in Nat /\ Len(q) \in Nat
  BY LenProperties
<1>3. \A i \in 1 .. Len(p) : t[i] = p[i]
  BY <1>1, <1>2
<1>4. \A i \in 1 .. Len(q) : t[Len(p) + i] = q[i]
  BY <1>1, <1>2
<1>. QED BY <1>1, <1>3, <1>4

\* A set of numbers has a least element.
LEMMA MinIsFirst ==
    ASSUME NEW S, S \subseteq Nat, S # {}
    PROVE  Min(S) \in S /\ \A y \in S : Min(S) <= y
<1>1. PICK m \in S : \A j \in S : ~(<<j, m>> \in OpToRel(<, Nat))
  BY NatLessThanWellFounded, WFMin
<1>2. \A j \in S : ~(j < m)
  BY <1>1 DEF OpToRel
<1>3. \E x \in S : \A y \in S : x <= y
  BY <1>2
<1>. QED BY <1>3, Zenon DEF Min

\* Induction, about a set.
LEMMA AllNumbers ==
    ASSUME NEW T, 0 \in T, \A i \in Nat : i \in T => i + 1 \in T
    PROVE  Nat \subseteq T
<1>. DEFINE left == Nat \ T
<1>. SUFFICES ASSUME left # {} PROVE FALSE
  OBVIOUS
<1>1. PICK m : m \in left /\ \A y \in left : m <= y
  BY MinIsFirst
<1>2. m \in Nat /\ m # 0 /\ m - 1 \in Nat /\ m - 1 \notin left
  BY <1>1
<1>3. m - 1 \in T /\ (m - 1) + 1 = m
  BY <1>2
<1>. QED BY <1>1, <1>2, <1>3

\* The partial sums up to m.
Adds(f, q, m) ==
    /\ f \in [0 .. m -> Nat] /\ f[0] = 0
    /\ \A i \in 1 .. m : f[i] = f[i - 1] + q[i]

LEMMA PartialSums ==
    ASSUME NEW q \in Seq(Nat)
    PROVE  \E f : Adds(f, q, Len(q))
<1>. DEFINE T == {m \in Nat : m <= Len(q) => \E f : Adds(f, q, m)}
<1>0. Len(q) \in Nat /\ \A i \in 1 .. Len(q) : q[i] \in Nat
  OBVIOUS
<1>1. 0 \in T
  <2>1. Adds([i \in 0 .. 0 |-> 0], q, 0)
    BY DEF Adds
  <2>. QED BY <2>1
<1>2. ASSUME NEW m \in Nat, m \in T PROVE m + 1 \in T
  <2>. SUFFICES ASSUME m + 1 <= Len(q) PROVE \E f : Adds(f, q, m + 1)
    OBVIOUS
  <2>1. PICK f : Adds(f, q, m)
    BY <1>0, <1>2
  <2>. DEFINE g == [i \in 0 .. m + 1 |-> IF i = m + 1 THEN f[m] + q[m + 1] ELSE f[i]]
  <2>2. f[m] \in Nat /\ q[m + 1] \in Nat
    BY <1>0, <2>1 DEF Adds
  <2>3. g \in [0 .. m + 1 -> Nat] /\ g[0] = 0
    BY <2>1, <2>2 DEF Adds
  <2>4. ASSUME NEW i \in 1 .. m + 1 PROVE g[i] = g[i - 1] + q[i]
    <3>1. CASE i = m + 1
      BY <3>1
    <3>2. CASE i # m + 1
      BY <2>1, <3>2 DEF Adds
    <3>. QED BY <3>1, <3>2
  <2>5. Adds(g, q, m + 1)
    BY <2>3, <2>4 DEF Adds
  <2>. QED BY <2>5
<1>3. Nat \subseteq T
  <2>. HIDE DEF T
  <2>. QED BY <1>1, <1>2, AllNumbers
<1>. QED BY <1>0, <1>3

\* Total is the last partial sum.
LEMMA TotalAdds ==
    ASSUME NEW q \in Seq(Nat)
    PROVE  \E f : Adds(f, q, Len(q)) /\ Total(q) = f[Len(q)]
<1>. DEFINE F(g) == [i \in 0 .. Len(q) |-> IF i = 0 THEN 0 ELSE g[i - 1] + q[i]]
<1>0. Len(q) \in Nat /\ \A i \in 1 .. Len(q) : q[i] \in Nat
  OBVIOUS
<1>1. PICK f : Adds(f, q, Len(q))
  BY PartialSums
<1>2. f = F(f)
  BY <1>0, <1>1 DEF Adds
<1>3. PICK c : c = (CHOOSE g : g = F(g))
  OBVIOUS
<1>4. c = F(c)
  <2>1. \E g : g = F(g)
    BY <1>2
  <2>. QED BY <2>1, <1>3
<1>. DEFINE T == {i \in Nat : i <= Len(q) => c[i] = f[i]}
<1>5. 0 \in T
  BY <1>0, <1>4, <1>1 DEF Adds
<1>6. ASSUME NEW i \in Nat, i \in T PROVE i + 1 \in T
  <2>. SUFFICES ASSUME i + 1 <= Len(q) PROVE c[i + 1] = f[i + 1]
    OBVIOUS
  <2>1. c[i] = f[i]
    BY <1>0, <1>6
  <2>2. i + 1 \in 0 .. Len(q) /\ i + 1 # 0 /\ (i + 1) - 1 = i /\ i + 1 \in 1 .. Len(q)
    BY <1>0
  <2>3. c[i + 1] = c[i] + q[i + 1]
    BY <1>4, <2>2
  <2>4. f[i + 1] = f[i] + q[i + 1]
    BY <1>1, <2>2 DEF Adds
  <2>. QED BY <2>1, <2>3, <2>4
<1>7. Nat \subseteq T
  <2>. HIDE DEF T
  <2>. QED BY <1>5, <1>6, AllNumbers
<1>8. c[Len(q)] = f[Len(q)]
  BY <1>0, <1>7
<1>9. Total(q) = c[Len(q)]
  BY <1>3, Zenon DEF Total
<1>. QED BY <1>1, <1>8, <1>9

LEMMA TotalNat ==
    ASSUME NEW q \in Seq(Nat)
    PROVE  Total(q) \in Nat
<1>1. PICK f : Adds(f, q, Len(q)) /\ Total(q) = f[Len(q)]
  BY TotalAdds
<1>. QED BY <1>1 DEF Adds

LEMMA TotalConcat ==
    ASSUME NEW p \in Seq(Nat), NEW q \in Seq(Nat)
    PROVE  Total(p \o q) = Total(p) + Total(q)
<1>1. PICK t : t = p \o q
  OBVIOUS
<1>2. PICK a, b \in Nat : a = Len(p) /\ b = Len(q)
  OBVIOUS
<1>3. /\ t \in Seq(Nat) /\ Len(t) = a + b
      /\ \A i \in 1 .. a : t[i] = p[i]
      /\ \A i \in 1 .. b : t[a + i] = q[i]
  BY <1>1, <1>2
<1>4. PICK f : Adds(f, p, a) /\ Total(p) = f[a]
  BY <1>2, TotalAdds
<1>5. PICK g : Adds(g, q, b) /\ Total(q) = g[b]
  BY <1>2, TotalAdds
<1>6. PICK h : Adds(h, t, a + b) /\ Total(t) = h[a + b]
  BY <1>3, TotalAdds
<1>. DEFINE T == {i \in Nat : i <= a => h[i] = f[i]}
            U == {i \in Nat : i <= b => h[a + i] = f[a] + g[i]}
<1>7. 0 \in T
  BY <1>4, <1>6 DEF Adds
<1>8. ASSUME NEW i \in Nat, i \in T PROVE i + 1 \in T
  <2>. SUFFICES ASSUME i + 1 <= a PROVE h[i + 1] = f[i + 1]
    OBVIOUS
  <2>1. i + 1 \in 1 .. a /\ i + 1 \in 1 .. a + b /\ (i + 1) - 1 = i /\ h[i] = f[i]
    BY <1>8
  <2>2. h[i + 1] = h[i] + t[i + 1] /\ f[i + 1] = f[i] + p[i + 1]
    BY <1>4, <1>6, <2>1 DEF Adds
  <2>. QED BY <1>3, <2>1, <2>2
<1>9. Nat \subseteq T
  <2>. HIDE DEF T
  <2>. QED BY <1>7, <1>8, AllNumbers
<1>10. h[a] = f[a] /\ f[a] \in Nat
  BY <1>9, <1>4 DEF Adds
<1>11. 0 \in U
  BY <1>5, <1>10 DEF Adds
<1>12. ASSUME NEW i \in Nat, i \in U PROVE i + 1 \in U
  <2>. SUFFICES ASSUME i + 1 <= b PROVE h[a + (i + 1)] = f[a] + g[i + 1]
    OBVIOUS
  <2>1. /\ i + 1 \in 1 .. b /\ a + (i + 1) \in 1 .. a + b /\ (i + 1) - 1 = i
        /\ (a + (i + 1)) - 1 = a + i /\ h[a + i] = f[a] + g[i]
    BY <1>12
  <2>2. h[a + (i + 1)] = h[a + i] + t[a + (i + 1)]
    BY <1>6, <2>1 DEF Adds
  <2>3. g[i + 1] = g[i] + q[i + 1] /\ g[i] \in Nat
    BY <1>5, <2>1 DEF Adds
  <2>4. t[a + (i + 1)] = q[i + 1] /\ q[i + 1] \in Nat
    BY <1>2, <1>3, <2>1
  <2>. QED BY <1>10, <2>1, <2>2, <2>3, <2>4
<1>13. Nat \subseteq U
  <2>. HIDE DEF U
  <2>. QED BY <1>11, <1>12, AllNumbers
<1>14. h[a + b] = f[a] + g[b]
  BY <1>13
<1>. QED BY <1>1, <1>4, <1>5, <1>6, <1>14

LEMMA TotalEmpty == Total(<<>>) = 0
<1>1. <<>> \in Seq(Nat) /\ Len(<<>>) = 0
  OBVIOUS
<1>2. PICK f : Adds(f, <<>>, 0) /\ Total(<<>>) = f[0]
  BY <1>1, TotalAdds
<1>. QED BY <1>2 DEF Adds

LEMMA TotalOne ==
    ASSUME NEW m \in Nat
    PROVE  Total(<<m>>) = m
<1>1. <<m>> \in Seq(Nat) /\ Len(<<m>>) = 1 /\ <<m>>[1] = m
  OBVIOUS
<1>2. PICK f : Adds(f, <<m>>, 1) /\ Total(<<m>>) = f[1]
  BY <1>1, TotalAdds
<1>3. f[0] = 0 /\ f[1] = f[1 - 1] + <<m>>[1]
  BY <1>2 DEF Adds
<1>. QED BY <1>1, <1>2, <1>3

-----------------------------------------------------------------------------
(* Bytes of events *)

Sizes(q) == [i \in DOMAIN q |-> q[i].size]

LEMMA SizesSeq ==
    ASSUME NEW q \in Seq(Events)
    PROVE  Sizes(q) \in Seq(Nat) /\ Len(Sizes(q)) = Len(q)
<1>1. Len(q) \in Nat /\ DOMAIN q = 1 .. Len(q) /\ \A i \in 1 .. Len(q) : q[i] \in Events
  OBVIOUS
<1>2. \A e \in Events : e.size \in Nat
  BY DEF Events
<1>3. \A i \in 1 .. Len(q) : q[i].size \in Nat
  BY <1>1, <1>2
<1>. QED BY <1>1, <1>3 DEF Sizes

LEMMA BytesNat ==
    ASSUME NEW q \in Seq(Events)
    PROVE  Bytes(q) \in Nat
<1>1. Bytes(q) = Total(Sizes(q))
  BY DEF Bytes, Sizes
<1>. QED BY <1>1, SizesSeq, TotalNat

LEMMA BytesEmpty == Bytes(<<>>) = 0
<1>1. <<>> \in Seq(Events) /\ Len(<<>>) = 0
  OBVIOUS
<1>2. Sizes(<<>>) \in Seq(Nat) /\ Len(Sizes(<<>>)) = 0
  BY <1>1, SizesSeq
<1>3. Sizes(<<>>) = <<>>
  BY <1>2
<1>. QED BY <1>3, TotalEmpty DEF Bytes, Sizes

LEMMA BytesOne ==
    ASSUME NEW e \in Events
    PROVE  Bytes(<<e>>) = e.size
<1>1. e.size \in Nat
  BY DEF Events
<1>2. [i \in DOMAIN <<e>> |-> <<e>>[i].size] = <<e.size>>
  OBVIOUS
<1>. QED BY <1>1, <1>2, TotalOne DEF Bytes

LEMMA BytesConcat ==
    ASSUME NEW p \in Seq(Events), NEW q \in Seq(Events)
    PROVE  Bytes(p \o q) = Bytes(p) + Bytes(q)
<1>1. PICK t : t = p \o q
  OBVIOUS
<1>a. /\ t \in Seq(Events) /\ Len(t) = Len(p) + Len(q)
      /\ \A i \in 1 .. Len(p) : t[i] = p[i]
      /\ \A i \in 1 .. Len(q) : t[Len(p) + i] = q[i]
  BY <1>1
<1>2. /\ Sizes(p) \in Seq(Nat) /\ Len(Sizes(p)) = Len(p)
      /\ Sizes(q) \in Seq(Nat) /\ Len(Sizes(q)) = Len(q)
      /\ Sizes(t) \in Seq(Nat) /\ Len(Sizes(t)) = Len(t)
  BY <1>a, SizesSeq
<1>b. /\ \A i \in 1 .. Len(p) : Sizes(p)[i] = p[i].size
      /\ \A i \in 1 .. Len(q) : Sizes(q)[i] = q[i].size
      /\ \A i \in 1 .. Len(t) : Sizes(t)[i] = t[i].size
  BY <1>a DEF Sizes
<1>3. Sizes(t) = Sizes(p) \o Sizes(q)
  <2>1. PICK u : u = Sizes(p) \o Sizes(q)
    OBVIOUS
  <2>2. /\ u \in Seq(Nat) /\ Len(u) = Len(p) + Len(q)
        /\ \A i \in 1 .. Len(p) : u[i] = Sizes(p)[i]
        /\ \A i \in 1 .. Len(q) : u[Len(p) + i] = Sizes(q)[i]
    <3>1. PICK v, w : v = Sizes(p) /\ w = Sizes(q)
      OBVIOUS
    <3>2. v \in Seq(Nat) /\ w \in Seq(Nat) /\ Len(v) = Len(p) /\ Len(w) = Len(q) /\ u = v \o w
      BY <1>2, <2>1, <3>1
    <3>a. v \in Seq(Nat)
      BY <3>2
    <3>b. w \in Seq(Nat)
      BY <3>2
    <3>c. u = v \o w
      BY <3>2
    <3>3. /\ u \in Seq(Nat) /\ Len(u) = Len(v) + Len(w)
          /\ \A i \in 1 .. Len(v) : u[i] = v[i]
          /\ \A i \in 1 .. Len(w) : u[Len(v) + i] = w[i]
      BY <3>a, <3>b, <3>c, ConcatParts, SMT
    <3>. QED BY <3>1, <3>2, <3>3, Zenon
  <2>3. ASSUME NEW i \in 1 .. Len(t) PROVE Sizes(t)[i] = u[i]
    <3>1. CASE i <= Len(p)
      <4>1. i \in 1 .. Len(p)
        BY <1>a, <3>1
      <4>. QED BY <1>a, <1>b, <2>2, <4>1, ZenonT(30)
    <3>2. CASE i > Len(p)
      <4>1. PICK j : j = i - Len(p)
        OBVIOUS
      <4>2. j \in 1 .. Len(q) /\ i = Len(p) + j
        BY <1>a, <3>2, <4>1
      <4>. QED BY <1>a, <1>b, <2>2, <4>2, SMTT(30)
    <3>. QED BY <1>a, <3>1, <3>2
  <2>. QED BY <1>a, <1>2, <2>1, <2>2, <2>3, SeqEqual
<1>4. Total(Sizes(t)) = Total(Sizes(p)) + Total(Sizes(q))
  BY <1>2, <1>3, TotalConcat
<1>. QED BY <1>1, <1>4 DEF Bytes, Sizes

LEMMA BytesSplit ==
    ASSUME NEW q \in Seq(Events), NEW i \in 0 .. Len(q)
    PROVE  /\ SubSeq(q, 1, i) \in Seq(Events) /\ SubSeq(q, i + 1, Len(q)) \in Seq(Events)
           /\ Bytes(q) = Bytes(SubSeq(q, 1, i)) + Bytes(SubSeq(q, i + 1, Len(q)))
<1>1. PICK a, b : a = SubSeq(q, 1, i) /\ b = SubSeq(q, i + 1, Len(q))
  OBVIOUS
<1>2. /\ a \in Seq(Events) /\ Len(a) = i /\ \A j \in 1 .. i : a[j] = q[j]
      /\ b \in Seq(Events) /\ Len(b) = Len(q) - i /\ \A j \in 1 .. Len(q) - i : b[j] = q[i + j]
  BY <1>1
<1>3. PICK t : t = a \o b
  OBVIOUS
<1>4. /\ t \in Seq(Events) /\ Len(t) = i + (Len(q) - i)
      /\ \A j \in 1 .. i : t[j] = a[j]
      /\ \A j \in 1 .. Len(q) - i : t[i + j] = b[j]
  BY <1>2, <1>3, ConcatParts
<1>5. t = q
  <2>1. Len(t) = Len(q)
    BY <1>4
  <2>2. ASSUME NEW j \in 1 .. Len(t) PROVE t[j] = q[j]
    <3>1. CASE j <= i
      BY <1>2, <1>4, <3>1
    <3>2. CASE j > i
      <4>1. PICK m : m = j - i
        OBVIOUS
      <4>2. m \in 1 .. Len(q) - i /\ j = i + m
        BY <2>1, <3>2, <4>1
      <4>. QED BY <1>2, <1>4, <4>2
    <3>. QED BY <3>1, <3>2
  <2>. QED BY <1>4, <2>1, <2>2, SeqEqual
<1>6. Bytes(t) = Bytes(a) + Bytes(b)
  BY <1>2, <1>3, BytesConcat
<1>. QED BY <1>1, <1>2, <1>5, <1>6

LEMMA BytesTail ==
    ASSUME NEW q \in Seq(Events), q # <<>>
    PROVE  /\ Head(q) \in Events /\ Tail(q) \in Seq(Events)
           /\ Bytes(q) = Head(q).size + Bytes(Tail(q))
<1>1. Head(q) \in Events /\ Tail(q) \in Seq(Events) /\ 1 \in 0 .. Len(q)
  OBVIOUS
<1>2. PICK h, u, t : h = <<Head(q)>> /\ u = Tail(q) /\ t = h \o u
  OBVIOUS
<1>3. /\ h \in Seq(Events) /\ Len(h) = 1 /\ h[1] = q[1]
      /\ u \in Seq(Events) /\ Len(u) = Len(q) - 1 /\ \A i \in 1 .. Len(q) - 1 : u[i] = q[i + 1]
  BY <1>1, <1>2
<1>4. /\ t \in Seq(Events) /\ Len(t) = 1 + (Len(q) - 1)
      /\ \A i \in 1 .. 1 : t[i] = h[i]
      /\ \A i \in 1 .. Len(q) - 1 : t[1 + i] = u[i]
  BY <1>2, <1>3, ConcatParts, SMT
<1>5. t = q
  <2>1. Len(q) \in Nat /\ Len(t) = Len(q)
    BY <1>4
  <2>2. ASSUME NEW i \in 1 .. Len(t) PROVE t[i] = q[i]
    <3>1. CASE i = 1
      BY <1>3, <1>4, <3>1
    <3>2. CASE i # 1
      <4>1. PICK m : m = i - 1
        OBVIOUS
      <4>2. m \in 1 .. Len(q) - 1 /\ i = 1 + m /\ i = m + 1
        BY <2>1, <3>2, <4>1
      <4>. QED BY <1>3, <1>4, <4>2
    <3>. QED BY <3>1, <3>2
  <2>. QED BY <1>4, <2>1, <2>2, SeqEqual
<1>6. Bytes(t) = Bytes(h) + Bytes(u)
  BY <1>2, <1>3, BytesConcat
<1>. QED BY <1>1, <1>2, <1>5, <1>6, BytesOne

\* A suffix has no more bytes.
LEMMA BytesSuffix ==
    ASSUME NEW q \in Seq(Events), NEW i \in Nat
    PROVE  /\ SubSeq(q, i + 1, Len(q)) \in Seq(Events)
           /\ Bytes(SubSeq(q, i + 1, Len(q))) <= Bytes(q)
<1>1. CASE i <= Len(q)
  <2>1. i \in 0 .. Len(q)
    BY <1>1
  <2>2. /\ SubSeq(q, 1, i) \in Seq(Events) /\ SubSeq(q, i + 1, Len(q)) \in Seq(Events)
        /\ Bytes(q) = Bytes(SubSeq(q, 1, i)) + Bytes(SubSeq(q, i + 1, Len(q)))
    BY <2>1, BytesSplit
  <2>3. Bytes(SubSeq(q, 1, i)) \in Nat /\ Bytes(SubSeq(q, i + 1, Len(q))) \in Nat
    BY <2>2, BytesNat
  <2>. QED BY <2>2, <2>3
<1>2. CASE i > Len(q)
  <2>1. SubSeq(q, i + 1, Len(q)) = <<>> /\ Len(q) \in Nat
    BY <1>2, SubSeqEmpty
  <2>2. Bytes(q) \in Nat /\ <<>> \in Seq(Events)
    BY BytesNat
  <2>3. Bytes(<<>>) <= Bytes(q)
    BY <2>2, BytesEmpty
  <2>. QED BY <2>1, <2>2, <2>3
<1>. QED BY <1>1, <1>2

LEMMA TornEvent ==
    ASSUME NEW b \in Nat
    PROVE  Torn(b) \in Events /\ Torn(b).size = b
BY DEF Torn, Events

\* When the bytes end with an event FirstBytes are the events up to there.
LEMMA FirstBytesEnd ==
    ASSUME NEW q \in Seq(Events), NEW i \in 1 .. Len(q), NEW b, Bytes(SubSeq(q, 1, i)) = b
    PROVE  \E m \in 1 .. i : FirstBytes(q, b) = SubSeq(q, 1, m) /\ Bytes(SubSeq(q, 1, m)) = b
<1>. DEFINE S == {j \in DOMAIN q : Bytes(SubSeq(q, 1, j)) = b}
<1>1. S \subseteq Nat /\ i \in S
  OBVIOUS
<1>2. PICK m : m = Min(S)
  OBVIOUS
<1>3. m \in S /\ m <= i
  BY <1>1, <1>2, MinIsFirst
<1>4. m \in 1 .. i /\ Bytes(SubSeq(q, 1, m)) = b
  BY <1>3
<1>5. FirstBytes(q, b) = SubSeq(q, 1, m)
  <2>1. \E j \in DOMAIN q : Bytes(SubSeq(q, 1, j)) = b
    BY <1>1
  <2>. QED BY <1>2, <2>1 DEF FirstBytes
<1>. QED BY <1>4, <1>5

\* FirstBytes has the number of bytes asked for.
LEMMA FirstBytesSize ==
    ASSUME NEW q \in Seq(Events), NEW b \in Nat
    PROVE  FirstBytes(q, b) \in Seq(Events) /\ Bytes(FirstBytes(q, b)) = b
<1>1. CASE \E j \in DOMAIN q : Bytes(SubSeq(q, 1, j)) = b
  <2>1. PICK j \in 1 .. Len(q) : Bytes(SubSeq(q, 1, j)) = b
    BY <1>1
  <2>2. PICK m \in 1 .. j : FirstBytes(q, b) = SubSeq(q, 1, m) /\ Bytes(SubSeq(q, 1, m)) = b
    BY <2>1, FirstBytesEnd
  <2>3. SubSeq(q, 1, m) \in Seq(Events)
    BY <2>2
  <2>. QED BY <2>2, <2>3
<1>2. CASE ~\E j \in DOMAIN q : Bytes(SubSeq(q, 1, j)) = b
  <2>1. FirstBytes(q, b) = <<Torn(b)>>
    BY <1>2 DEF FirstBytes
  <2>. QED BY <2>1, TornEvent, BytesOne
<1>. QED BY <1>1, <1>2

\* An event aligned to four bytes fits in a rest that is aligned.
LEMMA AlignedFits ==
    ASSUME NEW a \in Nat, NEW b \in Nat, b % 4 = 0, a < b
    PROVE  Aligned(a) \in Nat /\ b - Aligned(a) \in Nat /\ (b - Aligned(a)) % 4 = 0
<1>1. Aligned(a) \in Nat /\ Aligned(a) % 4 = 0 /\ Aligned(a) < a + 4 /\ Aligned(a) >= a
  BY DEF Aligned
<1>. QED BY <1>1

AlignedSizes(q) == [i \in DOMAIN q |-> Aligned(q[i].size)]

LEMMA AlignedEmpty == Total(AlignedSizes(<<>>)) = 0
<1>1. AlignedSizes(<<>>) = <<>>
  BY DEF AlignedSizes
<1>. QED BY <1>1, TotalEmpty

LEMMA AlignedAppend ==
    ASSUME NEW q \in Seq(Events), NEW e \in Events
    PROVE  /\ Total(AlignedSizes(q)) \in Nat
           /\ Total(AlignedSizes(Append(q, e))) = Total(AlignedSizes(q)) + Aligned(e.size)
<1>1. \A d \in Events : Aligned(d.size) \in Nat
  <2>1. \A d \in Events : d.size \in Nat
    BY DEF Events
  <2>. QED BY <2>1 DEF Aligned
<1>2. PICK a : a = Append(q, e)
  OBVIOUS
<1>3. /\ Len(q) \in Nat /\ DOMAIN q = 1 .. Len(q) /\ \A i \in 1 .. Len(q) : q[i] \in Events
      /\ Len(a) = Len(q) + 1 /\ DOMAIN a = 1 .. Len(q) + 1 /\ a[Len(q) + 1] = e
      /\ \A i \in 1 .. Len(q) : a[i] = q[i]
  BY <1>2
<1>4. PICK u, v, m : u = AlignedSizes(q) /\ v = AlignedSizes(a) /\ m = Aligned(e.size)
  OBVIOUS
<1>5. u \in Seq(Nat) /\ Len(u) = Len(q) /\ m \in Nat
  BY <1>1, <1>3, <1>4 DEF AlignedSizes
<1>6. v = u \o <<m>>
  <2>1. v \in Seq(Nat) /\ Len(v) = Len(q) + 1
    BY <1>1, <1>3, <1>4 DEF AlignedSizes
  <2>2. v[Len(q) + 1] = m /\ \A i \in 1 .. Len(q) : v[i] = u[i]
    BY <1>3, <1>4 DEF AlignedSizes
  <2>3. PICK w : w = u \o <<m>>
    OBVIOUS
  <2>4. w \in Seq(Nat) /\ Len(w) = Len(q) + 1 /\ w[Len(q) + 1] = m /\ \A i \in 1 .. Len(q) : w[i] = u[i]
    BY <1>3, <1>5, <2>3
  <2>5. \A i \in 1 .. Len(v) : v[i] = w[i]
    BY <1>3, <2>1, <2>2, <2>4, SMTT(30)
  <2>. QED BY <2>1, <2>3, <2>4, <2>5, SeqEqual
<1>7. <<m>> \in Seq(Nat) /\ Total(<<m>>) = m
  BY <1>5, TotalOne
<1>8. Total(v) = Total(u) + Total(<<m>>)
  BY <1>5, <1>6, <1>7, TotalConcat
<1>. QED BY <1>2, <1>4, <1>5, <1>7, <1>8, TotalNat

LEMMA ControlNext ==
    ASSUME Types, Control, [Next]_vars
    PROVE  Control'
<1>. USE DEF inputs, cycles, outputs, reader, sync, history
<1>1. CASE UNCHANGED vars
  BY <1>1 DEF vars, Control, LispModes, BusyModes
<1>2. CASE FillPad
  BY <1>2 DEF FillPad, Control, LispModes, BusyModes
<1>3. CASE PutEvent
  BY <1>3 DEF PutEvent, Control, LispModes, BusyModes
<1>4. CASE EventsDone
  BY <1>4 DEF EventsDone, Control, LispModes, BusyModes
<1>5. CASE Signal
  BY <1>5 DEF Signal, Control, LispModes, BusyModes
<1>6. ASSUME NEW lens \in CycleLens[use], LiveCycle(lens)
      PROVE  Control'
  BY <1>6 DEF LiveCycle, Arrive, Control, LispModes, BusyModes
<1>7. CASE ContinueLastCycle
  BY <1>7 DEF ContinueLastCycle, Control, LispModes, BusyModes
<1>8. ASSUME NEW reserved \in BOOLEAN, WriteCachedOutputs(reserved)
      PROVE  Control'
  BY <1>8 DEF WriteCachedOutputs, Control, LispModes, BusyModes
<1>9. ASSUME NEW collect \in BOOLEAN, NEW byLisp \in BOOLEAN, CycleEnd(collect, byLisp)
      PROVE  Control'
  BY <1>9 DEF CycleEnd, Control, LispModes, BusyModes
<1>10. ASSUME NEW collect \in BOOLEAN, LastCycleEnd(collect)
      PROVE  Control'
  BY <1>10 DEF LastCycleEnd, ClearCachedEvents, Recounted, Control, LispModes, BusyModes
<1>11. CASE Resume
  BY <1>11 DEF Resume, ClearCachedEvents, Recounted, Control, LispModes, BusyModes
<1>12. CASE GcEnd
  BY <1>12 DEF GcEnd, Control, LispModes, BusyModes
<1>13. CASE RecoveryDone
  BY <1>13 DEF RecoveryDone, Control, LispModes, BusyModes
<1>14. CASE SetBusyState
  BY <1>14 DEF SetBusyState, Control, LispModes, BusyModes
<1>15. CASE Peek
  BY <1>15 DEF Peek, Control, LispModes, BusyModes
<1>16. CASE TakeCached
  BY <1>16 DEF TakeCached, Control, LispModes, BusyModes
<1>17. CASE PutCached
  BY <1>17 DEF PutCached, Control, LispModes, BusyModes
<1>18. CASE RecoverCycleEnd
  BY <1>18 DEF RecoverCycleEnd, Control, LispModes, BusyModes
<1>19. ASSUME NEW lens \in CycleLens[use], CycleWait(lens)
      PROVE  Control'
  BY <1>19 DEF CycleWait, Arrive, Control, LispModes, BusyModes
<1>20. CASE CycleDone
  BY <1>20 DEF CycleDone, Control, LispModes, BusyModes
<1>21. CASE ResumeLisp
  BY <1>21 DEF ResumeLisp, Control, LispModes, BusyModes
<1>22. CASE FlushPending
  BY <1>22 DEF FlushPending, Control, LispModes, BusyModes
<1>23. CASE RecvLoop
  BY <1>23 DEF RecvLoop, Control, LispModes, BusyModes
<1>24. CASE ReadEvent
  BY <1>24 DEF ReadEvent, Control, LispModes, BusyModes
<1>25. CASE SkipEvent
  BY <1>25 DEF SkipEvent, Control, LispModes, BusyModes
<1>26. CASE ReadDone
  BY <1>26 DEF ReadDone, Control, LispModes, BusyModes
<1>27. CASE Deliver
  BY <1>27 DEF Deliver, Control, LispModes, BusyModes
<1>28. CASE TestRemain
  BY <1>28 DEF TestRemain, Control, LispModes, BusyModes
<1>29. CASE WaitLock
  BY <1>29 DEF WaitLock, Control, LispModes, BusyModes
<1>30. CASE WaitUnlock
  BY <1>30 DEF WaitUnlock, Control, LispModes, BusyModes
<1>31. CASE ForceLock
  BY <1>31 DEF ForceLock, Control, LispModes, BusyModes
<1>32. CASE ForceCondSignal
  BY <1>32 DEF ForceCondSignal, Control, LispModes, BusyModes
<1>33. CASE ForceClear
  BY <1>33 DEF ForceClear, Control, LispModes, BusyModes
<1>34. CASE RecvJoin
  BY <1>34 DEF RecvJoin, Control, LispModes, BusyModes
<1>35. CASE RecvStart
  BY <1>35 DEF RecvStart, Control, LispModes, BusyModes
<1>36. CASE RecvStop
  BY <1>36 DEF RecvStop, Control, LispModes, BusyModes
<1>37. ASSUME NEW reserved \in BOOLEAN, JmWrite(reserved)
      PROVE  Control'
  BY <1>37 DEF JmWrite, Control, LispModes, BusyModes
<1>. QED BY <1>1, <1>2, <1>3, <1>4, <1>5, <1>6, <1>7, <1>8, <1>9, <1>10, <1>11, <1>12, 
         <1>13, <1>14, <1>15, <1>16, <1>17, <1>18, <1>19, <1>20, <1>21, <1>22, <1>23, 
         <1>24, <1>25, <1>26, <1>27, <1>28, <1>29, <1>30, <1>31, <1>32, <1>33, <1>34, 
         <1>35, <1>36, <1>37
     DEF Next, ProcessStep, LispStep, CStep, RecvStep, StopStep

LEMMA CountedNext ==
    ASSUME Types, Control, Counted, [Next]_vars
    PROVE  Counted'
<1>. USE DEF inputs, cycles, outputs, reader, sync, history
<1>a. Earlier \in Nat /\ {RestartLimit, MaxSuspended} \subseteq Nat \ {0}
  BY MidiAssumption, SMTT(30) DEF Types, Earlier
<1>b. restarts' = restarts => Earlier' = Earlier
  BY DEF Earlier
<1>1. CASE UNCHANGED vars
  BY <1>1, <1>b DEF vars, Counted, InCycle, Types, Control, LispModes, BusyModes
<1>2. CASE FillPad
  BY <1>2, <1>a, <1>b DEF FillPad, Counted, InCycle, Types, Control, LispModes, BusyModes
<1>3. CASE PutEvent
  BY <1>3, <1>a, <1>b DEF PutEvent, Counted, InCycle, Types, Control, LispModes, BusyModes
<1>4. CASE EventsDone
  BY <1>4, <1>a, <1>b DEF EventsDone, Counted, InCycle, Types, Control, LispModes, BusyModes
<1>5. CASE Signal
  BY <1>5, <1>a, <1>b DEF Signal, Counted, InCycle, Types, Control, LispModes, BusyModes
<1>6. ASSUME NEW lens \in CycleLens[use], LiveCycle(lens)
      PROVE  Counted'
  BY <1>6, <1>a, <1>b DEF LiveCycle, Arrive, Counted, InCycle, Types, Control, LispModes,
     BusyModes
<1>7. CASE ContinueLastCycle
  BY <1>7, <1>a, <1>b DEF ContinueLastCycle, Counted, InCycle, Types, Control, LispModes,
     BusyModes
<1>8. ASSUME NEW reserved \in BOOLEAN, WriteCachedOutputs(reserved)
      PROVE  Counted'
  BY <1>8, <1>a, <1>b DEF WriteCachedOutputs, Counted, InCycle, Types, Control,
     LispModes, BusyModes
<1>9. ASSUME NEW collect \in BOOLEAN, NEW byLisp \in BOOLEAN, CycleEnd(collect, byLisp)
      PROVE  Counted'
  <2>1. CASE byLisp
    <3>1. /\ mode = "run" /\ collect /\ mode' = "gc" /\ k' = "wait" /\ suspended' = 1
          /\ UNCHANGED <<restarts, now, start, offset>>
      BY <1>9, <2>1 DEF CycleEnd
    <3>2. early'
      BY <1>9, <2>1 DEF CycleEnd
    <3>. QED BY <3>1, <3>2, <1>a, <1>b DEF Counted, InCycle, Types, Control, LispModes,
       BusyModes
  <2>2. CASE ~byLisp
    BY <1>9, <2>2, <1>a, <1>b DEF CycleEnd, Counted, InCycle, Types, Control, LispModes,
       BusyModes
  <2>. QED BY <2>1, <2>2
<1>10. ASSUME NEW collect \in BOOLEAN, LastCycleEnd(collect)
      PROVE  Counted'
  BY <1>10, <1>a, <1>b DEF LastCycleEnd, ClearCachedEvents, Recounted, Counted, InCycle,
     Types, Control, LispModes, BusyModes
<1>11. CASE Resume
  <2>1. (restarts + 1) * MaxSuspended = restarts * MaxSuspended + MaxSuspended
    BY <1>a DEF Types
  <2>2. CASE suspended = 0
    BY <1>11, <2>2, <1>a, <1>b DEF Resume, Recounted, Counted, InCycle, Types, Control,
       LispModes, BusyModes
  <2>3. CASE suspended > 0 /\ restarts < RestartLimit
    <3>1. restarts' = restarts + 1
      BY <1>11, <2>3, <1>a DEF Resume, Types
    <3>2. Earlier' = Earlier + MaxSuspended
      BY <2>1, <3>1 DEF Earlier
    <3>. QED BY <1>11, <2>3, <3>1, <3>2, <1>a, SMTT(30) DEF Resume, Counted, InCycle, Types,
       Control, LispModes, BusyModes
  <2>4. CASE suspended > 0 /\ ~(restarts < RestartLimit)
    BY <1>11, <2>4, <1>a, <1>b DEF Resume, Counted, InCycle, Types, Control, LispModes,
       BusyModes
  <2>. QED BY <2>2, <2>3, <2>4 DEF Types
<1>12. CASE GcEnd
  BY <1>12, <1>a, <1>b DEF GcEnd, Counted, InCycle, Types, Control, LispModes, BusyModes
<1>13. CASE RecoveryDone
  BY <1>13, <1>a, <1>b DEF RecoveryDone, Counted, InCycle, Types, Control, LispModes, BusyModes
<1>14. CASE SetBusyState
  BY <1>14, <1>a, <1>b DEF SetBusyState, Counted, InCycle, Types, Control, LispModes, BusyModes
<1>15. CASE Peek
  BY <1>15, <1>a, <1>b DEF Peek, Counted, InCycle, Types, Control, LispModes, BusyModes
<1>16. CASE TakeCached
  BY <1>16, <1>a, <1>b DEF TakeCached, Counted, InCycle, Types, Control, LispModes, BusyModes
<1>17. CASE PutCached
  BY <1>17, <1>a, <1>b DEF PutCached, Counted, InCycle, Types, Control, LispModes, BusyModes
<1>18. CASE RecoverCycleEnd
  BY <1>18, <1>a, <1>b DEF RecoverCycleEnd, Counted, InCycle, Types, Control, LispModes,
     BusyModes
<1>19. ASSUME NEW lens \in CycleLens[use], CycleWait(lens)
      PROVE  Counted'
  <2>1. /\ k = "wait" /\ k' = "process" /\ offset < MaxSuspended /\ offset' = offset + 1
        /\ UNCHANGED <<mode, suspended, restarts, now, start, early>>
    BY <1>19, SMTT(30) DEF CycleWait
  <2>2. /\ mode \in BusyModes /\ MaxSuspended \in Nat /\ Earlier \in Nat /\ Earlier' = Earlier
        /\ offset \in Nat /\ suspended \in Nat /\ now \in Nat
    BY <2>1, <1>a, <1>b, SMTT(30) DEF Types, Control
  <2>. QED BY <2>1, <2>2, SMTT(30) DEF Counted, InCycle, BusyModes
<1>20. CASE CycleDone
  <2>1. CASE mode = "idle" /\ suspended = 0
    BY <1>20, <2>1, <1>a, <1>b DEF CycleDone, Counted, InCycle, Types, Control,
       LispModes, BusyModes
  <2>2. CASE ~(mode = "idle" /\ suspended = 0)
    <3>1. /\ k = "process" /\ k' = "wait" /\ suspended' = suspended + 1 /\ mode' = mode
          /\ UNCHANGED <<restarts, now, start, offset, early>>
      BY <1>20, <2>2 DEF CycleDone
    <3>2. mode \notin {"last", "lastcycle", "lastrun", "live", "cycle", "run"}
      BY <3>1 DEF Control, BusyModes
    <3>3. InCycle /\ ~InCycle'
      BY <3>1, <3>2 DEF InCycle
    <3>. QED BY <3>1, <3>2, <3>3, <1>a, <1>b DEF Counted, Types
  <2>. QED BY <2>1, <2>2
<1>21. CASE ResumeLisp
  BY <1>21, <1>a, <1>b DEF ResumeLisp, Counted, InCycle, Types, Control, LispModes, BusyModes
<1>22. CASE FlushPending
  BY <1>22, <1>a, <1>b DEF FlushPending, Counted, InCycle, Types, Control, LispModes, BusyModes
<1>23. CASE RecvLoop
  BY <1>23, <1>a, <1>b DEF RecvLoop, Counted, InCycle, Types, Control, LispModes, BusyModes
<1>24. CASE ReadEvent
  BY <1>24, <1>a, <1>b DEF ReadEvent, Counted, InCycle, Types, Control, LispModes, BusyModes
<1>25. CASE SkipEvent
  BY <1>25, <1>a, <1>b DEF SkipEvent, Counted, InCycle, Types, Control, LispModes, BusyModes
<1>26. CASE ReadDone
  BY <1>26, <1>a, <1>b DEF ReadDone, Counted, InCycle, Types, Control, LispModes, BusyModes
<1>27. CASE Deliver
  BY <1>27, <1>a, <1>b DEF Deliver, Counted, InCycle, Types, Control, LispModes, BusyModes
<1>28. CASE TestRemain
  BY <1>28, <1>a, <1>b DEF TestRemain, Counted, InCycle, Types, Control, LispModes, BusyModes
<1>29. CASE WaitLock
  BY <1>29, <1>a, <1>b DEF WaitLock, Counted, InCycle, Types, Control, LispModes, BusyModes
<1>30. CASE WaitUnlock
  BY <1>30, <1>a, <1>b DEF WaitUnlock, Counted, InCycle, Types, Control, LispModes, BusyModes
<1>31. CASE ForceLock
  BY <1>31, <1>a, <1>b DEF ForceLock, Counted, InCycle, Types, Control, LispModes, BusyModes
<1>32. CASE ForceCondSignal
  BY <1>32, <1>a, <1>b DEF ForceCondSignal, Counted, InCycle, Types, Control, LispModes,
     BusyModes
<1>33. CASE ForceClear
  BY <1>33, <1>a, <1>b DEF ForceClear, Counted, InCycle, Types, Control, LispModes, BusyModes
<1>34. CASE RecvJoin
  BY <1>34, <1>a, <1>b DEF RecvJoin, Counted, InCycle, Types, Control, LispModes, BusyModes
<1>35. CASE RecvStart
  BY <1>35, <1>a, <1>b DEF RecvStart, Counted, InCycle, Types, Control, LispModes, BusyModes
<1>36. CASE RecvStop
  BY <1>36, <1>a, <1>b DEF RecvStop, Counted, InCycle, Types, Control, LispModes, BusyModes
<1>37. ASSUME NEW reserved \in BOOLEAN, JmWrite(reserved)
      PROVE  Counted'
  BY <1>37, <1>a, <1>b DEF JmWrite, Counted, InCycle, Types, Control, LispModes, BusyModes
<1>. QED BY <1>1, <1>2, <1>3, <1>4, <1>5, <1>6, <1>7, <1>8, <1>9, <1>10, <1>11, <1>12, 
         <1>13, <1>14, <1>15, <1>16, <1>17, <1>18, <1>19, <1>20, <1>21, <1>22, <1>23, 
         <1>24, <1>25, <1>26, <1>27, <1>28, <1>29, <1>30, <1>31, <1>32, <1>33, <1>34, 
         <1>35, <1>36, <1>37
     DEF Next, ProcessStep, LispStep, CStep, RecvStep, StopStep

-----------------------------------------------------------------------------
(* What the steps put in the rings and the buffers *)

LEMMA OverlayEvents ==
    ASSUME NEW q \in Seq(Events), NEW e \in Events
    PROVE  Overlay(q, e) \in Seq(Events)
<1>1. <<e>> \in Seq(Events) /\ e.size \in Nat /\ Bytes(q) \in Nat
  BY BytesNat DEF Events
<1>2. CASE q # <<>> /\ Head(q).size = e.size
  <2>1. Overlay(q, e) = <<e>> \o Tail(q) /\ Tail(q) \in Seq(Events)
    BY <1>2 DEF Overlay
  <2>. QED BY <1>1, <2>1
<1>3. CASE ~(q # <<>> /\ Head(q).size = e.size) /\ Bytes(q) > e.size
  <2>1. PICK b \in Nat : b = Bytes(q) - e.size
    BY <1>1, <1>3
  <2>2. Overlay(q, e) = <<e, Torn(b)>>
    BY <1>3, <2>1 DEF Overlay
  <2>3. Torn(b) \in Events
    BY TornEvent
  <2>. QED BY <2>2, <2>3
<1>4. CASE ~(q # <<>> /\ Head(q).size = e.size) /\ ~(Bytes(q) > e.size)
  BY <1>1, <1>4 DEF Overlay
<1>. QED BY <1>2, <1>3, <1>4

\* In an empty pad buffer there is then just the event.
LEMMA OverlayEmpty ==
    ASSUME NEW e \in Events
    PROVE  Overlay(<<>>, e) = <<e>>
<1>1. e.size \in Nat /\ Bytes(<<>>) = 0
  BY BytesEmpty DEF Events
<1>. QED BY <1>1 DEF Overlay

\* The events that jm_cached_midi_inputs_read_space counts are the first ones
\* of the pad buffer, with stamps that are not later than the cycle.
LEMMA ReadSpaceIs ==
    ASSUME pad \in Seq(Events), size \in Nat, now \in Nat
    PROVE  \E m \in 0 .. Len(pad) :
               /\ ReadSpace = Bytes(SubSeq(pad, 1, m))
               /\ \A i \in 1 .. m : pad[i].time <= now
<1>. DEFINE Stop(i) == \/ i = Len(pad) \/ 2 * Sum(i) >= size
                       \/ pad[i + 1].time - now >= 1
                       \/ pad[i + 1].len >= size - Sum(i) \/ size <= Sum(i + 1)
            stops == {i \in 0 .. Len(pad) : Stop(i)}
<1>1. Len(pad) \in stops /\ stops \subseteq Nat
  OBVIOUS
<1>2. PICK m : m = Min(stops)
  OBVIOUS
<1>3. m \in stops /\ \A y \in stops : m <= y
  BY <1>1, <1>2, MinIsFirst
<1>4. ReadSpace = Bytes(SubSeq(pad, 1, m))
  BY <1>2 DEF ReadSpace, Sum
<1>5. m \in 0 .. Len(pad) /\ Len(pad) \in Nat
  BY <1>3
<1>6. ASSUME NEW i \in 1 .. m PROVE pad[i].time <= now
  <2>1. i - 1 \in 0 .. Len(pad) /\ i - 1 \notin stops /\ (i - 1) + 1 = i
    BY <1>3, <1>5
  <2>2. ~(pad[(i - 1) + 1].time - now >= 1)
    BY <2>1
  <2>3. pad[i] \in Events
    BY <1>5
  <2>4. pad[i].time \in Nat
    BY <2>3 DEF Events
  <2>. QED BY <2>1, <2>2, <2>4
<1>. QED BY <1>4, <1>5, <1>6

LEMMA ReadSpaceNat ==
    ASSUME pad \in Seq(Events), size \in Nat, now \in Nat
    PROVE  ReadSpace \in Nat
<1>1. PICK m \in 0 .. Len(pad) : ReadSpace = Bytes(SubSeq(pad, 1, m))
  BY ReadSpaceIs
<1>2. SubSeq(pad, 1, m) \in Seq(Events)
  OBVIOUS
<1>. QED BY <1>1, <1>2, BytesNat

\* The events of a new cycle.
LEMMA Arrived ==
    ASSUME use \in Uses, nextEvent \in 1 .. MaxEvents + 1, NEW lens \in CycleLens[use],
           NEW time \in Nat, Arrive(lens, time)
    PROVE  /\ Len(lens) \in Nat
           /\ port' \in Seq(Events) /\ Len(port') = Len(lens) /\ Real(port)'
           /\ \A i \in 1 .. Len(lens) : port'[i].id = nextEvent + i - 1 /\ port'[i].time = time
           /\ nextEvent' = nextEvent + Len(lens) /\ nextEvent' \in 1 .. MaxEvents + 1
           /\ proc' = "write"
<1>1. lens \in Seq(Nat \ {0})
  BY MidiAssumption DEF Uses
<1>2. Len(lens) \in Nat /\ \A i \in 1 .. Len(lens) : lens[i] \in Nat \ {0}
  BY <1>1
<1>3. /\ port' = [i \in 1 .. Len(lens) |-> Event(nextEvent + i - 1, lens[i], time)]
      /\ nextEvent' = nextEvent + Len(lens) /\ nextEvent + Len(lens) <= MaxEvents + 1
      /\ proc' = "write"
  BY DEF Arrive
<1>4. \A i \in 1 .. Len(lens) : Event(nextEvent + i - 1, lens[i], time) \in Events
  BY <1>2 DEF Event, Events, Header
<1>5. port' \in Seq(Events) /\ Len(port') = Len(lens)
  <2>1. PICK p, l : p = port' /\ l = Len(lens)
    OBVIOUS
  <2>2. l \in Nat /\ DOMAIN p = 1 .. l /\ p = [i \in 1 .. l |-> p[i]]
    BY <1>2, <1>3, <2>1
  <2>3. \A i \in 1 .. l : p[i] \in Events
    BY <1>3, <1>4, <2>1
  <2>4. p \in Seq(Events) /\ Len(p) = l
    BY <2>2, <2>3
  <2>. QED BY <2>1, <2>4
<1>6. \A i \in 1 .. Len(lens) :
          port'[i].id = nextEvent + i - 1 /\ port'[i].time = time /\ port'[i].len = lens[i]
  BY <1>2, <1>3 DEF Event
<1>7. Real(port)'
  BY <1>2, <1>5, <1>6 DEF Real
<1>8. nextEvent' \in 1 .. MaxEvents + 1
  BY <1>2, <1>3, MidiAssumption
<1>. QED BY <1>2, <1>3, <1>5, <1>6, <1>7, <1>8

LEMMA LastDelivered ==
    ASSUME NEW q \in Seq(Events), NEW g \in Nat
    PROVE  Last(<<g>> \o Ids(q)) = IF q = <<>> THEN g ELSE q[Len(q)].id
<1>1. PICK u : u = Ids(q)
  OBVIOUS
<1>2. \A e \in Events : e.id \in Nat
  BY DEF Events
<1>3. /\ Len(q) \in Nat /\ u \in Seq(Nat) /\ Len(u) = Len(q)
      /\ \A i \in 1 .. Len(q) : u[i] = q[i].id
  BY <1>1, <1>2 DEF Ids
<1>4. PICK v : v = <<g>>
  OBVIOUS
<1>5. v \in Seq(Nat) /\ Len(v) = 1 /\ v[1] = g
  BY <1>4
<1>6. PICK t : t = v \o u
  OBVIOUS
<1>7. /\ t \in Seq(Nat) /\ Len(t) = Len(v) + Len(u)
      /\ \A i \in 1 .. Len(v) : t[i] = v[i]
      /\ \A i \in 1 .. Len(u) : t[Len(v) + i] = u[i]
  <2>1. u \in Seq(Nat)
    BY <1>3
  <2>2. v \in Seq(Nat)
    BY <1>5
  <2>. QED BY <1>6, <2>1, <2>2, ConcatParts, SMTT(30)
<1>8. Last(t) = t[Len(t)]
  BY DEF Last
<1>9. CASE q = <<>>
  BY <1>1, <1>3, <1>4, <1>5, <1>6, <1>7, <1>8, <1>9
<1>10. CASE q # <<>>
  <2>1. Len(q) \in 1 .. Len(u) /\ Len(t) = 1 + Len(q)
    BY <1>3, <1>5, <1>7, <1>10
  <2>2. t[1 + Len(q)] = u[Len(q)] /\ u[Len(q)] = q[Len(q)].id
    BY <1>3, <1>5, <1>7, <2>1
  <2>. QED BY <1>1, <1>4, <1>6, <1>8, <1>10, <2>1, <2>2
<1>. QED BY <1>9, <1>10

LEMMA TypesNext ==
    ASSUME Types, Control, Counted, ReaderFits, [Next]_vars
    PROVE  Types'
<1>. USE DEF inputs, cycles, outputs, reader, sync, history
<1>1. CASE UNCHANGED vars
  BY <1>1 DEF vars, Types
<1>2. CASE FillPad
  <2>1. CASE HasSpace(Ring, Head(port))
    <3>1. Head(port) \in Events /\ pad \in Seq(Events)
      BY <1>2 DEF FillPad, Types
    <3>2. Overlay(pad, Head(port)) \in Seq(Events)
      BY <3>1, OverlayEvents
    <3>. QED BY <1>2, <2>1, <3>2 DEF FillPad, Types
  <2>2. CASE ~HasSpace(Ring, Head(port))
    <3>1. Tail(port) \in Seq(Events)
      BY <1>2 DEF FillPad, Types
    <3>. QED BY <1>2, <2>2, <3>1 DEF FillPad, Types
  <2>. QED BY <2>1, <2>2
<1>3. CASE PutEvent
  <2>1. PICK w : w = FirstBytes(pad, Head(port).size)
    OBVIOUS
  <2>2. port # <<>>
    BY <1>3 DEF PutEvent, Control
  <2>3. Head(port) \in Events /\ Tail(port) \in Seq(Events)
    BY <2>2 DEF Types
  <2>4. Head(port).size \in Nat
    BY <2>3 DEF Events
  <2>5. w \in Seq(Events)
    BY <2>1, <2>4, FirstBytesSize DEF Types
  <2>6. cache \o w \in Seq(Events) /\ rb \o w \in Seq(Events) /\ <<>> \in Seq(Events)
    BY <2>5 DEF Types
  <2>. QED BY <1>3, <2>1, <2>3, <2>6 DEF PutEvent, Types
<1>4. CASE EventsDone
  BY <1>4 DEF EventsDone, Types
<1>5. CASE Signal
  BY <1>5 DEF Signal, Types
<1>6. ASSUME NEW lens \in CycleLens[use], LiveCycle(lens)
      PROVE  Types'
  <2>1. Arrive(lens, 0)
    BY <1>6 DEF LiveCycle
  <2>2. port' \in Seq(Events) /\ nextEvent' \in 1 .. MaxEvents + 1
    BY <2>1, Arrived DEF Types
  <2>. QED BY <1>6, <2>2 DEF LiveCycle, Types
<1>7. CASE ContinueLastCycle
  BY <1>7 DEF ContinueLastCycle, Types
<1>8. ASSUME NEW reserved \in BOOLEAN, WriteCachedOutputs(reserved)
      PROVE  Types'
  BY <1>8 DEF WriteCachedOutputs, Types
<1>9. ASSUME NEW collect \in BOOLEAN, NEW byLisp \in BOOLEAN, CycleEnd(collect, byLisp)
      PROVE  Types'
  BY <1>9 DEF CycleEnd, Types
<1>10. ASSUME NEW collect \in BOOLEAN, LastCycleEnd(collect)
      PROVE  Types'
  BY <1>10 DEF LastCycleEnd, ClearCachedEvents, Recounted, Types
<1>11. CASE Resume
  <2>1. /\ cache' \in Seq(Events) /\ open' \in Seq(Events)
        /\ suspended' \in Nat /\ restarts' \in Nat /\ now' \in Nat /\ start' \in Nat
        /\ offset' \in Nat
    <3>1. CASE suspended = 0
      BY <1>11, <3>1 DEF Resume, ClearCachedEvents, Recounted, Types
    <3>2. CASE suspended > 0 /\ restarts < RestartLimit
      BY <1>11, <3>2, SMTT(30) DEF Resume, ClearCachedEvents, Recounted, Types
    <3>3. CASE suspended > 0 /\ restarts >= RestartLimit
      BY <1>11, <3>3, SMTT(30) DEF Resume, ClearCachedEvents, Recounted, Types
    <3>. QED BY <1>11, <3>1, <3>2, <3>3 DEF Resume
  <2>. QED BY <1>11, <2>1 DEF Resume, Types
<1>12. CASE GcEnd
  BY <1>12 DEF GcEnd, Types
<1>13. CASE RecoveryDone
  BY <1>13 DEF RecoveryDone, Types
<1>14. CASE SetBusyState
  BY <1>14 DEF SetBusyState, Types
<1>15. CASE Peek
  <2>1. Bytes(cache) \in Nat
    BY BytesNat DEF Types
  <2>. QED BY <1>15, <2>1 DEF Peek, Types
<1>16. CASE TakeCached
  <2>1. ReadSpace \in Nat
    BY ReadSpaceNat DEF Types
  <2>2. PICK w : w = FirstBytes(cache, ReadSpace)
    OBVIOUS
  <2>3. w \in Seq(Events)
    BY <2>1, <2>2, FirstBytesSize DEF Types
  <2>4. SubSeq(cache, Len(w) + 1, Len(cache)) \in Seq(Events)
    BY <2>3, BytesSuffix DEF Types
  <2>5. CASE ReadSpace > 0 /\ ReadSpace <= RingBytes - Bytes(rb)
    <3>1. size' = ReadSpace /\ pad' = w /\ cache' = SubSeq(cache, Len(w) + 1, Len(cache))
      BY <1>16, <2>2, <2>5 DEF TakeCached
    <3>. QED BY <1>16, <2>1, <2>3, <2>4, <3>1 DEF TakeCached, Types
  <2>6. CASE ~(ReadSpace > 0 /\ ReadSpace <= RingBytes - Bytes(rb))
    <3>0. size' = 0 /\ pad' = (IF proc = "put" THEN pad ELSE <<>>) /\ cache' = cache
      BY <1>16, <2>6, Zenon DEF TakeCached
    <3>1. size' = 0 /\ pad' \in Seq(Events) /\ cache' = cache
      BY <3>0 DEF Types
    <3>. QED BY <1>16, <3>1 DEF TakeCached, Types
  <2>. QED BY <2>5, <2>6
<1>17. CASE PutCached
  <2>1. PICK w : w = FirstBytes(pad, size)
    OBVIOUS
  <2>2. w \in Seq(Events)
    BY <2>1, FirstBytesSize DEF Types
  <2>3. rb \o w \in Seq(Events) /\ <<>> \in Seq(Events)
    BY <2>2 DEF Types
  <2>. QED BY <1>17, <2>1, <2>3 DEF PutCached, Types
<1>18. CASE RecoverCycleEnd
  <2>1. suspended - 1 \in Nat /\ now + 1 \in Nat
    BY <1>18 DEF RecoverCycleEnd, Counted, Types
  <2>. QED BY <1>18, <2>1 DEF RecoverCycleEnd, Types
<1>19. ASSUME NEW lens \in CycleLens[use], CycleWait(lens)
      PROVE  Types'
  <2>1. start + offset \in Nat /\ Arrive(lens, start + offset)
    BY <1>19 DEF CycleWait, Types
  <2>2. port' \in Seq(Events) /\ nextEvent' \in 1 .. MaxEvents + 1
    BY <2>1, Arrived DEF Types
  <2>. QED BY <1>19, <2>2 DEF CycleWait, Types
<1>20. CASE CycleDone
  BY <1>20 DEF CycleDone, Types
<1>21. CASE ResumeLisp
  BY <1>21 DEF ResumeLisp, Types
<1>22. CASE FlushPending
  BY <1>22 DEF FlushPending, Types
<1>23. CASE RecvLoop
  <2>1. Bytes(rb) \in Nat /\ BufSize \in Int
    BY BytesNat, MidiAssumption DEF Types
  <2>2. batch' \in Seq(Events) /\ n' \in Nat /\ space' \in Int
    <3>1. CASE status
      BY <1>23, <2>1, <3>1 DEF RecvLoop
    <3>2. CASE ~status
      BY <1>23, <3>2 DEF RecvLoop, Types
    <3>. QED BY <3>1, <3>2
  <2>. QED BY <1>23, <2>2 DEF RecvLoop, Types
<1>24. CASE ReadEvent
  <2>1. rb # <<>>
    BY <1>24 DEF ReadEvent, Reading, ReaderFits
  <2>2. Head(rb) \in Events /\ Tail(rb) \in Seq(Events)
    BY <2>1 DEF Types
  <2>3. Head(rb).size \in Nat /\ Bytes(Tail(rb)) \in Nat
    BY <2>2, BytesNat DEF Events
  <2>4. Append(batch, Head(rb)) \in Seq(Events) /\ space - Aligned(Head(rb).size) \in Int
    BY <2>2, <2>3 DEF Types, Aligned
  <2>. QED BY <1>24, <2>2, <2>3, <2>4 DEF ReadEvent, Types
<1>25. CASE SkipEvent
  <2>1. rb # <<>>
    BY <1>25 DEF SkipEvent, Reading, ReaderFits
  <2>2. Tail(rb) \in Seq(Events)
    BY <2>1 DEF Types
  <2>3. Bytes(Tail(rb)) \in Nat
    BY <2>2, BytesNat
  <2>. QED BY <1>25, <2>2, <2>3 DEF SkipEvent, Types
<1>26. CASE ReadDone
  BY <1>26 DEF ReadDone, Types
<1>27. CASE Deliver
  <2>1. got' = IF batch = <<>> THEN got ELSE batch[Len(batch)].id
    BY <1>27, LastDelivered DEF Deliver, Types
  <2>2. \A e \in Events : e.id \in Nat
    BY DEF Events
  <2>3. batch # <<>> => batch[Len(batch)] \in Events
    BY DEF Types
  <2>4. got' \in Nat
    BY <2>1, <2>2, <2>3 DEF Types
  <2>. QED BY <1>27, <2>4 DEF Deliver, Types
<1>28. CASE TestRemain
  BY <1>28 DEF TestRemain, Types
<1>29. CASE WaitLock
  BY <1>29 DEF WaitLock, Types
<1>30. CASE WaitUnlock
  BY <1>30 DEF WaitUnlock, Types
<1>31. CASE ForceLock
  BY <1>31 DEF ForceLock, Types
<1>32. CASE ForceCondSignal
  BY <1>32 DEF ForceCondSignal, Types
<1>33. CASE ForceClear
  BY <1>33 DEF ForceClear, Types
<1>34. CASE RecvJoin
  BY <1>34 DEF RecvJoin, Types
<1>35. CASE RecvStart
  BY <1>35 DEF RecvStart, Types
<1>36. CASE RecvStop
  BY <1>36 DEF RecvStop, Types
<1>37. ASSUME NEW reserved \in BOOLEAN, JmWrite(reserved)
      PROVE  Types'
  BY <1>37 DEF JmWrite, Types
<1>. QED BY <1>1, <1>2, <1>3, <1>4, <1>5, <1>6, <1>7, <1>8, <1>9, <1>10, <1>11, <1>12, 
         <1>13, <1>14, <1>15, <1>16, <1>17, <1>18, <1>19, <1>20, <1>21, <1>22, <1>23, 
         <1>24, <1>25, <1>26, <1>27, <1>28, <1>29, <1>30, <1>31, <1>32, <1>33, <1>34, 
         <1>35, <1>36, <1>37
     DEF Next, ProcessStep, LispStep, CStep, RecvStep, StopStep

-----------------------------------------------------------------------------
(* The output *)

\* A step that only moves Lisp.
LEMMA OutputsSame ==
    ASSUME Outputs, UNCHANGED <<sent, ocache, nextMessage>>,
           mode = "lastrun" => mode' = "lastrun",
           mode' \in {"live", "cycle", "run", "gc"} => mode \in {"live", "cycle", "run", "gc"}
    PROVE  Outputs'
BY DEF Outputs, Sorted, Written, Precede

\* What follows a sequence in order, after its end, is in order.
LEMMA SortedConcat ==
    ASSUME NEW p \in Seq(Pairs), NEW q \in Seq(Pairs), NEW t, t = p \o q,
           Sorted(p), Sorted(q), Precede(p, q)
    PROVE  Sorted(t)
<1>1. PICK a, b : a = Len(p) /\ b = Len(q)
  OBVIOUS
<1>2. a \in Nat /\ b \in Nat
  BY <1>1
<1>3. /\ Len(t) = Len(p) + Len(q)
      /\ \A i \in 1 .. Len(p) : t[i] = p[i]
      /\ \A i \in 1 .. Len(q) : t[Len(p) + i] = q[i]
  BY ConcatParts, SMT
<1>4. /\ Len(t) = a + b
      /\ \A i \in 1 .. a : t[i] = p[i]
      /\ \A i \in 1 .. b : t[a + i] = q[i]
  BY <1>1, <1>3
<1>5. /\ \A i, j \in 1 .. a : i < j => Before(p[i], p[j])
      /\ \A i, j \in 1 .. b : i < j => Before(q[i], q[j])
      /\ \A i \in 1 .. a : \A j \in 1 .. b : Before(p[i], q[j])
  BY <1>1 DEF Sorted, Precede
<1>6. ASSUME NEW i \in 1 .. a + b, NEW j \in 1 .. a + b, i < j
      PROVE  Before(t[i], t[j])
  <2>1. CASE j <= a
    <3>1. i \in 1 .. a /\ j \in 1 .. a
      BY <1>2, <1>6, <2>1
    <3>. QED BY <1>4, <1>5, <1>6, <3>1
  <2>2. CASE i <= a /\ j > a
    <3>1. PICK m : m = j - a
      OBVIOUS
    <3>2. i \in 1 .. a /\ m \in 1 .. b /\ j = a + m
      BY <1>2, <2>2, <3>1
    <3>. QED BY <1>4, <1>5, <3>2
  <2>3. CASE i > a
    <3>1. PICK l, m : l = i - a /\ m = j - a
      OBVIOUS
    <3>2. l \in 1 .. b /\ i = a + l /\ m \in 1 .. b /\ j = a + m /\ l < m
      BY <1>2, <1>6, <2>3, <3>1
    <3>. QED BY <1>4, <1>5, <3>2
  <2>4. j <= a \/ (i <= a /\ j > a) \/ i > a
    BY <1>2
  <2>. QED BY <2>1, <2>2, <2>3, <2>4
<1>. QED BY <1>4, <1>6 DEF Sorted

LEMMA WrittenConcat ==
    ASSUME NEW p \in Seq(Pairs), NEW q \in Seq(Pairs), NEW t, t = p \o q,
           NEW m, Written(p, m), Written(q, m)
    PROVE  Written(t, m)
<1>1. PICK a, b : a = Len(p) /\ b = Len(q)
  OBVIOUS
<1>2. a \in Nat /\ b \in Nat
  BY <1>1
<1>3. /\ Len(t) = Len(p) + Len(q)
      /\ \A i \in 1 .. Len(p) : t[i] = p[i]
      /\ \A i \in 1 .. Len(q) : t[Len(p) + i] = q[i]
  BY ConcatParts, SMT
<1>4. /\ Len(t) = a + b
      /\ \A i \in 1 .. a : t[i] = p[i]
      /\ \A i \in 1 .. b : t[a + i] = q[i]
  BY <1>1, <1>3
<1>5. /\ \A i \in 1 .. a : p[i][1] < m
      /\ \A i \in 1 .. b : q[i][1] < m
  BY <1>1 DEF Written
<1>6. ASSUME NEW i \in 1 .. a + b PROVE t[i][1] < m
  <2>1. CASE i <= a
    <3>1. i \in 1 .. a
      BY <1>2, <2>1
    <3>. QED BY <1>4, <1>5, <3>1
  <2>2. CASE i > a
    <3>1. PICK l : l = i - a
      OBVIOUS
    <3>2. l \in 1 .. b /\ i = a + l
      BY <1>2, <2>2, <3>1
    <3>. QED BY <1>4, <1>5, <3>2
  <2>3. i <= a \/ i > a
    BY <1>2
  <2>. QED BY <2>1, <2>2, <2>3
<1>. QED BY <1>4, <1>6 DEF Written

LEMMA WrittenLater ==
    ASSUME NEW q \in Seq(Pairs), NEW m \in Nat, Written(q, m)
    PROVE  Written(q, m + 1)
<1>1. \A d \in Pairs : d[1] \in Nat
  BY DEF Pairs
<1>2. \A i \in 1 .. Len(q) : q[i] \in Pairs
  OBVIOUS
<1>3. \A i \in 1 .. Len(q) : q[i][1] \in Nat /\ q[i][1] < m
  BY <1>1, <1>2 DEF Written
<1>. QED BY <1>3 DEF Written

\* The bytes of the next message.
Message(m) == <<<<m, 1>>, <<m, 2>>>>

LEMMA MessageIs ==
    ASSUME NEW m \in Nat
    PROVE  /\ Message(m) \in Seq(Pairs) /\ Len(Message(m)) = 2
           /\ Sorted(Message(m)) /\ Written(Message(m), m + 1)
           /\ \A q \in Seq(Pairs) : Written(q, m) => Precede(q, Message(m))
<1>1. PICK a, b, msg : a = <<m, 1>> /\ b = <<m, 2>> /\ msg = Message(m)
  OBVIOUS
<1>2. a \in Pairs /\ b \in Pairs /\ a[1] = m /\ a[2] = 1 /\ b[1] = m /\ b[2] = 2
  BY <1>1 DEF Pairs
<1>3. msg = <<a, b>>
  BY <1>1 DEF Message
<1>4. msg \in Seq(Pairs) /\ Len(msg) = 2 /\ msg[1] = a /\ msg[2] = b
  BY <1>2, <1>3
<1>5. Before(a, b)
  BY <1>2 DEF Before
<1>6. Sorted(msg) /\ Written(msg, m + 1)
  BY <1>2, <1>4, <1>5 DEF Sorted, Written
<1>7. ASSUME NEW q \in Seq(Pairs), Written(q, m) PROVE Precede(q, msg)
  <2>1. \A i \in 1 .. Len(q) : q[i][1] < m
    BY <1>7 DEF Written
  <2>2. \A i \in 1 .. Len(q) : Before(q[i], a) /\ Before(q[i], b)
    BY <1>2, <2>1 DEF Before
  <2>. QED BY <1>4, <2>2 DEF Precede
<1>. QED BY <1>1, <1>4, <1>6, <1>7

\* The first elements of a sequence.
LEMMA Prefixed ==
    ASSUME NEW E, NEW t \in Seq(E), NEW m \in 0 .. Len(t), NEW u, u = SubSeq(t, 1, m)
    PROVE  u \in Seq(E) /\ Len(u) = m /\ \A i \in 1 .. m : u[i] = t[i] /\ i \in 1 .. Len(t)
OBVIOUS

LEMMA PrecedeConcat ==
    ASSUME NEW s0 \in Seq(Pairs), NEW p \in Seq(Pairs), NEW q \in Seq(Pairs), NEW t, t = p \o q,
           Precede(s0, p), Precede(s0, q)
    PROVE  Precede(s0, t)
<1>1. PICK a, b : a = Len(p) /\ b = Len(q)
  OBVIOUS
<1>2. a \in Nat /\ b \in Nat
  BY <1>1
<1>3. /\ t \in Seq(Pairs) /\ Len(t) = Len(p) + Len(q)
      /\ \A i \in 1 .. Len(p) : t[i] = p[i]
      /\ \A i \in 1 .. Len(q) : t[Len(p) + i] = q[i]
  BY ConcatParts, SMT
<1>4. /\ Len(t) = a + b
      /\ \A i \in 1 .. a : t[i] = p[i]
      /\ \A i \in 1 .. b : t[a + i] = q[i]
  BY <1>1, <1>3
<1>5. /\ \A i \in 1 .. Len(s0) : \A j \in 1 .. a : Before(s0[i], p[j])
      /\ \A i \in 1 .. Len(s0) : \A j \in 1 .. b : Before(s0[i], q[j])
  BY <1>1 DEF Precede
<1>6. ASSUME NEW i \in 1 .. Len(s0), NEW j \in 1 .. a + b PROVE Before(s0[i], t[j])
  <2>1. CASE j <= a
    <3>1. j \in 1 .. a
      BY <1>2, <2>1
    <3>. QED BY <1>4, <1>5, <3>1
  <2>2. CASE j > a
    <3>1. PICK l : l = j - a
      OBVIOUS
    <3>2. l \in 1 .. b /\ j = a + l
      BY <1>2, <2>2, <3>1
    <3>. QED BY <1>4, <1>5, <3>2
  <2>3. j <= a \/ j > a
    BY <1>2
  <2>. QED BY <2>1, <2>2, <2>3
<1>. QED BY <1>4, <1>6 DEF Precede

LEMMA EmptyOutput ==
    /\ <<>> \in Seq(Pairs) /\ Len(<<>>) = 0 /\ Sorted(<<>>)
    /\ \A m : Written(<<>>, m)
    /\ \A q : Precede(q, <<>>)
BY DEF Sorted, Written, Precede

LEMMA OutputsNext ==
    ASSUME Outputs, [Next]_vars
    PROVE  Outputs'
<1>. USE DEF inputs, cycles, outputs, reader, sync, history
<1>1. CASE \/ UNCHANGED vars
          \/ FillPad \/ PutEvent \/ EventsDone \/ Signal
          \/ (\E lens \in CycleLens[use] : CycleWait(lens)) \/ FlushPending \/ RecvLoop
          \/ ReadEvent \/ SkipEvent \/ ReadDone \/ Deliver \/ TestRemain \/ WaitLock
          \/ WaitUnlock \/ ForceLock \/ ForceCondSignal \/ ForceClear \/ RecvJoin
          \/ RecvStart \/ RecvStop
  <2>1. UNCHANGED <<mode, sent, ocache, nextMessage>>
    BY <1>1 DEF vars, FillPad, PutEvent, EventsDone, Signal, CycleWait, FlushPending,
       RecvLoop, ReadEvent, SkipEvent, ReadDone, Deliver, TestRemain, WaitLock, WaitUnlock,
       ForceLock, ForceCondSignal, ForceClear, RecvJoin, RecvStart, RecvStop, Arrive
  <2>. QED BY <2>1, OutputsSame
<1>2. ASSUME NEW lens \in CycleLens[use], LiveCycle(lens)
      PROVE  Outputs'
  BY <1>2, OutputsSame DEF LiveCycle, Arrive
<1>3. CASE ContinueLastCycle
  BY <1>3, OutputsSame DEF ContinueLastCycle
<1>4. ASSUME NEW reserved \in BOOLEAN, WriteCachedOutputs(reserved)
      PROVE  Outputs'
  <2>1. /\ mode \in {"cycle", "lastcycle"} /\ mode' \in {"run", "lastrun"}
        /\ mode' = "run" => mode = "cycle"
        /\ nextMessage' = nextMessage
    BY <1>4 DEF WriteCachedOutputs
  <2>2. CASE reserved
    <3>1. sent' = sent \o ocache /\ ocache' = <<>>
      BY <1>4, <2>2 DEF WriteCachedOutputs
    <3>2. PICK p, q, t : p = sent /\ q = ocache /\ t = p \o q
      OBVIOUS
    <3>3. /\ p \in Seq(Pairs) /\ q \in Seq(Pairs) /\ Sorted(p) /\ Sorted(q) /\ Precede(p, q)
          /\ Written(p, nextMessage) /\ Written(q, nextMessage)
      BY <2>1, <3>2 DEF Outputs
    <3>4. t \in Seq(Pairs)
      BY <3>2, <3>3
    <3>5. Sorted(t) /\ Written(t, nextMessage)
      BY <3>2, <3>3, SortedConcat, WrittenConcat
    <3>6. sent' = t /\ OutBytes \in Nat
      BY <3>1, <3>2, MidiAssumption
    <3>. QED BY <2>1, <3>1, <3>4, <3>5, <3>6, EmptyOutput DEF Outputs
  <2>3. CASE ~reserved
    <3>1. sent' = sent /\ ocache' = ocache
      BY <1>4, <2>3 DEF WriteCachedOutputs
    <3>. QED BY <2>1, <3>1 DEF Outputs
  <2>. QED BY <2>2, <2>3
<1>5. ASSUME NEW collect \in BOOLEAN, NEW byLisp \in BOOLEAN, CycleEnd(collect, byLisp)
      PROVE  Outputs'
  BY <1>5, OutputsSame DEF CycleEnd
<1>6. ASSUME NEW collect \in BOOLEAN, LastCycleEnd(collect)
      PROVE  Outputs'
  <2>1. ocache' = <<>> /\ sent' = sent /\ nextMessage' = nextMessage /\ OutBytes \in Nat
    BY <1>6, MidiAssumption DEF LastCycleEnd, ClearCachedEvents
  <2>. QED BY <2>1, EmptyOutput DEF Outputs
<1>7. CASE Resume
  <2>1. CASE suspended = 0
    <3>1. ocache' = <<>> /\ sent' = sent /\ nextMessage' = nextMessage /\ OutBytes \in Nat
      BY <1>7, <2>1, MidiAssumption DEF Resume, ClearCachedEvents
    <3>. QED BY <3>1, EmptyOutput DEF Outputs
  <2>2. CASE suspended # 0
    BY <1>7, <2>2, OutputsSame DEF Resume
  <2>. QED BY <2>1, <2>2
<1>8. CASE GcEnd
  BY <1>8, OutputsSame DEF GcEnd
<1>9. CASE RecoveryDone
  BY <1>9, OutputsSame DEF RecoveryDone
<1>10. CASE SetBusyState
  BY <1>10, OutputsSame DEF SetBusyState
<1>11. CASE Peek
  BY <1>11, OutputsSame DEF Peek
<1>12. CASE TakeCached
  BY <1>12, OutputsSame DEF TakeCached
<1>13. CASE PutCached
  BY <1>13, OutputsSame DEF PutCached
<1>14. CASE RecoverCycleEnd
  BY <1>14, OutputsSame DEF RecoverCycleEnd
<1>15. CASE CycleDone
  BY <1>15, OutputsSame DEF CycleDone
<1>16. CASE ResumeLisp
  BY <1>16, OutputsSame DEF ResumeLisp
<1>17. ASSUME NEW reserved \in BOOLEAN, JmWrite(reserved)
      PROVE  Outputs'
  <2>1. PICK msg, x : msg = Message(nextMessage) /\ x = nextMessage + 1
    OBVIOUS
  <2>2. /\ msg \in Seq(Pairs) /\ Len(msg) = 2 /\ Sorted(msg) /\ Written(msg, x)
        /\ \A q \in Seq(Pairs) : Written(q, nextMessage) => Precede(q, msg)
    BY <2>1, MessageIs DEF Outputs
  <2>3. /\ nextMessage' = x /\ x \in Nat /\ mode' = mode
        /\ mode \in {"run", "lastrun", "recrun"}
    BY <1>17, <2>1 DEF JmWrite, Outputs
  <2>4. Written(sent, x) /\ Written(ocache, x)
    BY <2>1, WrittenLater DEF Outputs
  <2>5. CASE mode = "recrun"
    <3>1. PICK m : m = Min({Len(ocache) + 2, OutBytes})
      OBVIOUS
    <3>2. PICK q, t, u : q = ocache /\ t = q \o msg /\ u = SubSeq(t, 1, m)
      OBVIOUS
    <3>3. sent' = sent /\ ocache' = u
      BY <1>17, <2>1, <2>5, <3>1, <3>2 DEF JmWrite, Message
    <3>4. /\ q \in Seq(Pairs) /\ Len(q) \in Nat /\ Sorted(q) /\ Written(q, x) /\ Precede(q, msg)
          /\ Precede(sent, q) /\ Precede(sent, msg)
      BY <2>2, <2>4, <2>5, <3>2 DEF Outputs
    <3>5. t \in Seq(Pairs) /\ Len(t) = Len(q) + 2
      <4>1. q \in Seq(Pairs) /\ msg \in Seq(Pairs) /\ t = q \o msg
        BY <2>2, <3>2, <3>4
      <4>2. t \in Seq(Pairs) /\ Len(t) = Len(q) + Len(msg)
        BY <4>1, ConcatParts, SMT
      <4>. QED BY <2>2, <4>2
    <3>6. m \in 0 .. Len(t) /\ m <= OutBytes
      <4>1. Len(q) + 2 \in Nat /\ OutBytes \in Nat
        BY <3>4, MidiAssumption
      <4>2. m \in {Len(q) + 2, OutBytes} /\ \A y \in {Len(q) + 2, OutBytes} : m <= y
        BY <3>1, <3>2, <4>1, MinIsFirst
      <4>. QED BY <3>5, <4>1, <4>2
    <3>7. u \in Seq(Pairs) /\ Len(u) = m /\ \A i \in 1 .. m : u[i] = t[i] /\ i \in 1 .. Len(t)
      BY <3>2, <3>5, <3>6, Prefixed, SMT
    <3>8. Sorted(t) /\ Written(t, x)
      BY <2>2, <3>2, <3>4, SortedConcat, WrittenConcat
    <3>9. Sorted(u) /\ Written(u, x)
      BY <3>7, <3>8 DEF Sorted, Written
    <3>10. Precede(sent, u)
      <4>1. sent \in Seq(Pairs)
        BY DEF Outputs
      <4>2. Precede(sent, t)
        BY <2>2, <3>2, <3>4, <4>1, PrecedeConcat
      <4>. QED BY <3>7, <4>2 DEF Precede
    <3>. QED BY <2>3, <2>4, <2>5, <3>3, <3>6, <3>7, <3>9, <3>10 DEF Outputs
  <2>6. CASE mode # "recrun" /\ reserved
    <3>1. PICK q, t : q = sent /\ t = q \o msg
      OBVIOUS
    <3>2. sent' = t /\ ocache' = ocache
      BY <1>17, <2>1, <2>6, <3>1 DEF JmWrite, Message
    <3>3. q \in Seq(Pairs) /\ Sorted(q) /\ Written(q, x) /\ Precede(q, msg)
      BY <2>2, <2>4, <3>1 DEF Outputs
    <3>4. t \in Seq(Pairs)
      BY <2>2, <3>1, <3>3
    <3>5. Sorted(t) /\ Written(t, x)
      BY <2>2, <3>1, <3>3, SortedConcat, WrittenConcat
    <3>6. mode # "lastrun" => ocache = <<>>
      BY <2>3, <2>6 DEF Outputs
    <3>. QED BY <2>3, <2>4, <3>2, <3>4, <3>5, <3>6, EmptyOutput DEF Outputs
  <2>7. CASE mode # "recrun" /\ ~reserved
    <3>1. sent' = sent /\ ocache' = ocache
      BY <1>17, <2>7 DEF JmWrite
    <3>. QED BY <2>3, <2>4, <3>1 DEF Outputs
  <2>. QED BY <2>5, <2>6, <2>7
<1>. QED BY <1>1, <1>2, <1>3, <1>4, <1>5, <1>6, <1>7, <1>8, <1>9, <1>10, <1>11, <1>12, 
         <1>13, <1>14, <1>15, <1>16, <1>17
     DEF Next, ProcessStep, LispStep, CStep, RecvStep, StopStep
-----------------------------------------------------------------------------
(* The rings *)

LEMMA HeadSize ==
    ASSUME NEW q \in Seq(Events), q # <<>>
    PROVE  Head(q) \in Events /\ Head(q).size \in Nat
<1>1. Head(q) \in Events
  OBVIOUS
<1>. QED BY <1>1 DEF Events

\* A step that writes nothing in the rings.
LEMMA RingsSmaller ==
    ASSUME Types, Types', Control, RingsFit,
           Bytes(rb)' <= Bytes(rb), Bytes(cache)' <= Bytes(cache),
           proc' = "put" => proc = "put" /\ UNCHANGED <<port, k>>,
           mode' = "put" => mode = "put" /\ UNCHANGED size
    PROVE  RingsFit'
<1>1. PICK b, c, d, e : b = Bytes(rb) /\ c = Bytes(cache) /\ d = Bytes(rb)' /\ e = Bytes(cache)'
  OBVIOUS
<1>2. /\ b \in Nat /\ c \in Nat /\ d \in Nat /\ e \in Nat /\ d <= b /\ e <= c
      /\ RingBytes \in Nat /\ size \in Nat
  <2>1. rb \in Seq(Events) /\ cache \in Seq(Events) /\ size \in Nat
    BY DEF Types
  <2>2. rb' \in Seq(Events) /\ cache' \in Seq(Events)
    BY DEF Types
  <2>3. b \in Nat /\ c \in Nat
    BY <1>1, <2>1, BytesNat
  <2>4. d \in Nat /\ e \in Nat
    BY <1>1, <2>2, BytesNat
  <2>. QED BY <1>1, <2>1, <2>3, <2>4, MidiAssumption
<1>3. b <= RingBytes /\ c <= RingBytes
  BY <1>1 DEF RingsFit
<1>4. proc' = "put" => Bytes(Ring)' + Head(port)'.size <= RingBytes
  <2>. SUFFICES ASSUME proc' = "put" PROVE Bytes(Ring)' + Head(port)'.size <= RingBytes
    OBVIOUS
  <2>1. PICK x : x = Head(port).size
    OBVIOUS
  <2>2. x \in Nat
    BY <2>1, HeadSize DEF Types, Control
  <2>3. CASE k = "process"
    <3>1. Bytes(Ring) = c /\ Bytes(Ring)' = e
      BY <1>1, <2>3 DEF Ring, Cached
    <3>. QED BY <1>2, <2>1, <2>2, <3>1 DEF RingsFit
  <2>4. CASE k # "process"
    <3>1. Bytes(Ring) = b /\ Bytes(Ring)' = d
      BY <1>1, <2>4 DEF Ring, Cached
    <3>. QED BY <1>2, <2>1, <2>2, <3>1 DEF RingsFit
  <2>. QED BY <2>3, <2>4
<1>5. mode' = "put" => d + size' <= RingBytes
  BY <1>1, <1>2 DEF RingsFit
<1>. QED BY <1>1, <1>2, <1>3, <1>4, <1>5 DEF RingsFit

\* A step that leaves the rings alone.
LEMMA RingsSame ==
    ASSUME Types, Types', Control, RingsFit, rb' = rb, cache' = cache,
           proc' = "put" => proc = "put" /\ UNCHANGED <<port, k>>,
           mode' = "put" => mode = "put" /\ UNCHANGED size
    PROVE  RingsFit'
<1>1. Bytes(rb) \in Nat /\ Bytes(cache) \in Nat
  BY BytesNat DEF Types
<1>2. Bytes(rb)' = Bytes(rb) /\ Bytes(cache)' = Bytes(cache)
  OBVIOUS
<1>. QED BY <1>1, <1>2, RingsSmaller

LEMMA RingsFitNext ==
    ASSUME Types, Types', Control, ReaderFits, RingsFit, [Next]_vars
    PROVE  RingsFit'
<1>. USE DEF inputs, cycles, outputs, reader, sync, history
<1>1. CASE \/ UNCHANGED vars
          \/ EventsDone \/ Signal \/ (\E lens \in CycleLens[use] : LiveCycle(lens))
          \/ ContinueLastCycle
          \/ (\E reserved \in BOOLEAN : WriteCachedOutputs(reserved))
          \/ (\E collect \in BOOLEAN, byLisp \in BOOLEAN : CycleEnd(collect, byLisp))
          \/ GcEnd \/ RecoveryDone \/ SetBusyState \/ Peek \/ RecoverCycleEnd
          \/ (\E lens \in CycleLens[use] : CycleWait(lens)) \/ CycleDone \/ ResumeLisp
          \/ RecvLoop \/ Deliver \/ TestRemain \/ WaitLock \/ WaitUnlock \/ ForceLock
          \/ ForceCondSignal \/ ForceClear \/ RecvJoin \/ RecvStart \/ RecvStop
          \/ (\E reserved \in BOOLEAN : JmWrite(reserved))
  <2>1. /\ rb' = rb /\ cache' = cache
        /\ proc' = "put" => proc = "put" /\ UNCHANGED <<port, k>>
        /\ mode' = "put" => mode = "put" /\ UNCHANGED size
    BY <1>1 DEF vars, EventsDone, Signal, LiveCycle, ContinueLastCycle,
       WriteCachedOutputs, CycleEnd, GcEnd, RecoveryDone, SetBusyState, Peek,
       RecoverCycleEnd, CycleWait, CycleDone, ResumeLisp, RecvLoop, Deliver, TestRemain,
       WaitLock, WaitUnlock, ForceLock, ForceCondSignal, ForceClear, RecvJoin, RecvStart,
       RecvStop, JmWrite, Arrive, Control, LispModes, BusyModes
  <2>. QED BY <2>1, RingsSame
<1>2. CASE FillPad
  <2>1. CASE HasSpace(Ring, Head(port))
    <3>1. PICK b, x : b = Bytes(Ring) /\ x = Head(port).size
      OBVIOUS
    <3>2. b \in Nat /\ x \in Nat /\ RingBytes \in Nat
      <4>1. Head(port) \in Events /\ Ring \in Seq(Events)
        BY <1>2 DEF FillPad, Types, Ring
      <4>. QED BY <3>1, <4>1, BytesNat, MidiAssumption DEF Events
    <3>3. b + x <= RingBytes
      BY <2>1, <3>1, <3>2 DEF HasSpace
    <3>4. /\ UNCHANGED <<rb, cache, port, k, mode, size>>
          /\ Bytes(Ring)' = b /\ Head(port)'.size = x
      BY <1>2, <2>1, <3>1 DEF FillPad, Ring, Cached
    <3>. QED BY <3>3, <3>4 DEF RingsFit
  <2>2. CASE ~HasSpace(Ring, Head(port))
    BY <1>2, <2>2, RingsSame DEF FillPad
  <2>. QED BY <2>1, <2>2
<1>3. CASE PutEvent
  <2>1. PICK w, x : x = Head(port).size /\ w = FirstBytes(pad, x)
    OBVIOUS
  <2>2. x \in Nat /\ pad \in Seq(Events) /\ rb \in Seq(Events) /\ cache \in Seq(Events)
    BY <1>3, <2>1, HeadSize DEF PutEvent, Control, Types
  <2>3. w \in Seq(Events) /\ Bytes(w) = x
    BY <2>1, <2>2, FirstBytesSize
  <2>4. Bytes(rb \o w) = Bytes(rb) + x /\ Bytes(cache \o w) = Bytes(cache) + x
    BY <2>2, <2>3, BytesConcat
  <2>5. proc' = "write" /\ UNCHANGED <<mode, size>>
    BY <1>3 DEF PutEvent
  <2>6. CASE Cached
    <3>1. cache' = cache \o w /\ rb' = rb /\ Bytes(cache) + x <= RingBytes
      BY <1>3, <2>1, <2>6 DEF PutEvent, RingsFit, Ring
    <3>2. Bytes(cache') = Bytes(cache) + x
      BY <2>4, <3>1
    <3>. QED BY <2>5, <3>1, <3>2 DEF RingsFit
  <2>7. CASE ~Cached
    <3>1. rb' = rb \o w /\ cache' = cache /\ Bytes(rb) + x <= RingBytes /\ mode # "put"
      BY <1>3, <2>1, <2>7 DEF PutEvent, RingsFit, Ring, Control, Cached, LispModes
    <3>2. Bytes(rb') = Bytes(rb) + x
      BY <2>4, <3>1
    <3>. QED BY <2>5, <3>1, <3>2 DEF RingsFit
  <2>. QED BY <2>6, <2>7
<1>4. ASSUME NEW collect \in BOOLEAN, LastCycleEnd(collect)
      PROVE  RingsFit'
  <2>1. cache' = <<>> /\ rb' = rb
    BY <1>4 DEF LastCycleEnd, ClearCachedEvents
  <2>2. Bytes(rb) \in Nat /\ Bytes(cache) \in Nat
    BY BytesNat DEF Types
  <2>3. Bytes(rb)' <= Bytes(rb) /\ Bytes(cache)' <= Bytes(cache)
    BY <2>1, <2>2, BytesEmpty
  <2>. QED BY <1>4, <2>3, RingsSmaller DEF LastCycleEnd, Control, BusyModes
<1>5. CASE Resume
  <2>0. proc = "none" /\ proc' = proc
    BY <1>5 DEF Resume, Control, BusyModes
  <2>1. CASE suspended = 0
    <3>1. cache' = <<>> /\ rb' = rb /\ mode' = "live"
      BY <1>5, <2>1 DEF Resume, ClearCachedEvents
    <3>2. Bytes(rb) \in Nat /\ Bytes(cache) \in Nat
      BY BytesNat DEF Types
    <3>3. Bytes(rb)' <= Bytes(rb) /\ Bytes(cache)' <= Bytes(cache)
      BY <3>1, <3>2, BytesEmpty
    <3>. QED BY <2>0, <3>1, <3>3, RingsSmaller
  <2>2. CASE suspended # 0
    <3>1. cache' = cache /\ rb' = rb /\ mode' # "put"
      BY <1>5, <2>2 DEF Resume
    <3>. QED BY <2>0, <3>1, RingsSame
  <2>. QED BY <2>1, <2>2
<1>6. CASE TakeCached
  <2>1. PICK x, w : x = ReadSpace /\ w = FirstBytes(cache, x)
    OBVIOUS
  <2>2. x \in Nat /\ w \in Seq(Events) /\ Len(w) \in Nat
    <3>1. x \in Nat /\ cache \in Seq(Events)
      BY <2>1, ReadSpaceNat DEF Types
    <3>2. w \in Seq(Events)
      BY <2>1, <3>1, FirstBytesSize
    <3>. QED BY <3>1, <3>2
  <2>3. PICK u : u = SubSeq(cache, Len(w) + 1, Len(cache))
    OBVIOUS
  <2>4. u \in Seq(Events) /\ Bytes(u) <= Bytes(cache)
    BY <2>2, <2>3, BytesSuffix DEF Types
  <2>5. Bytes(rb) \in Nat /\ Bytes(cache) \in Nat /\ Bytes(u) \in Nat /\ RingBytes \in Nat
    BY <2>4, BytesNat, MidiAssumption DEF Types
  <2>6. CASE x > 0 /\ x <= RingBytes - Bytes(rb)
    <3>1. /\ size' = x /\ cache' = u /\ rb' = rb /\ mode' = "put"
          /\ UNCHANGED <<proc, port, k>>
      BY <1>6, <2>1, <2>3, <2>6 DEF TakeCached
    <3>2. k # "blocked"
      BY <1>6 DEF TakeCached, Control, LispModes
    <3>3. proc = "put" => Cached
      BY <1>6, <3>2 DEF TakeCached, Control, Cached
    <3>4. proc = "put" => Bytes(cache) + Head(port).size <= RingBytes
      BY <3>3 DEF RingsFit, Ring
    <3>5. proc' = "put" => Bytes(u) + Head(port).size <= RingBytes
      <4>. SUFFICES ASSUME proc' = "put"
                    PROVE  Bytes(u) + Head(port).size <= RingBytes
        OBVIOUS
      <4>1. Head(port).size \in Nat
        BY <3>1, HeadSize DEF Control, Types
      <4>. QED BY <2>4, <2>5, <3>1, <3>4, <4>1
    <3>6. proc' = "put" => Ring' = u
      BY <3>1, <3>3 DEF Ring, Cached
    <3>7. Bytes(rb) + x <= RingBytes
      BY <2>2, <2>5, <2>6
    <3>8. Bytes(u) <= RingBytes
      BY <2>4, <2>5 DEF RingsFit
    <3>9. Bytes(cache)' = Bytes(u) /\ Bytes(rb)' = Bytes(rb)
      BY <3>1
    <3>10. proc' = "put" => Bytes(Ring)' = Bytes(u)
      BY <3>6
    <3>. QED BY <3>1, <3>5, <3>7, <3>8, <3>9, <3>10 DEF RingsFit
  <2>7. CASE ~(x > 0 /\ x <= RingBytes - Bytes(rb))
    <3>1. cache' = cache /\ rb' = rb /\ mode' = "recrun" /\ UNCHANGED <<proc, port, k>>
      BY <1>6, <2>1, <2>7, Zenon DEF TakeCached
    <3>. QED BY <3>1, RingsSame
  <2>. QED BY <2>6, <2>7
<1>7. CASE PutCached
  <2>1. PICK w : w = FirstBytes(pad, size)
    OBVIOUS
  <2>2. w \in Seq(Events) /\ Bytes(w) = size /\ rb \in Seq(Events)
    BY <2>1, FirstBytesSize DEF Types
  <2>3. Bytes(rb \o w) = Bytes(rb) + size
    BY <2>2, BytesConcat
  <2>4. rb' = rb \o w /\ cache' = cache /\ mode' = "recrun" /\ UNCHANGED <<proc, port, k>>
    BY <1>7, <2>1 DEF PutCached
  <2>5. Bytes(rb)' <= RingBytes
    BY <1>7, <2>3, <2>4 DEF PutCached, RingsFit
  <2>6. proc = "put" => Cached
    BY <1>7 DEF PutCached, Control, Cached, LispModes
  <2>7. proc' = "put" => Ring' = cache /\ Ring = cache
    BY <2>4, <2>6 DEF Ring, Cached
  <2>8. proc' = "put" => Bytes(Ring)' + Head(port)'.size <= RingBytes
    BY <2>4, <2>7 DEF RingsFit
  <2>. QED BY <2>4, <2>5, <2>8 DEF RingsFit
<1>8. CASE FlushPending
  <2>1. rb' = <<>> /\ cache' = cache
    BY <1>8 DEF FlushPending
  <2>2. Bytes(rb) \in Nat /\ Bytes(cache) \in Nat
    BY BytesNat DEF Types
  <2>3. Bytes(rb)' <= Bytes(rb) /\ Bytes(cache)' <= Bytes(cache)
    BY <2>1, <2>2, BytesEmpty
  <2>. QED BY <1>8, <2>3, RingsSmaller DEF FlushPending
<1>9. CASE ReadEvent
  <2>1. rb # <<>>
    BY <1>9 DEF ReadEvent, Reading, ReaderFits
  <2>2. /\ Bytes(rb) = Head(rb).size + Bytes(Tail(rb)) /\ Head(rb).size \in Nat
        /\ Bytes(Tail(rb)) \in Nat /\ Bytes(cache) \in Nat
    BY <2>1, BytesTail, BytesNat DEF Types, Events
  <2>3. rb' = Tail(rb) /\ cache' = cache
    BY <1>9 DEF ReadEvent
  <2>4. Bytes(rb)' <= Bytes(rb) /\ Bytes(cache)' <= Bytes(cache)
    BY <2>2, <2>3
  <2>. QED BY <1>9, <2>4, RingsSmaller DEF ReadEvent
<1>10. CASE SkipEvent
  <2>1. rb # <<>>
    BY <1>10 DEF SkipEvent, Reading, ReaderFits
  <2>2. /\ Bytes(rb) = Head(rb).size + Bytes(Tail(rb)) /\ Head(rb).size \in Nat
        /\ Bytes(Tail(rb)) \in Nat /\ Bytes(cache) \in Nat
    BY <2>1, BytesTail, BytesNat DEF Types, Events
  <2>3. rb' = Tail(rb) /\ cache' = cache
    BY <1>10 DEF SkipEvent
  <2>4. Bytes(rb)' <= Bytes(rb) /\ Bytes(cache)' <= Bytes(cache)
    BY <2>2, <2>3
  <2>. QED BY <1>10, <2>4, RingsSmaller DEF SkipEvent
<1>11. CASE ReadDone
  <2>1. CASE Reading /\ Head(rb).len = 0
    <3>1. rb' = <<>> /\ cache' = cache
      BY <1>11, <2>1 DEF ReadDone
    <3>2. Bytes(rb) \in Nat /\ Bytes(cache) \in Nat
      BY BytesNat DEF Types
    <3>3. Bytes(rb)' <= Bytes(rb) /\ Bytes(cache)' <= Bytes(cache)
      BY <3>1, <3>2, BytesEmpty
    <3>. QED BY <1>11, <3>3, RingsSmaller DEF ReadDone
  <2>2. CASE ~(Reading /\ Head(rb).len = 0)
    BY <1>11, <2>2, RingsSame DEF ReadDone
  <2>. QED BY <2>1, <2>2
<1>. QED BY <1>1, <1>2, <1>3, <1>4, <1>5, <1>6, <1>7, <1>8, <1>9, <1>10, <1>11
     DEF Next, ProcessStep, LispStep, CStep, RecvStep, StopStep
-----------------------------------------------------------------------------
(* The buffer of the receiver *)

\* A step of another thread, which at most appends to rb, or one that ends jm_read.
LEMMA ReaderSame ==
    ASSUME ReaderFits,
           r' = "read" => r = "read" /\ UNCHANGED <<space, batch, n>>,
           r' = "deliver" => r = "deliver" /\ UNCHANGED <<remain, batch>>,
           raced => raced', rb # <<>> => rb' # <<>> /\ Head(rb') = Head(rb)
    PROVE  ReaderFits'
<1>1. r' = "read" => /\ space' \in Nat /\ space' % 4 = 0 /\ (n' > 0 => rb' # <<>>)
                     /\ (space + Total([i \in DOMAIN batch |-> Aligned(batch[i].size)])
                         = BufSize)'
  BY DEF ReaderFits
<1>2. r' = "deliver" /\ remain' > 0 /\ batch' = <<>> /\ ~raced'
          => rb' # <<>> /\ Head(rb').size = BufSize
  BY DEF ReaderFits
<1>. QED BY <1>1, <1>2 DEF ReaderFits

LEMMA HeadOfConcat ==
    ASSUME NEW p \in Seq(Events), NEW q \in Seq(Events), p # <<>>
    PROVE  p \o q # <<>> /\ Head(p \o q) = Head(p)
OBVIOUS

LEMMA ReaderFitsNext ==
    ASSUME Types, Control, ReaderFits, ~raced => Genuine, [Next]_vars
    PROVE  ReaderFits'
<1>. USE DEF inputs, cycles, outputs, reader, sync, history
<1>1. CASE \/ UNCHANGED vars
          \/ EventsDone \/ Signal \/ (\E lens \in CycleLens[use] : LiveCycle(lens))
          \/ ContinueLastCycle
          \/ (\E reserved \in BOOLEAN : WriteCachedOutputs(reserved))
          \/ (\E collect \in BOOLEAN, byLisp \in BOOLEAN : CycleEnd(collect, byLisp))
          \/ (\E collect \in BOOLEAN : LastCycleEnd(collect)) \/ Resume \/ GcEnd
          \/ RecoveryDone \/ SetBusyState \/ RecoverCycleEnd
          \/ (\E lens \in CycleLens[use] : CycleWait(lens)) \/ CycleDone \/ ResumeLisp
          \/ TestRemain \/ WaitLock \/ WaitUnlock \/ ForceLock \/ ForceCondSignal
          \/ ForceClear \/ RecvJoin \/ RecvStart \/ RecvStop
          \/ (\E reserved \in BOOLEAN : JmWrite(reserved))
  <2>1. /\ rb' = rb /\ (raced => raced')
        /\ r' = "read" => r = "read" /\ UNCHANGED <<space, batch, n>>
        /\ r' = "deliver" => r = "deliver" /\ UNCHANGED <<remain, batch>>
    BY <1>1 DEF vars, EventsDone, Signal, LiveCycle, ContinueLastCycle,
       WriteCachedOutputs, CycleEnd, LastCycleEnd, Resume, GcEnd, RecoveryDone, SetBusyState,
       RecoverCycleEnd, CycleWait, CycleDone, ResumeLisp, TestRemain, WaitLock, WaitUnlock,
       ForceLock, ForceCondSignal, ForceClear, RecvJoin, RecvStart, RecvStop, JmWrite,
       Arrive, ClearCachedEvents, Recounted
  <2>. QED BY <2>1, ReaderSame
<1>2. CASE FillPad
  <2>1. raced => raced'
    BY <1>2, Zenon DEF FillPad
  <2>. QED BY <1>2, <2>1, ReaderSame DEF FillPad
<1>3. CASE PutEvent
  <2>1. PICK w : w = FirstBytes(pad, Head(port).size)
    OBVIOUS
  <2>2. w \in Seq(Events) /\ rb \in Seq(Events)
    <3>1. Head(port).size \in Nat /\ pad \in Seq(Events)
      BY <1>3, HeadSize DEF PutEvent, Control, Types
    <3>. QED BY <2>1, <3>1, FirstBytesSize DEF Types
  <2>3. rb' = rb \/ rb' = rb \o w
    BY <1>3, <2>1 DEF PutEvent
  <2>4. rb # <<>> => rb' # <<>> /\ Head(rb') = Head(rb)
    BY <2>2, <2>3, HeadOfConcat
  <2>. QED BY <1>3, <2>4, ReaderSame DEF PutEvent
<1>4. CASE Peek
  <2>1. raced => raced'
    BY <1>4, Zenon DEF Peek
  <2>. QED BY <1>4, <2>1, ReaderSame DEF Peek
<1>5. CASE TakeCached
  <2>1. raced => raced'
    BY <1>5, Zenon DEF TakeCached
  <2>. QED BY <1>5, <2>1, ReaderSame DEF TakeCached
<1>6. CASE PutCached
  <2>1. PICK w : w = FirstBytes(pad, size)
    OBVIOUS
  <2>2. w \in Seq(Events) /\ rb \in Seq(Events)
    BY <2>1, FirstBytesSize DEF Types
  <2>3. rb' = rb \o w
    BY <1>6, <2>1 DEF PutCached
  <2>4. rb # <<>> => rb' # <<>> /\ Head(rb') = Head(rb)
    BY <2>2, <2>3, HeadOfConcat
  <2>. QED BY <1>6, <2>4, ReaderSame DEF PutCached
<1>7. CASE FlushPending
  BY <1>7 DEF FlushPending, ReaderFits
<1>8. CASE RecvLoop
  <2>1. CASE status
    <3>1. /\ n' = Bytes(rb) /\ space' = BufSize /\ batch' = <<>> /\ r' = "read" /\ rb' = rb
      BY <1>8, <2>1 DEF RecvLoop
    <3>2. BufSize \in Nat /\ BufSize % 4 = 0
      BY MidiAssumption
    <3>3. Total([i \in DOMAIN <<>> |-> Aligned(<<>>[i].size)]) = 0
      BY AlignedEmpty DEF AlignedSizes
    <3>4. (Total([i \in DOMAIN batch |-> Aligned(batch[i].size)]))' = 0
      BY <3>1, <3>3
    <3>5. n' > 0 => rb' # <<>>
      BY <3>1, BytesEmpty
    <3>. QED BY <3>1, <3>2, <3>4, <3>5 DEF ReaderFits
  <2>2. CASE ~status
    BY <1>8, <2>2 DEF RecvLoop, ReaderFits
  <2>. QED BY <2>1, <2>2
<1>9. CASE ReadEvent
  <2>1. /\ r = "read" /\ r' = "read" /\ n > 0 /\ Head(rb).size < space
        /\ batch' = Append(batch, Head(rb)) /\ space' = space - Aligned(Head(rb).size)
        /\ rb' = Tail(rb) /\ n' = Bytes(rb')
    BY <1>9 DEF ReadEvent, Reading
  <2>2. rb # <<>> /\ space \in Nat /\ space % 4 = 0
    BY <2>1 DEF ReaderFits
  <2>3. Head(rb) \in Events /\ Head(rb).size \in Nat
    BY <2>2, HeadSize DEF Types
  <2>4. /\ Aligned(Head(rb).size) \in Nat /\ space' \in Nat /\ space' % 4 = 0
    BY <2>1, <2>2, <2>3, AlignedFits
  <2>5. /\ Total(AlignedSizes(batch)) \in Nat
        /\ Total(AlignedSizes(batch')) = Total(AlignedSizes(batch)) + Aligned(Head(rb).size)
    BY <2>1, <2>3, AlignedAppend DEF Types
  <2>6. space + Total(AlignedSizes(batch)) = BufSize
    BY <2>1 DEF ReaderFits, AlignedSizes
  <2>7. space' + Total(AlignedSizes(batch')) = BufSize
    BY <2>1, <2>2, <2>4, <2>5, <2>6
  <2>8. (space + Total([i \in DOMAIN batch |-> Aligned(batch[i].size)]) = BufSize)'
    BY <2>7 DEF AlignedSizes
  <2>9. n' = Bytes(rb')
    BY <2>1
  <2>10. n' > 0 => rb' # <<>>
    BY <2>9, BytesEmpty
  <2>. QED BY <2>1, <2>4, <2>8, <2>10 DEF ReaderFits
<1>10. CASE SkipEvent
  <2>1. /\ r = "read" /\ r' = "read" /\ n' = Bytes(rb') /\ UNCHANGED <<space, batch>>
    BY <1>10 DEF SkipEvent, Reading
  <2>2. n' > 0 => rb' # <<>>
    BY <2>1, BytesEmpty
  <2>. QED BY <2>1, <2>2 DEF ReaderFits
<1>11. CASE ReadDone
  <2>1. r = "read" /\ r' = "deliver" /\ remain' = n /\ UNCHANGED <<batch, raced, space>>
    BY <1>11 DEF ReadDone
  <2>2. ASSUME n > 0, batch = <<>>, ~raced PROVE rb' # <<>> /\ Head(rb').size = BufSize
    <3>1. Total([i \in DOMAIN batch |-> Aligned(batch[i].size)]) = 0
      BY <2>2, AlignedEmpty DEF AlignedSizes
    <3>2. space = BufSize /\ rb # <<>>
      BY <2>1, <2>2, <3>1 DEF ReaderFits
    <3>3. Reading
      BY <2>1, <2>2, <3>2, MidiAssumption DEF Reading
    <3>4. Head(rb).len > 0 /\ Head(rb).size \in Nat
      BY <2>2, <3>2, HeadSize DEF Genuine, Real, Types
    <3>5. rb' = rb /\ Head(rb).size >= space /\ ~(Head(rb).size > BufSize)
      BY <1>11, <3>3, <3>4 DEF ReadDone, TooLarge
    <3>. QED BY <3>2, <3>4, <3>5, MidiAssumption
  <2>. QED BY <2>1, <2>2 DEF ReaderFits
<1>12. CASE Deliver
  BY <1>12 DEF Deliver, ReaderFits
<1>. QED BY <1>1, <1>2, <1>3, <1>4, <1>5, <1>6, <1>7, <1>8, <1>9, <1>10, <1>11, <1>12
     DEF Next, ProcessStep, LispStep, CStep, RecvStep, StopStep
-----------------------------------------------------------------------------
(* The pad buffer *)

LEMMA RealConcat ==
    ASSUME NEW p \in Seq(Events), NEW q \in Seq(Events), NEW t, t = p \o q, Real(p), Real(q)
    PROVE  Real(t)
<1>1. PICK a, b : a = Len(p) /\ b = Len(q)
  OBVIOUS
<1>2. a \in Nat /\ b \in Nat
  BY <1>1
<1>3. /\ Len(t) = Len(p) + Len(q)
      /\ \A i \in 1 .. Len(p) : t[i] = p[i]
      /\ \A i \in 1 .. Len(q) : t[Len(p) + i] = q[i]
  BY ConcatParts, SMT
<1>4. /\ Len(t) = a + b
      /\ \A i \in 1 .. a : t[i] = p[i]
      /\ \A i \in 1 .. b : t[a + i] = q[i]
  BY <1>1, <1>3
<1>5. /\ \A i \in 1 .. a : p[i].len > 0
      /\ \A i \in 1 .. b : q[i].len > 0
  BY <1>1 DEF Real
<1>6. ASSUME NEW i \in 1 .. a + b PROVE t[i].len > 0
  <2>1. CASE i <= a
    <3>1. i \in 1 .. a
      BY <1>2, <2>1
    <3>. QED BY <1>4, <1>5, <3>1
  <2>2. CASE i > a
    <3>1. PICK l : l = i - a
      OBVIOUS
    <3>2. l \in 1 .. b /\ i = a + l
      BY <1>2, <2>2, <3>1
    <3>. QED BY <1>4, <1>5, <3>2
  <2>3. i <= a \/ i > a
    BY <1>2
  <2>. QED BY <2>1, <2>2, <2>3
<1>. QED BY <1>4, <1>6 DEF Real

\* Where the elements of the first part, and of the rest, are.
LEMMA PartsAre ==
    ASSUME NEW E, NEW q \in Seq(E), NEW m \in 0 .. Len(q)
    PROVE  /\ SubSeq(q, 1, m) \in Seq(E) /\ Len(SubSeq(q, 1, m)) = m
           /\ \A i \in 1 .. m : SubSeq(q, 1, m)[i] = q[i] /\ i \in 1 .. Len(q)
           /\ SubSeq(q, m + 1, Len(q)) \in Seq(E)
           /\ Len(SubSeq(q, m + 1, Len(q))) = Len(q) - m
           /\ \A i \in 1 .. Len(q) - m : /\ SubSeq(q, m + 1, Len(q))[i] = q[m + i]
                                         /\ m + i \in 1 .. Len(q)
<1>1. Len(q) \in Nat /\ m \in Nat
  OBVIOUS
<1>2. /\ SubSeq(q, 1, m) \in Seq(E) /\ Len(SubSeq(q, 1, m)) = m
      /\ \A i \in 1 .. m : SubSeq(q, 1, m)[i] = q[i] /\ i \in 1 .. Len(q)
  OBVIOUS
<1>3. SubSeq(q, m + 1, Len(q)) \in Seq(E) /\ Len(SubSeq(q, m + 1, Len(q))) = Len(q) - m
  OBVIOUS
<1>4. ASSUME NEW i \in 1 .. Len(q) - m
      PROVE  SubSeq(q, m + 1, Len(q))[i] = q[m + i] /\ m + i \in 1 .. Len(q)
  OBVIOUS
<1>. QED BY <1>2, <1>3, <1>4

LEMMA RealParts ==
    ASSUME NEW q \in Seq(Events), NEW m \in 0 .. Len(q), Real(q)
    PROVE  Real(SubSeq(q, 1, m)) /\ Real(SubSeq(q, m + 1, Len(q)))
<1>1. PICK p, t : p = SubSeq(q, 1, m) /\ t = SubSeq(q, m + 1, Len(q))
  OBVIOUS
<1>2. /\ Len(p) = m /\ \A i \in 1 .. m : p[i] = q[i] /\ i \in 1 .. Len(q)
      /\ Len(t) = Len(q) - m
      /\ \A i \in 1 .. Len(q) - m : t[i] = q[m + i] /\ m + i \in 1 .. Len(q)
  BY <1>1, PartsAre
<1>3. Real(p) /\ Real(t)
  BY <1>2 DEF Real
<1>. QED BY <1>1, <1>3

LEMMA RealTail ==
    ASSUME NEW q \in Seq(Events), q # <<>>, Real(q)
    PROVE  Real(Tail(q))
<1>1. /\ Len(q) \in Nat /\ Len(Tail(q)) = Len(q) - 1
      /\ \A i \in 1 .. Len(q) - 1 : Tail(q)[i] = q[i + 1] /\ i + 1 \in 1 .. Len(q)
  OBVIOUS
<1>. QED BY <1>1 DEF Real

\* An event alone in the pad buffer is what jack_ringbuffer_write copies.
LEMMA FirstOfOne ==
    ASSUME NEW e \in Events
    PROVE  FirstBytes(<<e>>, e.size) = <<e>>
<1>1. PICK q : q = <<e>>
  OBVIOUS
<1>a. q \in Seq(Events) /\ Len(q) = 1
  BY <1>1
<1>b. SubSeq(q, 1, Len(q)) = q
  BY <1>a
<1>2. q \in Seq(Events) /\ Len(q) = 1 /\ SubSeq(q, 1, 1) = q /\ 1 \in 1 .. Len(q)
  BY <1>a, <1>b
<1>3. Bytes(SubSeq(q, 1, 1)) = e.size
  BY <1>1, <1>2, BytesOne
<1>4. PICK m \in 1 .. 1 : FirstBytes(q, e.size) = SubSeq(q, 1, m)
  BY <1>2, <1>3, FirstBytesEnd
<1>5. m = 1
  OBVIOUS
<1>. QED BY <1>1, <1>2, <1>4, <1>5

\* What jm_read_cached_midi_inputs moves are the first cached events, with
\* stamps that are not later than the cycle that is recovered.
LEMMA TakenIs ==
    ASSUME Types, mode = "parse", Genuine, ReadSpace > 0
    PROVE  \E m \in 1 .. Len(cache) :
               /\ FirstBytes(cache, ReadSpace) = SubSeq(cache, 1, m)
               /\ Bytes(SubSeq(cache, 1, m)) = ReadSpace
               /\ \A i \in 1 .. m : cache[i].time <= now
<1>1. /\ pad \in Seq(Events) /\ cache \in Seq(Events) /\ size \in Nat /\ now \in Nat
      /\ Len(pad) \in Nat /\ Len(cache) \in Nat
  BY DEF Types
<1>2. Len(pad) <= Len(cache) /\ \A i \in 1 .. Len(pad) : pad[i] = cache[i]
  BY DEF Genuine
<1>3. PICK l \in 0 .. Len(pad) : /\ ReadSpace = Bytes(SubSeq(pad, 1, l))
                                 /\ \A i \in 1 .. l : pad[i].time <= now
  BY <1>1, ReadSpaceIs
<1>4. l # 0
  <2>1. SUFFICES ASSUME l = 0 PROVE FALSE
    OBVIOUS
  <2>2. SubSeq(pad, 1, l) = <<>>
    BY <1>1, <2>1
  <2>3. ReadSpace = 0
    BY <1>3, <2>2, BytesEmpty
  <2>. QED BY <2>3
<1>5. l \in 1 .. Len(pad) /\ l \in 1 .. Len(cache)
  BY <1>1, <1>2, <1>4
<1>6. SubSeq(pad, 1, l) = SubSeq(cache, 1, l)
  BY <1>1, <1>2, <1>5
<1>7. Bytes(SubSeq(cache, 1, l)) = ReadSpace
  BY <1>3, <1>6
<1>8. PICK m \in 1 .. l : /\ FirstBytes(cache, ReadSpace) = SubSeq(cache, 1, m)
                          /\ Bytes(SubSeq(cache, 1, m)) = ReadSpace
  BY <1>1, <1>5, <1>7, FirstBytesEnd
<1>9. m \in 1 .. Len(cache) /\ \A i \in 1 .. m : i \in 1 .. l /\ i \in 1 .. Len(pad)
  BY <1>1, <1>5
<1>10. \A i \in 1 .. m : cache[i].time <= now
  BY <1>2, <1>3, <1>9
<1>. QED BY <1>8, <1>9, <1>10

\* Nobody forgets that the threads met, or that the stamps were too early.
LEMMA HistoryStays ==
    ASSUME [Next]_vars
    PROVE  (raced => raced') /\ (early => early')
<1>. USE DEF inputs, cycles, outputs, reader, sync, history
<1>1. CASE FillPad
  BY <1>1, Zenon DEF FillPad
<1>2. CASE Peek
  BY <1>2, Zenon DEF Peek
<1>3. CASE TakeCached
  BY <1>3, Zenon DEF TakeCached
<1>4. ASSUME NEW collect \in BOOLEAN, NEW byLisp \in BOOLEAN, CycleEnd(collect, byLisp)
      PROVE  (raced => raced') /\ (early => early')
  <2>1. early => early'
    BY <1>4, Zenon DEF CycleEnd
  <2>. QED BY <1>4, <2>1 DEF CycleEnd
<1>5. CASE Resume
  BY <1>5 DEF Resume
<1>6. CASE ~(FillPad \/ Peek \/ TakeCached \/ Resume
             \/ \E collect, byLisp \in BOOLEAN : CycleEnd(collect, byLisp))
  <2>1. UNCHANGED <<raced, early>>
    BY <1>6 DEF vars, Next, ProcessStep, LispStep, CStep, RecvStep, StopStep, PutEvent,
       EventsDone, Signal, LiveCycle, Arrive, ContinueLastCycle, WriteCachedOutputs,
       LastCycleEnd, GcEnd, RecoveryDone, SetBusyState, PutCached, RecoverCycleEnd, CycleWait,
       CycleDone, ResumeLisp, FlushPending, RecvLoop, ReadEvent, SkipEvent, ReadDone, Deliver,
       TestRemain, WaitLock, WaitUnlock, ForceLock, ForceCondSignal, ForceClear, RecvJoin,
       RecvStart, RecvStop, JmWrite
  <2>. QED BY <2>1
<1>. QED BY <1>1, <1>2, <1>3, <1>4, <1>5, <1>6

LEMMA GenuineNext ==
    ASSUME Types, Control, ReaderFits, Genuine, ~raced', [Next]_vars
    PROVE  Genuine'
<1>. USE DEF inputs, cycles, outputs, reader, sync, history
<1>1. CASE \/ UNCHANGED vars
          \/ EventsDone \/ Signal
          \/ (\E reserved \in BOOLEAN : WriteCachedOutputs(reserved))
          \/ (\E collect \in BOOLEAN, byLisp \in BOOLEAN : CycleEnd(collect, byLisp))
          \/ GcEnd \/ RecoveryDone \/ SetBusyState \/ RecoverCycleEnd \/ CycleDone
          \/ ResumeLisp \/ RecvLoop \/ Deliver \/ TestRemain \/ WaitLock \/ WaitUnlock
          \/ ForceLock \/ ForceCondSignal \/ ForceClear \/ RecvJoin \/ RecvStart
          \/ RecvStop \/ (\E reserved \in BOOLEAN : JmWrite(reserved))
  <2>1. /\ UNCHANGED <<rb, cache, pad, port, open>>
        /\ (proc' = "put") = (proc = "put")
        /\ mode' # mode => mode \notin {"parse", "put"} /\ mode' \notin {"parse", "put"}
        /\ mode = "put" => size' = size
    BY <1>1 DEF vars, EventsDone, Signal, WriteCachedOutputs, CycleEnd, GcEnd,
       RecoveryDone, SetBusyState, RecoverCycleEnd, CycleDone, ResumeLisp, RecvLoop, Deliver,
       TestRemain, WaitLock, WaitUnlock, ForceLock, ForceCondSignal, ForceClear, RecvJoin,
       RecvStart, RecvStop, JmWrite
  <2>. QED BY <2>1 DEF Genuine, Real
<1>2. CASE FillPad
  <2>1. Head(port) \in Events /\ Real(Tail(port)) /\ proc = "write"
    BY <1>2, HeadSize, RealTail DEF FillPad, Types, Genuine
  <2>2. CASE HasSpace(Ring, Head(port))
    <3>1. ~PadUsed
      BY <1>2, <2>2, Zenon DEF FillPad
    <3>2. pad = <<>> /\ mode \notin {"parse", "put"}
      BY <2>1, <3>1 DEF PadUsed, Genuine
    <3>3. pad' = <<Head(port)>>
      BY <1>2, <2>1, <2>2, <3>2, OverlayEmpty DEF FillPad
    <3>4. proc' = "put" /\ UNCHANGED <<rb, cache, port, open, mode, size>>
      BY <1>2, <2>2 DEF FillPad
    <3>5. Real(<<Head(port)>>)
      BY <1>2 DEF FillPad, Genuine, Real, Types
    <3>. QED BY <3>2, <3>3, <3>4, <3>5 DEF Genuine, Real
  <2>3. CASE ~HasSpace(Ring, Head(port))
    <3>1. port' = Tail(port) /\ UNCHANGED <<rb, cache, pad, proc, open, mode, size>>
      BY <1>2, <2>3 DEF FillPad
    <3>. QED BY <2>1, <3>1 DEF Genuine, Real
  <2>. QED BY <2>2, <2>3
<1>3. CASE PutEvent
  <2>1. port # <<>> /\ port \in Seq(Events) /\ rb \in Seq(Events) /\ cache \in Seq(Events)
    BY <1>3 DEF PutEvent, Control, Types
  <2>2. Head(port) \in Events /\ Real(Tail(port))
    BY <2>1, HeadSize, RealTail DEF Genuine
  <2>3. PICK w : w = <<Head(port)>>
    OBVIOUS
  <2>4. pad = w /\ mode \notin {"parse", "put"}
    BY <1>3, <2>3 DEF PutEvent, Genuine
  <2>5. FirstBytes(pad, Head(port).size) = w
    BY <2>2, <2>3, <2>4, FirstOfOne
  <2>6. Real(w) /\ w \in Seq(Events)
    BY <2>1, <2>2, <2>3, <2>4 DEF Genuine
  <2>7. Real(rb \o w) /\ Real(cache \o w)
    BY <2>1, <2>6, RealConcat DEF Genuine
  <2>8. /\ port' = Tail(port) /\ proc' = "write" /\ pad' = <<>> /\ UNCHANGED <<open, mode, size>>
    BY <1>3, <2>4 DEF PutEvent, PadUsed
  <2>9. rb' \in {rb, rb \o w} /\ cache' \in {cache, cache \o w}
    BY <1>3, <2>5 DEF PutEvent
  <2>10. Real(rb') /\ Real(cache')
    BY <2>7, <2>9 DEF Genuine
  <2>11. Real(<<>>)
    BY DEF Real
  <2>. QED BY <2>2, <2>4, <2>8, <2>10, <2>11 DEF Genuine
<1>4. ASSUME NEW lens \in CycleLens[use], LiveCycle(lens)
      PROVE  Genuine'
  <2>1. Arrive(lens, 0)
    BY <1>4 DEF LiveCycle
  <2>2. Real(port)' /\ proc' = "write"
    BY <2>1, Arrived DEF Types
  <2>3. /\ mode = "live" /\ mode' = "cycle" /\ proc = "none"
        /\ UNCHANGED <<rb, cache, pad, open, size>>
    BY <1>4 DEF LiveCycle, Control, BusyModes
  <2>. QED BY <2>2, <2>3 DEF Genuine, Real
<1>5. CASE ContinueLastCycle
  <2>1. /\ port' = open /\ proc' = "write" /\ proc = "none" /\ mode = "last"
        /\ mode' = "lastcycle" /\ UNCHANGED <<rb, cache, pad, open, size>>
    BY <1>5 DEF ContinueLastCycle, Control, BusyModes
  <2>. QED BY <2>1 DEF Genuine, Real
<1>6. ASSUME NEW collect \in BOOLEAN, LastCycleEnd(collect)
      PROVE  Genuine'
  <2>1. /\ cache' = <<>> /\ open' = <<>> /\ UNCHANGED <<rb, pad, port, proc>>
        /\ proc = "none" /\ mode' \notin {"parse", "put"} /\ mode \notin {"parse", "put"}
    BY <1>6 DEF LastCycleEnd, ClearCachedEvents, Recounted, Control, BusyModes
  <2>. QED BY <2>1 DEF Genuine, Real
<1>7. CASE Resume
  <2>1. /\ cache' \in {<<>>, cache} /\ open' \in {<<>>, open} /\ UNCHANGED <<rb, pad, port, proc>>
        /\ proc = "none" /\ mode' \notin {"parse", "put"} /\ mode \notin {"parse", "put"}
    BY <1>7 DEF Resume, ClearCachedEvents, Recounted, Control, BusyModes
  <2>2. Real(cache') /\ Real(open')
    BY <2>1 DEF Genuine, Real
  <2>. QED BY <2>1, <2>2 DEF Genuine, Real
<1>8. CASE Peek
  <2>0. UNCHANGED <<rb, cache, port, open, proc>> /\ mode = "recover"
    BY <1>8 DEF Peek
  <2>1. CASE cache = <<>>
    <3>1. mode' = "recrun" /\ UNCHANGED <<pad, size>>
      BY <1>8, <2>1 DEF Peek
    <3>. QED BY <2>0, <3>1 DEF Genuine, Real
  <2>2. CASE cache # <<>>
    <3>1. proc # "put"
      BY <1>8, <2>2, Zenon DEF Peek
    <3>2. mode' = "parse" /\ pad' = cache
      BY <1>8, <2>2 DEF Peek
    <3>3. Len(cache) \in Nat
      BY DEF Types
    <3>. QED BY <2>0, <3>1, <3>2, <3>3 DEF Genuine, Real
  <2>. QED BY <2>1, <2>2
<1>9. CASE TakeCached
  <2>0. /\ mode = "parse" /\ proc # "put" /\ UNCHANGED <<rb, port, open, proc>>
        /\ cache \in Seq(Events) /\ Len(cache) \in Nat
    BY <1>9 DEF TakeCached, Genuine, Types
  <2>1. CASE ReadSpace > 0 /\ ReadSpace <= RingBytes - Bytes(rb)
    <3>1. PICK w, m : /\ m \in 1 .. Len(cache) /\ w = FirstBytes(cache, ReadSpace)
                      /\ w = SubSeq(cache, 1, m) /\ Bytes(w) = ReadSpace
      BY <2>0, <2>1, TakenIs
    <3>2. /\ size' = ReadSpace /\ pad' = w /\ cache' = SubSeq(cache, Len(w) + 1, Len(cache))
          /\ mode' = "put"
      BY <1>9, <2>1, <3>1 DEF TakeCached
    <3>3. w \in Seq(Events) /\ Len(w) = m /\ w # <<>>
      BY <2>0, <3>1
    <3>4. Real(w)
      <4>1. m \in 0 .. Len(cache) /\ Real(cache)
        BY <2>0, <3>1 DEF Genuine
      <4>. QED BY <2>0, <3>1, <4>1, RealParts
    <3>5. Real(cache')
      <4>1. m \in 0 .. Len(cache) /\ Real(cache)
        BY <2>0, <3>1 DEF Genuine
      <4>2. cache' = SubSeq(cache, m + 1, Len(cache))
        BY <3>2, <3>3
      <4>3. Real(SubSeq(cache, m + 1, Len(cache)))
        BY <2>0, <4>1, RealParts
      <4>. QED BY <4>2, <4>3
    <3>6. Bytes(pad') = size'
      BY <3>1, <3>2
    <3>. QED BY <2>0, <3>2, <3>3, <3>4, <3>5, <3>6 DEF Genuine, Real
  <2>2. CASE ~(ReadSpace > 0 /\ ReadSpace <= RingBytes - Bytes(rb))
    <3>1. mode' = "recrun" /\ pad' = <<>> /\ cache' = cache
      BY <1>9, <2>0, <2>2, Zenon DEF TakeCached
    <3>. QED BY <2>0, <3>1 DEF Genuine, Real
  <2>. QED BY <2>1, <2>2
<1>10. CASE PutCached
  <2>0. /\ mode = "put" /\ proc # "put" /\ UNCHANGED <<cache, port, open, proc>>
        /\ mode' = "recrun" /\ pad \in Seq(Events) /\ rb \in Seq(Events) /\ Len(pad) \in Nat
    BY <1>10 DEF PutCached, Genuine, Types
  <2>1. PICK w, m : m \in 1 .. Len(pad) /\ w = FirstBytes(pad, size) /\ w = SubSeq(pad, 1, m)
    <3>1. Len(pad) \in 1 .. Len(pad) /\ SubSeq(pad, 1, Len(pad)) = pad /\ Bytes(pad) = size
      BY <2>0 DEF Genuine
    <3>. QED BY <2>0, <3>1, FirstBytesEnd
  <2>2. w \in Seq(Events)
    BY <2>0, <2>1
  <2>3. Real(w)
    <3>1. m \in 0 .. Len(pad) /\ Real(pad)
      BY <2>0, <2>1 DEF Genuine
    <3>. QED BY <2>0, <2>1, <3>1, RealParts
  <2>4. rb' = rb \o w /\ pad' = <<>>
    BY <1>10, <2>0, <2>1 DEF PutCached
  <2>5. Real(rb')
    BY <2>0, <2>2, <2>3, <2>4, RealConcat DEF Genuine
  <2>6. Real(<<>>)
    BY DEF Real
  <2>. QED BY <2>0, <2>4, <2>5, <2>6 DEF Genuine
<1>11. ASSUME NEW lens \in CycleLens[use], CycleWait(lens)
      PROVE  Genuine'
  <2>1. start + offset \in Nat /\ Arrive(lens, start + offset)
    BY <1>11 DEF CycleWait, Types
  <2>2. Real(port)' /\ proc' = "write"
    BY <2>1, Arrived DEF Types
  <2>3. proc = "none" /\ open' = port' /\ UNCHANGED <<rb, cache, pad, mode, size>>
    BY <1>11 DEF CycleWait, Control, LispModes, BusyModes
  <2>. QED BY <2>2, <2>3 DEF Genuine, Real
<1>12. CASE FlushPending
  <2>1. rb' = <<>> /\ UNCHANGED <<cache, pad, port, open, proc, mode, size>>
    BY <1>12 DEF FlushPending
  <2>. QED BY <2>1 DEF Genuine, Real
<1>13. CASE ReadEvent
  <2>1. rb # <<>> /\ rb' = Tail(rb) /\ UNCHANGED <<cache, pad, port, open, proc, mode, size>>
    BY <1>13 DEF ReadEvent, Reading, ReaderFits
  <2>2. Real(rb')
    BY <2>1, RealTail DEF Genuine, Types
  <2>. QED BY <2>1, <2>2 DEF Genuine, Real
<1>14. CASE SkipEvent
  <2>1. rb # <<>> /\ rb' = Tail(rb) /\ UNCHANGED <<cache, pad, port, open, proc, mode, size>>
    BY <1>14 DEF SkipEvent, Reading, ReaderFits
  <2>2. Real(rb')
    BY <2>1, RealTail DEF Genuine, Types
  <2>. QED BY <2>1, <2>2 DEF Genuine, Real
<1>15. CASE ReadDone
  <2>1. rb' \in {rb, <<>>} /\ UNCHANGED <<cache, pad, port, open, proc, mode, size>>
    BY <1>15 DEF ReadDone
  <2>. QED BY <2>1 DEF Genuine, Real
<1>. QED BY <1>1, <1>2, <1>3, <1>4, <1>5, <1>6, <1>7, <1>8, <1>9, <1>10, <1>11, <1>12, 
         <1>13, <1>14, <1>15
     DEF Next, ProcessStep, LispStep, CStep, RecvStep, StopStep
-----------------------------------------------------------------------------
(* The order of the events *)

LEMMA IdsNat ==
    ASSUME NEW q \in Seq(Events)
    PROVE  Len(q) \in Nat /\ \A i \in 1 .. Len(q) : q[i].id \in Nat
<1>1. \A e \in Events : e.id \in Nat
  BY DEF Events
<1>2. Len(q) \in Nat /\ \A i \in 1 .. Len(q) : q[i] \in Events
  OBVIOUS
<1>. QED BY <1>1, <1>2

\* Every element of t is an element of p or of q, which follows p in t.
MadeOf(t, p, q) ==
    \A i \in 1 .. Len(t) :
       \/ i \in 1 .. Len(p) /\ t[i] = p[i]
       \/ \E l \in 1 .. Len(q) : i = Len(p) + l /\ t[i] = q[l]

\* An element of a concatenation is an element of one of its parts.
LEMMA ConcatCases ==
    ASSUME NEW E, NEW p \in Seq(E), NEW q \in Seq(E), NEW t, t = p \o q
    PROVE  t \in Seq(E) /\ MadeOf(t, p, q)
<1>1. PICK a, b : a = Len(p) /\ b = Len(q)
  OBVIOUS
<1>2. a \in Nat /\ b \in Nat
  BY <1>1
<1>3. /\ t \in Seq(E) /\ Len(t) = Len(p) + Len(q)
      /\ \A i \in 1 .. Len(p) : t[i] = p[i]
      /\ \A i \in 1 .. Len(q) : t[Len(p) + i] = q[i]
  BY ConcatParts, SMT
<1>4. /\ Len(t) = a + b
      /\ \A i \in 1 .. a : t[i] = p[i]
      /\ \A i \in 1 .. b : t[a + i] = q[i]
  BY <1>1, <1>3
<1>5. ASSUME NEW i \in 1 .. a + b
      PROVE  \/ i \in 1 .. a /\ t[i] = p[i]
             \/ \E l \in 1 .. b : i = a + l /\ t[i] = q[l]
  <2>1. CASE i <= a
    <3>1. i \in 1 .. a
      BY <1>2, <2>1
    <3>. QED BY <1>4, <3>1
  <2>2. CASE i > a
    <3>1. PICK l : l = i - a
      OBVIOUS
    <3>2. l \in 1 .. b /\ i = a + l
      BY <1>2, <2>2, <3>1
    <3>3. t[i] = q[l]
      BY <1>4, <3>2
    <3>. QED BY <3>2, <3>3
  <2>3. i <= a \/ i > a
    BY <1>2
  <2>. QED BY <2>1, <2>2, <2>3
<1>. QED BY <1>1, <1>3, <1>4, <1>5 DEF MadeOf

\* What holds of two sequences holds of their concatenation.
LEMMA ConcatKeeps ==
    ASSUME NEW p \in Seq(Events), NEW q \in Seq(Events), NEW t, t = p \o q
    PROVE  /\ t \in Seq(Events)
           /\ Rising(p) /\ Rising(q) /\ Lower(p, q) => Rising(t)
           /\ \A m : Under(p, m) /\ Under(q, m) => Under(t, m)
           /\ \A x : Lower(p, x) /\ Lower(q, x) => Lower(t, x)
           /\ \A x : Lower(x, p) /\ Lower(x, q) => Lower(x, t)
           /\ \A F : Follows(p, F) /\ Follows(q, F) => Follows(t, F)
<1>1. PICK a, b : a = Len(p) /\ b = Len(q)
  OBVIOUS
<1>2. a \in Nat /\ b \in Nat
  BY <1>1
<1>3. t \in Seq(Events) /\ MadeOf(t, p, q)
  BY ConcatCases, Zenon
<1>4. /\ t \in Seq(Events) /\ Len(t) \in Nat
      /\ \A i \in 1 .. Len(t) :
            \/ i \in 1 .. a /\ t[i] = p[i]
            \/ \E l \in 1 .. b : i = a + l /\ t[i] = q[l]
  <2>1. Len(t) \in Nat
    BY <1>3
  <2>. QED BY <1>1, <1>3, <2>1, ZenonT(30) DEF MadeOf
<1>5. ASSUME Rising(p), Rising(q), Lower(p, q) PROVE Rising(t)
  <2>1. /\ \A i, j \in 1 .. a : i < j => p[i].id < p[j].id
        /\ \A i, j \in 1 .. b : i < j => q[i].id < q[j].id
        /\ \A i \in 1 .. a : \A j \in 1 .. b : p[i].id < q[j].id
    BY <1>1, <1>5 DEF Rising, Lower
  <2>2. ASSUME NEW i \in 1 .. Len(t), NEW j \in 1 .. Len(t), i < j
        PROVE  t[i].id < t[j].id
    <3>1. CASE i \in 1 .. a /\ t[i] = p[i] /\ j \in 1 .. a /\ t[j] = p[j]
      BY <2>1, <2>2, <3>1
    <3>2. CASE i \in 1 .. a /\ t[i] = p[i] /\ \E l \in 1 .. b : j = a + l /\ t[j] = q[l]
      BY <2>1, <3>2
    <3>3. CASE (\E l \in 1 .. b : i = a + l /\ t[i] = q[l]) /\ j \in 1 .. a
      BY <1>2, <2>2, <3>3
    <3>4. CASE /\ \E l \in 1 .. b : i = a + l /\ t[i] = q[l]
               /\ \E l \in 1 .. b : j = a + l /\ t[j] = q[l]
      <4>1. PICK l \in 1 .. b : i = a + l /\ t[i] = q[l]
        BY <3>4
      <4>2. PICK m \in 1 .. b : j = a + m /\ t[j] = q[m]
        BY <3>4
      <4>3. l < m
        BY <1>2, <2>2, <4>1, <4>2
      <4>. QED BY <2>1, <4>1, <4>2, <4>3
    <3>. QED BY <1>4, <3>1, <3>2, <3>3, <3>4
  <2>. QED BY <2>2 DEF Rising
<1>6. ASSUME NEW m, Under(p, m), Under(q, m) PROVE Under(t, m)
  <2>1. /\ \A i \in 1 .. a : p[i].id < m
        /\ \A i \in 1 .. b : q[i].id < m
    BY <1>1, <1>6 DEF Under
  <2>2. \A i \in 1 .. Len(t) : t[i].id < m
    BY <1>4, <2>1
  <2>. QED BY <2>2 DEF Under
<1>7. ASSUME NEW x, Lower(p, x), Lower(q, x) PROVE Lower(t, x)
  <2>1. /\ \A i \in 1 .. a : \A j \in 1 .. Len(x) : p[i].id < x[j].id
        /\ \A i \in 1 .. b : \A j \in 1 .. Len(x) : q[i].id < x[j].id
    BY <1>1, <1>7 DEF Lower
  <2>2. \A i \in 1 .. Len(t) : \A j \in 1 .. Len(x) : t[i].id < x[j].id
    BY <1>4, <2>1
  <2>. QED BY <2>2 DEF Lower
<1>8. ASSUME NEW x, Lower(x, p), Lower(x, q) PROVE Lower(x, t)
  <2>1. /\ \A i \in 1 .. Len(x) : \A j \in 1 .. a : x[i].id < p[j].id
        /\ \A i \in 1 .. Len(x) : \A j \in 1 .. b : x[i].id < q[j].id
    BY <1>1, <1>8 DEF Lower
  <2>2. \A i \in 1 .. Len(x) : \A j \in 1 .. Len(t) : x[i].id < t[j].id
    BY <1>4, <2>1
  <2>. QED BY <2>2 DEF Lower
<1>9. ASSUME NEW F, Follows(p, F), Follows(q, F) PROVE Follows(t, F)
  <2>1. /\ \A x \in F : \A i \in 1 .. a : x < p[i].id
        /\ \A x \in F : \A i \in 1 .. b : x < q[i].id
    BY <1>1, <1>9 DEF Follows
  <2>2. \A x \in F : \A i \in 1 .. Len(t) : x < t[i].id
    BY <1>4, <2>1
  <2>. QED BY <2>2 DEF Follows
<1>. QED BY <1>4, <1>5, <1>6, <1>7, <1>8, <1>9

\* u is a part of q, from the element after a on.
PartOf(u, q, a) ==
    /\ u \in Seq(Events)
    /\ \A i \in 1 .. Len(u) : a + i \in 1 .. Len(q) /\ u[i] = q[a + i]

\* What holds of a sequence holds of its parts.
LEMMA PartKeeps ==
    ASSUME NEW q \in Seq(Events), NEW u, NEW a \in Nat, PartOf(u, q, a)
    PROVE  /\ Rising(q) => Rising(u)
           /\ \A m : Under(q, m) => Under(u, m)
           /\ \A x : Lower(q, x) => Lower(u, x)
           /\ \A x : Lower(x, q) => Lower(x, u)
           /\ \A F : Follows(q, F) => Follows(u, F)
<1>1. Len(u) \in Nat /\ \A i \in 1 .. Len(u) : a + i \in 1 .. Len(q) /\ u[i] = q[a + i]
  BY DEF PartOf
<1>2. ASSUME Rising(q) PROVE Rising(u)
  <2>1. ASSUME NEW i \in 1 .. Len(u), NEW j \in 1 .. Len(u), i < j
        PROVE  u[i].id < u[j].id
    <3>1. a + i \in 1 .. Len(q) /\ a + j \in 1 .. Len(q) /\ a + i < a + j
      BY <1>1, <2>1
    <3>2. q[a + i].id < q[a + j].id
      BY <1>2, <3>1 DEF Rising
    <3>. QED BY <1>1, <3>2
  <2>. QED BY <2>1 DEF Rising
<1>3. ASSUME NEW m, Under(q, m) PROVE Under(u, m)
  BY <1>1, <1>3 DEF Under
<1>4. ASSUME NEW x, Lower(q, x) PROVE Lower(u, x)
  BY <1>1, <1>4 DEF Lower
<1>5. ASSUME NEW x, Lower(x, q) PROVE Lower(x, u)
  BY <1>1, <1>5 DEF Lower
<1>6. ASSUME NEW F, Follows(q, F) PROVE Follows(u, F)
  BY <1>1, <1>6 DEF Follows
<1>. QED BY <1>2, <1>3, <1>4, <1>5, <1>6

LEMMA FirstPart ==
    ASSUME NEW q \in Seq(Events), NEW m \in 0 .. Len(q)
    PROVE  PartOf(SubSeq(q, 1, m), q, 0)
<1>1. PICK u : u = SubSeq(q, 1, m)
  OBVIOUS
<1>2. u \in Seq(Events) /\ Len(u) = m /\ \A i \in 1 .. m : u[i] = q[i] /\ i \in 1 .. Len(q)
  BY <1>1, PartsAre
<1>3. \A i \in 1 .. m : 0 + i = i
  OBVIOUS
<1>4. PartOf(u, q, 0)
  BY <1>2, <1>3 DEF PartOf
<1>. QED BY <1>1, <1>4

LEMMA LastPart ==
    ASSUME NEW q \in Seq(Events), NEW m \in 0 .. Len(q)
    PROVE  PartOf(SubSeq(q, m + 1, Len(q)), q, m)
<1>1. PICK u : u = SubSeq(q, m + 1, Len(q))
  OBVIOUS
<1>2. /\ u \in Seq(Events) /\ Len(u) = Len(q) - m
      /\ \A i \in 1 .. Len(q) - m : u[i] = q[m + i] /\ m + i \in 1 .. Len(q)
  BY <1>1, PartsAre
<1>3. PartOf(u, q, m)
  BY <1>2 DEF PartOf
<1>. QED BY <1>1, <1>3

LEMMA TailPart ==
    ASSUME NEW q \in Seq(Events), q # <<>>
    PROVE  PartOf(Tail(q), q, 1)
<1>1. /\ Tail(q) \in Seq(Events) /\ Len(q) \in Nat /\ Len(Tail(q)) = Len(q) - 1
      /\ \A i \in 1 .. Len(q) - 1 : Tail(q)[i] = q[1 + i] /\ 1 + i \in 1 .. Len(q)
  OBVIOUS
<1>. QED BY <1>1 DEF PartOf

\* The head alone.
LEMMA HeadPart ==
    ASSUME NEW q \in Seq(Events), q # <<>>
    PROVE  /\ PartOf(<<Head(q)>>, q, 0) /\ <<Head(q)>>[1] = Head(q) /\ Len(<<Head(q)>>) = 1
           /\ Head(q) = q[1] /\ 1 \in 1 .. Len(q)
           /\ Rising(q) => Lower(<<Head(q)>>, Tail(q))
<1>1. PICK u : u = <<Head(q)>>
  OBVIOUS
<1>2. Head(q) \in Events /\ Head(q) = q[1] /\ 1 \in 1 .. Len(q)
  OBVIOUS
<1>3. u \in Seq(Events) /\ Len(u) = 1 /\ u[1] = q[1]
  BY <1>1, <1>2
<1>4. PartOf(u, q, 0)
  BY <1>2, <1>3 DEF PartOf
<1>5. ASSUME Rising(q) PROVE Lower(u, Tail(q))
  <2>1. /\ Len(q) \in Nat /\ Len(Tail(q)) = Len(q) - 1
        /\ \A i \in 1 .. Len(q) - 1 : Tail(q)[i] = q[1 + i] /\ 1 + i \in 1 .. Len(q)
    OBVIOUS
  <2>2. \A i \in 1 .. Len(q) - 1 : q[1].id < q[1 + i].id
    BY <1>2, <1>5, <2>1 DEF Rising
  <2>. QED BY <1>3, <2>1, <2>2 DEF Lower
<1>. QED BY <1>1, <1>2, <1>3, <1>4, <1>5

\* The first part comes before the rest.
LEMMA PartsInOrder ==
    ASSUME NEW q \in Seq(Events), NEW m \in 0 .. Len(q), Rising(q)
    PROVE  Lower(SubSeq(q, 1, m), SubSeq(q, m + 1, Len(q)))
<1>1. PICK p, t : p = SubSeq(q, 1, m) /\ t = SubSeq(q, m + 1, Len(q))
  OBVIOUS
<1>2. /\ Len(p) = m /\ \A i \in 1 .. m : p[i] = q[i] /\ i \in 1 .. Len(q)
      /\ Len(t) = Len(q) - m
      /\ \A i \in 1 .. Len(q) - m : t[i] = q[m + i] /\ m + i \in 1 .. Len(q)
  BY <1>1, PartsAre
<1>3. ASSUME NEW i \in 1 .. m, NEW j \in 1 .. Len(q) - m PROVE p[i].id < t[j].id
  <2>1. i < m + j
    OBVIOUS
  <2>2. q[i].id < q[m + j].id
    BY <1>2, <2>1 DEF Rising
  <2>. QED BY <1>2, <2>2
<1>4. Lower(p, t)
  BY <1>2, <1>3 DEF Lower
<1>. QED BY <1>1, <1>4

LEMMA NothingArranged ==
    /\ <<>> \in Seq(Events) /\ Rising(<<>>)
    /\ \A m : Under(<<>>, m)
    /\ \A x : Lower(<<>>, x) /\ Lower(x, <<>>)
    /\ \A F : Follows(<<>>, F)
BY DEF Rising, Under, Lower, Follows

\* Later events make the bound larger.
LEMMA UnderMore ==
    ASSUME NEW q \in Seq(Events), NEW l \in Nat, NEW m \in Nat, l <= m, Under(q, l)
    PROVE  Under(q, m)
<1>1. \A i \in 1 .. Len(q) : q[i].id \in Nat /\ q[i].id < l
  BY IdsNat DEF Under
<1>2. \A i \in 1 .. Len(q) : q[i].id < m
  BY <1>1
<1>. QED BY <1>2 DEF Under

\* Everything that has come is before a new event.
LEMMA UnderLower ==
    ASSUME NEW p \in Seq(Events), NEW q \in Seq(Events), NEW m \in Nat, Under(p, m),
           \A i \in 1 .. Len(q) : m <= q[i].id
    PROVE  Lower(p, q)
<1>1. \A i \in 1 .. Len(p) : p[i].id \in Nat /\ p[i].id < m
  BY IdsNat DEF Under
<1>2. \A i \in 1 .. Len(q) : q[i].id \in Nat /\ m <= q[i].id
  BY IdsNat
<1>3. \A i \in 1 .. Len(p) : \A j \in 1 .. Len(q) : p[i].id < q[j].id
  BY <1>1, <1>2
<1>. QED BY <1>3 DEF Lower

LEMMA GoneUnder ==
    ASSUME NEW g \in Nat, NEW p \in Seq(Events), NEW q \in Seq(Events), NEW m \in Nat,
           InOrder(g, p, q, m)
    PROVE  \A x \in GoneOf(g, p, q) : x \in Nat /\ x < m
<1>1. \A i \in 1 .. Len(p) : p[i].id \in Nat /\ p[i].id < m
  BY IdsNat DEF InOrder, Under
<1>2. \A i \in 1 .. Len(q) : q[i].id \in Nat /\ q[i].id < m
  BY IdsNat DEF InOrder, Under
<1>. QED BY <1>1, <1>2 DEF GoneOf, InOrder

LEMMA GoneFollows ==
    ASSUME NEW g \in Nat, NEW p \in Seq(Events), NEW q \in Seq(Events), NEW m \in Nat,
           InOrder(g, p, q, m), NEW u \in Seq(Events), \A i \in 1 .. Len(u) : m <= u[i].id
    PROVE  Follows(u, GoneOf(g, p, q))
<1>1. PICK F : F = GoneOf(g, p, q)
  OBVIOUS
<1>2. \A x \in F : x \in Nat /\ x < m
  BY <1>1, GoneUnder
<1>3. \A i \in 1 .. Len(u) : u[i].id \in Nat /\ m <= u[i].id
  BY IdsNat
<1>4. \A x \in F : \A i \in 1 .. Len(u) : x < u[i].id
  BY <1>2, <1>3
<1>. QED BY <1>1, <1>4 DEF Follows

\* Events that follow all of these go to the end of rb.
LEMMA InOrderConcat ==
    ASSUME NEW g \in Nat, NEW p \in Seq(Events), NEW q \in Seq(Events), NEW m \in Nat,
           InOrder(g, p, q, m), NEW w \in Seq(Events), NEW t, t = q \o w,
           Rising(w), Under(w, m), Follows(w, GoneOf(g, p, q))
    PROVE  InOrder(g, p, t, m)
<1>1. /\ \A i \in 1 .. Len(w) : g < w[i].id
      /\ Lower(p, w) /\ Lower(q, w)
  BY DEF Follows, GoneOf, Lower
<1>2. Rising(t) /\ Lower(p, t) /\ Under(t, m)
  BY <1>1, ConcatKeeps, ZenonT(30) DEF InOrder
<1>3. Follows(t, {g})
  <2>1. Follows(q, {g}) /\ Follows(w, {g})
    BY <1>1 DEF InOrder, Follows
  <2>. QED BY <2>1, ConcatKeeps
<1>4. \A i \in 1 .. Len(t) : g < t[i].id
  BY <1>3 DEF Follows
<1>. QED BY <1>2, <1>4 DEF InOrder

LEMMA GoneConcat ==
    ASSUME NEW g, NEW p \in Seq(Events), NEW q \in Seq(Events), NEW w \in Seq(Events),
           NEW t, t = q \o w, NEW u, Follows(u, GoneOf(g, p, q)), Lower(w, u)
    PROVE  Follows(u, GoneOf(g, p, t))
<1>1. /\ \A i \in 1 .. Len(u) : g < u[i].id
      /\ Lower(p, u) /\ Lower(q, u)
  BY DEF Follows, GoneOf, Lower
<1>2. Lower(t, u)
  BY <1>1, ConcatKeeps, ZenonT(30)
<1>. QED BY <1>1, <1>2 DEF Follows, GoneOf, Lower

\* A part of what has gone has fewer events.
LEMMA GoneLess ==
    ASSUME NEW F, NEW D, D \subseteq F, NEW u, Follows(u, F)
    PROVE  Follows(u, D)
BY DEF Follows
LEMMA TimesNat ==
    ASSUME NEW q \in Seq(Events)
    PROVE  \A i \in 1 .. Len(q) : q[i].time \in Nat
<1>1. \A e \in Events : e.time \in Nat
  BY DEF Events
<1>2. \A i \in 1 .. Len(q) : q[i] \in Events
  OBVIOUS
<1>. QED BY <1>1, <1>2

\* A step that only moves the threads.
LEMMA ArrangedSame ==
    ASSUME Arranged,
           UNCHANGED <<got, batch, rb, cache, port, pad, open, offset, nextEvent>>,
           mode \in {"last", "lastcycle", "lastrun"} => mode' \in {"last", "lastcycle", "lastrun"},
           mode' \in {"live", "cycle", "run"} => mode \in {"live", "cycle", "run"},
           mode' = "put" => mode = "put", mode' = "last" => mode = "last",
           k' = "process" => k = "process", k' = "wait" => k = "wait"
    PROVE  Arranged'
<1>1. Gone' = Gone
  BY DEF Gone
<1>2. Begun' => Begun
  BY DEF Begun
<1>. QED BY <1>1, <1>2 DEF Arranged

\* A step of the receiver: it takes from rb, and delivers what it took.
LEMMA ArrangedReads ==
    ASSUME Arranged, InOrder(got', batch', rb', nextEvent), Gone' \subseteq Gone,
           UNCHANGED <<cache, port, pad, open, offset, nextEvent, mode, k>>
    PROVE  Arranged'
<1>1. \A u : Follows(u, Gone) => Follows(u, Gone')
  BY GoneLess
<1>2. Begun' = Begun
  BY DEF Begun
<1>. QED BY <1>1, <1>2 DEF Arranged

LEMMA ArrangedNext ==
    ASSUME Types, Control, Counted, ReaderFits, Genuine, Arranged,
           ~raced', ~early, ~early', [Next]_vars
    PROVE  Arranged'
<1>. USE DEF inputs, cycles, outputs, reader, sync, history
<1>1. CASE \/ UNCHANGED vars
          \/ EventsDone \/ Signal
          \/ (\E reserved \in BOOLEAN : WriteCachedOutputs(reserved)) \/ GcEnd
          \/ RecoveryDone \/ SetBusyState \/ RecoverCycleEnd \/ ResumeLisp \/ TestRemain
          \/ WaitLock \/ WaitUnlock \/ ForceLock \/ ForceCondSignal \/ ForceClear
          \/ RecvJoin \/ RecvStart \/ RecvStop
          \/ (\E reserved \in BOOLEAN : JmWrite(reserved))
  <2>1. /\ UNCHANGED <<got, batch, rb, cache, port, pad, open, offset, nextEvent>>
        /\ mode \in {"last", "lastcycle", "lastrun"}
               => mode' \in {"last", "lastcycle", "lastrun"}
        /\ mode' \in {"live", "cycle", "run"} => mode \in {"live", "cycle", "run"}
        /\ mode' = "put" => mode = "put"
        /\ mode' = "last" => mode = "last"
        /\ k' = "process" => k = "process"
        /\ (k' = "wait" => k = "wait")
    BY <1>1 DEF vars, EventsDone, Signal, WriteCachedOutputs, GcEnd, RecoveryDone,
       SetBusyState, RecoverCycleEnd, ResumeLisp, TestRemain, WaitLock, WaitUnlock,
       ForceLock, ForceCondSignal, ForceClear, RecvJoin, RecvStart, RecvStop, JmWrite
  <2>. QED BY <2>1, ArrangedSame
<1>2. CASE FillPad
  <2>1. /\ port \in Seq(Events) /\ port # <<>>
        /\ UNCHANGED <<got, batch, rb, cache, open, offset, nextEvent, mode, k>>
    BY <1>2 DEF FillPad, Types
  <2>2. Gone' = Gone /\ Begun' = Begun
    BY <2>1 DEF Gone, Begun
  <2>3. CASE HasSpace(Ring, Head(port))
    <3>1. ~PadUsed /\ proc = "write"
      BY <1>2, <2>3, Zenon DEF FillPad
    <3>2. pad = <<>> /\ mode \notin {"parse", "put"}
      BY <3>1 DEF PadUsed, Genuine
    <3>3. pad' = <<Head(port)>> /\ port' = port
      BY <1>2, <2>1, <2>3, <3>2, HeadSize, OverlayEmpty DEF FillPad
    <3>4. Rising(pad') /\ Under(pad', nextEvent)
      BY <2>1, <3>3, HeadPart, PartKeeps DEF Arranged
    <3>. QED BY <2>1, <2>2, <3>2, <3>3, <3>4 DEF Arranged
  <2>4. CASE ~HasSpace(Ring, Head(port))
    <3>1. port' = Tail(port) /\ pad' = pad
      BY <1>2, <2>4 DEF FillPad
    <3>2. PICK t : t = Tail(port)
      OBVIOUS
    <3>3. PartOf(t, port, 1)
      BY <2>1, <3>2, TailPart
    <3>4. /\ Rising(t) /\ Under(t, nextEvent) /\ Follows(t, Gone)
          /\ k = "process" => Lower(cache, t)
          /\ mode = "put" => Lower(pad, t)
      BY <2>1, <3>3, PartKeeps DEF Arranged
    <3>5. k = "process" => \A i \in 1 .. Len(t) : t[i].time = offset - 1
      BY <3>3 DEF PartOf, Arranged
    <3>6. port' = t
      BY <3>1, <3>2
    <3>. QED BY <2>1, <2>2, <3>1, <3>4, <3>5, <3>6 DEF Arranged
  <2>. QED BY <2>3, <2>4
<1>3. CASE PutEvent
  <2>1. /\ port # <<>> /\ port \in Seq(Events) /\ rb \in Seq(Events) /\ cache \in Seq(Events)
        /\ batch \in Seq(Events) /\ got \in Nat /\ nextEvent \in Nat /\ offset \in Nat
    BY <1>3, MidiAssumption DEF PutEvent, Control, Types
  <2>2. PICK w, t : w = <<Head(port)>> /\ t = Tail(port)
    OBVIOUS
  <2>3. pad = w /\ mode \notin {"parse", "put"}
    BY <1>3, <2>2 DEF PutEvent, Genuine
  <2>4. FirstBytes(pad, Head(port).size) = w
    BY <2>1, <2>2, <2>3, HeadSize, FirstOfOne
  <2>5. /\ port' = t /\ pad' = <<>>
        /\ UNCHANGED <<got, batch, open, offset, nextEvent, mode, k>>
    BY <1>3, <2>2, <2>3 DEF PutEvent, PadUsed
  <2>6. PartOf(w, port, 0) /\ PartOf(t, port, 1) /\ w \in Seq(Events)
    BY <2>1, <2>2, HeadPart, TailPart DEF PartOf
  <2>7. /\ Len(w) = 1 /\ w[1] = port[1] /\ 1 \in 1 .. Len(port) /\ Lower(w, t)
    BY <2>1, <2>2, HeadPart DEF Arranged
  <2>8. /\ Rising(w) /\ Under(w, nextEvent) /\ Follows(w, Gone)
        /\ k = "process" => Lower(cache, w)
    BY <2>1, <2>6, PartKeeps DEF Arranged
  <2>9. /\ Rising(t) /\ Under(t, nextEvent) /\ Follows(t, Gone)
        /\ k = "process" => Lower(cache, t)
    BY <2>1, <2>6, PartKeeps DEF Arranged
  <2>10. k = "process" => \A i \in 1 .. Len(t) : t[i].time = offset - 1
    BY <2>6 DEF PartOf, Arranged
  <2>11. CASE Cached
    <3>1. PICK c : c = cache \o w
      OBVIOUS
    <3>2. /\ cache' = c /\ rb' = rb /\ k = "process" /\ mode \in BusyModes
      BY <1>3, <2>4, <2>11, <3>1 DEF PutEvent, Cached, Control
    <3>3. Gone' = Gone /\ Begun
      BY <2>5, <3>2 DEF Gone, Begun
    <3>4. Rising(c) /\ Under(c, nextEvent) /\ Lower(c, t) /\ Follows(c, Gone)
      <4>1. /\ Rising(cache) /\ Rising(w) /\ Lower(cache, w) /\ Lower(cache, t) /\ Lower(w, t)
            /\ Under(cache, nextEvent) /\ Under(w, nextEvent)
            /\ Follows(cache, Gone) /\ Follows(w, Gone)
        BY <2>7, <2>8, <2>9, <3>2 DEF Arranged, BusyModes
      <4>2. cache \in Seq(Events) /\ w \in Seq(Events) /\ c = cache \o w
        BY <2>1, <2>6, <3>1
      <4>. QED BY <4>1, <4>2, ConcatKeeps
    <3>5. /\ \A i \in 1 .. Len(c) : c[i].time <= offset - 1
          /\ \A i \in 1 .. Len(c) : \A j \in 1 .. Len(open) :
                c[i].time < offset - 1 => c[i].id < open[j].id
      <4>1. w[1].time = offset - 1
        BY <2>7, <3>2 DEF Arranged
      <4>2. \A i \in 1 .. Len(c) :
               \/ i \in 1 .. Len(cache) /\ c[i] = cache[i]
               \/ \E l \in 1 .. Len(w) : i = Len(cache) + l /\ c[i] = w[l]
        <5>1. cache \in Seq(Events) /\ w \in Seq(Events) /\ c = cache \o w
          BY <2>1, <2>6, <3>1
        <5>2. MadeOf(c, cache, w)
          BY <5>1, ConcatCases, Zenon
        <5>. QED BY <5>2, Zenon DEF MadeOf
      <4>3. \A i \in 1 .. Len(c) :
               (i \in 1 .. Len(cache) /\ c[i] = cache[i]) \/ c[i].time = offset - 1
        BY <2>7, <4>1, <4>2
      <4>4. /\ \A i \in 1 .. Len(cache) : cache[i].time <= offset - 1
            /\ \A i \in 1 .. Len(cache) : \A j \in 1 .. Len(open) :
                cache[i].time < offset - 1 => cache[i].id < open[j].id
        BY <3>2 DEF Arranged
      <4>5. offset - 1 <= offset - 1 /\ ~(offset - 1 < offset - 1)
        BY <2>1
      <4>. QED BY <4>3, <4>4, <4>5
    <3>6. Begun' /\ Rising(open) /\ Under(open, nextEvent) /\ Follows(open, Gone)
      BY <2>5, <3>3 DEF Begun, Arranged
    <3>. QED BY <2>3, <2>5, <2>9, <2>10, <3>2, <3>3, <3>4, <3>5, <3>6, NothingArranged
         DEF Arranged, BusyModes
  <2>12. CASE ~Cached
    <3>1. PICK q : q = rb \o w
      OBVIOUS
    <3>2. /\ rb' = q /\ cache' = cache /\ k # "process" /\ mode \in {"cycle", "lastcycle"}
      BY <1>3, <2>4, <2>12, <3>1 DEF PutEvent, Cached, Control
    <3>3. InOrder(got, batch, q, nextEvent)
      BY <2>1, <2>6, <2>8, <3>1, InOrderConcat DEF Arranged, Gone
    <3>4. Follows(t, GoneOf(got, batch, q))
      BY <2>1, <2>6, <2>7, <2>9, <3>1, GoneConcat DEF Gone
    <3>5. Gone' = GoneOf(got, batch, q)
      BY <2>5, <3>2 DEF Gone
    <3>6. mode = "cycle" => cache = <<>>
      BY DEF Arranged
    <3>7. k = "blocked" /\ ~Begun'
      BY <2>5, <3>2 DEF Control, BusyModes, Begun
    <3>. QED BY <2>3, <2>5, <2>9, <3>2, <3>3, <3>4, <3>5, <3>6, <3>7, NothingArranged
       DEF Arranged
  <2>. QED BY <2>11, <2>12
<1>4. ASSUME NEW lens \in CycleLens[use], LiveCycle(lens)
      PROVE  Arranged'
  <2>1. Arrive(lens, 0) /\ 0 \in Nat
    BY <1>4 DEF LiveCycle, Types
  <2>2. /\ Len(lens) \in Nat /\ port' \in Seq(Events) /\ Len(port') = Len(lens)
        /\ \A i \in 1 .. Len(lens) : port'[i].id = nextEvent + i - 1 /\ port'[i].time = 0
        /\ nextEvent' = nextEvent + Len(lens) /\ nextEvent \in Nat
    BY <2>1, Arrived, MidiAssumption DEF Types
  <2>3. Rising(port') /\ Under(port', nextEvent') /\ nextEvent' \in Nat /\ nextEvent <= nextEvent'
    BY <2>2 DEF Rising, Under
  <2>4. \A i \in 1 .. Len(port') : nextEvent <= port'[i].id
    BY <2>2
  <2>5. /\ rb \in Seq(Events) /\ batch \in Seq(Events) /\ cache \in Seq(Events)
        /\ pad \in Seq(Events) /\ got \in Nat
    BY DEF Types
  <2>6. /\ Under(batch, nextEvent') /\ Under(rb, nextEvent') /\ Under(cache, nextEvent')
        /\ Under(pad, nextEvent') /\ got < nextEvent'
    BY <2>2, <2>3, <2>5, UnderMore DEF Arranged, InOrder
  <2>7. InOrder(got, batch, rb, nextEvent')
    BY <2>6 DEF Arranged, InOrder
  <2>8. Follows(port', Gone)
    BY <2>2, <2>4, <2>5, GoneFollows DEF Arranged, Gone
  <2>9. /\ mode = "live" /\ mode' = "cycle" /\ k = "blocked"
        /\ UNCHANGED <<got, batch, rb, cache, pad, open, offset, k>>
    BY <1>4 DEF LiveCycle, Control, BusyModes
  <2>10. Gone' = Gone /\ ~Begun' /\ cache = <<>>
    BY <2>9 DEF Gone, Begun, Arranged
  <2>. QED BY <2>3, <2>6, <2>7, <2>8, <2>9, <2>10, NothingArranged DEF Arranged
<1>5. CASE ContinueLastCycle
  <2>1. /\ port' = open /\ mode = "last" /\ mode' = "lastcycle" /\ k = "blocked"
        /\ UNCHANGED <<got, batch, rb, cache, pad, open, offset, nextEvent, k>>
    BY <1>5 DEF ContinueLastCycle, Control, BusyModes
  <2>2. Gone' = Gone /\ Begun /\ ~Begun'
    BY <2>1 DEF Gone, Begun
  <2>. QED BY <2>1, <2>2 DEF Arranged
<1>6. ASSUME NEW collect \in BOOLEAN, NEW byLisp \in BOOLEAN, CycleEnd(collect, byLisp)
      PROVE  Arranged'
  <2>1. CASE byLisp
    BY <1>6, <2>1 DEF CycleEnd
  <2>2. CASE ~byLisp
    <3>1. /\ mode = "run" /\ k = "blocked" /\ mode' \in {"live", "gc"} /\ k' \in {"blocked", "wait"}
          /\ UNCHANGED <<got, batch, rb, cache, port, pad, open, offset, nextEvent>>
      BY <1>6 DEF CycleEnd, Control, BusyModes
    <3>2. Gone' = Gone /\ ~Begun' /\ cache = <<>>
      BY <3>1 DEF Gone, Begun, Arranged
    <3>. QED BY <3>1, <3>2, NothingArranged DEF Arranged
  <2>. QED BY <2>1, <2>2
<1>7. ASSUME NEW collect \in BOOLEAN, LastCycleEnd(collect)
      PROVE  Arranged'
  <2>1. /\ mode' \in {"live", "gc"} /\ k' \in {"blocked", "wait"}
        /\ cache' = <<>> /\ open' = <<>>
        /\ UNCHANGED <<got, batch, rb, port, pad, nextEvent>>
    BY <1>7 DEF LastCycleEnd, ClearCachedEvents, Recounted, Control, BusyModes
  <2>2. Gone' = Gone /\ ~Begun'
    BY <2>1 DEF Gone, Begun
  <2>. QED BY <2>1, <2>2, NothingArranged DEF Arranged
<1>8. CASE Resume
  <2>1. CASE suspended = 0
    <3>1. /\ mode' = "live" /\ k' = "blocked" /\ cache' = <<>> /\ open' = <<>>
          /\ UNCHANGED <<got, batch, rb, port, pad, nextEvent>>
      BY <1>8, <2>1 DEF Resume, ClearCachedEvents, Recounted, Control, BusyModes
    <3>2. Gone' = Gone /\ ~Begun'
      BY <3>1 DEF Gone, Begun
    <3>. QED BY <3>1, <3>2, NothingArranged DEF Arranged
  <2>2. CASE suspended # 0
    <3>1. restarts < RestartLimit /\ ~(restarts >= RestartLimit)
      BY MidiAssumption, SMTT(30) DEF Counted, Types
    <3>2. early' = TRUE
      BY <1>8, <2>2, <3>1 DEF Resume
    <3>. QED BY <3>2
  <2>. QED BY <2>1, <2>2
<1>9. CASE Peek
  <2>0. /\ mode = "recover" /\ UNCHANGED <<got, batch, rb, cache, port, open, offset, nextEvent, k>>
    BY <1>9 DEF Peek
  <2>1. CASE cache = <<>>
    <3>1. mode' = "recrun" /\ UNCHANGED pad
      BY <1>9, <2>1 DEF Peek
    <3>. QED BY <2>0, <3>1, ArrangedSame
  <2>2. CASE cache # <<>>
    <3>1. mode' = "parse" /\ pad' = cache
      BY <1>9, <2>2 DEF Peek
    <3>2. Gone' = Gone /\ (Begun' => Begun)
      BY <2>0, <3>1 DEF Gone, Begun
    <3>. QED BY <2>0, <3>1, <3>2 DEF Arranged
  <2>. QED BY <2>1, <2>2
<1>10. CASE TakeCached
  <2>0. /\ mode = "parse" /\ UNCHANGED <<got, batch, rb, port, open, offset, nextEvent, k>>
        /\ cache \in Seq(Events) /\ Len(cache) \in Nat
        /\ now \in Nat /\ offset \in Nat /\ suspended \in Nat /\ suspended > 0
    BY <1>10 DEF TakeCached, Types, Counted
  <2>1. CASE ReadSpace > 0 /\ ReadSpace <= RingBytes - Bytes(rb)
    <3>1. PICK w, m : /\ m \in 1 .. Len(cache) /\ w = FirstBytes(cache, ReadSpace)
                      /\ w = SubSeq(cache, 1, m) /\ \A i \in 1 .. m : cache[i].time <= now
      BY <2>0, <2>1, TakenIs
    <3>2. m \in 0 .. Len(cache) /\ m \in Nat
      BY <2>0, <3>1
    <3>3. /\ PartOf(w, cache, 0) /\ Len(w) = m
          /\ \A i \in 1 .. m : w[i] = cache[i] /\ i \in 1 .. Len(cache)
      BY <2>0, <3>1, <3>2, FirstPart, PartsAre
    <3>4. PICK c : c = SubSeq(cache, m + 1, Len(cache))
      OBVIOUS
    <3>5. pad' = w /\ cache' = c /\ mode' = "put"
      BY <1>10, <2>1, <3>1, <3>3, <3>4 DEF TakeCached
    <3>6. PartOf(c, cache, m)
      BY <2>0, <3>2, <3>4, LastPart
    <3>7. Lower(w, c)
      BY <2>0, <3>1, <3>2, <3>4, PartsInOrder DEF Arranged
    <3>8. /\ Rising(w) /\ Under(w, nextEvent) /\ Follows(w, Gone)
          /\ k = "process" => Lower(w, port)
      BY <2>0, <3>3, PartKeeps DEF Arranged
    <3>9. /\ Rising(c) /\ Under(c, nextEvent) /\ Follows(c, Gone)
          /\ k = "process" => Lower(c, port)
      BY <2>0, <3>2, <3>6, PartKeeps DEF Arranged
    <3>10. Lower(w, port)
      <4>1. k # "process" => port = <<>>
        BY <2>0 DEF Control
      <4>. QED BY <3>8, <4>1, NothingArranged
    <3>11. k = "process" =>
             /\ \A i \in 1 .. Len(c) : c[i].time <= offset - 1
             /\ \A i \in 1 .. Len(c) : \A j \in 1 .. Len(open) :
                   c[i].time < offset - 1 => c[i].id < open[j].id
      BY <3>6 DEF PartOf, Arranged
    <3>12. k = "wait" => \A i \in 1 .. Len(c) : c[i].time < offset
      BY <3>6 DEF PartOf, Arranged
    <3>13. ASSUME k = "process" PROVE Lower(w, open)
      <4>1. now < offset - 1
        BY <2>0, <3>13 DEF Counted, InCycle
      <4>2. \A i \in 1 .. m : cache[i].time \in Nat /\ cache[i].time <= now
        BY <2>0, <3>1, <3>3, TimesNat
      <4>3. \A i \in 1 .. m : cache[i].time < offset - 1 /\ i \in 1 .. Len(cache)
        BY <2>0, <3>3, <4>1, <4>2
      <4>4. \A i \in 1 .. m : \A j \in 1 .. Len(open) : cache[i].id < open[j].id
        BY <3>13, <4>3 DEF Arranged
      <4>. QED BY <3>3, <4>4 DEF Lower
    <3>14. Gone' = Gone /\ (Begun' => Begun)
      BY <2>0, <3>5 DEF Gone, Begun
    <3>. QED BY <2>0, <3>5, <3>7, <3>8, <3>9, <3>10, <3>11, <3>12, <3>13, <3>14 DEF Arranged
  <2>2. CASE ~(ReadSpace > 0 /\ ReadSpace <= RingBytes - Bytes(rb))
    <3>0. proc # "put"
      BY <2>0 DEF Genuine
    <3>1. mode' = "recrun" /\ pad' = <<>> /\ cache' = cache
      BY <1>10, <2>2, <3>0, Zenon DEF TakeCached
    <3>2. Gone' = Gone /\ (Begun' => Begun)
      BY <2>0, <3>1 DEF Gone, Begun
    <3>. QED BY <2>0, <3>1, <3>2, NothingArranged DEF Arranged
  <2>. QED BY <2>1, <2>2
<1>11. CASE PutCached
  <2>0. /\ mode = "put" /\ proc # "put" /\ mode' = "recrun"
        /\ UNCHANGED <<got, batch, cache, port, open, offset, nextEvent, k>>
        /\ pad \in Seq(Events) /\ rb \in Seq(Events) /\ batch \in Seq(Events)
        /\ Len(pad) \in Nat /\ got \in Nat /\ nextEvent \in Nat
    <3>1. mode = "put" /\ proc # "put"
      BY <1>11 DEF PutCached, Genuine
    <3>. QED BY <1>11, <3>1, MidiAssumption, SMTT(30) DEF PutCached, Types
  <2>1. PICK w, m : m \in 1 .. Len(pad) /\ w = FirstBytes(pad, size) /\ w = SubSeq(pad, 1, m)
    <3>1. Len(pad) \in 1 .. Len(pad) /\ SubSeq(pad, 1, Len(pad)) = pad /\ Bytes(pad) = size
      BY <2>0 DEF Genuine
    <3>. QED BY <2>0, <3>1, FirstBytesEnd
  <2>2. PartOf(w, pad, 0) /\ w \in Seq(Events)
    <3>1. m \in 0 .. Len(pad)
      BY <2>0, <2>1
    <3>. QED BY <2>0, <2>1, <3>1, FirstPart DEF PartOf
  <2>3. /\ Rising(w) /\ Under(w, nextEvent) /\ Follows(w, Gone)
        /\ Lower(w, cache) /\ Lower(w, port)
        /\ k = "process" => Lower(w, open)
    BY <2>0, <2>2, PartKeeps DEF Arranged
  <2>4. PICK q : q = rb \o w
    OBVIOUS
  <2>5. rb' = q /\ pad' = <<>>
    BY <1>11, <2>0, <2>1, <2>4 DEF PutCached
  <2>6. InOrder(got, batch, q, nextEvent)
    BY <2>0, <2>2, <2>3, <2>4, InOrderConcat DEF Arranged, Gone
  <2>7. Gone' = GoneOf(got, batch, q)
    BY <2>0, <2>5 DEF Gone
  <2>8. Follows(port, Gone') /\ Follows(cache, Gone')
    BY <2>0, <2>2, <2>3, <2>4, <2>7, GoneConcat DEF Arranged, Gone
  <2>9. Begun' => Begun /\ k = "process"
    BY <2>0 DEF Begun
  <2>10. Begun' => Follows(open, Gone')
    BY <2>0, <2>2, <2>3, <2>4, <2>7, <2>9, GoneConcat DEF Arranged, Gone
  <2>. QED BY <2>0, <2>5, <2>6, <2>8, <2>9, <2>10, NothingArranged DEF Arranged
<1>12. ASSUME NEW lens \in CycleLens[use], CycleWait(lens)
      PROVE  Arranged'
  <2>0. start = 0 /\ offset \in Nat /\ start + offset = offset
    BY DEF Counted, Types
  <2>1. Arrive(lens, offset) /\ offset \in Nat
    BY <1>12, <2>0 DEF CycleWait
  <2>2. /\ Len(lens) \in Nat /\ port' \in Seq(Events) /\ Len(port') = Len(lens)
        /\ \A i \in 1 .. Len(lens) : port'[i].id = nextEvent + i - 1 /\ port'[i].time = offset
        /\ nextEvent' = nextEvent + Len(lens) /\ nextEvent \in Nat
    <3>1. use \in Uses /\ nextEvent \in 1 .. MaxEvents + 1
      BY DEF Types
    <3>2. nextEvent \in Nat
      BY <3>1, MidiAssumption
    <3>. QED BY <2>1, <3>1, <3>2, Arrived, ZenonT(30)
  <2>3. Rising(port') /\ Under(port', nextEvent') /\ nextEvent' \in Nat /\ nextEvent <= nextEvent'
    BY <2>2 DEF Rising, Under
  <2>4. \A i \in 1 .. Len(port') : nextEvent <= port'[i].id
    BY <2>2
  <2>5. /\ rb \in Seq(Events) /\ batch \in Seq(Events) /\ cache \in Seq(Events)
        /\ pad \in Seq(Events) /\ got \in Nat
    BY DEF Types
  <2>6. /\ Under(batch, nextEvent') /\ Under(rb, nextEvent') /\ Under(cache, nextEvent')
        /\ Under(pad, nextEvent') /\ got < nextEvent'
    BY <2>2, <2>3, <2>5, UnderMore DEF Arranged, InOrder
  <2>7. InOrder(got, batch, rb, nextEvent')
    BY <2>6 DEF Arranged, InOrder
  <2>8. Follows(port', Gone)
    BY <2>2, <2>4, <2>5, GoneFollows DEF Arranged, Gone
  <2>9. /\ k = "wait" /\ k' = "process" /\ offset' = offset + 1 /\ open' = port'
        /\ mode \in BusyModes /\ UNCHANGED <<got, batch, rb, cache, pad, mode>>
    BY <1>12 DEF CycleWait, Control
  <2>10. Gone' = Gone /\ offset' - 1 = offset
    BY <2>0, <2>9 DEF Gone
  <2>11. Lower(cache, port') /\ Lower(pad, port')
    BY <2>2, <2>4, <2>5, UnderLower DEF Arranged
  <2>12. /\ \A i \in 1 .. Len(cache) : cache[i].time <= offset
         /\ \A i \in 1 .. Len(port') : port'[i].time = offset
    <3>1. \A i \in 1 .. Len(cache) : cache[i].time < offset /\ cache[i].time \in Nat
      BY <2>5, <2>9, TimesNat DEF Arranged
    <3>2. \A i \in 1 .. Len(cache) : cache[i].time <= offset
      BY <2>0, <3>1
    <3>. QED BY <2>2, <3>2
  <2>13. \A i \in 1 .. Len(cache) : \A j \in 1 .. Len(port') : cache[i].id < port'[j].id
    BY <2>11 DEF Lower
  <2>. QED BY <2>3, <2>6, <2>7, <2>8, <2>9, <2>10, <2>11, <2>12, <2>13 DEF Arranged, BusyModes
<1>13. CASE CycleDone
  <2>1. /\ k = "process" /\ mode \in BusyModes /\ Begun
        /\ UNCHANGED <<got, batch, rb, cache, port, pad, open, offset, nextEvent>>
    BY <1>13 DEF CycleDone, Control, Begun
  <2>2. Gone' = Gone
    BY <2>1 DEF Gone
  <2>3. CASE mode = "idle" /\ suspended = 0
    <3>1. k' = "blocked" /\ mode' = "last"
      BY <1>13, <2>3 DEF CycleDone
    <3>. QED BY <2>1, <2>2, <3>1 DEF Arranged
  <2>4. CASE ~(mode = "idle" /\ suspended = 0)
    <3>1. k' = "wait" /\ mode' = mode
      BY <1>13, <2>4 DEF CycleDone
    <3>2. \A i \in 1 .. Len(cache) : cache[i].time < offset
      <4>1. \A i \in 1 .. Len(cache) : cache[i].time <= offset - 1 /\ cache[i].time \in Nat
        BY <2>1, TimesNat DEF Arranged, Types
      <4>. QED BY <4>1 DEF Types
    <3>3. ~Begun'
      BY <2>1, <3>1 DEF Begun, BusyModes
    <3>. QED BY <2>1, <2>2, <3>1, <3>2, <3>3 DEF Arranged
  <2>. QED BY <2>3, <2>4
<1>14. CASE FlushPending
  <2>1. rb' = <<>> /\ UNCHANGED <<got, batch, cache, port, pad, open, offset, nextEvent, mode, k>>
    BY <1>14 DEF FlushPending
  <2>2. InOrder(got', batch', rb', nextEvent)
    BY <2>1, NothingArranged DEF Arranged, InOrder
  <2>3. Gone' \subseteq Gone
    BY <2>1 DEF Gone, GoneOf
  <2>. QED BY <2>1, <2>2, <2>3, ArrangedReads
<1>15. CASE RecvLoop
  <2>1. /\ batch' \in {<<>>, batch}
        /\ UNCHANGED <<got, rb, cache, port, pad, open, offset, nextEvent, mode, k>>
    BY <1>15 DEF RecvLoop
  <2>2. InOrder(got', batch', rb', nextEvent)
    BY <2>1, NothingArranged DEF Arranged, InOrder
  <2>3. Gone' \subseteq Gone
    BY <2>1 DEF Gone, GoneOf
  <2>. QED BY <2>1, <2>2, <2>3, ArrangedReads
<1>16. CASE ReadEvent
  <2>1. rb # <<>> /\ rb \in Seq(Events) /\ batch \in Seq(Events)
    BY <1>16 DEF ReadEvent, Reading, ReaderFits, Types
  <2>2. PICK w, t, p : w = <<Head(rb)>> /\ t = Tail(rb) /\ p = batch \o w
    OBVIOUS
  <2>3. PartOf(w, rb, 0) /\ PartOf(t, rb, 1) /\ w \in Seq(Events) /\ t \in Seq(Events)
    BY <2>1, <2>2, HeadPart, TailPart DEF PartOf
  <2>4. /\ batch' = p /\ rb' = t
        /\ UNCHANGED <<got, cache, port, pad, open, offset, nextEvent, mode, k>>
    BY <1>16, <2>1, <2>2 DEF ReadEvent
  <2>5. Rising(rb) /\ Under(rb, nextEvent) /\ Lower(batch, rb) /\ Follows(rb, {got})
    BY DEF Arranged, InOrder, Follows
  <2>6. /\ Rising(w) /\ Under(w, nextEvent) /\ Lower(batch, w) /\ Follows(w, {got})
        /\ Rising(t) /\ Under(t, nextEvent) /\ Lower(batch, t) /\ Follows(t, {got})
    BY <2>1, <2>3, <2>5, PartKeeps
  <2>7. Lower(w, t) /\ Follows(batch, {got}) /\ Rising(batch) /\ Under(batch, nextEvent)
    BY <2>1, <2>2, <2>5, HeadPart DEF Arranged, InOrder, Follows
  <2>8. Rising(p) /\ Under(p, nextEvent) /\ Lower(p, t) /\ Follows(p, {got})
    BY <2>1, <2>2, <2>3, <2>6, <2>7, ConcatKeeps
  <2>9. InOrder(got', batch', rb', nextEvent)
    BY <2>4, <2>6, <2>8 DEF InOrder, Follows, Arranged
  <2>10. Gone' \subseteq Gone
    <3>1. \A i \in 1 .. Len(p) :
             \/ i \in 1 .. Len(batch) /\ p[i] = batch[i]
             \/ \E l \in 1 .. Len(w) : i = Len(batch) + l /\ p[i] = w[l]
      <4>1. MadeOf(p, batch, w)
        BY <2>1, <2>2, <2>3, ConcatCases, Zenon
      <4>. QED BY <4>1, Zenon DEF MadeOf
    <3>2. \A i \in 1 .. Len(w) : \E j \in 1 .. Len(rb) : w[i] = rb[j]
      BY <2>3 DEF PartOf
    <3>3. \A i \in 1 .. Len(t) : \E j \in 1 .. Len(rb) : t[i] = rb[j]
      BY <2>3 DEF PartOf
    <3>4. \A i \in 1 .. Len(p) : p[i].id \in Gone
      BY <3>1, <3>2, ZenonT(30) DEF Gone, GoneOf
    <3>5. \A i \in 1 .. Len(t) : t[i].id \in Gone
      BY <3>3 DEF Gone, GoneOf
    <3>. QED BY <2>4, <3>4, <3>5, SMTT(30) DEF Gone, GoneOf
  <2>. QED BY <2>4, <2>9, <2>10, ArrangedReads
<1>17. CASE SkipEvent
  <2>1. rb # <<>> /\ rb \in Seq(Events) /\ batch \in Seq(Events)
    BY <1>17 DEF SkipEvent, Reading, ReaderFits, Types
  <2>2. PICK t : t = Tail(rb)
    OBVIOUS
  <2>3. PartOf(t, rb, 1)
    BY <2>1, <2>2, TailPart
  <2>4. /\ rb' = t
        /\ UNCHANGED <<got, batch, cache, port, pad, open, offset, nextEvent, mode, k>>
    BY <1>17, <2>2 DEF SkipEvent
  <2>5. Rising(rb) /\ Under(rb, nextEvent) /\ Lower(batch, rb) /\ Follows(rb, {got})
    BY DEF Arranged, InOrder, Follows
  <2>6. Rising(t) /\ Under(t, nextEvent) /\ Lower(batch, t) /\ Follows(t, {got})
    BY <2>1, <2>3, <2>5, PartKeeps
  <2>7. InOrder(got', batch', rb', nextEvent)
    BY <2>4, <2>6 DEF InOrder, Follows, Arranged
  <2>8. Gone' \subseteq Gone
    <3>1. \A i \in 1 .. Len(t) : \E j \in 1 .. Len(rb) : t[i] = rb[j]
      BY <2>3 DEF PartOf
    <3>. QED BY <2>4, <3>1 DEF Gone, GoneOf
  <2>. QED BY <2>4, <2>7, <2>8, ArrangedReads
<1>18. CASE ReadDone
  <2>1. /\ rb' \in {<<>>, rb}
        /\ UNCHANGED <<got, batch, cache, port, pad, open, offset, nextEvent, mode, k>>
    BY <1>18 DEF ReadDone
  <2>2. InOrder(got', batch', rb', nextEvent)
    BY <2>1, NothingArranged DEF Arranged, InOrder
  <2>3. Gone' \subseteq Gone
    BY <2>1 DEF Gone, GoneOf
  <2>. QED BY <2>1, <2>2, <2>3, ArrangedReads
<1>19. CASE Deliver
  <2>1. /\ got' = IF batch = <<>> THEN got ELSE batch[Len(batch)].id
        /\ batch' = <<>> /\ UNCHANGED <<rb, cache, port, pad, open, offset, nextEvent, mode, k>>
    BY <1>19, LastDelivered DEF Deliver, Types
  <2>2. batch # <<>> => Len(batch) \in 1 .. Len(batch)
    BY DEF Types
  <2>3. /\ got' < nextEvent /\ \A i \in 1 .. Len(rb) : got' < rb[i].id
    BY <2>1, <2>2 DEF Arranged, InOrder, Under, Lower
  <2>4. InOrder(got', batch', rb', nextEvent)
    BY <2>1, <2>3, NothingArranged DEF Arranged, InOrder
  <2>5. Gone' \subseteq Gone
    BY <2>1, <2>2 DEF Gone, GoneOf
  <2>. QED BY <2>1, <2>4, <2>5, ArrangedReads
<1>. QED BY <1>1, <1>2, <1>3, <1>4, <1>5, <1>6, <1>7, <1>8, <1>9, <1>10, <1>11, <1>12, 
         <1>13, <1>14, <1>15, <1>16, <1>17, <1>18, <1>19
     DEF Next, ProcessStep, LispStep, CStep, RecvStep, StopStep
-----------------------------------------------------------------------------
(* The inductive invariant *)

LEMMA MidiInit ==
    ASSUME Init
    PROVE  MidiInv
<1>1. Types /\ Control
  <2>1. <<>> \in Seq(Events)
    OBVIOUS
  <2>2. MaxEvents \in Nat
    BY MidiAssumption
  <2>3. Types
    <3>1. /\ rb \in Seq(Events) /\ cache \in Seq(Events) /\ pad \in Seq(Events)
          /\ port \in Seq(Events) /\ open \in Seq(Events) /\ batch \in Seq(Events)
      BY <2>1 DEF Init
    <3>2. /\ suspended \in Nat /\ restarts \in Nat /\ now \in Nat /\ start \in Nat
          /\ offset \in Nat /\ size \in Nat /\ n \in Nat /\ space \in Int /\ remain \in Nat
          /\ nextEvent \in 1 .. MaxEvents + 1 /\ got \in Nat
      BY <2>2 DEF Init
    <3>3. use \in Uses /\ toSignal \in BOOLEAN
      BY DEF Init
    <3>. QED BY <3>1, <3>2, <3>3 DEF Types
  <2>4. Control
    BY DEF Init, Control, LispModes
  <2>. QED BY <2>3, <2>4
<1>2. Counted
  BY MidiAssumption DEF Init, Counted, Earlier, InCycle
<1>3. RingsFit
  BY BytesEmpty, MidiAssumption DEF Init, RingsFit
<1>4. ReaderFits
  BY DEF Init, ReaderFits
<1>5. Genuine
  BY DEF Init, Genuine, Real
<1>6. Arranged
  <2>1. InOrder(got, batch, rb, nextEvent)
    BY NothingArranged DEF Init, InOrder
  <2>. QED BY <2>1, NothingArranged DEF Init, Arranged, Begun
<1>7. Outputs
  BY EmptyOutput, MidiAssumption DEF Init, Outputs
<1>. QED BY <1>1, <1>2, <1>3, <1>4, <1>5, <1>6, <1>7 DEF MidiInv

LEMMA MidiNext ==
    ASSUME MidiInv, [Next]_vars
    PROVE  MidiInv'
<1>1. Types /\ Control /\ Counted /\ RingsFit /\ ReaderFits /\ Outputs
  BY DEF MidiInv
<1>2. ~raced => Genuine
  BY DEF MidiInv
<1>3. Types' /\ Control' /\ Counted' /\ Outputs'
  BY <1>1, TypesNext, ControlNext, CountedNext, OutputsNext
<1>4. RingsFit'
  BY <1>1, <1>3, RingsFitNext
<1>5. ReaderFits'
  BY <1>1, <1>2, ReaderFitsNext
<1>6. ~raced' => Genuine'
  BY <1>1, <1>2, HistoryStays, GenuineNext
<1>7. ASSUME ~raced', ~early' PROVE Arranged'
  <2>1. ~raced /\ ~early
    BY <1>7, HistoryStays
  <2>2. Genuine /\ Arranged
    BY <2>1 DEF MidiInv
  <2>. QED BY <1>1, <1>7, <2>1, <2>2, ArrangedNext
<1>. QED BY <1>3, <1>4, <1>5, <1>6, <1>7 DEF MidiInv

\* MidiInv holds in all reachable states.
THEOREM MidiSafe == Spec => []MidiInv
<1>1. Init => MidiInv
  BY MidiInit
<1>2. MidiInv /\ [Next]_vars => MidiInv'
  BY MidiNext
<1>. QED BY <1>1, <1>2, PTL DEF Spec

-----------------------------------------------------------------------------
(* The properties *)

LEMMA SuspendedBound ==
    ASSUME Types, Counted
    PROVE  suspended \in 0 .. MaxSuspended * (RestartLimit + 1) + 1
<1>1. PICK a, b, c \in Nat : a = restarts /\ b = RestartLimit /\ c = MaxSuspended
  BY MidiAssumption DEF Types
<1>2. PICK d \in Nat : a + d = b
  <2>1. a <= b /\ b - a \in Nat /\ a + (b - a) = b
    BY <1>1 DEF Counted
  <2>. QED BY <2>1
<1>3. c * (b + 1) = a * c + d * c + c /\ d * c \in Nat /\ a * c \in Nat
  <2>1. c * ((a + d) + 1) = a * c + d * c + c
    OBVIOUS
  <2>2. d * c \in Nat /\ a * c \in Nat
    OBVIOUS
  <2>. QED BY <1>2, <2>1, <2>2
<1>4. suspended <= a * c + offset + 1 /\ offset <= c /\ suspended \in Nat /\ offset \in Nat
  BY <1>1 DEF Counted, Earlier, Types
<1>5. suspended <= c * (b + 1) + 1
  BY <1>3, <1>4
<1>6. c * (b + 1) + 1 \in Nat
  BY <1>3
<1>. QED BY <1>1, <1>4, <1>5, <1>6

\* jm_read fills the buffer of its caller, not more, and gets on; the rings
\* never hold more than they may, whatever the threads do in the meantime.
THEOREM ReadInvCorrect == Spec => []ReadInv
<1>1. ASSUME MidiInv PROVE ReadInv
  <2>1. Types /\ Control /\ Counted /\ RingsFit /\ ReaderFits /\ Outputs
    BY <1>1 DEF MidiInv
  <2>2. TypeOK
    BY <2>1, SuspendedBound
       DEF TypeOK, Types, Control, LispModes, BusyModes, RingsFit, Outputs
  <2>3. ReadFits
    BY <2>1 DEF ReadFits, ReaderFits
  <2>4. ReadsProgress
    BY <2>1, Zenon DEF ReadsProgress, ReaderFits
  <2>. QED BY <2>2, <2>3, <2>4 DEF ReadInv
<1>. QED BY <1>1, MidiSafe, PTL

Increasing(e) == \A i, j \in 1 .. Len(e) : i < j => e[i] < e[j]
Below(e, f) == \A i \in 1 .. Len(e) : \A j \in 1 .. Len(f) : e[i] < f[j]

LEMMA IncreasingConcat ==
    ASSUME NEW e \in Seq(Nat), NEW f \in Seq(Nat), NEW h, h = e \o f,
           Increasing(e), Increasing(f), Below(e, f)
    PROVE  /\ h \in Seq(Nat) /\ Increasing(h)
           /\ \A x : Below(e, x) /\ Below(f, x) => Below(h, x)
<1>1. h \in Seq(Nat) /\ MadeOf(h, e, f)
  BY ConcatCases, Zenon
<1>2. PICK a, b : a = Len(e) /\ b = Len(f)
  OBVIOUS
<1>3. a \in Nat /\ b \in Nat
  BY <1>2
<1>4. \A i \in 1 .. Len(h) :
         \/ i \in 1 .. a /\ h[i] = e[i]
         \/ \E l \in 1 .. b : i = a + l /\ h[i] = f[l]
  BY <1>1, <1>2, ZenonT(30) DEF MadeOf
<1>5. /\ \A i, j \in 1 .. a : i < j => e[i] < e[j]
      /\ \A i, j \in 1 .. b : i < j => f[i] < f[j]
      /\ \A i \in 1 .. a : \A j \in 1 .. b : e[i] < f[j]
  BY <1>2 DEF Increasing, Below
<1>6. ASSUME NEW i \in 1 .. Len(h), NEW j \in 1 .. Len(h), i < j PROVE h[i] < h[j]
  <2>1. CASE i \in 1 .. a /\ h[i] = e[i] /\ j \in 1 .. a /\ h[j] = e[j]
    BY <1>5, <1>6, <2>1
  <2>2. CASE i \in 1 .. a /\ h[i] = e[i] /\ \E l \in 1 .. b : j = a + l /\ h[j] = f[l]
    BY <1>5, <2>2
  <2>3. CASE (\E l \in 1 .. b : i = a + l /\ h[i] = f[l]) /\ j \in 1 .. a
    BY <1>3, <1>6, <2>3
  <2>4. CASE /\ \E l \in 1 .. b : i = a + l /\ h[i] = f[l]
             /\ \E l \in 1 .. b : j = a + l /\ h[j] = f[l]
    <3>1. PICK l \in 1 .. b : i = a + l /\ h[i] = f[l]
      BY <2>4
    <3>2. PICK z \in 1 .. b : j = a + z /\ h[j] = f[z]
      BY <2>4
    <3>3. l < z
      BY <1>3, <1>6, <3>1, <3>2
    <3>. QED BY <1>5, <3>1, <3>2, <3>3
  <2>. QED BY <1>4, <2>1, <2>2, <2>3, <2>4
<1>7. ASSUME NEW x, Below(e, x), Below(f, x) PROVE Below(h, x)
  <2>1. /\ \A i \in 1 .. a : \A j \in 1 .. Len(x) : e[i] < x[j]
        /\ \A i \in 1 .. b : \A j \in 1 .. Len(x) : f[i] < x[j]
    BY <1>2, <1>7 DEF Below
  <2>2. \A i \in 1 .. Len(h) : \A j \in 1 .. Len(x) : h[i] < x[j]
    BY <1>4, <2>1
  <2>. QED BY <2>2 DEF Below
<1>. QED BY <1>1, <1>6, <1>7 DEF Increasing

LEMMA IdsSeq ==
    ASSUME NEW q \in Seq(Events)
    PROVE  /\ Ids(q) \in Seq(Nat) /\ Len(Ids(q)) = Len(q)
           /\ \A i \in 1 .. Len(q) : Ids(q)[i] = q[i].id
<1>1. PICK u : u = Ids(q)
  OBVIOUS
<1>2. \A e \in Events : e.id \in Nat
  BY DEF Events
<1>3. /\ Len(q) \in Nat /\ u \in Seq(Nat) /\ Len(u) = Len(q)
      /\ \A i \in 1 .. Len(q) : u[i] = q[i].id
  BY <1>1, <1>2 DEF Ids
<1>. QED BY <1>1, <1>3

\* The order of the identities in front of the receiver is that of the events.
LEMMA OrderOfIds ==
    ASSUME NEW g \in Nat, NEW p \in Seq(Events), NEW q \in Seq(Events), NEW m,
           InOrder(g, p, q, m), NEW t, t = <<g>> \o Ids(p) \o Ids(q)
    PROVE  \A i, j \in DOMAIN t : i < j => t[i] < t[j]
<1>1. PICK u, v, w, x : u = <<g>> /\ v = Ids(p) /\ w = Ids(q) /\ x = u \o v
  OBVIOUS
<1>2. /\ v \in Seq(Nat) /\ Len(v) = Len(p) /\ \A i \in 1 .. Len(p) : v[i] = p[i].id
      /\ w \in Seq(Nat) /\ Len(w) = Len(q) /\ \A i \in 1 .. Len(q) : w[i] = q[i].id
  BY <1>1, IdsSeq
<1>3. u \in Seq(Nat) /\ Len(u) = 1 /\ u[1] = g
  BY <1>1
<1>4. /\ Increasing(u) /\ Increasing(v) /\ Increasing(w)
      /\ Below(u, v) /\ Below(u, w) /\ Below(v, w)
  <2>1. Increasing(v) /\ Increasing(w)
    BY <1>2 DEF Increasing, InOrder, Rising
  <2>2. Below(v, w)
    BY <1>2 DEF Below, InOrder, Lower
  <2>3. Below(u, v) /\ Below(u, w)
    <3>1. \A i \in 1 .. Len(u) : u[i] = g
      BY <1>3
    <3>2. /\ \A i \in 1 .. Len(p) : g < p[i].id
          /\ \A i \in 1 .. Len(q) : g < q[i].id
      BY DEF InOrder
    <3>3. /\ \A i \in 1 .. Len(v) : g < v[i]
          /\ \A i \in 1 .. Len(w) : g < w[i]
      BY <1>2, <3>2
    <3>. QED BY <3>1, <3>3 DEF Below
  <2>4. Increasing(u)
    BY <1>3 DEF Increasing
  <2>. QED BY <2>1, <2>2, <2>3, <2>4
<1>5. x \in Seq(Nat) /\ Increasing(x) /\ Below(x, w)
  BY <1>1, <1>2, <1>3, <1>4, IncreasingConcat
<1>6. t = x \o w
  BY <1>1
<1>7. t \in Seq(Nat) /\ Increasing(t)
  BY <1>2, <1>4, <1>5, <1>6, IncreasingConcat
<1>8. DOMAIN t = 1 .. Len(t)
  BY <1>7
<1>. QED BY <1>7, <1>8 DEF Increasing

\* The receiver gets the events of a port in the order of their arrival and
\* none twice, also those that come through the cache of jm_process2 and
\* those of the last cycle, which C and Lisp both copy.
THEOREM ReceivedInOrderCorrect == Spec => []ReceivedInOrder
<1>1. ASSUME MidiInv PROVE ReceivedInOrder
  <2>1. ASSUME ~raced, ~early
        PROVE  LET order == <<got>> \o Ids(batch) \o Ids(rb)
               IN  \A i, j \in DOMAIN order : i < j => order[i] < order[j]
    <3>1. InOrder(got, batch, rb, nextEvent)
      BY <1>1, <2>1 DEF MidiInv, Arranged
    <3>2. got \in Nat /\ batch \in Seq(Events) /\ rb \in Seq(Events)
      BY <1>1 DEF MidiInv, Types
    <3>3. PICK t : t = <<got>> \o Ids(batch) \o Ids(rb)
      OBVIOUS
    <3>4. \A i, j \in DOMAIN t : i < j => t[i] < t[j]
      BY <3>1, <3>2, <3>3, OrderOfIds
    <3>. QED BY <3>3, <3>4
  <2>. QED BY <2>1 DEF ReceivedInOrder
<1>. QED BY <1>1, MidiSafe, PTL

\* The bytes of the output keep the order of the calls of jm_write, also
\* those that jm_write cached while Lisp recovered.
THEOREM OutputsInOrderCorrect == Spec => []OutputsInOrder
<1>1. ASSUME MidiInv PROVE OutputsInOrder
  <2>1. sent \in Seq(Pairs) /\ Sorted(sent)
    BY <1>1 DEF MidiInv, Outputs
  <2>2. DOMAIN sent = 1 .. Len(sent)
    BY <2>1
  <2>. QED BY <2>1, <2>2 DEF OutputsInOrder, Sorted, Before
<1>. QED BY <1>1, MidiSafe, PTL
=============================================================================
