------------------------ MODULE AudioThreadsProofs -------------------------
(***************************************************************************)
(* The proofs about AudioThreads, for every capacity of the two rings and  *)
(* every bound: type correctness, one thread at a time in the client, JACK *)
(* cycles that begin before they end, buffers that are freed when no       *)
(* thread is left, no cycle forgotten or run twice, and the right inputs   *)
(* for every recovered cycle.                                              *)
(*                                                                         *)
(* The inductive invariant, AudioInv, says for each place of the C thread  *)
(* where the Lisp thread and rt-stop can be (Places, Freed), who has the   *)
(* open cycle and where an entry "last" can be (Opened), when the rings    *)
(* are empty (Emptied), and that the numbers of the cycle counter and the  *)
(* blocks of the inputs cache follow each other (Accounted, CacheInStep,   *)
(* Recovering).                                                            *)
(***************************************************************************)
EXTENDS AudioThreads, SequenceTheorems, TLAPS

-----------------------------------------------------------------------------
(* The inductive invariant *)

\* The places of the C thread within a cycle with cached inputs, outside the
\* client, and without a thread.
InCycle == {"maybe1", "store", "maybe2", "maybe3", "signal"}
Out == {"towait", "blocked"}
Gone == {"none", "dead"}

\* The places of the Lisp thread within a cycle, and with the client.
Entered == {"continuing", "aborting", "incycle", "full", "empty"}
Handed == Entered \cup {"woken", "continue", "abort", "transfer", "signal"}

\* Where the other actors can be for each place of a thread.
Places ==
    /\ ctl \in {"stop", "wait3", "wait2", "free"} => l = "off"
    /\ ctl # "idle" => ~rtState
    /\ l \in {"off", "init", "start", "leave", "bye"} => ~rtState
    /\ l \in {"init", "start"} => ctl = "idle" /\ c \in Gone
    /\ l \in {"start", "label", "recover", "recovering", "unbusy", "signal", "bye"} => busy
    /\ l \in (Handed \ {"signal"}) \cup {"towait", "waiting"} => ~busy
    /\ l \in Handed => c \in Out
    /\ l = "loop" /\ rtState => ~busy /\ c \in Out
    /\ ~busy => l \in {"towait", "waiting"} \/ c \in Out \cup Gone
    /\ l = "off" => busy \/ c \in Gone
    /\ c = "resume" => l \in {"towait", "waiting"}
    /\ proc = "stopped" <=> c \in Gone \cup {"start"}
    /\ c \in InCycle \cup {"count"} => recover
    /\ c = "silence" => ~recover
    /\ l \in {"recover", "recovering", "continue", "continuing", "abort", "aborting"} => recover
    /\ l = "init" => status = "stopped"
    /\ l = "start" => status = "initializing"
    /\ Jack /\ l \notin {"off", "init", "start"} => status = "running"
    /\ ~Jack /\ l \notin {"off", "init", "start"} => status \in {"initializing", "running"}
    /\ status = "initializing" /\ l # "off" => c \in Gone \cup {"start"}
    /\ l = "empty" => gc
    /\ c = "wait" => cycle < MaxSuspended

\* With threads that run, rt-stop frees the buffers after the C thread.
Freed ==
    calm =>
        /\ status = "stopped" => c \in Gone
        /\ ctl # "idle" => c # "start"
        /\ ctl \in {"wait3", "wait2", "free"} => status = "stopping"
        /\ ctl = "wait2" => c \in {"top", "dead"}
        /\ ctl = "free" => c \in Gone

\* Who has begun the cycle, and where the entry of a last cycle can be.
Opened ==
    /\ status = "running" /\ c \in InCycle \cup {"silence"} => open = "c"
    /\ l \in Entered <=> open = "lisp"
    /\ open = "c" => \/ c \in InCycle \cup {"silence"}
                     \/ c = "resume"
                     \/ c \in Out /\ IsLastCycle /\ l \in {"towait", "waiting", "woken", "continue"}
    /\ \A k \in DOMAIN counter : counter[k].type = "last" =>
          /\ Len(counter) = 1 /\ c \in Out \cup {"resume"}
          /\ l \in {"towait", "waiting", "woken", "continue", "continuing"}
    /\ Jack /\ l \in {"towait", "waiting", "woken", "continue"} /\ IsLastCycle => open = "c"
    /\ l \in {"continue", "continuing"} => IsLastCycle
    /\ c = "resume" /\ open = "c" =>
         recover /\ IF Jack THEN IsLastCycle ELSE delayed /\ counter = <<>>
    /\ ~Jack /\ c \in InCycle => delayed

\* When the rings are empty.
Cleared == counter = <<>> /\ cache = <<>> /\ done = 0

Emptied ==
    /\ ~recover => Cleared /\ cycle = 0
    /\ "start" \in {l, c} => Cleared /\ cycle = 0
    /\ status = "initializing" /\ l # "off" => Cleared /\ cycle = 0
    /\ l = "loop" /\ rtState => Cleared /\ cycle = 0
    /\ l \in {"incycle", "full"} => Cleared /\ (recover => cycle = 1)

Bounded == \A k \in DOMAIN counter : counter[k].id <= cycle

\* The last cycle has begun and has no entry.
Uncounted == \/ c \in InCycle \cup {"count"}
             \/ ~Jack /\ c = "resume" /\ open = "c"
             \/ l \in {"incycle", "full"}

One(p) == IF p THEN 1 ELSE 0
Watched == recover /\ status = "running" /\ ctl \in {"idle", "join"} /\ ~lost
Counted(q, first) == \A k \in DOMAIN q : q[k].id = first + k

Accounted ==
    Watched =>
        \/ Counted(counter, done) /\ cycle = done + Len(counter) + One(Uncounted)
        \/ counter = <<Last(0)>> /\ cycle = done + One(Uncounted)

\* The cache holds both halves of the m cycles after the first.
Blocks(q, first, m) ==
    /\ Len(q) = 2 * m
    /\ \A j \in 1 .. m : q[2 * j - 1] = <<first + j, 1>> /\ q[2 * j] = <<first + j, 2>>

\* The inputs are in the cache and the entry is not in the counter, or the
\* inputs have been read and the entry is still there.
Stored == c \in {"maybe2", "maybe3", "signal", "count"}
Read == l = "recovering"

\* A cycle goes over to Lisp, and its inputs do not count.
Handing == IsLastCycle \/ (c = "resume" /\ open = "c")

CacheInStep ==
    Watched /\ ~Handing =>
        Blocks(cache, done + One(Read), (Len(counter) + One(Stored)) - One(Read))

Recovering == l = "recovering" /\ ~lost => counter # <<>> /\ got = Block(done + 1)

AudioInv ==
    /\ TypeOK /\ Places /\ Freed /\ Opened /\ Emptied /\ Bounded
    /\ Accounted /\ CacheInStep /\ Recovering

USE AudioAssumption DEF ThreadsTyped, RingsTyped, NumbersTyped,
    config, rings, history, cThread, lThread, control, Jack

-----------------------------------------------------------------------------
(* The rings as sequences *)

LEMMA EntryFields ==
    ASSUME NEW q \in Seq(Entry)
    PROVE  \A k \in DOMAIN q : q[k] \in Entry /\ q[k].id \in Nat /\ q[k].type \in {"suspended", "last"}
<1>1. \A k \in DOMAIN q : q[k] \in Entry
  OBVIOUS
<1> QED BY <1>1 DEF Entry

LEMMA TailEntries ==
    ASSUME NEW q \in Seq(Entry), q # <<>>
    PROVE  /\ Tail(q) \in Seq(Entry) /\ Len(Tail(q)) = Len(q) - 1
           /\ \A k \in DOMAIN Tail(q) : k + 1 \in DOMAIN q /\ Tail(q)[k] = q[k + 1]
           /\ Head(q) = q[1] /\ 1 \in DOMAIN q
  OBVIOUS

LEMMA AppendEntries ==
    ASSUME NEW q \in Seq(Entry), NEW e \in Entry
    PROVE  /\ Append(q, e) \in Seq(Entry) /\ Len(Append(q, e)) = Len(q) + 1
           /\ DOMAIN Append(q, e) = DOMAIN q \cup {Len(q) + 1}
           /\ \A k \in DOMAIN q : Append(q, e)[k] = q[k]
           /\ Append(q, e)[Len(q) + 1] = e
  OBVIOUS

LEMMA SingleLast ==
    ASSUME NEW n \in Nat
    PROVE  /\ Append(<<>>, Last(n)) = <<Last(n)>> /\ Len(<<Last(n)>>) = 1
           /\ <<Last(n)>> # <<>> /\ Head(<<Last(n)>>).type = "last"
           /\ DOMAIN <<Last(n)>> = {1} /\ <<Last(n)>>[1] = Last(n)
           /\ Last(n).type = "last" /\ Last(n).id = n /\ <<Last(n)>> \in Seq(Entry)
  BY DEF Last, Entry

Halves == Nat \X {1, 2}
Fits(q) == Len(q) + 2 <= CacheCapacity
Kept(q) == IF Len(q) + 2 < CacheCapacity THEN Len(q) + 2 ELSE CacheCapacity
WrittenTo(q, n) == SubSeq(q \o Block(n), 1, Kept(q))
Taken(q) == IF Len(q) < 2 THEN Len(q) ELSE 2

LEMMA BlockHalves ==
    ASSUME NEW n \in Nat
    PROVE  Block(n) \in Seq(Halves) /\ Len(Block(n)) = 2 /\ Block(n)[1] = <<n, 1>> /\ Block(n)[2] = <<n, 2>>
  BY DEF Block, Halves

LEMMA TwoJoined ==
    ASSUME NEW q \in Seq(Halves), NEW b \in Seq(Halves), Len(b) = 2, Len(q) <= CacheCapacity
    PROVE  /\ SubSeq(q \o b, 1, Kept(q)) \in Seq(Halves)
           /\ Len(SubSeq(q \o b, 1, Kept(q))) = Kept(q) /\ Kept(q) <= CacheCapacity
           /\ Fits(q) => /\ Kept(q) = Len(q) + 2
                         /\ \A k \in 1 .. Len(q) : SubSeq(q \o b, 1, Kept(q))[k] = q[k]
                         /\ SubSeq(q \o b, 1, Kept(q))[Len(q) + 1] = b[1]
                         /\ SubSeq(q \o b, 1, Kept(q))[Len(q) + 2] = b[2]
<1>0. PICK m : m = Kept(q)
  OBVIOUS
<1>1. /\ q \o b \in Seq(Halves)
      /\ Len(q \o b) = Len(q) + Len(b)
      /\ \A i \in 1 .. Len(q) + Len(b) : (q \o b)[i] = IF i <= Len(q) THEN q[i] ELSE b[i - Len(q)]
  BY ConcatProperties, Zenon
<1>2. PICK r \in Seq(Halves) :
         /\ r = q \o b
         /\ Len(r) = Len(q) + Len(b)
         /\ \A i \in 1 .. Len(q) + Len(b) : r[i] = IF i <= Len(q) THEN q[i] ELSE b[i - Len(q)]
  BY <1>1, Zenon
<1> HIDE DEF Halves
<1>3. /\ Len(r) = Len(q) + 2
      /\ \A k \in 1 .. Len(q) : r[k] = q[k]
      /\ r[Len(q) + 1] = b[1] /\ r[Len(q) + 2] = b[2]
  <2>1. PICK ql \in Nat, bl \in Nat : ql = Len(q) /\ bl = Len(b) /\ bl = 2
    OBVIOUS
  <2>2. \A i \in 1 .. ql + 2 : r[i] = IF i <= ql THEN q[i] ELSE b[i - ql]
    BY <1>2, <2>1
  <2>3. r[ql + 1] = b[1]
    BY <2>2
  <2>4. r[ql + 2] = b[2]
    BY <2>2
  <2> QED BY <1>2, <2>1, <2>2, <2>3, <2>4
<1>4. m \in Nat /\ m <= Len(r) /\ m <= CacheCapacity /\ (Fits(q) => m = Len(q) + 2)
  BY <1>0, <1>3, AudioAssumption DEF Fits, Kept
<1>5. PICK w \in Seq(Halves) : w = SubSeq(r, 1, m) /\ Len(w) = m /\ \A k \in 1 .. m : w[k] = r[k]
  <2>1. SubSeq(r, 1, m) \in Seq(Halves) /\ Len(SubSeq(r, 1, m)) = m
    BY <1>4
  <2>2. \A k \in 1 .. m : SubSeq(r, 1, m)[k] = r[k]
    BY <1>4
  <2> QED BY <2>1, <2>2, Zenon
<1>6. ASSUME Fits(q)
      PROVE  (\A k \in 1 .. Len(q) : w[k] = q[k]) /\ w[Len(q) + 1] = b[1] /\ w[Len(q) + 2] = b[2]
  BY <1>3, <1>4, <1>5, <1>6
<1> QED BY <1>0, <1>2, <1>4, <1>5, <1>6, Zenon

LEMMA BlockWritten ==
    ASSUME NEW q \in Seq(Halves), NEW n \in Nat, Len(q) <= CacheCapacity
    PROVE  /\ WrittenTo(q, n) \in Seq(Halves) /\ Len(WrittenTo(q, n)) <= CacheCapacity
           /\ Fits(q) => /\ Len(WrittenTo(q, n)) = Len(q) + 2
                         /\ \A k \in 1 .. Len(q) : WrittenTo(q, n)[k] = q[k]
                         /\ WrittenTo(q, n)[Len(q) + 1] = <<n, 1>>
                         /\ WrittenTo(q, n)[Len(q) + 2] = <<n, 2>>
<1>1. PICK b \in Seq(Halves) : b = Block(n) /\ Len(b) = 2 /\ b[1] = <<n, 1>> /\ b[2] = <<n, 2>>
  BY BlockHalves
<1>2. /\ SubSeq(q \o b, 1, Kept(q)) \in Seq(Halves)
      /\ Len(SubSeq(q \o b, 1, Kept(q))) = Kept(q) /\ Kept(q) <= CacheCapacity
      /\ Fits(q) => /\ Kept(q) = Len(q) + 2
                    /\ \A k \in 1 .. Len(q) : SubSeq(q \o b, 1, Kept(q))[k] = q[k]
                    /\ SubSeq(q \o b, 1, Kept(q))[Len(q) + 1] = b[1]
                    /\ SubSeq(q \o b, 1, Kept(q))[Len(q) + 2] = b[2]
  BY <1>1, TwoJoined, Zenon
<1>3. WrittenTo(q, n) = SubSeq(q \o b, 1, Kept(q))
  BY <1>1 DEF WrittenTo
<1> QED BY <1>1, <1>2, <1>3, Zenon

LEMMA BlockRead ==
    ASSUME NEW q \in Seq(Halves)
    PROVE  /\ SubSeq(q, 1, Taken(q)) \in Seq(Halves) /\ Len(SubSeq(q, 1, Taken(q))) = Taken(q)
           /\ \A k \in 1 .. Taken(q) : SubSeq(q, 1, Taken(q))[k] = q[k]
           /\ SubSeq(q, Taken(q) + 1, Len(q)) \in Seq(Halves)
           /\ Len(SubSeq(q, Taken(q) + 1, Len(q))) = Len(q) - Taken(q)
           /\ \A k \in 1 .. Len(q) - Taken(q) : SubSeq(q, Taken(q) + 1, Len(q))[k] = q[k + Taken(q)]
<1>1. PICK m \in Nat : m = Taken(q) /\ m <= Len(q)
  BY DEF Taken
<1>2. SubSeq(q, 1, m) \in Seq(Halves) /\ Len(SubSeq(q, 1, m)) = m /\ \A k \in 1 .. m : SubSeq(q, 1, m)[k] = q[k]
  BY <1>1
<1>3. SubSeq(q, m + 1, Len(q)) \in Seq(Halves) /\ Len(SubSeq(q, m + 1, Len(q))) = Len(q) - m
  BY <1>1
<1>4. \A k \in 1 .. Len(q) - m : SubSeq(q, m + 1, Len(q))[k] = q[k + m]
  BY <1>1, SMTT(30)
<1> QED BY <1>1, <1>2, <1>3, <1>4

LEMMA CountedEmpty == \A first : Counted(<<>>, first) /\ Blocks(<<>>, first, 0)
  BY DEF Counted, Blocks

LEMMA CountedAppend ==
    ASSUME NEW q \in Seq(Entry), NEW first \in Nat, Counted(q, first), NEW e \in Entry, e.id = first + Len(q) + 1
    PROVE  Counted(Append(q, e), first)
<1>1. PICK r \in Seq(Entry) : /\ r = Append(q, e) /\ DOMAIN r = DOMAIN q \cup {Len(q) + 1}
                              /\ \A k \in DOMAIN q : r[k] = q[k]
                              /\ r[Len(q) + 1] = e
  BY AppendEntries, Zenon
<1>2. \A k \in DOMAIN q : q[k].id = first + k
  BY DEF Counted
<1>3. Len(q) \in Nat
  OBVIOUS
<1>4. ASSUME NEW k \in DOMAIN r PROVE r[k].id = first + k
  <2>1. CASE k \in DOMAIN q
    BY <1>1, <1>2, <2>1
  <2>2. CASE k = Len(q) + 1
    BY <1>1, <1>3, <2>2
  <2> QED BY <1>1, <2>1, <2>2
<1> QED BY <1>1, <1>4 DEF Counted

LEMMA CountedTail ==
    ASSUME NEW q \in Seq(Entry), NEW first \in Nat, Counted(q, first), q # <<>>
    PROVE  Head(q).id = first + 1 /\ Counted(Tail(q), first + 1)
<1>1. Head(q) = q[1] /\ 1 \in DOMAIN q
  BY TailEntries
<1>2. \A k \in DOMAIN Tail(q) : k + 1 \in DOMAIN q /\ Tail(q)[k] = q[k + 1] /\ k \in Nat
  BY TailEntries
<1> QED BY <1>1, <1>2 DEF Counted

LEMMA BlocksWritten ==
    ASSUME NEW q \in Seq(Halves), NEW first \in Nat, NEW m \in Nat, Blocks(q, first, m),
           Len(q) <= CacheCapacity, Fits(q)
    PROVE  Blocks(WrittenTo(q, first + m + 1), first, m + 1)
<1>1. PICK n \in Nat : n = first + m + 1
  OBVIOUS
<1>2. PICK w \in Seq(Halves) : /\ w = WrittenTo(q, n) /\ Len(w) = Len(q) + 2
                               /\ \A k \in 1 .. Len(q) : w[k] = q[k]
                               /\ w[Len(q) + 1] = <<n, 1>>
                               /\ w[Len(q) + 2] = <<n, 2>>
  BY BlockWritten, Zenon
<1>3. Len(q) = 2 * m /\ \A j \in 1 .. m : q[2 * j - 1] = <<first + j, 1>> /\ q[2 * j] = <<first + j, 2>>
  BY DEF Blocks
<1>4. ASSUME NEW j \in 1 .. m + 1
      PROVE  w[2 * j - 1] = <<first + j, 1>> /\ w[2 * j] = <<first + j, 2>>
  <2>1. CASE j \in 1 .. m
    <3>1. 2 * j - 1 \in 1 .. Len(q) /\ 2 * j \in 1 .. Len(q)
      BY <1>3, <2>1, SMTT(30)
    <3> QED BY <1>2, <1>3, <2>1, <3>1
  <2>2. CASE j = m + 1
    <3>1. 2 * j - 1 = Len(q) + 1 /\ 2 * j = Len(q) + 2 /\ first + j = n
      BY <1>1, <1>3, <2>2
    <3> QED BY <1>2, <3>1
  <2> QED BY <2>1, <2>2
<1>5. Len(w) = 2 * (m + 1)
  BY <1>2, <1>3
<1> QED BY <1>1, <1>2, <1>4, <1>5 DEF Blocks

LEMMA BlocksRead ==
    ASSUME NEW q \in Seq(Halves), NEW first \in Nat, NEW m \in Nat \ {0}, Blocks(q, first, m)
    PROVE  /\ Taken(q) = 2
           /\ SubSeq(q, 1, 2) = Block(first + 1)
           /\ Blocks(SubSeq(q, 3, Len(q)), first + 1, m - 1)
<1>1. Len(q) = 2 * m /\ \A j \in 1 .. m : q[2 * j - 1] = <<first + j, 1>> /\ q[2 * j] = <<first + j, 2>>
  BY DEF Blocks
<1>2. Taken(q) = 2
  BY <1>1 DEF Taken
<1>3. q[1] = <<first + 1, 1>> /\ q[2] = <<first + 1, 2>>
  <2>1. 1 \in 1 .. m /\ 2 * 1 - 1 = 1 /\ 2 * 1 = 2
    OBVIOUS
  <2> QED BY <1>1, <2>1
<1>r. /\ SubSeq(q, 1, Taken(q)) \in Seq(Halves) /\ Len(SubSeq(q, 1, Taken(q))) = Taken(q)
      /\ \A k \in 1 .. Taken(q) : SubSeq(q, 1, Taken(q))[k] = q[k]
      /\ SubSeq(q, Taken(q) + 1, Len(q)) \in Seq(Halves)
      /\ Len(SubSeq(q, Taken(q) + 1, Len(q))) = Len(q) - Taken(q)
      /\ \A k \in 1 .. Len(q) - Taken(q) : SubSeq(q, Taken(q) + 1, Len(q))[k] = q[k + Taken(q)]
  BY BlockRead, Zenon
<1>4. PICK g \in Seq(Halves) : g = SubSeq(q, 1, 2) /\ Len(g) = 2 /\ \A k \in 1 .. 2 : g[k] = q[k]
  BY <1>2, <1>r, Zenon
<1>5. g = Block(first + 1)
  <2>1. PICK b \in Seq(Halves) : b = Block(first + 1) /\ Len(b) = 2
                                 /\ b[1] = <<first + 1, 1>> /\ b[2] = <<first + 1, 2>>
    BY BlockHalves, first + 1 \in Nat
  <2>2. \A k \in 1 .. 2 : g[k] = b[k]
    <3>1. g[1] = b[1] /\ g[2] = b[2]
      <4>1. 1 \in 1 .. 2 /\ 2 \in 1 .. 2
        OBVIOUS
      <4> QED BY <1>3, <1>4, <2>1, <4>1, Zenon
    <3>2. \A k \in 1 .. 2 : k = 1 \/ k = 2
      OBVIOUS
    <3> QED BY <3>1, <3>2, Zenon
  <2> QED BY <1>4, <2>1, <2>2, SeqEqual, Zenon
<1>6. PICK w \in Seq(Halves) : /\ w = SubSeq(q, 3, Len(q)) /\ Len(w) = Len(q) - 2
                               /\ \A k \in 1 .. Len(q) - 2 : w[k] = q[k + 2]
  <2>1. 2 + 1 = 3
    OBVIOUS
  <2> QED BY <1>2, <1>r, <2>1, ZenonT(30)
<1>7. ASSUME NEW j \in 1 .. m - 1
      PROVE  w[2 * j - 1] = <<first + 1 + j, 1>> /\ w[2 * j] = <<first + 1 + j, 2>>
  <2>1. j + 1 \in 1 .. m /\ 2 * (j + 1) - 1 = 2 * j - 1 + 2 /\ 2 * (j + 1) = 2 * j + 2 /\ first + (j + 1) = first + 1 + j
    OBVIOUS
  <2>2. 2 * j - 1 \in 1 .. Len(q) - 2 /\ 2 * j \in 1 .. Len(q) - 2
    BY <1>1
  <2> QED BY <1>1, <1>6, <2>1, <2>2
<1>8. Len(w) = 2 * (m - 1)
  BY <1>1, <1>6
<1> QED BY <1>2, <1>4, <1>5, <1>6, <1>7, <1>8 DEF Blocks

-----------------------------------------------------------------------------
(* Types *)

LEMMA ThreadsTypedWoken ==
    ASSUME TypeOK, Woken
    PROVE  ThreadsTyped'
<1>1. {recover, calm, delayed, rtState, gc, lost} \subseteq BOOLEAN
  BY DEF TypeOK
<1>2. gc' \in {gc, FALSE} /\ lost' \in {lost, FALSE}
  BY DEF Woken, ClearCachedInputs
<1>3. {recover', calm', delayed', rtState', gc', lost'} \subseteq BOOLEAN
  BY <1>1, <1>2 DEF Woken
<1> QED BY <1>3 DEF TypeOK, Woken

LEMMA ThreadsTypedJaCycleWait ==
    ASSUME TypeOK, NEW resized \in BOOLEAN, JaCycleWait(resized)
    PROVE  ThreadsTyped'
<1>1. {recover, calm, delayed, rtState, gc, lost} \subseteq BOOLEAN
  BY DEF TypeOK
<1>2. lost' \in {lost, TRUE}
  BY DEF JaCycleWait
<1>3. {recover', calm', delayed', rtState', gc', lost'} \subseteq BOOLEAN
  BY <1>1, <1>2 DEF JaCycleWait
<1> QED BY <1>3 DEF TypeOK, JaCycleWait

LEMMA ThreadsTypedWaitForTransfer ==
    ASSUME TypeOK, WaitForTransfer
    PROVE  ThreadsTyped'
<1>1. {recover, calm, delayed, rtState, gc, lost} \subseteq BOOLEAN
  BY DEF TypeOK
<1>3. {recover', calm', delayed', rtState', gc', lost'} \subseteq BOOLEAN
  BY <1>1, Zenon DEF WaitForTransfer
<1> QED BY <1>3 DEF TypeOK, WaitForTransfer

LEMMA ThreadsTypedRtStop ==
    ASSUME TypeOK, RtStop
    PROVE  ThreadsTyped'
<1>1. {recover, calm, delayed, rtState, gc, lost} \subseteq BOOLEAN
  BY DEF TypeOK
<1>3. {recover', calm', delayed', rtState', gc', lost'} \subseteq BOOLEAN
  BY <1>1, Zenon DEF RtStop
<1> QED BY <1>3 DEF TypeOK, RtStop

LEMMA ThreadsTypedStep ==
    ASSUME TypeOK, Next
    PROVE  ThreadsTyped'
<1> USE DEF TypeOK
<1>1. CASE JaThreadBegin
  BY <1>1 DEF JaThreadBegin
<1>2. CASE PaThreadBegin
  BY <1>2 DEF PaThreadBegin
<1>3. CASE ThreadLoop
  BY <1>3 DEF ThreadLoop
<1>4. CASE SilentCycle
  BY <1>4 DEF SilentCycle
<1>5. ASSUME NEW resized \in BOOLEAN, JaCycleWait(resized) PROVE ThreadsTyped'
  BY <1>5, ThreadsTypedJaCycleWait
<1>6. ASSUME NEW available \in BOOLEAN, PaReadStream(available) PROVE ThreadsTyped'
  BY <1>6 DEF PaReadStream
<1>7. CASE JaMaybeContinueInLisp
  BY <1>7 DEF JaMaybeContinueInLisp, HasCachedInputs, IncrementCycleCounter, After
<1>8. CASE PaMaybeContinueInLisp
  BY <1>8 DEF PaMaybeContinueInLisp, HasCachedInputs, After
<1>9. CASE StoreInputs
  BY <1>9 DEF StoreInputs, WriteInputs
<1>10. CASE SuspendCycle
  BY <1>10 DEF SuspendCycle
<1>11. CASE CountCycle
  BY <1>11 DEF CountCycle, IncrementCycleCounter
<1>12. CASE JaResumeLisp
  BY <1>12 DEF JaResumeLisp, SignalLisp
<1>13. CASE PaResumeLisp
  BY <1>13 DEF PaResumeLisp, HasCachedInputs, IncrementCycleCounter, SignalLisp
<1>14. CASE WaitForTransfer
  BY <1>14, ThreadsTypedWaitForTransfer
<1>15. CASE RestartPoint
  BY <1>15 DEF RestartPoint
<1>16. CASE InputsFromCacheBegin
  BY <1>16 DEF InputsFromCacheBegin, HasCachedInputs
<1>17. CASE InputsFromCacheEnd
  BY <1>17 DEF InputsFromCacheEnd, HasCachedInputs
<1>18. CASE RecoveryDone
  BY <1>18 DEF RecoveryDone, HasCachedInputs
<1>19. CASE LispSetIdle
  BY <1>19, ZenonT(30) DEF LispSetIdle
<1>20. CASE ConditionWait
  BY <1>20 DEF ConditionWait
<1>21. CASE Woken
  BY <1>21, ThreadsTypedWoken
<1>22. CASE ContinueCycleBegin
  BY <1>22 DEF ContinueCycleBegin
<1>23. CASE ContinueCycleEnd
  BY <1>23, ZenonT(30) DEF ContinueCycleEnd, ClearCachedInputs
<1>24. CASE CycleBegin
  BY <1>24 DEF CycleBegin
<1>25. CASE CycleBody
  BY <1>25 DEF CycleBody, CacheInputs, IncrementCycleCounter, WriteInputs
<1>26. CASE CycleEnd
  BY <1>26, ZenonT(30) DEF CycleEnd
<1>27. CASE Leave
  BY <1>27 DEF Leave
<1>28. CASE TransferToCThread
  BY <1>28 DEF TransferToCThread
<1>29. CASE TransferSignal
  BY <1>29 DEF TransferSignal, SignalC
<1>30. CASE JaInitialize
  <2>1. CASE Initialized
    BY <1>30, <2>1 DEF JaInitialize, Failed, Initialized, ClearCachedInputs
  <2>2. CASE Failed
    BY <1>30, <2>2 DEF JaInitialize, Failed, Initialized, ClearCachedInputs
  <2> QED BY <1>30, <2>1, <2>2 DEF JaInitialize
<1>31. CASE PaInitialize
  <2>1. CASE Initialized
    BY <1>31, <2>1 DEF PaInitialize, Failed, Initialized, ClearCachedInputs
  <2>2. CASE Failed
    BY <1>31, <2>2 DEF PaInitialize, Failed, Initialized, ClearCachedInputs
  <2> QED BY <1>31, <2>1, <2>2 DEF PaInitialize
<1>32. CASE JaStart
  <2>1. CASE Looping
    BY <1>32, <2>1 DEF JaStart, Failed, Looping
  <2>2. CASE Failed
    BY <1>32, <2>2 DEF JaStart, Failed, Looping
  <2> QED BY <1>32, <2>1, <2>2 DEF JaStart
<1>33. CASE PaStart
  <2>1. CASE Looping
    BY <1>33, <2>1 DEF PaStart, Failed, Looping
  <2>2. CASE Failed
    BY <1>33, <2>2 DEF PaStart, Failed, Looping
  <2> QED BY <1>33, <2>1, <2>2 DEF PaStart
<1>34. CASE RtJoin
  BY <1>34 DEF RtJoin
<1>35. CASE Stopping
  BY <1>35 DEF Stopping
<1>36. CASE ProcessThreadWait
  BY <1>36 DEF ProcessThreadWait, SignalC
<1>37. CASE DetachThread
  BY <1>37 DEF DetachThread
<1>38. CASE ThreadEnded
  BY <1>38 DEF ThreadEnded
<1>39. CASE JaCleanup
  BY <1>39 DEF JaCleanup, ClearCachedInputs
<1>40. CASE PaStop
  BY <1>40, ZenonT(30) DEF PaStop, ClearCachedInputs
<1>41. CASE RequestGc
  BY <1>41 DEF RequestGc
<1>42. CASE RtStart
  BY <1>42 DEF RtStart
<1>43. CASE RtStop
  BY <1>43, ThreadsTypedRtStop
<1> QED BY <1>1, <1>2, <1>3, <1>4, <1>5, <1>6, <1>7, <1>8, <1>9, <1>10, <1>11, <1>12, <1>13,
      <1>14, <1>15, <1>16, <1>17, <1>18, <1>19, <1>20, <1>21, <1>22, <1>23, <1>24, <1>25, <1>26,
      <1>27, <1>28, <1>29, <1>30, <1>31, <1>32, <1>33, <1>34, <1>35, <1>36, <1>37, <1>38, <1>39,
      <1>40, <1>41, <1>42, <1>43 DEF Next, CStep, LispStep, ControlStep

LEMMA RingsTypedJaCycleWait ==
    ASSUME TypeOK, NEW resized \in BOOLEAN, JaCycleWait(resized)
    PROVE  RingsTyped'
<1>1. CASE counter' = <<>> /\ cache' = <<>>
  BY <1>1, AudioAssumption DEF JaCycleWait, TypeOK
<1>2. CASE counter' = counter /\ cache' = cache
  BY <1>2 DEF JaCycleWait, TypeOK
<1> QED BY <1>1, <1>2 DEF JaCycleWait

LEMMA CounterPushed ==
    ASSUME NEW q \in Seq(Entry), NEW e \in Entry, Len(q) <= CounterCapacity, NEW r,
           r = IF Len(q) < CounterCapacity THEN Append(q, e) ELSE q
    PROVE  r \in Seq(Entry) /\ Len(r) <= CounterCapacity
<1>1. CounterCapacity \in Nat
  BY AudioAssumption
<1> QED BY <1>1, AppendEntries

LEMMA EntriesMade == \A n \in Nat : Suspended(n) \in Entry /\ Last(n) \in Entry
  BY DEF Suspended, Last, Entry

LEMMA RingsTypedJaMaybe ==
    ASSUME TypeOK, JaMaybeContinueInLisp
    PROVE  RingsTyped'
<1>1. PICK q \in Seq(Entry), n \in Nat : counter = q /\ cycle = n /\ Len(q) <= CounterCapacity
  BY DEF TypeOK
<1>2. counter' \in Seq(Entry) /\ Len(counter') <= CounterCapacity
  <2>1. CASE counter' = counter
    BY <2>1, <1>1
  <2>2. CASE IncrementCycleCounter(Last(cycle))
    BY <2>2, <1>1, CounterPushed, EntriesMade DEF IncrementCycleCounter
  <2> QED BY <2>1, <2>2 DEF JaMaybeContinueInLisp
<1> QED BY <1>2 DEF JaMaybeContinueInLisp, TypeOK

LEMMA RingsTypedCountCycle ==
    ASSUME TypeOK, CountCycle
    PROVE  RingsTyped'
<1>1. PICK q \in Seq(Entry), n \in Nat : counter = q /\ cycle = n /\ Len(q) <= CounterCapacity
  BY DEF TypeOK
<1>2. counter' \in Seq(Entry) /\ Len(counter') <= CounterCapacity
  BY <1>1, CounterPushed, EntriesMade DEF CountCycle, IncrementCycleCounter
<1> QED BY <1>2 DEF CountCycle, TypeOK

LEMMA RingsTypedPaResumeLisp ==
    ASSUME TypeOK, PaResumeLisp
    PROVE  RingsTyped'
<1>1. PICK q \in Seq(Entry), n \in Nat : counter = q /\ n = (IF open = "c" THEN cycle ELSE 0) /\ Len(q) <= CounterCapacity
  BY DEF TypeOK
<1>2. counter' \in Seq(Entry) /\ Len(counter') <= CounterCapacity
  <2>1. CASE counter' = counter
    BY <2>1, <1>1
  <2>2. CASE IncrementCycleCounter(Last(IF open = "c" THEN cycle ELSE 0))
    BY <2>2, <1>1, CounterPushed, EntriesMade DEF IncrementCycleCounter
  <2> QED BY <2>1, <2>2 DEF PaResumeLisp
<1> QED BY <1>2 DEF PaResumeLisp, TypeOK

LEMMA RingsTypedStoreInputs ==
    ASSUME TypeOK, StoreInputs
    PROVE  RingsTyped'
<1>1. PICK q \in Seq(Halves), n \in Nat : cache = q /\ cycle = n /\ Len(q) <= CacheCapacity
  BY DEF TypeOK, Halves
<1>2. cache' = WrittenTo(q, n)
  BY <1>1 DEF StoreInputs, WriteInputs, WrittenTo, Kept
<1>3. cache' \in Seq(Halves) /\ Len(cache') <= CacheCapacity
  BY <1>1, <1>2, BlockWritten
<1> QED BY <1>3 DEF StoreInputs, TypeOK, Halves

LEMMA RingsTypedCycleBody ==
    ASSUME TypeOK, CycleBody
    PROVE  RingsTyped'
<1>1. PICK q \in Seq(Halves), r \in Seq(Entry), n \in Nat :
        cache = q /\ counter = r /\ cycle = n /\ Len(q) <= CacheCapacity /\ Len(r) <= CounterCapacity
  BY DEF TypeOK, Halves
<1>2. CASE UNCHANGED rings
  BY <1>2 DEF CycleBody, TypeOK
<1>3. CASE CacheInputs
  <2>1. cache' = WrittenTo(q, n)
    BY <1>1, <1>3 DEF CacheInputs, WriteInputs, WrittenTo, Kept
  <2>2. cache' \in Seq(Halves) /\ Len(cache') <= CacheCapacity
    BY <1>1, <2>1, BlockWritten
  <2>3. counter' \in Seq(Entry) /\ Len(counter') <= CounterCapacity
    BY <1>1, <1>3, CounterPushed, EntriesMade DEF CacheInputs, IncrementCycleCounter
  <2> QED BY <2>2, <2>3 DEF CycleBody, TypeOK, Halves
<1> QED BY <1>2, <1>3 DEF CycleBody

LEMMA RingsTypedInputsFromCacheBegin ==
    ASSUME TypeOK, InputsFromCacheBegin
    PROVE  RingsTyped'
<1>1. PICK q \in Seq(Halves) : cache = q /\ Len(q) <= CacheCapacity
  BY DEF TypeOK, Halves
<1>2. PICK t \in Nat : t = Taken(q) /\ t <= Len(q)
  BY DEF Taken
<1>3. /\ SubSeq(q, 1, Taken(q)) \in Seq(Halves) /\ Len(SubSeq(q, 1, Taken(q))) = Taken(q)
      /\ SubSeq(q, Taken(q) + 1, Len(q)) \in Seq(Halves)
      /\ Len(SubSeq(q, Taken(q) + 1, Len(q))) = Len(q) - Taken(q)
  BY BlockRead, Zenon
<1>4. got' = SubSeq(q, 1, Taken(q)) /\ cache' = SubSeq(q, Taken(q) + 1, Len(q))
  BY <1>1, <1>3 DEF InputsFromCacheBegin, Taken
<1>5. got' \in Seq(Halves) /\ cache' \in Seq(Halves) /\ Len(cache') <= CacheCapacity
  <2>1. PICK n \in Nat : n = Len(q)
    OBVIOUS
  <2>2. Len(cache') = n - t /\ got' \in Seq(Halves) /\ cache' \in Seq(Halves)
    BY <1>2, <1>3, <1>4, <2>1
  <2>3. n - t <= CacheCapacity
    BY <1>1, <1>2, <2>1, AudioAssumption
  <2> QED BY <2>2, <2>3
<1> QED BY <1>5 DEF InputsFromCacheBegin, TypeOK, Halves

LEMMA RingsTypedInputsFromCacheEnd ==
    ASSUME TypeOK, InputsFromCacheEnd
    PROVE  RingsTyped'
<1>1. PICK q \in Seq(Entry) : counter = q /\ Len(q) <= CounterCapacity
  BY DEF TypeOK
<1>2. CASE q = <<>>
  BY <1>1, <1>2 DEF InputsFromCacheEnd, HasCachedInputs, TypeOK
<1>3. CASE q # <<>>
  <2>1. counter' = Tail(q)
    BY <1>1, <1>3 DEF InputsFromCacheEnd, HasCachedInputs
  <2>2. counter' \in Seq(Entry) /\ Len(counter') <= CounterCapacity
    BY <1>1, <1>3, <2>1, TailEntries, AudioAssumption
  <2> QED BY <2>2 DEF InputsFromCacheEnd, TypeOK
<1> QED BY <1>2, <1>3

LEMMA RingsTypedWoken ==
    ASSUME TypeOK, Woken
    PROVE  RingsTyped'
<1>1. CASE UNCHANGED <<rings, history>>
  BY <1>1 DEF TypeOK
<1>2. CASE ClearCachedInputs
  BY <1>2, AudioAssumption DEF ClearCachedInputs
<1> QED BY <1>1, <1>2 DEF Woken

LEMMA RingsTypedStep ==
    ASSUME TypeOK, Next
    PROVE  RingsTyped'
<1> USE DEF TypeOK
<1>1. CASE JaThreadBegin
  BY <1>1 DEF JaThreadBegin
<1>2. CASE PaThreadBegin
  BY <1>2 DEF PaThreadBegin
<1>3. CASE ThreadLoop
  BY <1>3 DEF ThreadLoop
<1>4. CASE SilentCycle
  BY <1>4 DEF SilentCycle
<1>5. ASSUME NEW resized \in BOOLEAN, JaCycleWait(resized) PROVE RingsTyped'
  BY <1>5, RingsTypedJaCycleWait
<1>6. ASSUME NEW available \in BOOLEAN, PaReadStream(available) PROVE RingsTyped'
  BY <1>6 DEF PaReadStream
<1>7. CASE JaMaybeContinueInLisp
  BY <1>7, RingsTypedJaMaybe
<1>8. CASE PaMaybeContinueInLisp
  BY <1>8 DEF PaMaybeContinueInLisp, HasCachedInputs, After
<1>9. CASE StoreInputs
  BY <1>9, RingsTypedStoreInputs
<1>10. CASE SuspendCycle
  BY <1>10 DEF SuspendCycle
<1>11. CASE CountCycle
  BY <1>11, RingsTypedCountCycle
<1>12. CASE JaResumeLisp
  BY <1>12 DEF JaResumeLisp, SignalLisp
<1>13. CASE PaResumeLisp
  BY <1>13, RingsTypedPaResumeLisp
<1>14. CASE WaitForTransfer
  BY <1>14 DEF WaitForTransfer
<1>15. CASE RestartPoint
  BY <1>15 DEF RestartPoint
<1>16. CASE InputsFromCacheBegin
  BY <1>16, RingsTypedInputsFromCacheBegin
<1>17. CASE InputsFromCacheEnd
  BY <1>17, RingsTypedInputsFromCacheEnd
<1>18. CASE RecoveryDone
  BY <1>18 DEF RecoveryDone, HasCachedInputs
<1>19. CASE LispSetIdle
  BY <1>19 DEF LispSetIdle
<1>20. CASE ConditionWait
  BY <1>20 DEF ConditionWait
<1>21. CASE Woken
  BY <1>21, RingsTypedWoken
<1>22. CASE ContinueCycleBegin
  BY <1>22 DEF ContinueCycleBegin
<1>23. CASE ContinueCycleEnd
  BY <1>23 DEF ContinueCycleEnd, ClearCachedInputs
<1>24. CASE CycleBegin
  BY <1>24 DEF CycleBegin
<1>25. CASE CycleBody
  BY <1>25, RingsTypedCycleBody
<1>26. CASE CycleEnd
  BY <1>26 DEF CycleEnd
<1>27. CASE Leave
  BY <1>27 DEF Leave
<1>28. CASE TransferToCThread
  BY <1>28 DEF TransferToCThread
<1>29. CASE TransferSignal
  BY <1>29 DEF TransferSignal, SignalC
<1>30. CASE JaInitialize
  <2>1. CASE Initialized
    BY <1>30, <2>1 DEF JaInitialize, Failed, Initialized, ClearCachedInputs
  <2>2. CASE Failed
    BY <1>30, <2>2 DEF JaInitialize, Failed, Initialized, ClearCachedInputs
  <2> QED BY <1>30, <2>1, <2>2 DEF JaInitialize
<1>31. CASE PaInitialize
  <2>1. CASE Initialized
    BY <1>31, <2>1 DEF PaInitialize, Failed, Initialized, ClearCachedInputs
  <2>2. CASE Failed
    BY <1>31, <2>2 DEF PaInitialize, Failed, Initialized, ClearCachedInputs
  <2> QED BY <1>31, <2>1, <2>2 DEF PaInitialize
<1>32. CASE JaStart
  <2>1. CASE Looping
    BY <1>32, <2>1 DEF JaStart, Failed, Looping
  <2>2. CASE Failed
    BY <1>32, <2>2 DEF JaStart, Failed, Looping
  <2> QED BY <1>32, <2>1, <2>2 DEF JaStart
<1>33. CASE PaStart
  <2>1. CASE Looping
    BY <1>33, <2>1 DEF PaStart, Failed, Looping
  <2>2. CASE Failed
    BY <1>33, <2>2 DEF PaStart, Failed, Looping
  <2> QED BY <1>33, <2>1, <2>2 DEF PaStart
<1>34. CASE RtJoin
  BY <1>34 DEF RtJoin
<1>35. CASE Stopping
  BY <1>35 DEF Stopping
<1>36. CASE ProcessThreadWait
  BY <1>36 DEF ProcessThreadWait, SignalC
<1>37. CASE DetachThread
  BY <1>37 DEF DetachThread
<1>38. CASE ThreadEnded
  BY <1>38 DEF ThreadEnded
<1>39. CASE JaCleanup
  BY <1>39 DEF JaCleanup, ClearCachedInputs
<1>40. CASE PaStop
  BY <1>40 DEF PaStop, ClearCachedInputs
<1>41. CASE RequestGc
  BY <1>41 DEF RequestGc
<1>42. CASE RtStart
  BY <1>42 DEF RtStart
<1>43. CASE RtStop
  BY <1>43 DEF RtStop
<1> QED BY <1>1, <1>2, <1>3, <1>4, <1>5, <1>6, <1>7, <1>8, <1>9, <1>10, <1>11, <1>12, <1>13,
      <1>14, <1>15, <1>16, <1>17, <1>18, <1>19, <1>20, <1>21, <1>22, <1>23, <1>24, <1>25, <1>26,
      <1>27, <1>28, <1>29, <1>30, <1>31, <1>32, <1>33, <1>34, <1>35, <1>36, <1>37, <1>38, <1>39,
      <1>40, <1>41, <1>42, <1>43 DEF Next, CStep, LispStep, ControlStep

LEMMA NumbersTypedInputsFromCacheEnd ==
    ASSUME TypeOK, Bounded, InputsFromCacheEnd
    PROVE  NumbersTyped'
<1>1. PICK q \in Seq(Entry) : counter = q /\ \A k \in DOMAIN q : q[k].id <= cycle
  BY DEF TypeOK, Bounded
<1>2. CASE q = <<>>
  BY <1>1, <1>2 DEF InputsFromCacheEnd, HasCachedInputs, TypeOK
<1>3. CASE q # <<>>
  <2>1. done' = q[1].id /\ 1 \in DOMAIN q
    BY <1>1, <1>3, TailEntries DEF InputsFromCacheEnd, HasCachedInputs
  <2>2. q[1].id \in Nat /\ q[1].id <= cycle
    BY <1>1, <2>1, EntryFields
  <2> QED BY <2>1, <2>2 DEF InputsFromCacheEnd, TypeOK
<1> QED BY <1>2, <1>3

LEMMA NumbersTypedWoken ==
    ASSUME TypeOK, Woken
    PROVE  NumbersTyped'
<1>1. restarts' \in 0 .. RestartLimit
  <2>1. CASE restarts' = restarts
    BY <2>1 DEF TypeOK
  <2>2. CASE RestartAllowed /\ restarts' = restarts + 1
    BY <2>2, AudioAssumption DEF TypeOK, RestartAllowed
  <2> QED BY <2>1, <2>2 DEF Woken
<1>2. CASE UNCHANGED <<rings, history>>
  BY <1>1, <1>2 DEF TypeOK
<1>3. CASE ClearCachedInputs
  BY <1>1, <1>3, AudioAssumption DEF ClearCachedInputs
<1> QED BY <1>2, <1>3 DEF Woken

LEMMA NumbersTypedStep ==
    ASSUME TypeOK, Places, Emptied, Bounded, Next
    PROVE  NumbersTyped'
<1> USE DEF TypeOK, Places, Emptied, Cleared
<1>1. CASE JaThreadBegin
  BY <1>1 DEF JaThreadBegin
<1>2. CASE PaThreadBegin
  BY <1>2 DEF PaThreadBegin
<1>3. CASE ThreadLoop
  BY <1>3 DEF ThreadLoop
<1>4. CASE SilentCycle
  BY <1>4 DEF SilentCycle
<1>5. ASSUME NEW resized \in BOOLEAN, JaCycleWait(resized) PROVE NumbersTyped'
  BY <1>5 DEF JaCycleWait
<1>6. ASSUME NEW available \in BOOLEAN, PaReadStream(available) PROVE NumbersTyped'
  BY <1>6 DEF PaReadStream
<1>7. CASE JaMaybeContinueInLisp
  BY <1>7 DEF JaMaybeContinueInLisp, HasCachedInputs, IncrementCycleCounter, After
<1>8. CASE PaMaybeContinueInLisp
  BY <1>8 DEF PaMaybeContinueInLisp, HasCachedInputs, After
<1>9. CASE StoreInputs
  BY <1>9 DEF StoreInputs, WriteInputs
<1>10. CASE SuspendCycle
  BY <1>10 DEF SuspendCycle
<1>11. CASE CountCycle
  BY <1>11 DEF CountCycle, IncrementCycleCounter
<1>12. CASE JaResumeLisp
  BY <1>12 DEF JaResumeLisp, SignalLisp
<1>13. CASE PaResumeLisp
  BY <1>13 DEF PaResumeLisp, HasCachedInputs, IncrementCycleCounter, SignalLisp
<1>14. CASE WaitForTransfer
  BY <1>14 DEF WaitForTransfer
<1>15. CASE RestartPoint
  BY <1>15 DEF RestartPoint
<1>16. CASE InputsFromCacheBegin
  BY <1>16 DEF InputsFromCacheBegin, HasCachedInputs
<1>17. CASE InputsFromCacheEnd
  BY <1>17, NumbersTypedInputsFromCacheEnd
<1>18. CASE RecoveryDone
  BY <1>18 DEF RecoveryDone, HasCachedInputs
<1>19. CASE LispSetIdle
  BY <1>19 DEF LispSetIdle
<1>20. CASE ConditionWait
  BY <1>20 DEF ConditionWait
<1>21. CASE Woken
  BY <1>21, NumbersTypedWoken
<1>22. CASE ContinueCycleBegin
  BY <1>22 DEF ContinueCycleBegin
<1>23. CASE ContinueCycleEnd
  BY <1>23 DEF ContinueCycleEnd, ClearCachedInputs
<1>24. CASE CycleBegin
  BY <1>24 DEF CycleBegin
<1>25. CASE CycleBody
  BY <1>25 DEF CycleBody, CacheInputs, IncrementCycleCounter, WriteInputs
<1>26. CASE CycleEnd
  BY <1>26 DEF CycleEnd
<1>27. CASE Leave
  BY <1>27 DEF Leave
<1>28. CASE TransferToCThread
  BY <1>28 DEF TransferToCThread
<1>29. CASE TransferSignal
  BY <1>29 DEF TransferSignal, SignalC
<1>30. CASE JaInitialize
  <2>1. CASE Initialized
    BY <1>30, <2>1 DEF JaInitialize, Failed, Initialized, ClearCachedInputs
  <2>2. CASE Failed
    BY <1>30, <2>2 DEF JaInitialize, Failed, Initialized, ClearCachedInputs
  <2> QED BY <1>30, <2>1, <2>2 DEF JaInitialize
<1>31. CASE PaInitialize
  <2>1. CASE Initialized
    BY <1>31, <2>1 DEF PaInitialize, Failed, Initialized, ClearCachedInputs
  <2>2. CASE Failed
    BY <1>31, <2>2 DEF PaInitialize, Failed, Initialized, ClearCachedInputs
  <2> QED BY <1>31, <2>1, <2>2 DEF PaInitialize
<1>32. CASE JaStart
  <2>1. CASE Looping
    BY <1>32, <2>1 DEF JaStart, Failed, Looping
  <2>2. CASE Failed
    BY <1>32, <2>2 DEF JaStart, Failed, Looping
  <2> QED BY <1>32, <2>1, <2>2 DEF JaStart
<1>33. CASE PaStart
  <2>1. CASE Looping
    BY <1>33, <2>1 DEF PaStart, Failed, Looping
  <2>2. CASE Failed
    BY <1>33, <2>2 DEF PaStart, Failed, Looping
  <2> QED BY <1>33, <2>1, <2>2 DEF PaStart
<1>34. CASE RtJoin
  BY <1>34 DEF RtJoin
<1>35. CASE Stopping
  BY <1>35 DEF Stopping
<1>36. CASE ProcessThreadWait
  BY <1>36 DEF ProcessThreadWait, SignalC
<1>37. CASE DetachThread
  BY <1>37 DEF DetachThread
<1>38. CASE ThreadEnded
  BY <1>38 DEF ThreadEnded
<1>39. CASE JaCleanup
  BY <1>39 DEF JaCleanup, ClearCachedInputs
<1>40. CASE PaStop
  BY <1>40 DEF PaStop, ClearCachedInputs
<1>41. CASE RequestGc
  BY <1>41 DEF RequestGc
<1>42. CASE RtStart
  BY <1>42 DEF RtStart
<1>43. CASE RtStop
  BY <1>43 DEF RtStop
<1> QED BY <1>1, <1>2, <1>3, <1>4, <1>5, <1>6, <1>7, <1>8, <1>9, <1>10, <1>11, <1>12, <1>13,
      <1>14, <1>15, <1>16, <1>17, <1>18, <1>19, <1>20, <1>21, <1>22, <1>23, <1>24, <1>25, <1>26,
      <1>27, <1>28, <1>29, <1>30, <1>31, <1>32, <1>33, <1>34, <1>35, <1>36, <1>37, <1>38, <1>39,
      <1>40, <1>41, <1>42, <1>43 DEF Next, CStep, LispStep, ControlStep

-----------------------------------------------------------------------------
(* The places of the threads *)

LEMMA PlacesStep ==
    ASSUME TypeOK, Places, Opened, Freed, Next
    PROVE  Places'
<1> USE DEF TypeOK, Places, Opened, Freed, InCycle, Entered, Handed, Out, Gone
<1>1. CASE JaThreadBegin
  BY <1>1 DEF JaThreadBegin
<1>2. CASE PaThreadBegin
  BY <1>2 DEF PaThreadBegin
<1>3. CASE ThreadLoop
  BY <1>3 DEF ThreadLoop
<1>4. CASE SilentCycle
  BY <1>4 DEF SilentCycle
<1>5. ASSUME NEW resized \in BOOLEAN, JaCycleWait(resized) PROVE Places'
  BY <1>5 DEF JaCycleWait
<1>6. ASSUME NEW available \in BOOLEAN, PaReadStream(available) PROVE Places'
  BY <1>6 DEF PaReadStream
<1>7. CASE JaMaybeContinueInLisp
  BY <1>7 DEF JaMaybeContinueInLisp, HasCachedInputs, IncrementCycleCounter, After
<1>8. CASE PaMaybeContinueInLisp
  BY <1>8 DEF PaMaybeContinueInLisp, HasCachedInputs, After
<1>9. CASE StoreInputs
  BY <1>9 DEF StoreInputs, WriteInputs
<1>10. CASE SuspendCycle
  BY <1>10 DEF SuspendCycle
<1>11. CASE CountCycle
  BY <1>11 DEF CountCycle, IncrementCycleCounter
<1>12. CASE JaResumeLisp
  BY <1>12 DEF JaResumeLisp, SignalLisp
<1>13. CASE PaResumeLisp
  BY <1>13 DEF PaResumeLisp, HasCachedInputs, IncrementCycleCounter, SignalLisp
<1>14. CASE WaitForTransfer
  BY <1>14 DEF WaitForTransfer
<1>15. CASE RestartPoint
  BY <1>15 DEF RestartPoint
<1>16. CASE InputsFromCacheBegin
  BY <1>16 DEF InputsFromCacheBegin, HasCachedInputs
<1>17. CASE InputsFromCacheEnd
  BY <1>17 DEF InputsFromCacheEnd, HasCachedInputs
<1>18. CASE RecoveryDone
  BY <1>18 DEF RecoveryDone, HasCachedInputs
<1>19. CASE LispSetIdle
  BY <1>19 DEF LispSetIdle
<1>20. CASE ConditionWait
  BY <1>20 DEF ConditionWait
<1>21. CASE Woken
  BY <1>21 DEF Woken, HasCachedInputs, IsLastCycle, ClearCachedInputs, RestartAllowed
<1>22. CASE ContinueCycleBegin
  BY <1>22 DEF ContinueCycleBegin
<1>23. CASE ContinueCycleEnd
  BY <1>23 DEF ContinueCycleEnd, ClearCachedInputs
<1>24. CASE CycleBegin
  BY <1>24 DEF CycleBegin
<1>25. CASE CycleBody
  BY <1>25 DEF CycleBody, CacheInputs, IncrementCycleCounter, WriteInputs
<1>26. CASE CycleEnd
  BY <1>26 DEF CycleEnd
<1>27. CASE Leave
  BY <1>27 DEF Leave
<1>28. CASE TransferToCThread
  BY <1>28 DEF TransferToCThread
<1>29. CASE TransferSignal
  BY <1>29 DEF TransferSignal, SignalC
<1>30. CASE JaInitialize
  <2>1. CASE Initialized
    BY <1>30, <2>1 DEF JaInitialize, Failed, Initialized, ClearCachedInputs
  <2>2. CASE Failed
    BY <1>30, <2>2 DEF JaInitialize, Failed, Initialized, ClearCachedInputs
  <2> QED BY <1>30, <2>1, <2>2 DEF JaInitialize
<1>31. CASE PaInitialize
  <2>1. CASE Initialized
    BY <1>31, <2>1 DEF PaInitialize, Failed, Initialized, ClearCachedInputs
  <2>2. CASE Failed
    BY <1>31, <2>2 DEF PaInitialize, Failed, Initialized, ClearCachedInputs
  <2> QED BY <1>31, <2>1, <2>2 DEF PaInitialize
<1>32. CASE JaStart
  <2>1. CASE Looping
    BY <1>32, <2>1 DEF JaStart, Failed, Looping
  <2>2. CASE Failed
    BY <1>32, <2>2 DEF JaStart, Failed, Looping
  <2> QED BY <1>32, <2>1, <2>2 DEF JaStart
<1>33. CASE PaStart
  <2>1. CASE Looping
    BY <1>33, <2>1 DEF PaStart, Failed, Looping
  <2>2. CASE Failed
    BY <1>33, <2>2 DEF PaStart, Failed, Looping
  <2> QED BY <1>33, <2>1, <2>2 DEF PaStart
<1>34. CASE RtJoin
  BY <1>34 DEF RtJoin
<1>35. CASE Stopping
  BY <1>35 DEF Stopping
<1>36. CASE ProcessThreadWait
  BY <1>36 DEF ProcessThreadWait, SignalC
<1>37. CASE DetachThread
  BY <1>37 DEF DetachThread
<1>38. CASE ThreadEnded
  BY <1>38 DEF ThreadEnded
<1>39. CASE JaCleanup
  BY <1>39 DEF JaCleanup, ClearCachedInputs
<1>40. CASE PaStop
  BY <1>40 DEF PaStop, ClearCachedInputs
<1>41. CASE RequestGc
  BY <1>41 DEF RequestGc
<1>42. CASE RtStart
  BY <1>42 DEF RtStart
<1>43. CASE RtStop
  BY <1>43 DEF RtStop
<1> QED BY <1>1, <1>2, <1>3, <1>4, <1>5, <1>6, <1>7, <1>8, <1>9, <1>10, <1>11, <1>12, <1>13,
      <1>14, <1>15, <1>16, <1>17, <1>18, <1>19, <1>20, <1>21, <1>22, <1>23, <1>24, <1>25, <1>26,
      <1>27, <1>28, <1>29, <1>30, <1>31, <1>32, <1>33, <1>34, <1>35, <1>36, <1>37, <1>38, <1>39,
      <1>40, <1>41, <1>42, <1>43 DEF Next, CStep, LispStep, ControlStep

LEMMA FreedStep ==
    ASSUME TypeOK, Freed, Places, Next
    PROVE  Freed'
<1> USE DEF TypeOK, Places, Freed, InCycle, Entered, Handed, Out, Gone
<1>1. CASE JaThreadBegin
  BY <1>1 DEF JaThreadBegin
<1>2. CASE PaThreadBegin
  BY <1>2 DEF PaThreadBegin
<1>3. CASE ThreadLoop
  BY <1>3 DEF ThreadLoop
<1>4. CASE SilentCycle
  BY <1>4 DEF SilentCycle
<1>5. ASSUME NEW resized \in BOOLEAN, JaCycleWait(resized) PROVE Freed'
  BY <1>5 DEF JaCycleWait
<1>6. ASSUME NEW available \in BOOLEAN, PaReadStream(available) PROVE Freed'
  BY <1>6 DEF PaReadStream
<1>7. CASE JaMaybeContinueInLisp
  BY <1>7 DEF JaMaybeContinueInLisp, HasCachedInputs, IncrementCycleCounter, After
<1>8. CASE PaMaybeContinueInLisp
  BY <1>8 DEF PaMaybeContinueInLisp, HasCachedInputs, After
<1>9. CASE StoreInputs
  BY <1>9 DEF StoreInputs, WriteInputs
<1>10. CASE SuspendCycle
  BY <1>10 DEF SuspendCycle
<1>11. CASE CountCycle
  BY <1>11 DEF CountCycle, IncrementCycleCounter
<1>12. CASE JaResumeLisp
  BY <1>12 DEF JaResumeLisp, SignalLisp
<1>13. CASE PaResumeLisp
  BY <1>13 DEF PaResumeLisp, HasCachedInputs, IncrementCycleCounter, SignalLisp
<1>14. CASE WaitForTransfer
  BY <1>14 DEF WaitForTransfer
<1>15. CASE RestartPoint
  BY <1>15 DEF RestartPoint
<1>16. CASE InputsFromCacheBegin
  BY <1>16 DEF InputsFromCacheBegin, HasCachedInputs
<1>17. CASE InputsFromCacheEnd
  BY <1>17 DEF InputsFromCacheEnd, HasCachedInputs
<1>18. CASE RecoveryDone
  BY <1>18 DEF RecoveryDone, HasCachedInputs
<1>19. CASE LispSetIdle
  BY <1>19 DEF LispSetIdle
<1>20. CASE ConditionWait
  BY <1>20 DEF ConditionWait
<1>21. CASE Woken
  BY <1>21 DEF Woken, HasCachedInputs, IsLastCycle, ClearCachedInputs, RestartAllowed
<1>22. CASE ContinueCycleBegin
  BY <1>22 DEF ContinueCycleBegin
<1>23. CASE ContinueCycleEnd
  BY <1>23 DEF ContinueCycleEnd, ClearCachedInputs
<1>24. CASE CycleBegin
  BY <1>24 DEF CycleBegin
<1>25. CASE CycleBody
  BY <1>25 DEF CycleBody, CacheInputs, IncrementCycleCounter, WriteInputs
<1>26. CASE CycleEnd
  BY <1>26 DEF CycleEnd
<1>27. CASE Leave
  BY <1>27 DEF Leave
<1>28. CASE TransferToCThread
  BY <1>28 DEF TransferToCThread
<1>29. CASE TransferSignal
  BY <1>29 DEF TransferSignal, SignalC
<1>30. CASE JaInitialize
  <2>1. CASE Initialized
    BY <1>30, <2>1 DEF JaInitialize, Failed, Initialized, ClearCachedInputs
  <2>2. CASE Failed
    BY <1>30, <2>2 DEF JaInitialize, Failed, Initialized, ClearCachedInputs
  <2> QED BY <1>30, <2>1, <2>2 DEF JaInitialize
<1>31. CASE PaInitialize
  <2>1. CASE Initialized
    BY <1>31, <2>1 DEF PaInitialize, Failed, Initialized, ClearCachedInputs
  <2>2. CASE Failed
    BY <1>31, <2>2 DEF PaInitialize, Failed, Initialized, ClearCachedInputs
  <2> QED BY <1>31, <2>1, <2>2 DEF PaInitialize
<1>32. CASE JaStart
  <2>1. CASE Looping
    BY <1>32, <2>1 DEF JaStart, Failed, Looping
  <2>2. CASE Failed
    BY <1>32, <2>2 DEF JaStart, Failed, Looping
  <2> QED BY <1>32, <2>1, <2>2 DEF JaStart
<1>33. CASE PaStart
  <2>1. CASE Looping
    BY <1>33, <2>1 DEF PaStart, Failed, Looping
  <2>2. CASE Failed
    BY <1>33, <2>2 DEF PaStart, Failed, Looping
  <2> QED BY <1>33, <2>1, <2>2 DEF PaStart
<1>34. CASE RtJoin
  BY <1>34 DEF RtJoin
<1>35. CASE Stopping
  BY <1>35 DEF Stopping
<1>36. CASE ProcessThreadWait
  BY <1>36 DEF ProcessThreadWait, SignalC
<1>37. CASE DetachThread
  BY <1>37 DEF DetachThread
<1>38. CASE ThreadEnded
  BY <1>38 DEF ThreadEnded
<1>39. CASE JaCleanup
  BY <1>39 DEF JaCleanup, ClearCachedInputs
<1>40. CASE PaStop
  BY <1>40 DEF PaStop, ClearCachedInputs
<1>41. CASE RequestGc
  BY <1>41 DEF RequestGc
<1>42. CASE RtStart
  BY <1>42 DEF RtStart
<1>43. CASE RtStop
  BY <1>43 DEF RtStop
<1> QED BY <1>1, <1>2, <1>3, <1>4, <1>5, <1>6, <1>7, <1>8, <1>9, <1>10, <1>11, <1>12, <1>13,
      <1>14, <1>15, <1>16, <1>17, <1>18, <1>19, <1>20, <1>21, <1>22, <1>23, <1>24, <1>25, <1>26,
      <1>27, <1>28, <1>29, <1>30, <1>31, <1>32, <1>33, <1>34, <1>35, <1>36, <1>37, <1>38, <1>39,
      <1>40, <1>41, <1>42, <1>43 DEF Next, CStep, LispStep, ControlStep

-----------------------------------------------------------------------------
(* The open cycle and the empty rings *)

LEMMA OpenedJaMaybe ==
    ASSUME TypeOK, Places, Opened, JaMaybeContinueInLisp
    PROVE  Opened'
<1>1. cycle \in Nat
  BY DEF TypeOK
<1>2. c \in {"maybe1", "maybe2", "maybe3"} /\ Jack /\ UNCHANGED <<driver, recover, status, busy, delayed, l, ctl, open>>
  BY DEF JaMaybeContinueInLisp
<1>3. CASE ~busy /\ counter = <<>>
  <2>1. counter' = <<Last(cycle)>> /\ c' = "resume"
    BY <1>1, <1>3, SingleLast DEF JaMaybeContinueInLisp, HasCachedInputs, IncrementCycleCounter
  <2>2. recover /\ l \in {"towait", "waiting"}
    BY <1>2, <1>3 DEF Places, InCycle, Out, Gone
  <2>3. IsLastCycle' /\ Len(counter') = 1
    BY <2>1, <1>1, SingleLast DEF IsLastCycle, HasCachedInputs
  <2>4. open = "c"
    BY <1>2, <1>3, <2>2 DEF Opened, Places, InCycle, Entered, Gone
  <2> QED BY <1>2, <2>1, <2>2, <2>3, <2>4 DEF Opened, InCycle, Entered, Out
<1>4. CASE ~(~busy /\ counter = <<>>)
  <2>1. counter' = counter /\ c' \in {"store", "maybe3", "signal"}
    BY <1>2, <1>4 DEF JaMaybeContinueInLisp, HasCachedInputs, After
  <2> QED BY <1>2, <2>1 DEF Opened, InCycle, Entered, Out, IsLastCycle, HasCachedInputs
<1> QED BY <1>3, <1>4

LEMMA OpenedCountCycle ==
    ASSUME TypeOK, Places, Opened, CountCycle
    PROVE  Opened'
<1>1. PICK q \in Seq(Entry), n \in Nat : counter = q /\ cycle = n
  BY DEF TypeOK
<1>2. c = "count" /\ c' = "top" /\ UNCHANGED <<driver, recover, status, busy, delayed, l, ctl, open>>
  BY DEF CountCycle
<1>3. \A k \in DOMAIN q : q[k].type # "last"
  BY <1>1, <1>2 DEF Opened, Out
<1>4. Suspended(n) \in Entry /\ Suspended(n).type = "suspended"
  BY DEF Suspended, Entry
<1>5. counter' \in {q, Append(q, Suspended(n))}
  BY <1>1 DEF CountCycle, IncrementCycleCounter
<1>6. \A k \in DOMAIN counter' : counter'[k].type # "last"
  BY <1>1, <1>3, <1>4, <1>5, AppendEntries
<1>7. counter' \in Seq(Entry)
  BY <1>4, <1>5, AppendEntries
<1>8. ~IsLastCycle'
  BY <1>6, <1>7 DEF IsLastCycle, HasCachedInputs
<1>9. ~IsLastCycle
  BY <1>3, <1>1 DEF IsLastCycle, HasCachedInputs
<1> QED BY <1>2, <1>6, <1>8, <1>9 DEF Opened, InCycle, Entered, Out

LEMMA OpenedPaResumeLisp ==
    ASSUME TypeOK, Places, Opened, PaResumeLisp
    PROVE  Opened'
<1>1. c = "resume" /\ c' = "towait" /\ UNCHANGED <<driver, recover, status, busy, delayed, ctl, open>> /\ ~Jack
  BY DEF PaResumeLisp
<1>2. l \in {"towait", "waiting"} /\ l' \in {"towait", "waiting", "woken"}
  BY <1>1 DEF Places, PaResumeLisp, SignalLisp
<1>3. CASE recover /\ delayed /\ counter = <<>>
  <2>1. PICK n \in Nat : n = IF open = "c" THEN cycle ELSE 0
    BY DEF TypeOK
  <2>2. counter' = <<Last(n)>>
    BY <2>1, <1>3, SingleLast DEF PaResumeLisp, HasCachedInputs, IncrementCycleCounter
  <2>3. IsLastCycle' /\ Len(counter') = 1
    BY <2>2, SingleLast DEF IsLastCycle, HasCachedInputs
  <2> QED BY <1>1, <1>2, <2>3 DEF Opened, InCycle, Entered, Out
<1>4. CASE ~(recover /\ delayed /\ counter = <<>>)
  <2>1. counter' = counter
    BY <1>4 DEF PaResumeLisp, HasCachedInputs
  <2>2. open # "c"
    BY <1>1, <1>4 DEF Opened
  <2>3. \A k \in DOMAIN counter : counter[k].type = "last" => Len(counter) = 1
    BY DEF Opened
  <2> QED BY <1>1, <1>2, <2>1, <2>2, <2>3 DEF Opened, InCycle, Entered, Out, IsLastCycle, HasCachedInputs
<1> QED BY <1>3, <1>4

LEMMA OpenedInputsFromCacheEnd ==
    ASSUME TypeOK, Places, Opened, InputsFromCacheEnd
    PROVE  Opened'
<1>1. PICK q \in Seq(Entry) : counter = q
  BY DEF TypeOK
<1>2. l = "recovering" /\ l' = "recover" /\ UNCHANGED <<driver, recover, status, busy, delayed, c, ctl, open>>
  BY DEF InputsFromCacheEnd
<1>3. \A k \in DOMAIN q : q[k].type # "last"
  BY <1>1, <1>2 DEF Opened
<1>4. PICK r \in Seq(Entry) : counter' = r /\ \A k \in DOMAIN r : r[k].type # "last"
  <2>1. CASE q = <<>>
    BY <1>1, <1>3, <2>1 DEF InputsFromCacheEnd, HasCachedInputs
  <2>2. CASE q # <<>>
    <3>1. counter' = Tail(q)
      BY <1>1, <2>2 DEF InputsFromCacheEnd, HasCachedInputs
    <3>2. Tail(q) \in Seq(Entry) /\ \A k \in DOMAIN Tail(q) : k + 1 \in DOMAIN q /\ Tail(q)[k] = q[k + 1]
      BY <2>2, TailEntries
    <3> QED BY <1>3, <3>1, <3>2
  <2> QED BY <2>1, <2>2
<1>5. c # "resume" /\ ~(open = "c" /\ c \in Out)
  <2>1. c # "resume"
    BY <1>2 DEF Places
  <2>2. ~(open = "c" /\ c \in Out)
    BY <1>2 DEF Opened, Out, InCycle
  <2> QED BY <2>1, <2>2
<1> QED BY <1>2, <1>4, <1>5 DEF Opened, InCycle, Entered, Out

LEMMA OpenedWoken ==
    ASSUME TypeOK, Places, Opened, Emptied, Woken
    PROVE  Opened'
<1>1. l = "woken" /\ UNCHANGED <<driver, recover, status, busy, delayed, c, ctl, open>>
  BY DEF Woken
<1>2. c \in Out
  BY <1>1 DEF Places, Handed, Entered
<1>3. CASE IsLastCycle
  <2>1. counter' = counter
    BY <1>3 DEF Woken, IsLastCycle, HasCachedInputs
  <2>2. l' = "continue"
    BY <1>3 DEF Woken, IsLastCycle, HasCachedInputs, Emptied, Cleared
  <2> QED BY <1>1, <1>2, <1>3, <2>1, <2>2 DEF Opened, InCycle, Entered, Out, IsLastCycle, HasCachedInputs, Places
<1>4. CASE ~IsLastCycle
  <2>1. \A k \in DOMAIN counter : counter[k].type # "last"
    BY <1>4 DEF Opened, IsLastCycle, HasCachedInputs, TypeOK
  <2>2. l' \in {"loop", "transfer", "abort"} /\ counter' \in {counter, <<>>}
    BY <1>4, <1>1 DEF Woken, ClearCachedInputs
  <2>3. open = "no"
    BY <1>1, <1>2, <1>4 DEF Opened, Entered, Out, InCycle, TypeOK
  <2> QED BY <1>1, <1>2, <2>1, <2>2, <2>3 DEF Opened, InCycle, Entered, Out, IsLastCycle, HasCachedInputs
<1> QED BY <1>3, <1>4

LEMMA OpenedCycleBody ==
    ASSUME TypeOK, Places, Opened, Emptied, CycleBody
    PROVE  Opened'
<1>1. l = "incycle" /\ l' \in {"empty", "full"} /\ UNCHANGED <<driver, recover, status, delayed, c, open>>
  BY DEF CycleBody
<1>2. counter = <<>> /\ cycle \in Nat /\ open = "lisp" /\ c \in Out
  BY <1>1 DEF Emptied, Cleared, TypeOK, Opened, Entered, Places, Handed
<1>3. counter' \in {<<>>, <<Suspended(cycle)>>}
  <2>1. CASE UNCHANGED rings
    BY <1>2, <2>1
  <2>2. CASE CacheInputs
    BY <1>2, <2>2, AudioAssumption DEF CacheInputs, IncrementCycleCounter
  <2> QED BY <2>1, <2>2 DEF CycleBody
<1>4. \A k \in DOMAIN counter' : counter'[k].type # "last"
  BY <1>3 DEF Suspended
<1>5. ~IsLastCycle'
  BY <1>3, <1>4 DEF IsLastCycle, HasCachedInputs, Suspended
<1> QED BY <1>1, <1>2, <1>4, <1>5 DEF Opened, InCycle, Entered, Out

LEMMA OpenedStep ==
    ASSUME TypeOK, Opened, Places, Emptied, Next
    PROVE  Opened'
<1> USE DEF TypeOK, Places, Opened, Emptied, IsLastCycle, HasCachedInputs, Cleared, InCycle,
      Entered, Handed, Out, Gone
<1>1. CASE JaThreadBegin
  BY <1>1 DEF JaThreadBegin
<1>2. CASE PaThreadBegin
  BY <1>2 DEF PaThreadBegin
<1>3. CASE ThreadLoop
  BY <1>3 DEF ThreadLoop
<1>4. CASE SilentCycle
  BY <1>4 DEF SilentCycle
<1>5. ASSUME NEW resized \in BOOLEAN, JaCycleWait(resized) PROVE Opened'
  BY <1>5 DEF JaCycleWait
<1>6. ASSUME NEW available \in BOOLEAN, PaReadStream(available) PROVE Opened'
  BY <1>6 DEF PaReadStream
<1>7. CASE JaMaybeContinueInLisp
  BY <1>7, OpenedJaMaybe
<1>8. CASE PaMaybeContinueInLisp
  BY <1>8 DEF PaMaybeContinueInLisp, After
<1>9. CASE StoreInputs
  BY <1>9 DEF StoreInputs, WriteInputs
<1>10. CASE SuspendCycle
  BY <1>10 DEF SuspendCycle
<1>11. CASE CountCycle
  BY <1>11, OpenedCountCycle
<1>12. CASE JaResumeLisp
  BY <1>12 DEF JaResumeLisp, SignalLisp
<1>13. CASE PaResumeLisp
  BY <1>13, OpenedPaResumeLisp
<1>14. CASE WaitForTransfer
  BY <1>14 DEF WaitForTransfer
<1>15. CASE RestartPoint
  BY <1>15 DEF RestartPoint
<1>16. CASE InputsFromCacheBegin
  BY <1>16 DEF InputsFromCacheBegin
<1>17. CASE InputsFromCacheEnd
  BY <1>17, OpenedInputsFromCacheEnd
<1>18. CASE RecoveryDone
  BY <1>18 DEF RecoveryDone
<1>19. CASE LispSetIdle
  BY <1>19 DEF LispSetIdle
<1>20. CASE ConditionWait
  BY <1>20 DEF ConditionWait
<1>21. CASE Woken
  BY <1>21, OpenedWoken
<1>22. CASE ContinueCycleBegin
  BY <1>22 DEF ContinueCycleBegin
<1>23. CASE ContinueCycleEnd
  BY <1>23 DEF ContinueCycleEnd, ClearCachedInputs
<1>24. CASE CycleBegin
  BY <1>24 DEF CycleBegin
<1>25. CASE CycleBody
  BY <1>25, OpenedCycleBody
<1>26. CASE CycleEnd
  BY <1>26 DEF CycleEnd
<1>27. CASE Leave
  BY <1>27 DEF Leave
<1>28. CASE TransferToCThread
  BY <1>28 DEF TransferToCThread
<1>29. CASE TransferSignal
  BY <1>29 DEF TransferSignal, SignalC
<1>30. CASE JaInitialize
  <2>1. CASE Initialized
    BY <1>30, <2>1 DEF JaInitialize, Failed, Initialized, ClearCachedInputs
  <2>2. CASE Failed
    BY <1>30, <2>2 DEF JaInitialize, Failed, Initialized, ClearCachedInputs
  <2> QED BY <1>30, <2>1, <2>2 DEF JaInitialize
<1>31. CASE PaInitialize
  <2>1. CASE Initialized
    BY <1>31, <2>1 DEF PaInitialize, Failed, Initialized, ClearCachedInputs
  <2>2. CASE Failed
    BY <1>31, <2>2 DEF PaInitialize, Failed, Initialized, ClearCachedInputs
  <2> QED BY <1>31, <2>1, <2>2 DEF PaInitialize
<1>32. CASE JaStart
  <2>1. CASE Looping
    BY <1>32, <2>1 DEF JaStart, Failed, Looping
  <2>2. CASE Failed
    BY <1>32, <2>2 DEF JaStart, Failed, Looping
  <2> QED BY <1>32, <2>1, <2>2 DEF JaStart
<1>33. CASE PaStart
  <2>1. CASE Looping
    BY <1>33, <2>1 DEF PaStart, Failed, Looping
  <2>2. CASE Failed
    BY <1>33, <2>2 DEF PaStart, Failed, Looping
  <2> QED BY <1>33, <2>1, <2>2 DEF PaStart
<1>34. CASE RtJoin
  BY <1>34 DEF RtJoin
<1>35. CASE Stopping
  BY <1>35 DEF Stopping
<1>36. CASE ProcessThreadWait
  BY <1>36 DEF ProcessThreadWait, SignalC
<1>37. CASE DetachThread
  BY <1>37 DEF DetachThread
<1>38. CASE ThreadEnded
  BY <1>38 DEF ThreadEnded
<1>39. CASE JaCleanup
  BY <1>39 DEF JaCleanup, ClearCachedInputs
<1>40. CASE PaStop
  BY <1>40 DEF PaStop, ClearCachedInputs
<1>41. CASE RequestGc
  BY <1>41 DEF RequestGc
<1>42. CASE RtStart
  BY <1>42 DEF RtStart
<1>43. CASE RtStop
  BY <1>43 DEF RtStop
<1> QED BY <1>1, <1>2, <1>3, <1>4, <1>5, <1>6, <1>7, <1>8, <1>9, <1>10, <1>11, <1>12, <1>13,
      <1>14, <1>15, <1>16, <1>17, <1>18, <1>19, <1>20, <1>21, <1>22, <1>23, <1>24, <1>25, <1>26,
      <1>27, <1>28, <1>29, <1>30, <1>31, <1>32, <1>33, <1>34, <1>35, <1>36, <1>37, <1>38, <1>39,
      <1>40, <1>41, <1>42, <1>43 DEF Next, CStep, LispStep, ControlStep

LEMMA EmptiedStep ==
    ASSUME TypeOK, Emptied, Places, Opened, Next
    PROVE  Emptied'
<1> USE DEF TypeOK, Places, Opened, Emptied, IsLastCycle, HasCachedInputs, Cleared, InCycle,
      Entered, Handed, Out, Gone
<1>1. CASE JaThreadBegin
  BY <1>1 DEF JaThreadBegin
<1>2. CASE PaThreadBegin
  BY <1>2 DEF PaThreadBegin
<1>3. CASE ThreadLoop
  BY <1>3 DEF ThreadLoop
<1>4. CASE SilentCycle
  BY <1>4 DEF SilentCycle
<1>5. ASSUME NEW resized \in BOOLEAN, JaCycleWait(resized) PROVE Emptied'
  BY <1>5 DEF JaCycleWait
<1>6. ASSUME NEW available \in BOOLEAN, PaReadStream(available) PROVE Emptied'
  BY <1>6 DEF PaReadStream
<1>7. CASE JaMaybeContinueInLisp
  BY <1>7 DEF JaMaybeContinueInLisp, IncrementCycleCounter, After
<1>8. CASE PaMaybeContinueInLisp
  BY <1>8 DEF PaMaybeContinueInLisp, After
<1>9. CASE StoreInputs
  BY <1>9 DEF StoreInputs, WriteInputs
<1>10. CASE SuspendCycle
  BY <1>10 DEF SuspendCycle
<1>11. CASE CountCycle
  BY <1>11 DEF CountCycle, IncrementCycleCounter
<1>12. CASE JaResumeLisp
  BY <1>12 DEF JaResumeLisp, SignalLisp
<1>13. CASE PaResumeLisp
  BY <1>13 DEF PaResumeLisp, IncrementCycleCounter, SignalLisp
<1>14. CASE WaitForTransfer
  BY <1>14 DEF WaitForTransfer
<1>15. CASE RestartPoint
  BY <1>15 DEF RestartPoint
<1>16. CASE InputsFromCacheBegin
  BY <1>16 DEF InputsFromCacheBegin
<1>17. CASE InputsFromCacheEnd
  BY <1>17 DEF InputsFromCacheEnd
<1>18. CASE RecoveryDone
  BY <1>18 DEF RecoveryDone
<1>19. CASE LispSetIdle
  BY <1>19 DEF LispSetIdle
<1>20. CASE ConditionWait
  BY <1>20 DEF ConditionWait
<1>21. CASE Woken
  BY <1>21 DEF Woken, ClearCachedInputs, RestartAllowed
<1>22. CASE ContinueCycleBegin
  BY <1>22 DEF ContinueCycleBegin
<1>23. CASE ContinueCycleEnd
  BY <1>23 DEF ContinueCycleEnd, ClearCachedInputs
<1>24. CASE CycleBegin
  BY <1>24 DEF CycleBegin
<1>25. CASE CycleBody
  BY <1>25 DEF CycleBody, CacheInputs, IncrementCycleCounter, WriteInputs
<1>26. CASE CycleEnd
  BY <1>26 DEF CycleEnd
<1>27. CASE Leave
  BY <1>27 DEF Leave
<1>28. CASE TransferToCThread
  BY <1>28 DEF TransferToCThread
<1>29. CASE TransferSignal
  BY <1>29 DEF TransferSignal, SignalC
<1>30. CASE JaInitialize
  <2>1. CASE Initialized
    BY <1>30, <2>1 DEF JaInitialize, Failed, Initialized, ClearCachedInputs
  <2>2. CASE Failed
    BY <1>30, <2>2 DEF JaInitialize, Failed, Initialized, ClearCachedInputs
  <2> QED BY <1>30, <2>1, <2>2 DEF JaInitialize
<1>31. CASE PaInitialize
  <2>1. CASE Initialized
    BY <1>31, <2>1 DEF PaInitialize, Failed, Initialized, ClearCachedInputs
  <2>2. CASE Failed
    BY <1>31, <2>2 DEF PaInitialize, Failed, Initialized, ClearCachedInputs
  <2> QED BY <1>31, <2>1, <2>2 DEF PaInitialize
<1>32. CASE JaStart
  <2>1. CASE Looping
    BY <1>32, <2>1 DEF JaStart, Failed, Looping
  <2>2. CASE Failed
    BY <1>32, <2>2 DEF JaStart, Failed, Looping
  <2> QED BY <1>32, <2>1, <2>2 DEF JaStart
<1>33. CASE PaStart
  <2>1. CASE Looping
    BY <1>33, <2>1 DEF PaStart, Failed, Looping
  <2>2. CASE Failed
    BY <1>33, <2>2 DEF PaStart, Failed, Looping
  <2> QED BY <1>33, <2>1, <2>2 DEF PaStart
<1>34. CASE RtJoin
  BY <1>34 DEF RtJoin
<1>35. CASE Stopping
  BY <1>35 DEF Stopping
<1>36. CASE ProcessThreadWait
  BY <1>36 DEF ProcessThreadWait, SignalC
<1>37. CASE DetachThread
  BY <1>37 DEF DetachThread
<1>38. CASE ThreadEnded
  BY <1>38 DEF ThreadEnded
<1>39. CASE JaCleanup
  BY <1>39 DEF JaCleanup, ClearCachedInputs
<1>40. CASE PaStop
  BY <1>40 DEF PaStop, ClearCachedInputs
<1>41. CASE RequestGc
  BY <1>41 DEF RequestGc
<1>42. CASE RtStart
  BY <1>42 DEF RtStart
<1>43. CASE RtStop
  BY <1>43 DEF RtStop
<1> QED BY <1>1, <1>2, <1>3, <1>4, <1>5, <1>6, <1>7, <1>8, <1>9, <1>10, <1>11, <1>12, <1>13,
      <1>14, <1>15, <1>16, <1>17, <1>18, <1>19, <1>20, <1>21, <1>22, <1>23, <1>24, <1>25, <1>26,
      <1>27, <1>28, <1>29, <1>30, <1>31, <1>32, <1>33, <1>34, <1>35, <1>36, <1>37, <1>38, <1>39,
      <1>40, <1>41, <1>42, <1>43 DEF Next, CStep, LispStep, ControlStep

LEMMA BoundedJaCycleWait ==
    ASSUME TypeOK, Bounded, NEW resized \in BOOLEAN, JaCycleWait(resized)
    PROVE  Bounded'
<1>1. \A k \in DOMAIN counter : counter[k].id \in Nat /\ counter[k].id <= cycle
  BY EntryFields DEF TypeOK, Bounded
<1>2. cycle \in Nat /\ cycle' = cycle + 1
  BY DEF JaCycleWait, TypeOK
<1>3. CASE counter' = <<>>
  BY <1>3 DEF Bounded
<1>4. CASE counter' = counter
  BY <1>1, <1>2, <1>4 DEF Bounded
<1> QED BY <1>3, <1>4 DEF JaCycleWait

LEMMA BoundedPaReadStream ==
    ASSUME TypeOK, Bounded, NEW available \in BOOLEAN, PaReadStream(available)
    PROVE  Bounded'
<1>1. \A k \in DOMAIN counter : counter[k].id \in Nat /\ counter[k].id <= cycle
  BY EntryFields DEF TypeOK, Bounded
<1>2. cycle \in Nat /\ cycle' \in {cycle, cycle + 1} /\ counter' = counter
  BY DEF PaReadStream, TypeOK
<1> QED BY <1>1, <1>2 DEF Bounded

LEMMA BoundedInputsFromCacheEnd ==
    ASSUME TypeOK, Bounded, InputsFromCacheEnd
    PROVE  Bounded'
<1>1. PICK q \in Seq(Entry) : counter = q
  BY DEF TypeOK
<1>2. CASE q = <<>>
  BY <1>1, <1>2 DEF Bounded, InputsFromCacheEnd, HasCachedInputs
<1>3. CASE q # <<>>
  <2>1. counter' = Tail(q) /\ cycle' = cycle
    BY <1>1, <1>3 DEF InputsFromCacheEnd, HasCachedInputs
  <2>2. \A k \in DOMAIN q : q[k].id <= cycle
    BY <1>1 DEF Bounded
  <2>3. \A k \in DOMAIN Tail(q) : k + 1 \in DOMAIN q /\ Tail(q)[k] = q[k + 1]
    BY <1>3, TailEntries
  <2> QED BY <2>1, <2>2, <2>3 DEF Bounded
<1> QED BY <1>2, <1>3

LEMMA BoundedWoken ==
    ASSUME TypeOK, Bounded, Woken
    PROVE  Bounded'
<1>1. CASE UNCHANGED <<counter, cycle>>
  BY <1>1 DEF Bounded
<1>2. CASE ClearCachedInputs
  BY <1>2 DEF Bounded, ClearCachedInputs
<1> QED BY <1>1, <1>2 DEF Woken

LEMMA BoundedStep ==
    ASSUME TypeOK, Bounded, Places, Emptied, Next
    PROVE  Bounded'
<1> USE DEF TypeOK, Places, Emptied, Bounded, Cleared, Last, Suspended, InCycle, Entered,
      Handed, Out, Gone
<1>1. CASE JaThreadBegin
  BY <1>1 DEF JaThreadBegin
<1>2. CASE PaThreadBegin
  BY <1>2 DEF PaThreadBegin
<1>3. CASE ThreadLoop
  BY <1>3 DEF ThreadLoop
<1>4. CASE SilentCycle
  BY <1>4 DEF SilentCycle
<1>5. ASSUME NEW resized \in BOOLEAN, JaCycleWait(resized) PROVE Bounded'
  BY <1>5, BoundedJaCycleWait
<1>6. ASSUME NEW available \in BOOLEAN, PaReadStream(available) PROVE Bounded'
  BY <1>6, BoundedPaReadStream
<1>7. CASE JaMaybeContinueInLisp
  BY <1>7 DEF JaMaybeContinueInLisp, HasCachedInputs, IncrementCycleCounter, After
<1>8. CASE PaMaybeContinueInLisp
  BY <1>8 DEF PaMaybeContinueInLisp, HasCachedInputs, After
<1>9. CASE StoreInputs
  BY <1>9 DEF StoreInputs, WriteInputs
<1>10. CASE SuspendCycle
  BY <1>10 DEF SuspendCycle
<1>11. CASE CountCycle
  BY <1>11 DEF CountCycle, IncrementCycleCounter
<1>12. CASE JaResumeLisp
  BY <1>12 DEF JaResumeLisp, SignalLisp
<1>13. CASE PaResumeLisp
  BY <1>13 DEF PaResumeLisp, HasCachedInputs, IncrementCycleCounter, SignalLisp
<1>14. CASE WaitForTransfer
  BY <1>14 DEF WaitForTransfer
<1>15. CASE RestartPoint
  BY <1>15 DEF RestartPoint
<1>16. CASE InputsFromCacheBegin
  BY <1>16 DEF InputsFromCacheBegin, HasCachedInputs
<1>17. CASE InputsFromCacheEnd
  BY <1>17, BoundedInputsFromCacheEnd
<1>18. CASE RecoveryDone
  BY <1>18 DEF RecoveryDone, HasCachedInputs
<1>19. CASE LispSetIdle
  BY <1>19 DEF LispSetIdle
<1>20. CASE ConditionWait
  BY <1>20 DEF ConditionWait
<1>21. CASE Woken
  BY <1>21, BoundedWoken
<1>22. CASE ContinueCycleBegin
  BY <1>22 DEF ContinueCycleBegin
<1>23. CASE ContinueCycleEnd
  BY <1>23 DEF ContinueCycleEnd, ClearCachedInputs
<1>24. CASE CycleBegin
  BY <1>24 DEF CycleBegin
<1>25. CASE CycleBody
  BY <1>25 DEF CycleBody, CacheInputs, IncrementCycleCounter, WriteInputs
<1>26. CASE CycleEnd
  BY <1>26 DEF CycleEnd
<1>27. CASE Leave
  BY <1>27 DEF Leave
<1>28. CASE TransferToCThread
  BY <1>28 DEF TransferToCThread
<1>29. CASE TransferSignal
  BY <1>29 DEF TransferSignal, SignalC
<1>30. CASE JaInitialize
  <2>1. CASE Initialized
    BY <1>30, <2>1 DEF JaInitialize, Failed, Initialized, ClearCachedInputs
  <2>2. CASE Failed
    BY <1>30, <2>2 DEF JaInitialize, Failed, Initialized, ClearCachedInputs
  <2> QED BY <1>30, <2>1, <2>2 DEF JaInitialize
<1>31. CASE PaInitialize
  <2>1. CASE Initialized
    BY <1>31, <2>1 DEF PaInitialize, Failed, Initialized, ClearCachedInputs
  <2>2. CASE Failed
    BY <1>31, <2>2 DEF PaInitialize, Failed, Initialized, ClearCachedInputs
  <2> QED BY <1>31, <2>1, <2>2 DEF PaInitialize
<1>32. CASE JaStart
  <2>1. CASE Looping
    BY <1>32, <2>1 DEF JaStart, Failed, Looping
  <2>2. CASE Failed
    BY <1>32, <2>2 DEF JaStart, Failed, Looping
  <2> QED BY <1>32, <2>1, <2>2 DEF JaStart
<1>33. CASE PaStart
  <2>1. CASE Looping
    BY <1>33, <2>1 DEF PaStart, Failed, Looping
  <2>2. CASE Failed
    BY <1>33, <2>2 DEF PaStart, Failed, Looping
  <2> QED BY <1>33, <2>1, <2>2 DEF PaStart
<1>34. CASE RtJoin
  BY <1>34 DEF RtJoin
<1>35. CASE Stopping
  BY <1>35 DEF Stopping
<1>36. CASE ProcessThreadWait
  BY <1>36 DEF ProcessThreadWait, SignalC
<1>37. CASE DetachThread
  BY <1>37 DEF DetachThread
<1>38. CASE ThreadEnded
  BY <1>38 DEF ThreadEnded
<1>39. CASE JaCleanup
  BY <1>39 DEF JaCleanup, ClearCachedInputs
<1>40. CASE PaStop
  BY <1>40 DEF PaStop, ClearCachedInputs
<1>41. CASE RequestGc
  BY <1>41 DEF RequestGc
<1>42. CASE RtStart
  BY <1>42 DEF RtStart
<1>43. CASE RtStop
  BY <1>43 DEF RtStop
<1> QED BY <1>1, <1>2, <1>3, <1>4, <1>5, <1>6, <1>7, <1>8, <1>9, <1>10, <1>11, <1>12, <1>13,
      <1>14, <1>15, <1>16, <1>17, <1>18, <1>19, <1>20, <1>21, <1>22, <1>23, <1>24, <1>25, <1>26,
      <1>27, <1>28, <1>29, <1>30, <1>31, <1>32, <1>33, <1>34, <1>35, <1>36, <1>37, <1>38, <1>39,
      <1>40, <1>41, <1>42, <1>43 DEF Next, CStep, LispStep, ControlStep

-----------------------------------------------------------------------------
(* The counter and the cache in step *)

LEMMA NoLastEntry ==
    ASSUME TypeOK, Opened,
           c \notin Out \cup {"resume"} \/ l \notin {"towait", "waiting", "woken", "continue", "continuing"}
    PROVE  ~IsLastCycle /\ \A n : counter # <<Last(n)>>
<1>1. \A k \in DOMAIN counter : counter[k].type # "last"
  BY DEF Opened
<1>2. ~IsLastCycle
  BY <1>1 DEF IsLastCycle, HasCachedInputs, TypeOK
<1>3. ASSUME NEW n, counter = <<Last(n)>> PROVE FALSE
  <2>1. 1 \in DOMAIN counter /\ counter[1].type = "last"
    BY <1>3 DEF Last
  <2> QED BY <1>1, <2>1
<1> QED BY <1>2, <1>3

LEMMA AccountedJaCycleWait ==
    ASSUME TypeOK, Places, Opened, Accounted, NEW resized \in BOOLEAN, JaCycleWait(resized)
    PROVE  Accounted'
<1> SUFFICES ASSUME Watched' PROVE Accounted'
  BY DEF Accounted
<1>1. c = "wait" /\ c' = "maybe1" /\ cycle' = cycle + 1
  BY DEF JaCycleWait
<1>2. UNCHANGED <<counter, done, lost>> /\ Watched
  BY DEF JaCycleWait, Watched, TypeOK
<1>3. ~Uncounted
  BY <1>1 DEF Uncounted, InCycle, Places, Handed, Entered, Out
<1>4. Uncounted'
  BY <1>1 DEF Uncounted, InCycle
<1>5. Counted(counter, done) /\ cycle = done + Len(counter)
  BY <1>1, <1>2, <1>3, NoLastEntry DEF Accounted, One, Out, TypeOK
<1>6. Counted(counter, done)'
  BY <1>2, <1>5 DEF Counted
<1> QED BY <1>1, <1>2, <1>4, <1>5, <1>6 DEF Accounted, One, TypeOK

LEMMA AccountedPaReadStream ==
    ASSUME TypeOK, Places, Opened, Accounted, NEW available \in BOOLEAN, PaReadStream(available)
    PROVE  Accounted'
<1> SUFFICES ASSUME Watched' PROVE Accounted'
  BY DEF Accounted
<1>1. c = "wait" /\ UNCHANGED <<counter, done, lost, l>> /\ Watched
  BY DEF PaReadStream, Watched, TypeOK
<1>2. ~Uncounted
  BY <1>1 DEF Uncounted, InCycle, Places, Handed, Entered, Out
<1>3. Counted(counter, done) /\ cycle = done + Len(counter)
  BY <1>1, <1>2, NoLastEntry DEF Accounted, One, Out, TypeOK
<1>4. Counted(counter, done)'
  BY <1>1, <1>3 DEF Counted
<1>5. CASE c' = "maybe1" /\ cycle' = cycle + 1
  <2>1. Uncounted'
    BY <1>5 DEF Uncounted, InCycle
  <2> QED BY <1>1, <1>3, <1>4, <1>5, <2>1 DEF Accounted, One, TypeOK
<1>6. CASE c' = "top" /\ cycle' = cycle
  <2>1. ~Uncounted'
    BY <1>1, <1>2, <1>6 DEF Uncounted, InCycle
  <2> QED BY <1>1, <1>3, <1>4, <1>6, <2>1 DEF Accounted, One, TypeOK
<1> QED BY <1>5, <1>6 DEF PaReadStream

LEMMA AccountedJaMaybe ==
    ASSUME TypeOK, Places, Opened, Accounted, JaMaybeContinueInLisp
    PROVE  Accounted'
<1> SUFFICES ASSUME Watched' PROVE Accounted'
  BY DEF Accounted
<1>1. c \in {"maybe1", "maybe2", "maybe3"} /\ Jack /\ UNCHANGED <<driver, done, lost, l, cycle, busy, open>> /\ Watched
  BY DEF JaMaybeContinueInLisp, Watched, TypeOK
<1>2. Uncounted
  BY <1>1 DEF Uncounted, InCycle
<1>3. Counted(counter, done) /\ cycle = done + Len(counter) + 1
  BY <1>1, <1>2, NoLastEntry DEF Accounted, One, Out, TypeOK
<1>4. CASE ~busy /\ counter = <<>>
  <2>1. PICK n \in Nat, d \in Nat : cycle = n /\ done = d /\ n = d + 1
    BY <1>3, <1>4 DEF TypeOK
  <2>2. counter' = <<Last(n)>> /\ c' = "resume"
    BY <1>4, <2>1, SingleLast, AudioAssumption DEF JaMaybeContinueInLisp, HasCachedInputs, IncrementCycleCounter
  <2>3. Counted(<<Last(n)>>, d) /\ Len(<<Last(n)>>) = 1
    BY <2>1, SingleLast DEF Counted
  <2>4. l \in {"towait", "waiting"}
    BY <1>1, <1>4 DEF Places, Out, Gone
  <2>5. ~Uncounted'
    BY <1>1, <2>2, <2>4 DEF Uncounted, InCycle
  <2> QED BY <1>1, <2>1, <2>2, <2>3, <2>5 DEF Accounted, One
<1>5. CASE ~(~busy /\ counter = <<>>)
  <2>1. counter' = counter /\ c' \in {"store", "maybe3", "signal"}
    BY <1>1, <1>5 DEF JaMaybeContinueInLisp, HasCachedInputs, After
  <2>2. Uncounted'
    BY <2>1 DEF Uncounted, InCycle
  <2>3. Counted(counter, done)'
    BY <1>1, <1>3, <2>1 DEF Counted
  <2> QED BY <1>1, <1>3, <2>1, <2>2, <2>3 DEF Accounted, One
<1> QED BY <1>4, <1>5

LEMMA AccountedCountCycle ==
    ASSUME TypeOK, Places, Opened, Accounted, CountCycle
    PROVE  Accounted'
<1> SUFFICES ASSUME Watched' PROVE Accounted'
  BY DEF Accounted
<1>1. c = "count" /\ c' = "top" /\ UNCHANGED <<driver, done, l, cycle, open>>
  BY DEF CountCycle
<1>2. Watched /\ ~(Len(counter) = CounterCapacity)
  BY DEF CountCycle, Watched, TypeOK
<1>3. Uncounted /\ ~Uncounted'
  BY <1>1 DEF Uncounted, InCycle, Places, Handed, Entered, Out
<1>4. Counted(counter, done) /\ cycle = done + Len(counter) + 1
  BY <1>1, <1>2, <1>3, NoLastEntry DEF Accounted, One, Out, TypeOK
<1>5. PICK q \in Seq(Entry), n \in Nat, d \in Nat : counter = q /\ cycle = n /\ done = d
  BY DEF TypeOK
<1>6. counter' = Append(q, Suspended(n))
  BY <1>2, <1>5, AudioAssumption DEF CountCycle, IncrementCycleCounter, TypeOK
<1>7. Suspended(n) \in Entry /\ Suspended(n).id = n
  BY DEF Suspended, Entry
<1>8. Counted(Append(q, Suspended(n)), d)
  BY <1>4, <1>5, <1>7, CountedAppend
<1>9. Len(Append(q, Suspended(n))) = Len(q) + 1
  BY <1>7, AppendEntries
<1> QED BY <1>1, <1>3, <1>4, <1>5, <1>6, <1>8, <1>9 DEF Accounted, One

LEMMA AccountedPaResumeLisp ==
    ASSUME TypeOK, Places, Opened, Accounted, PaResumeLisp
    PROVE  Accounted'
<1> SUFFICES ASSUME Watched' PROVE Accounted'
  BY DEF Accounted
<1>1. c = "resume" /\ c' = "towait" /\ UNCHANGED <<driver, recover, done, lost, cycle, open, delayed>> /\ ~Jack /\ Watched
  BY DEF PaResumeLisp, Watched
<1>2. l \in {"towait", "waiting"} /\ l' \in {"towait", "waiting", "woken"}
  BY <1>1 DEF Places, PaResumeLisp, SignalLisp
<1>3. ~Uncounted' /\ (Uncounted <=> open = "c")
  BY <1>1, <1>2 DEF Uncounted, InCycle
<1>4. PICK n \in Nat, d \in Nat : cycle = n /\ done = d
  BY DEF TypeOK
<1>5. CASE open = "c"
  <2>1. recover /\ delayed /\ counter = <<>>
    BY <1>1, <1>5 DEF Opened
  <2>2. counter' = <<Last(n)>>
    BY <1>4, <1>5, <2>1, SingleLast, AudioAssumption DEF PaResumeLisp, HasCachedInputs, IncrementCycleCounter
  <2>3. n = d + 1
    BY <1>1, <1>3, <1>4, <1>5, <2>1 DEF Accounted, One
  <2>4. Counted(<<Last(n)>>, d) /\ Len(<<Last(n)>>) = 1
    BY <2>3, SingleLast DEF Counted
  <2> QED BY <1>1, <1>3, <1>4, <2>2, <2>3, <2>4 DEF Accounted, One
<1>6. CASE open # "c" /\ recover /\ delayed /\ counter = <<>>
  <2>1. counter' = <<Last(0)>>
    BY <1>6, SingleLast, AudioAssumption DEF PaResumeLisp, HasCachedInputs, IncrementCycleCounter
  <2>2. n = d
    BY <1>1, <1>3, <1>4, <1>6 DEF Accounted, One
  <2> QED BY <1>1, <1>3, <1>4, <2>1, <2>2 DEF Accounted, One
<1>7. CASE open # "c" /\ ~(recover /\ delayed /\ counter = <<>>)
  <2>1. counter' = counter
    BY <1>7 DEF PaResumeLisp, HasCachedInputs
  <2> QED BY <1>1, <1>3, <1>7, <2>1 DEF Accounted, One, Counted
<1> QED BY <1>5, <1>6, <1>7

LEMMA AccountedInputsFromCacheEnd ==
    ASSUME TypeOK, Places, Opened, Accounted, InputsFromCacheEnd
    PROVE  Accounted'
<1> SUFFICES ASSUME Watched' PROVE Accounted'
  BY DEF Accounted
<1>1. l = "recovering" /\ l' = "recover" /\ UNCHANGED <<driver, c, lost, cycle, open>> /\ Watched
  BY DEF InputsFromCacheEnd, Watched
<1>2. Uncounted' <=> Uncounted
  BY <1>1 DEF Uncounted
<1>3. Counted(counter, done) /\ cycle = done + Len(counter) + One(Uncounted)
  BY <1>1, NoLastEntry DEF Accounted
<1>4. PICK q \in Seq(Entry), n \in Nat, d \in Nat, u \in Nat : counter = q /\ cycle = n /\ done = d /\ u = One(Uncounted) /\ One(Uncounted)' = u
  BY <1>2 DEF TypeOK, One
<1>5. CASE q = <<>>
  BY <1>1, <1>3, <1>4, <1>5 DEF InputsFromCacheEnd, HasCachedInputs, Accounted, Counted
<1>6. CASE q # <<>>
  <2>1. counter' = Tail(q) /\ done' = Head(q).id
    BY <1>4, <1>6 DEF InputsFromCacheEnd, HasCachedInputs
  <2>2. Head(q).id = d + 1 /\ Counted(Tail(q), d + 1)
    BY <1>3, <1>4, <1>6, CountedTail
  <2>3. Len(Tail(q)) = Len(q) - 1 /\ Len(q) \in Nat
    BY <1>6, TailEntries
  <2>4. Counted(counter, done)'
    BY <2>1, <2>2
  <2>5. n = d + 1 + (Len(q) - 1) + u
    BY <1>3, <1>4, <2>3
  <2>6. cycle' = done' + Len(counter') + One(Uncounted)'
    BY <1>1, <1>4, <2>1, <2>2, <2>3, <2>5
  <2> QED BY <2>4, <2>6 DEF Accounted
<1> QED BY <1>5, <1>6

LEMMA EmptyInStep ==
    ASSUME counter' = <<>>, cache' = <<>>, done' = 0, cycle' = 0,
           ~lost' => ~Uncounted' /\ ~Stored' /\ ~Read'
    PROVE  Accounted' /\ CacheInStep'
<1> SUFFICES ASSUME ~lost' PROVE Accounted' /\ CacheInStep'
  BY DEF Accounted, CacheInStep, Watched
<1>1. Len(<<>>) = 0 /\ 0 + 0 = 0 /\ 0 - 0 = 0 /\ One(Uncounted)' = 0 /\ One(Stored)' = 0 /\ One(Read)' = 0
  BY DEF One
<1>2. Counted(counter, done)' /\ cycle' = done' + Len(counter') + One(Uncounted)'
  BY <1>1, CountedEmpty
<1>3. Blocks(cache', done' + One(Read)', (Len(counter') + One(Stored)') - One(Read)')
  BY <1>1, CountedEmpty
<1> QED BY <1>2, <1>3 DEF Accounted, CacheInStep

LEMMA InStepPaThreadBegin ==
    ASSUME TypeOK, Places, Emptied, Recovering, PaThreadBegin
    PROVE  Accounted' /\ CacheInStep'
<1>1. c = "start" /\ counter = <<>> /\ cache = <<>> /\ done = 0 /\ cycle = 0
  BY DEF PaThreadBegin, Emptied, Cleared
<1>2. l \notin {"incycle", "full"} /\ (~lost => l # "recovering")
  BY <1>1 DEF Places, Handed, Entered, Out, Recovering
<1>3. c' \in {"top", "dead"} /\ UNCHANGED <<counter, cache, done, cycle, l, lost>>
  BY DEF PaThreadBegin
<1>4. ~lost' => ~Uncounted' /\ ~Stored' /\ ~Read'
  BY <1>2, <1>3 DEF Uncounted, Stored, Read, InCycle
<1> QED BY <1>1, <1>3, <1>4, EmptyInStep

LEMMA InStepJaStart ==
    ASSUME TypeOK, Emptied, JaStart, Looping
    PROVE  Accounted' /\ CacheInStep'
<1>1. l = "start" /\ counter = <<>> /\ cache = <<>> /\ done = 0 /\ cycle = 0
  BY DEF JaStart, Emptied, Cleared
<1>2. c' = "start" /\ l' = "label" /\ UNCHANGED <<counter, cache, done, cycle>>
  BY <1>1 DEF JaStart, Looping, Failed
<1>3. ~Uncounted' /\ ~Stored' /\ ~Read'
  BY <1>2 DEF Uncounted, Stored, Read, InCycle
<1> QED BY <1>1, <1>2, <1>3, EmptyInStep

LEMMA InStepWoken ==
    ASSUME TypeOK, Places, Accounted, CacheInStep, Woken
    PROVE  Accounted' /\ CacheInStep'
<1>1. l = "woken" /\ c \in Out /\ UNCHANGED <<driver, c, open, status, recover, ctl>>
  BY DEF Woken, Places, Handed, Out
<1>2. l' \in {"loop", "continue", "transfer", "abort"}
  BY DEF Woken
<1>3. ~Uncounted' /\ ~Stored' /\ ~Read' /\ ~Uncounted /\ ~Stored /\ ~Read
  BY <1>1, <1>2 DEF Uncounted, Stored, Read, InCycle, Out
<1>4. CASE UNCHANGED <<rings, history>>
  <2>1. (Handing' <=> Handing) /\ (Watched' <=> Watched)
    BY <1>1, <1>4 DEF Handing, IsLastCycle, HasCachedInputs, Watched
  <2> QED BY <1>3, <1>4, <2>1 DEF Accounted, CacheInStep, Counted, Blocks, One
<1>5. CASE ClearCachedInputs
  BY <1>3, <1>5, EmptyInStep DEF ClearCachedInputs
<1> QED BY <1>4, <1>5 DEF Woken

LEMMA InStepContinueCycleEnd ==
    ASSUME TypeOK, Places, ContinueCycleEnd
    PROVE  Accounted' /\ CacheInStep'
<1>1. c \in Out /\ c' = c /\ l' \in {"transfer", "loop"} /\ ClearCachedInputs
  BY DEF ContinueCycleEnd, Places, Handed, Entered, Out
<1>2. ~Uncounted' /\ ~Stored' /\ ~Read'
  BY <1>1 DEF Uncounted, Stored, Read, InCycle, Out
<1> QED BY <1>1, <1>2, EmptyInStep DEF ClearCachedInputs

LEMMA InStepCycleBody ==
    ASSUME TypeOK, Places, Opened, Emptied, Accounted, CacheInStep, CycleBody
    PROVE  Accounted' /\ CacheInStep'
<1>1. l = "incycle" /\ c \in Out /\ c' = c /\ l' \in {"empty", "full"}
  BY DEF CycleBody, Places, Handed, Entered, Out
<1>2. counter = <<>> /\ cache = <<>> /\ done = 0 /\ UNCHANGED <<driver, done, cycle, open, recover, status, ctl>>
  BY <1>1 DEF CycleBody, Emptied, Cleared
<1>3. ~Stored' /\ ~Read' /\ Uncounted /\ ~Stored /\ ~Read /\ (Uncounted' <=> l' = "full")
  BY <1>1, <1>2 DEF Uncounted, Stored, Read, InCycle, Out
<1>4. CASE gc /\ recover
  <2>1. CacheInputs /\ l' = "empty"
    BY <1>4 DEF CycleBody
  <2> SUFFICES ASSUME Watched' PROVE Accounted' /\ CacheInStep'
    BY DEF Accounted, CacheInStep
  <2>2. cycle = 1
    BY <1>1, <1>4 DEF Emptied
  <2>3. Suspended(1) \in Entry /\ Suspended(1).id = 1 /\ <<>> \in Seq(Entry) /\ Len(<<>>) = 0 /\ <<>> \in Seq(Halves)
    BY DEF Suspended, Entry
  <2>4. counter' = Append(<<>>, Suspended(1))
    BY <1>2, <2>1, <2>2, AudioAssumption DEF CacheInputs, IncrementCycleCounter
  <2>5. Len(counter') = 1 /\ Counted(counter', 0)
    <3>1. Counted(<<>>, 0) /\ 0 + Len(<<>>) + 1 = 1
      BY <2>3, CountedEmpty
    <3>2. Counted(Append(<<>>, Suspended(1)), 0)
      BY <2>3, <3>1, CountedAppend
    <3>3. Len(Append(<<>>, Suspended(1))) = 1
      OBVIOUS
    <3> QED BY <2>4, <3>2, <3>3
  <2>6. Fits(<<>>)
    <3>1. ~(Len(cache) + 2 > CacheCapacity)
      BY <2>1, Zenon DEF Watched, CacheInputs
    <3> QED BY <1>2, <3>1, AudioAssumption DEF Fits
  <2>7. cache' = WrittenTo(<<>>, 1)
    BY <1>2, <2>1, <2>2 DEF CacheInputs, WriteInputs, WrittenTo, Kept
  <2>8. Blocks(cache', 0, 1)
    <3>1. Blocks(<<>>, 0, 0) /\ Len(<<>>) <= CacheCapacity /\ 0 \in Nat
      BY <2>3, CountedEmpty, AudioAssumption
    <3>2. Blocks(WrittenTo(<<>>, 0 + 0 + 1), 0, 0 + 1)
      BY <2>3, <2>6, <3>1, BlocksWritten, Zenon
    <3>3. 0 + 0 + 1 = 1 /\ 0 + 1 = 1
      OBVIOUS
    <3> QED BY <2>7, <3>2, <3>3
  <2> QED BY <1>2, <1>3, <2>1, <2>2, <2>5, <2>8 DEF Accounted, CacheInStep, One
<1>5. CASE ~(gc /\ recover)
  <2>1. UNCHANGED <<counter, cache, lost>>
    BY <1>5 DEF CycleBody
  <2> SUFFICES ASSUME Watched' PROVE Accounted' /\ CacheInStep'
    BY DEF Accounted, CacheInStep
  <2>2. Watched /\ recover /\ Uncounted'
    BY <1>2, <1>3, <1>5, <2>1 DEF Watched, CycleBody
  <2>3. (Handing' <=> Handing)
    BY <1>1, <1>2, <2>1 DEF Handing, IsLastCycle, HasCachedInputs
  <2> QED BY <1>2, <1>3, <2>1, <2>2, <2>3 DEF Accounted, CacheInStep, Counted, Blocks, One
<1> QED BY <1>4, <1>5

LEMMA CacheInStepStoreInputs ==
    ASSUME TypeOK, Places, Opened, Accounted, CacheInStep, Recovering, StoreInputs
    PROVE  CacheInStep'
<1> SUFFICES ASSUME Watched' PROVE CacheInStep'
  BY DEF CacheInStep
<1>1. c = "store" /\ c' = "maybe2" /\ UNCHANGED <<driver, l, open, counter, cycle, done>>
  BY DEF StoreInputs
<1>2. Watched /\ Len(cache) + 2 <= CacheCapacity
  <2>1. ~lost /\ ~(Len(cache) + 2 > CacheCapacity)
    BY Zenon DEF Watched, StoreInputs
  <2>2. Watched
    BY <2>1 DEF Watched, StoreInputs
  <2> QED BY <2>1, <2>2, AudioAssumption DEF TypeOK
<1>3. Uncounted /\ ~Stored /\ Stored' /\ (Read' <=> Read) /\ ~Handing
  BY <1>1, NoLastEntry DEF Uncounted, InCycle, Stored, Read, Handing, Out
<1>4. PICK q \in Seq(Halves), m \in Nat, n \in Nat, d \in Nat, r \in {0, 1} :
         /\ cache = q /\ cycle = n /\ done = d /\ Len(counter) = m
         /\ One(Read) = r /\ One(Read)' = r /\ Len(q) <= CacheCapacity /\ Fits(q)
  <2>1. cache \in Seq(Halves) /\ Len(counter) \in Nat /\ cycle \in Nat /\ done \in Nat
    BY DEF TypeOK, Halves
  <2>2. One(Read) \in {0, 1} /\ One(Read)' = One(Read)
    BY <1>3 DEF One
  <2>3. Len(cache) <= CacheCapacity /\ Fits(cache)
    BY <1>2 DEF TypeOK, Fits
  <2> QED BY <2>1, <2>2, <2>3, Zenon
<1>5. n = d + m + 1
  BY <1>1, <1>2, <1>3, <1>4, NoLastEntry DEF Accounted, One, Out
<1>6. m - r \in Nat
  <2>1. Read => counter # <<>>
    BY <1>2 DEF Read, Recovering, Watched
  <2> QED BY <1>4, <2>1 DEF One, TypeOK
<1>7. Blocks(q, d + r, m - r)
  BY <1>2, <1>3, <1>4 DEF CacheInStep, One
<1>8. cache' = WrittenTo(q, n)
  BY <1>4 DEF StoreInputs, WriteInputs, WrittenTo, Kept
<1>9. n = (d + r) + (m - r) + 1 /\ (m - r) + 1 = m + 1 - r /\ d + r \in Nat
  BY <1>5
<1>10. Blocks(WrittenTo(q, n), d + r, m + 1 - r)
  BY <1>4, <1>6, <1>7, <1>9, BlocksWritten
<1> QED BY <1>1, <1>3, <1>4, <1>8, <1>10 DEF CacheInStep, One

LEMMA CacheInStepCountCycle ==
    ASSUME TypeOK, Places, Opened, CacheInStep, CountCycle
    PROVE  CacheInStep'
<1> SUFFICES ASSUME Watched' PROVE CacheInStep'
  BY DEF CacheInStep
<1>1. c = "count" /\ c' = "top" /\ UNCHANGED <<driver, done, l, cycle, open, cache>>
  BY DEF CountCycle
<1>2. Watched /\ ~(Len(counter) = CounterCapacity)
  BY DEF CountCycle, Watched, TypeOK
<1>3. Stored /\ ~Stored' /\ (Read' <=> Read) /\ ~Handing
  BY <1>1, NoLastEntry DEF Stored, Read, Handing, Out
<1>4. PICK q \in Seq(Entry), n \in Nat : counter = q /\ cycle = n
  BY DEF TypeOK
<1>5. counter' = Append(q, Suspended(n))
  BY <1>2, <1>4, AudioAssumption DEF CountCycle, IncrementCycleCounter, TypeOK
<1>6. Suspended(n) \in Entry
  BY DEF Suspended, Entry
<1>7. Len(counter') = Len(q) + 1 /\ Len(q) \in Nat
  BY <1>5, <1>6, AppendEntries
<1>8. Len(counter') + One(Stored)' = Len(counter) + One(Stored) /\ One(Read)' = One(Read)
  BY <1>3, <1>4, <1>7 DEF One
<1>9. Blocks(cache, done + One(Read), (Len(counter) + One(Stored)) - One(Read))
  BY <1>2, <1>3 DEF CacheInStep
<1>10. Blocks(cache', done' + One(Read)', (Len(counter') + One(Stored)') - One(Read)')
  <2>1. cache' = cache /\ done' = done
    BY <1>1
  <2> QED BY <1>8, <1>9, <2>1
<1> QED BY <1>10 DEF CacheInStep

LEMMA CacheInStepPaResumeLisp ==
    ASSUME TypeOK, Places, Opened, Accounted, CacheInStep, PaResumeLisp
    PROVE  CacheInStep'
<1> SUFFICES ASSUME Watched', ~Handing' PROVE CacheInStep'
  BY DEF CacheInStep
<1>1. c = "resume" /\ c' = "towait" /\ UNCHANGED <<driver, recover, done, lost, cycle, open, delayed, cache>> /\ ~Jack /\ Watched
  BY DEF PaResumeLisp, Watched
<1>2. l \in {"towait", "waiting"} /\ l' \in {"towait", "waiting", "woken"}
  BY <1>1 DEF Places, PaResumeLisp, SignalLisp
<1>3. ~(recover /\ delayed /\ counter = <<>>)
  <2> SUFFICES ASSUME recover, delayed, counter = <<>> PROVE FALSE
    OBVIOUS
  <2>1. PICK n \in Nat : n = IF open = "c" THEN cycle ELSE 0
    BY DEF TypeOK
  <2>2. counter' = <<Last(n)>>
    BY <2>1, SingleLast, AudioAssumption DEF PaResumeLisp, HasCachedInputs, IncrementCycleCounter
  <2>3. IsLastCycle'
    BY <2>2, SingleLast DEF IsLastCycle, HasCachedInputs
  <2> QED BY <2>3 DEF Handing
<1>4. counter' = counter
  BY <1>3 DEF PaResumeLisp, HasCachedInputs
<1>5. open # "c"
  BY <1>1, <1>3 DEF Opened
<1>6. ~Handing /\ ~Stored /\ ~Stored' /\ ~Read /\ ~Read'
  BY <1>1, <1>2, <1>4, <1>5 DEF Handing, IsLastCycle, HasCachedInputs, Stored, Read
<1> QED BY <1>1, <1>4, <1>6 DEF CacheInStep, One

LEMMA CacheInStepInputsFromCacheBegin ==
    ASSUME TypeOK, Places, Opened, CacheInStep, InputsFromCacheBegin
    PROVE  CacheInStep' /\ (Watched => got' = Block(done + 1))
<1> SUFFICES ASSUME Watched PROVE CacheInStep' /\ got' = Block(done + 1)
  BY DEF CacheInStep, InputsFromCacheBegin, Watched
<1>1. l = "recover" /\ l' = "recovering" /\ counter # <<>> /\ UNCHANGED <<driver, done, c, open, counter>>
  BY DEF InputsFromCacheBegin, HasCachedInputs
<1>2. (Stored <=> Stored') /\ ~Read /\ Read' /\ ~Handing
  BY <1>1, NoLastEntry DEF Stored, Read, Handing, Places
<1>3. PICK q \in Seq(Halves), d \in Nat, s \in {0, 1}, m \in Nat \ {0} :
         /\ cache = q /\ done = d /\ s = One(Stored) /\ s = One(Stored)' /\ Len(counter) = m
  <2>1. Len(counter) \in Nat \ {0} /\ done \in Nat /\ cache \in Seq(Halves)
    BY <1>1 DEF TypeOK, Halves
  <2>2. One(Stored) \in {0, 1} /\ One(Stored)' = One(Stored)
    BY <1>2 DEF One
  <2> QED BY <2>1, <2>2
<1>4. Blocks(q, d, m + s)
  BY <1>2, <1>3 DEF CacheInStep, One
<1>5. /\ Taken(q) = 2
      /\ SubSeq(q, 1, 2) = Block(d + 1)
      /\ Blocks(SubSeq(q, 3, Len(q)), d + 1, m + s - 1)
  BY <1>3, <1>4, BlocksRead, m + s \in Nat \ {0}, SMTT(30)
<1>6. got' = SubSeq(q, 1, 2)
  BY <1>3, <1>5 DEF InputsFromCacheBegin, Taken
<1>7. Len(got') = 2
  BY <1>5, <1>6, BlockHalves, d + 1 \in Nat
<1>8. cache' = SubSeq(q, 3, Len(q))
  <2>1. cache' = SubSeq(q, Len(got') + 1, Len(q))
    BY <1>3 DEF InputsFromCacheBegin
  <2>2. Len(got') + 1 = 3
    BY <1>7
  <2> QED BY <2>1, <2>2
<1>9. Blocks(cache', done' + One(Read)', (Len(counter') + One(Stored)') - One(Read)')
  BY <1>1, <1>2, <1>3, <1>5, <1>8 DEF One
<1> QED BY <1>3, <1>5, <1>6, <1>9 DEF CacheInStep

LEMMA CacheInStepInputsFromCacheEnd ==
    ASSUME TypeOK, Places, Opened, Accounted, CacheInStep, Recovering, InputsFromCacheEnd
    PROVE  CacheInStep'
<1> SUFFICES ASSUME Watched' PROVE CacheInStep'
  BY DEF CacheInStep
<1>1. l = "recovering" /\ l' = "recover" /\ UNCHANGED <<driver, c, lost, cycle, open, cache>> /\ Watched
  BY DEF InputsFromCacheEnd, Watched
<1>2. PICK q \in Seq(Entry), d \in Nat : counter = q /\ done = d /\ q # <<>>
  BY <1>1 DEF TypeOK, Recovering, Watched
<1>3. Counted(q, d)
  BY <1>1, <1>2, NoLastEntry DEF Accounted
<1>4. counter' = Tail(q) /\ done' = d + 1
  BY <1>2, <1>3, CountedTail DEF InputsFromCacheEnd, HasCachedInputs
<1>5. Len(Tail(q)) = Len(q) - 1 /\ Len(q) \in Nat
  BY <1>2, TailEntries
<1>6. (Stored <=> Stored') /\ Read /\ ~Read' /\ ~Handing
  BY <1>1, NoLastEntry DEF Stored, Read, Handing, Places
<1>7. PICK s \in {0, 1} : s = One(Stored) /\ s = One(Stored)'
  BY <1>6 DEF One
<1>8. Blocks(cache, d + 1, Len(q) + s - 1)
  BY <1>1, <1>2, <1>6, <1>7 DEF CacheInStep, One
<1>9. (Len(counter') + One(Stored)') - One(Read)' = Len(q) + s - 1 /\ done' + One(Read)' = d + 1
  <2>1. One(Read)' = 0 /\ One(Stored)' = s /\ Len(counter') = Len(q) - 1 /\ done' = d + 1
    BY <1>4, <1>5, <1>6, <1>7 DEF One
  <2> QED BY <1>5, <2>1
<1>10. Blocks(cache', done' + One(Read)', (Len(counter') + One(Stored)') - One(Read)')
  BY <1>1, <1>8, <1>9
<1> QED BY <1>10 DEF CacheInStep

LEMMA RecoveringCountCycle ==
    ASSUME TypeOK, Recovering, CountCycle
    PROVE  Recovering'
<1>1. PICK q \in Seq(Entry), n \in Nat : counter = q /\ cycle = n
  BY DEF TypeOK
<1>2. counter' \in {q, Append(q, Suspended(n))} /\ UNCHANGED <<l, got, done>> /\ (~lost' => ~lost)
  BY <1>1 DEF CountCycle, IncrementCycleCounter
<1>3. Append(q, Suspended(n)) # <<>>
  BY AppendEntries, EntriesMade
<1> QED BY <1>1, <1>2, <1>3 DEF Recovering

LEMMA RecoveringInputsFromCacheBegin ==
    ASSUME TypeOK, Places, Opened, Emptied, CacheInStep, InputsFromCacheBegin
    PROVE  Recovering'
<1> SUFFICES ASSUME ~lost PROVE Recovering'
  BY DEF Recovering, InputsFromCacheBegin
<1>1. l = "recover" /\ counter # <<>> /\ UNCHANGED <<counter, done>>
  BY DEF InputsFromCacheBegin, HasCachedInputs
<1>2. Watched
  <2>1. recover /\ ctl \in {"idle", "join"}
    BY <1>1 DEF Places, TypeOK
  <2>2. status \in {"running", "initializing"}
    BY <1>1 DEF Places
  <2>3. status # "initializing"
    BY <1>1 DEF Emptied, Cleared
  <2> QED BY <2>1, <2>2, <2>3 DEF Watched
<1>3. got' = Block(done + 1)
  BY <1>2, CacheInStepInputsFromCacheBegin
<1> QED BY <1>1, <1>3 DEF Recovering

LEMMA RecoveringJaMaybe ==
    ASSUME TypeOK, Places, Recovering, JaMaybeContinueInLisp
    PROVE  Recovering'
<1>1. l = "recovering" => busy
  BY DEF Places
<1>2. l = "recovering" => UNCHANGED counter
  BY <1>1 DEF JaMaybeContinueInLisp
<1> QED BY <1>2 DEF Recovering, JaMaybeContinueInLisp

LEMMA CacheInStepJaMaybe ==
    ASSUME TypeOK, Places, Opened, CacheInStep, JaMaybeContinueInLisp
    PROVE  CacheInStep'
<1> SUFFICES ASSUME Watched', ~Handing' PROVE CacheInStep'
  BY DEF CacheInStep
<1>1. /\ c \in {"maybe1", "maybe2", "maybe3"}
      /\ UNCHANGED <<driver, open, cache, done, l, lost>> /\ Watched
  BY DEF JaMaybeContinueInLisp, Watched
<1>2. open = "c"
  BY <1>1 DEF Opened, InCycle, Watched
<1>3. c' = After(c) /\ counter' = counter
  BY <1>1, <1>2 DEF JaMaybeContinueInLisp, Handing
<1>4. (Stored' <=> Stored) /\ (Read' <=> Read) /\ ~Handing
  BY <1>1, <1>3, NoLastEntry DEF Stored, Read, After, Handing, Out
<1> QED BY <1>1, <1>3, <1>4 DEF CacheInStep, One

LEMMA AccountedStep ==
    ASSUME TypeOK, Accounted, Places, Opened, Emptied, CacheInStep, Recovering, Next
    PROVE  Accounted'
<1> USE DEF TypeOK, Places, Opened, Emptied, Accounted, Watched, Uncounted, One, Cleared,
      IsLastCycle, HasCachedInputs, InCycle, Entered, Handed, Out, Gone
<1>1. CASE JaThreadBegin
  BY <1>1 DEF JaThreadBegin
<1>2. CASE PaThreadBegin
  BY <1>2, InStepPaThreadBegin
<1>3. CASE ThreadLoop
  BY <1>3 DEF ThreadLoop
<1>4. CASE SilentCycle
  BY <1>4 DEF SilentCycle
<1>5. ASSUME NEW resized \in BOOLEAN, JaCycleWait(resized) PROVE Accounted'
  BY <1>5, AccountedJaCycleWait
<1>6. ASSUME NEW available \in BOOLEAN, PaReadStream(available) PROVE Accounted'
  BY <1>6, AccountedPaReadStream
<1>7. CASE JaMaybeContinueInLisp
  BY <1>7, AccountedJaMaybe
<1>8. CASE PaMaybeContinueInLisp
  BY <1>8 DEF PaMaybeContinueInLisp, After
<1>9. CASE StoreInputs
  BY <1>9 DEF StoreInputs, WriteInputs
<1>10. CASE SuspendCycle
  BY <1>10 DEF SuspendCycle
<1>11. CASE CountCycle
  BY <1>11, AccountedCountCycle
<1>12. CASE JaResumeLisp
  BY <1>12 DEF JaResumeLisp, SignalLisp
<1>13. CASE PaResumeLisp
  BY <1>13, AccountedPaResumeLisp
<1>14. CASE WaitForTransfer
  BY <1>14 DEF WaitForTransfer
<1>15. CASE RestartPoint
  BY <1>15 DEF RestartPoint
<1>16. CASE InputsFromCacheBegin
  BY <1>16 DEF InputsFromCacheBegin
<1>17. CASE InputsFromCacheEnd
  BY <1>17, AccountedInputsFromCacheEnd
<1>18. CASE RecoveryDone
  BY <1>18 DEF RecoveryDone
<1>19. CASE LispSetIdle
  BY <1>19 DEF LispSetIdle
<1>20. CASE ConditionWait
  BY <1>20 DEF ConditionWait
<1>21. CASE Woken
  BY <1>21, InStepWoken
<1>22. CASE ContinueCycleBegin
  BY <1>22 DEF ContinueCycleBegin
<1>23. CASE ContinueCycleEnd
  BY <1>23, InStepContinueCycleEnd
<1>24. CASE CycleBegin
  BY <1>24 DEF CycleBegin
<1>25. CASE CycleBody
  BY <1>25, InStepCycleBody
<1>26. CASE CycleEnd
  BY <1>26 DEF CycleEnd
<1>27. CASE Leave
  BY <1>27 DEF Leave
<1>28. CASE TransferToCThread
  BY <1>28 DEF TransferToCThread
<1>29. CASE TransferSignal
  BY <1>29 DEF TransferSignal, SignalC
<1>30. CASE JaInitialize
  <2>1. CASE Initialized
    BY <1>30, <2>1 DEF JaInitialize, Failed, Initialized, ClearCachedInputs
  <2>2. CASE Failed
    BY <1>30, <2>2 DEF JaInitialize, Failed, Initialized, ClearCachedInputs
  <2> QED BY <1>30, <2>1, <2>2 DEF JaInitialize
<1>31. CASE PaInitialize
  <2>1. CASE Initialized
    BY <1>31, <2>1 DEF PaInitialize, Failed, Initialized, ClearCachedInputs
  <2>2. CASE Failed
    BY <1>31, <2>2 DEF PaInitialize, Failed, Initialized, ClearCachedInputs
  <2> QED BY <1>31, <2>1, <2>2 DEF PaInitialize
<1>32. CASE JaStart
  <2>1. CASE Looping
    BY <1>32, <2>1, InStepJaStart
  <2>2. CASE Failed
    BY <1>32, <2>2 DEF JaStart, Failed, Looping
  <2> QED BY <1>32, <2>1, <2>2 DEF JaStart
<1>33. CASE PaStart
  <2>1. CASE Looping
    BY <1>33, <2>1 DEF PaStart, Failed, Looping
  <2>2. CASE Failed
    BY <1>33, <2>2 DEF PaStart, Failed, Looping
  <2> QED BY <1>33, <2>1, <2>2 DEF PaStart
<1>34. CASE RtJoin
  BY <1>34 DEF RtJoin
<1>35. CASE Stopping
  BY <1>35 DEF Stopping
<1>36. CASE ProcessThreadWait
  BY <1>36 DEF ProcessThreadWait, SignalC
<1>37. CASE DetachThread
  BY <1>37 DEF DetachThread
<1>38. CASE ThreadEnded
  BY <1>38 DEF ThreadEnded
<1>39. CASE JaCleanup
  BY <1>39 DEF JaCleanup, ClearCachedInputs
<1>40. CASE PaStop
  BY <1>40 DEF PaStop, ClearCachedInputs
<1>41. CASE RequestGc
  BY <1>41 DEF RequestGc
<1>42. CASE RtStart
  BY <1>42 DEF RtStart
<1>43. CASE RtStop
  BY <1>43 DEF RtStop
<1> QED BY <1>1, <1>2, <1>3, <1>4, <1>5, <1>6, <1>7, <1>8, <1>9, <1>10, <1>11, <1>12, <1>13,
      <1>14, <1>15, <1>16, <1>17, <1>18, <1>19, <1>20, <1>21, <1>22, <1>23, <1>24, <1>25, <1>26,
      <1>27, <1>28, <1>29, <1>30, <1>31, <1>32, <1>33, <1>34, <1>35, <1>36, <1>37, <1>38, <1>39,
      <1>40, <1>41, <1>42, <1>43 DEF Next, CStep, LispStep, ControlStep

LEMMA CacheInStepStep ==
    ASSUME TypeOK, CacheInStep, Places, Opened, Emptied, Accounted, Recovering, Next
    PROVE  CacheInStep'
<1> USE DEF TypeOK, Places, Opened, Emptied, CacheInStep, Watched, Handing, Stored, Read, One,
      Cleared, IsLastCycle, HasCachedInputs, InCycle, Entered, Handed, Out, Gone
<1>1. CASE JaThreadBegin
  BY <1>1 DEF JaThreadBegin
<1>2. CASE PaThreadBegin
  BY <1>2, InStepPaThreadBegin
<1>3. CASE ThreadLoop
  BY <1>3 DEF ThreadLoop
<1>4. CASE SilentCycle
  BY <1>4 DEF SilentCycle
<1>5. ASSUME NEW resized \in BOOLEAN, JaCycleWait(resized) PROVE CacheInStep'
  BY <1>5 DEF JaCycleWait
<1>6. ASSUME NEW available \in BOOLEAN, PaReadStream(available) PROVE CacheInStep'
  BY <1>6 DEF PaReadStream
<1>7. CASE JaMaybeContinueInLisp
  BY <1>7, CacheInStepJaMaybe
<1>8. CASE PaMaybeContinueInLisp
  BY <1>8 DEF PaMaybeContinueInLisp, After
<1>9. CASE StoreInputs
  BY <1>9, CacheInStepStoreInputs
<1>10. CASE SuspendCycle
  BY <1>10 DEF SuspendCycle
<1>11. CASE CountCycle
  BY <1>11, CacheInStepCountCycle
<1>12. CASE JaResumeLisp
  BY <1>12 DEF JaResumeLisp, SignalLisp
<1>13. CASE PaResumeLisp
  BY <1>13, CacheInStepPaResumeLisp
<1>14. CASE WaitForTransfer
  BY <1>14 DEF WaitForTransfer
<1>15. CASE RestartPoint
  BY <1>15 DEF RestartPoint
<1>16. CASE InputsFromCacheBegin
  BY <1>16, CacheInStepInputsFromCacheBegin
<1>17. CASE InputsFromCacheEnd
  BY <1>17, CacheInStepInputsFromCacheEnd
<1>18. CASE RecoveryDone
  BY <1>18 DEF RecoveryDone
<1>19. CASE LispSetIdle
  BY <1>19 DEF LispSetIdle
<1>20. CASE ConditionWait
  BY <1>20 DEF ConditionWait
<1>21. CASE Woken
  BY <1>21, InStepWoken
<1>22. CASE ContinueCycleBegin
  BY <1>22 DEF ContinueCycleBegin
<1>23. CASE ContinueCycleEnd
  BY <1>23, InStepContinueCycleEnd
<1>24. CASE CycleBegin
  BY <1>24 DEF CycleBegin
<1>25. CASE CycleBody
  BY <1>25, InStepCycleBody
<1>26. CASE CycleEnd
  BY <1>26 DEF CycleEnd
<1>27. CASE Leave
  BY <1>27 DEF Leave
<1>28. CASE TransferToCThread
  BY <1>28 DEF TransferToCThread
<1>29. CASE TransferSignal
  BY <1>29 DEF TransferSignal, SignalC
<1>30. CASE JaInitialize
  <2>1. CASE Initialized
    BY <1>30, <2>1 DEF JaInitialize, Failed, Initialized, ClearCachedInputs
  <2>2. CASE Failed
    BY <1>30, <2>2 DEF JaInitialize, Failed, Initialized, ClearCachedInputs
  <2> QED BY <1>30, <2>1, <2>2 DEF JaInitialize
<1>31. CASE PaInitialize
  <2>1. CASE Initialized
    BY <1>31, <2>1 DEF PaInitialize, Failed, Initialized, ClearCachedInputs
  <2>2. CASE Failed
    BY <1>31, <2>2 DEF PaInitialize, Failed, Initialized, ClearCachedInputs
  <2> QED BY <1>31, <2>1, <2>2 DEF PaInitialize
<1>32. CASE JaStart
  <2>1. CASE Looping
    BY <1>32, <2>1, InStepJaStart
  <2>2. CASE Failed
    BY <1>32, <2>2 DEF JaStart, Failed, Looping
  <2> QED BY <1>32, <2>1, <2>2 DEF JaStart
<1>33. CASE PaStart
  <2>1. CASE Looping
    BY <1>33, <2>1 DEF PaStart, Failed, Looping
  <2>2. CASE Failed
    BY <1>33, <2>2 DEF PaStart, Failed, Looping
  <2> QED BY <1>33, <2>1, <2>2 DEF PaStart
<1>34. CASE RtJoin
  BY <1>34 DEF RtJoin
<1>35. CASE Stopping
  BY <1>35 DEF Stopping
<1>36. CASE ProcessThreadWait
  BY <1>36 DEF ProcessThreadWait, SignalC
<1>37. CASE DetachThread
  BY <1>37 DEF DetachThread
<1>38. CASE ThreadEnded
  BY <1>38 DEF ThreadEnded
<1>39. CASE JaCleanup
  BY <1>39 DEF JaCleanup, ClearCachedInputs
<1>40. CASE PaStop
  BY <1>40 DEF PaStop, ClearCachedInputs
<1>41. CASE RequestGc
  BY <1>41 DEF RequestGc
<1>42. CASE RtStart
  BY <1>42 DEF RtStart
<1>43. CASE RtStop
  BY <1>43 DEF RtStop
<1> QED BY <1>1, <1>2, <1>3, <1>4, <1>5, <1>6, <1>7, <1>8, <1>9, <1>10, <1>11, <1>12, <1>13,
      <1>14, <1>15, <1>16, <1>17, <1>18, <1>19, <1>20, <1>21, <1>22, <1>23, <1>24, <1>25, <1>26,
      <1>27, <1>28, <1>29, <1>30, <1>31, <1>32, <1>33, <1>34, <1>35, <1>36, <1>37, <1>38, <1>39,
      <1>40, <1>41, <1>42, <1>43 DEF Next, CStep, LispStep, ControlStep

LEMMA RecoveringStep ==
    ASSUME TypeOK, Recovering, Places, Opened, Emptied, CacheInStep, Next
    PROVE  Recovering'
<1> USE DEF TypeOK, Places, Opened, Emptied, Recovering, HasCachedInputs, InCycle, Entered,
      Handed, Out, Gone
<1>1. CASE JaThreadBegin
  BY <1>1 DEF JaThreadBegin
<1>2. CASE PaThreadBegin
  BY <1>2 DEF PaThreadBegin
<1>3. CASE ThreadLoop
  BY <1>3 DEF ThreadLoop
<1>4. CASE SilentCycle
  BY <1>4 DEF SilentCycle
<1>5. ASSUME NEW resized \in BOOLEAN, JaCycleWait(resized) PROVE Recovering'
  BY <1>5 DEF JaCycleWait
<1>6. ASSUME NEW available \in BOOLEAN, PaReadStream(available) PROVE Recovering'
  BY <1>6 DEF PaReadStream
<1>7. CASE JaMaybeContinueInLisp
  BY <1>7, RecoveringJaMaybe
<1>8. CASE PaMaybeContinueInLisp
  BY <1>8 DEF PaMaybeContinueInLisp, After
<1>9. CASE StoreInputs
  BY <1>9 DEF StoreInputs, WriteInputs
<1>10. CASE SuspendCycle
  BY <1>10 DEF SuspendCycle
<1>11. CASE CountCycle
  BY <1>11, RecoveringCountCycle
<1>12. CASE JaResumeLisp
  BY <1>12 DEF JaResumeLisp, SignalLisp
<1>13. CASE PaResumeLisp
  BY <1>13 DEF PaResumeLisp, IncrementCycleCounter, SignalLisp
<1>14. CASE WaitForTransfer
  BY <1>14 DEF WaitForTransfer
<1>15. CASE RestartPoint
  BY <1>15 DEF RestartPoint
<1>16. CASE InputsFromCacheBegin
  BY <1>16, RecoveringInputsFromCacheBegin
<1>17. CASE InputsFromCacheEnd
  BY <1>17 DEF InputsFromCacheEnd
<1>18. CASE RecoveryDone
  BY <1>18 DEF RecoveryDone
<1>19. CASE LispSetIdle
  BY <1>19 DEF LispSetIdle
<1>20. CASE ConditionWait
  BY <1>20 DEF ConditionWait
<1>21. CASE Woken
  BY <1>21 DEF Woken, IsLastCycle, ClearCachedInputs, RestartAllowed
<1>22. CASE ContinueCycleBegin
  BY <1>22 DEF ContinueCycleBegin
<1>23. CASE ContinueCycleEnd
  BY <1>23 DEF ContinueCycleEnd, ClearCachedInputs
<1>24. CASE CycleBegin
  BY <1>24 DEF CycleBegin
<1>25. CASE CycleBody
  BY <1>25 DEF CycleBody, CacheInputs, IncrementCycleCounter, WriteInputs
<1>26. CASE CycleEnd
  BY <1>26 DEF CycleEnd
<1>27. CASE Leave
  BY <1>27 DEF Leave
<1>28. CASE TransferToCThread
  BY <1>28 DEF TransferToCThread
<1>29. CASE TransferSignal
  BY <1>29 DEF TransferSignal, SignalC
<1>30. CASE JaInitialize
  <2>1. CASE Initialized
    BY <1>30, <2>1 DEF JaInitialize, Failed, Initialized, ClearCachedInputs
  <2>2. CASE Failed
    BY <1>30, <2>2 DEF JaInitialize, Failed, Initialized, ClearCachedInputs
  <2> QED BY <1>30, <2>1, <2>2 DEF JaInitialize
<1>31. CASE PaInitialize
  <2>1. CASE Initialized
    BY <1>31, <2>1 DEF PaInitialize, Failed, Initialized, ClearCachedInputs
  <2>2. CASE Failed
    BY <1>31, <2>2 DEF PaInitialize, Failed, Initialized, ClearCachedInputs
  <2> QED BY <1>31, <2>1, <2>2 DEF PaInitialize
<1>32. CASE JaStart
  <2>1. CASE Looping
    BY <1>32, <2>1 DEF JaStart, Failed, Looping
  <2>2. CASE Failed
    BY <1>32, <2>2 DEF JaStart, Failed, Looping
  <2> QED BY <1>32, <2>1, <2>2 DEF JaStart
<1>33. CASE PaStart
  <2>1. CASE Looping
    BY <1>33, <2>1 DEF PaStart, Failed, Looping
  <2>2. CASE Failed
    BY <1>33, <2>2 DEF PaStart, Failed, Looping
  <2> QED BY <1>33, <2>1, <2>2 DEF PaStart
<1>34. CASE RtJoin
  BY <1>34 DEF RtJoin
<1>35. CASE Stopping
  BY <1>35 DEF Stopping
<1>36. CASE ProcessThreadWait
  BY <1>36 DEF ProcessThreadWait, SignalC
<1>37. CASE DetachThread
  BY <1>37 DEF DetachThread
<1>38. CASE ThreadEnded
  BY <1>38 DEF ThreadEnded
<1>39. CASE JaCleanup
  BY <1>39 DEF JaCleanup, ClearCachedInputs
<1>40. CASE PaStop
  BY <1>40 DEF PaStop, ClearCachedInputs
<1>41. CASE RequestGc
  BY <1>41 DEF RequestGc
<1>42. CASE RtStart
  BY <1>42 DEF RtStart
<1>43. CASE RtStop
  BY <1>43 DEF RtStop
<1> QED BY <1>1, <1>2, <1>3, <1>4, <1>5, <1>6, <1>7, <1>8, <1>9, <1>10, <1>11, <1>12, <1>13,
      <1>14, <1>15, <1>16, <1>17, <1>18, <1>19, <1>20, <1>21, <1>22, <1>23, <1>24, <1>25, <1>26,
      <1>27, <1>28, <1>29, <1>30, <1>31, <1>32, <1>33, <1>34, <1>35, <1>36, <1>37, <1>38, <1>39,
      <1>40, <1>41, <1>42, <1>43 DEF Next, CStep, LispStep, ControlStep

-----------------------------------------------------------------------------
(* The invariant *)

LEMMA AudioInit ==
    ASSUME Init
    PROVE  AudioInv
<1> USE DEF Init
<1>1. TypeOK
  <2>1. ThreadsTyped
    OBVIOUS
  <2>2. RingsTyped
    BY AudioAssumption
  <2>3. NumbersTyped
    BY AudioAssumption
  <2> QED BY <2>1, <2>2, <2>3 DEF TypeOK
<1>2. Places /\ Freed /\ Emptied /\ Bounded /\ Recovering
  BY DEF Places, Freed, Emptied, Cleared, Bounded, Recovering, InCycle, Out, Gone, Entered, Handed
<1>3. Opened
  BY DEF Opened, InCycle, Out, Entered, IsLastCycle, HasCachedInputs
<1>4. Accounted /\ CacheInStep
  BY DEF Accounted, CacheInStep, Watched
<1> QED BY <1>1, <1>2, <1>3, <1>4 DEF AudioInv

LEMMA AudioStutter ==
    ASSUME AudioInv, UNCHANGED vars
    PROVE  AudioInv'
<1>1. TypeOK' /\ Places' /\ Freed' /\ Opened' /\ Emptied' /\ Bounded'
  BY DEF AudioInv, vars, TypeOK, Places, Freed, Opened, Emptied, Bounded, Cleared, IsLastCycle, HasCachedInputs
<1>2. Accounted' /\ CacheInStep' /\ Recovering'
  BY DEF AudioInv, vars, Accounted, CacheInStep, Recovering, Watched, Uncounted, Counted, Handing, Stored, Read, IsLastCycle, HasCachedInputs
<1> QED BY <1>1, <1>2 DEF AudioInv

LEMMA AudioStep ==
    ASSUME AudioInv, Next
    PROVE  AudioInv'
<1> USE DEF AudioInv
<1>1. TypeOK'
  BY ThreadsTypedStep, RingsTypedStep, NumbersTypedStep DEF TypeOK
<1>2. Places' /\ Freed' /\ Opened' /\ Emptied' /\ Bounded'
  BY PlacesStep, FreedStep, OpenedStep, EmptiedStep, BoundedStep
<1>3. Accounted' /\ CacheInStep' /\ Recovering'
  BY AccountedStep, CacheInStepStep, RecoveringStep
<1> QED BY <1>1, <1>2, <1>3

\* The inductive invariant holds in every state.
THEOREM AudioSafe == Spec => []AudioInv
<1>1. Init => AudioInv
  BY AudioInit
<1>2. AudioInv /\ [Next]_vars => AudioInv'
  BY AudioStep, AudioStutter
<1> QED BY <1>1, <1>2, PTL DEF Spec

-----------------------------------------------------------------------------
(* What it means *)

LEMMA AudioHandOver ==
    ASSUME AudioInv
    PROVE  HandOverInv
<1> USE DEF AudioInv
<1>1. LispAlone
  BY DEF LispAlone, Places, Handed, Entered, Out
<1>2. CyclesPaired
  BY DEF CyclesPaired, TypeOK, Places, Opened, InCycle, Entered, Out
<1>3. FreedUnused
  BY DEF FreedUnused, Freed, Gone
<1> QED BY <1>1, <1>2, <1>3 DEF HandOverInv

LEMMA AudioAccounted ==
    ASSUME AudioInv
    PROVE  CyclesAccounted
<1> USE DEF AudioInv
<1> SUFFICES ASSUME Watched PROVE CyclesAccounted
  BY DEF CyclesAccounted, Watched
<1> DEFINE real == IF HasCachedInputs /\ Head(counter).id = 0 THEN Tail(counter) ELSE counter
           uncounted == \/ c \in {"maybe1", "store", "maybe2", "maybe3", "signal", "count"}
                        \/ ~Jack /\ c = "resume" /\ open = "c"
                        \/ l \in {"incycle", "full"}
<1>1. uncounted <=> Uncounted
  BY DEF Uncounted, InCycle
<1>2. (\A k \in DOMAIN real : real[k].id = done + k) /\ cycle = done + Len(real) + One(Uncounted)
  <2>1. CASE Counted(counter, done) /\ cycle = done + Len(counter) + One(Uncounted)
    <3>1. PICK q \in Seq(Entry), d \in Nat : counter = q /\ done = d
      BY DEF TypeOK
    <3>2. HasCachedInputs => Head(counter).id # 0
      BY <2>1, <3>1, CountedTail DEF HasCachedInputs
    <3>3. real = counter
      BY <3>2
    <3> QED BY <2>1, <3>3 DEF Counted
  <2>2. CASE counter = <<Last(0)>> /\ cycle = done + One(Uncounted)
    <3>1. HasCachedInputs /\ Head(counter).id = 0 /\ Tail(counter) = <<>>
      BY <2>2 DEF HasCachedInputs, Last
    <3>2. real = <<>>
      BY <3>1
    <3>3. done \in Nat
      BY DEF TypeOK
    <3> QED BY <2>2, <3>2, <3>3
  <2> QED BY <2>1, <2>2 DEF Accounted
<1>3. One(Uncounted) = IF uncounted THEN 1 ELSE 0
  BY <1>1 DEF One
<1> QED BY <1>2, <1>3 DEF CyclesAccounted

LEMMA AudioRecovers ==
    ASSUME AudioInv
    PROVE  RecoversOwnInputs
<1> USE DEF AudioInv
<1> SUFFICES ASSUME l = "recovering", ~lost PROVE HasCachedInputs /\ got = Block(Head(counter).id)
  BY DEF RecoversOwnInputs
<1>1. counter # <<>> /\ got = Block(done + 1)
  BY DEF Recovering
<1>2. Watched
  <2>1. recover /\ ctl \in {"idle", "join"} /\ status \in {"running", "initializing"}
    BY DEF Places, TypeOK
  <2>2. status # "initializing"
    BY <1>1 DEF Emptied, Cleared
  <2> QED BY <2>1, <2>2 DEF Watched
<1>3. PICK q \in Seq(Entry), d \in Nat : counter = q /\ done = d
  BY DEF TypeOK
<1>4. Counted(q, d)
  BY <1>2, <1>3, NoLastEntry DEF Accounted
<1>5. Head(q).id = d + 1
  BY <1>1, <1>3, <1>4, CountedTail
<1> QED BY <1>1, <1>3, <1>5 DEF HasCachedInputs

\* One thread at a time has the client, the rings and the buffers; JACK
\* cycles are begun before they end, in whichever thread; and rt-stop frees
\* the buffers when no thread is left that uses them.
THEOREM HandOverCorrect == Spec => []HandOverInv
  BY AudioSafe, AudioHandOver, PTL

\* Every cycle that the C thread has run while Lisp was busy is in the cycle
\* counter once, in order, until Lisp has processed it, unless the counter
\* was full or the buffer size has changed.
THEOREM CyclesAccountedCorrect == Spec => []CyclesAccounted
  BY AudioSafe, AudioAccounted, PTL

\* The inputs that Lisp reads for a recovered cycle are those of that cycle,
\* although the C thread writes the cache and the counter in two steps and
\* Lisp reads them in two other ones.
THEOREM RecoversOwnInputsCorrect == Spec => []RecoversOwnInputs
  BY AudioSafe, AudioRecovers, PTL
=============================================================================
