-------------------------- MODULE OscServerProofs --------------------------
(***************************************************************************)
(* The table of file descriptors and the messages of OscServer, for any    *)
(* messages, any size of the prefix and of the buffer, and any number of   *)
(* connections.                                                            *)
(*                                                                         *)
(* The argument has two halves.  The table is right because a descriptor   *)
(* that the loop still has to read is open, the one of the message in the  *)
(* making is not among them, and the descriptors that stay after a close   *)
(* are not open (PlacesRight, DescriptorsApart).  A message is whole       *)
(* because the bytes of a connection that was always read at the           *)
(* boundaries of messages, the ones in the buffer, the ones to be read and *)
(* the ones under way, are messages back to back (StreamsFramed), and the  *)
(* count of what is missing belongs to the message in the buffer           *)
(* (CountRight).                                                           *)
(***************************************************************************)
EXTENDS OscServer, FiniteSetTheorems, SequenceTheorems, WellFoundedInduction, TLAPS

Bytes == Sizes \X Nat
Peers == [wire : Seq(Bytes), avail : Seq(Bytes), peer : {"open", "closed", "reset"}]
Clients == Server + 1 .. Server + MaxConns

\* The bytes of a message on the stream.
Size(sl, m) == IF sl THEN m + 2 ELSE m + Prefix
Sent(sl, m) == [k \in 1 .. Size(sl, m) |-> <<m, k>>]

\* Every byte of s stands in its message: s starts with a message, one
\* follows the other, and only the last may be cut off.
Framed(sl, s) ==
    \A k \in 1 .. Len(s) :
        /\ s[k][2] \in 1 .. Size(sl, s[k][1]) /\ s[k][2] <= k
        /\ \A i \in 1 .. Size(sl, s[k][1]) :
               k - s[k][2] + i <= Len(s) => s[k - s[k][2] + i] = <<s[k][1], i>>

\* The last message of s is not cut off.
Complete(sl, s) == s # <<>> => s[Len(s)][2] = Size(sl, s[Len(s)][1])

\* The bytes of a connection: in the buffer, to be read, and under way.
InBuffer(fd) == IF pc = "more" /\ cur.fd = fd THEN cur.bytes ELSE <<>>
Stream(fd) == InBuffer(fd) \o (conn[fd].avail \o conn[fd].wire)

StateTyped ==
    /\ slip \in BOOLEAN
    /\ conn \in [Conns -> Peers] /\ Conns \subseteq Clients
    /\ pending \in Nat /\ accepts \in Nat
    /\ cur \in [fd : Nat, remain : Int, bytes : Seq(Bytes)]
    /\ nbytes \in Int
    /\ uneven \subseteq Clients

\* Where osc_recv is: the loop has nothing left to do outside of it, and
\* the connection of the message in the making is open and done.
PlacesRight ==
    /\ pc \in {"out", "select"} => todo = {}
    /\ pc = "more" => cur.fd \in Conns \ todo /\ cur.remain > 0

\* The descriptors that stay after a close are not open, and there is a
\* free one for every connection that waits.
DescriptorsApart ==
    /\ stale \subseteq Clients \ Conns
    /\ pending + Cardinality(Conns) <= MaxConns

\* The bytes of a connection that is in step are messages back to back.
InStep(fd) ==
    /\ Framed(slip, Stream(fd))
    /\ conn[fd].peer = "open" => Complete(slip, Stream(fd))
StreamsFramed == \A fd \in Conns \ uneven : InStep(fd)

\* The message in the making is the one that the count was read from.
CountRight ==
    pc = "more" /\ cur.fd \notin uneven =>
        /\ cur.bytes # <<>>
        /\ ~slip => /\ nbytes = cur.bytes[1][1]
                    /\ cur.remain = (cur.bytes[1][1] + Prefix) - Len(cur.bytes)

TablePart == StateTyped /\ TableInv /\ PlacesRight /\ DescriptorsApart
StreamPart == StreamsFramed /\ CountRight /\ MessagesWhole
ServerInv == TablePart /\ StreamPart

-----------------------------------------------------------------------------
(* Messages and streams *)

LEMMA ByteIsPair ==
    ASSUME NEW s \in Seq(Bytes), NEW k \in 1 .. Len(s)
    PROVE  \E m \in Sizes, j \in Nat : s[k] = <<m, j>>
<1>1. s[k] \in Bytes
  BY ElementOfSeq
<1>2. PICK b \in Sizes \X Nat : s[k] = b
  BY <1>1 DEF Bytes
<1>3. b = <<b[1], b[2]>> /\ b[1] \in Sizes /\ b[2] \in Nat
  OBVIOUS
<1>. QED BY <1>2, <1>3, Zenon

LEMMA SentIsSeq ==
    ASSUME NEW sl \in BOOLEAN, NEW m \in Sizes
    PROVE  /\ Size(sl, m) \in Nat \ {0}
           /\ Sent(sl, m) \in Seq(Bytes) /\ Len(Sent(sl, m)) = Size(sl, m)
           /\ \A k \in 1 .. Size(sl, m) : Sent(sl, m)[k] = <<m, k>>
<1>1. m \in Nat \ {0} /\ Prefix \in Nat \ {0}
  BY ServerAssumption
<1>2. Size(sl, m) \in Nat \ {0}
  BY <1>1 DEF Size
<1>3. PICK n \in Nat \ {0} : n = Size(sl, m)
  BY <1>2
<1>4. Sent(sl, m) = [k \in 1 .. n |-> <<m, k>>]
  BY <1>3 DEF Sent
<1>5. Sent(sl, m) \in Seq(Bytes) /\ Len(Sent(sl, m)) = n
  BY <1>1, <1>4 DEF Bytes
<1>. QED BY <1>2, <1>3, <1>4, <1>5

\* The byte at k of s is the j-th of a message m of z bytes.
StandsIn(s, k, m, j, z) ==
    /\ j \in 1 .. z /\ j <= k
    /\ \A i \in 1 .. z : k - j + i <= Len(s) => s[k - j + i] = <<m, i>>

LEMMA FramedAt ==
    ASSUME NEW sl \in BOOLEAN, NEW s, Framed(sl, s), NEW k \in 1 .. Len(s),
           NEW m \in Sizes, NEW j \in Nat, s[k] = <<m, j>>,
           NEW z \in Nat, z = Size(sl, m)
    PROVE  StandsIn(s, k, m, j, z)
<1>1. s[k][1] = m /\ s[k][2] = j
  OBVIOUS
<1>2. /\ s[k][2] \in 1 .. Size(sl, s[k][1]) /\ s[k][2] <= k
      /\ \A i \in 1 .. Size(sl, s[k][1]) :
             k - s[k][2] + i <= Len(s) => s[k - s[k][2] + i] = <<s[k][1], i>>
  BY Zenon DEF Framed
<1>. QED BY <1>1, <1>2, Zenon DEF StandsIn

\* What stands before a stream that is cut anywhere is a stream.
LEMMA FramedPrefix ==
    ASSUME NEW sl \in BOOLEAN, NEW s \in Seq(Bytes), NEW t \in Seq(Bytes), Framed(sl, s \o t)
    PROVE  Framed(sl, s)
<1>1. PICK r \in Seq(Bytes) : r = s \o t
  BY ConcatProperties
<1>2. /\ Len(r) = Len(s) + Len(t) /\ Len(s) \in Nat /\ Len(t) \in Nat
      /\ \A i \in 1 .. Len(s) : r[i] = s[i]
  <2>1. /\ Len(r) = Len(s) + Len(t)
        /\ \A i \in 1 .. Len(s) + Len(t) : r[i] = IF i <= Len(s) THEN s[i] ELSE t[i - Len(s)]
    BY <1>1, ConcatProperties, Zenon
  <2>2. Len(s) \in Nat /\ Len(t) \in Nat
    BY LenProperties
  <2>. QED BY <2>1, <2>2
<1>3. Framed(sl, r)
  BY <1>1
<1>4. SUFFICES ASSUME NEW k \in 1 .. Len(s)
               PROVE  /\ s[k][2] \in 1 .. Size(sl, s[k][1]) /\ s[k][2] <= k
                      /\ \A i \in 1 .. Size(sl, s[k][1]) :
                             k - s[k][2] + i <= Len(s) => s[k - s[k][2] + i] = <<s[k][1], i>>
  BY DEF Framed
<1>5. k \in 1 .. Len(r) /\ r[k] = s[k]
  BY <1>2, SMTT(30)
<1>6. PICK m \in Sizes, j \in Nat : s[k] = <<m, j>> /\ r[k] = <<m, j>>
  BY <1>5, ByteIsPair
<1>7. PICK z \in Nat : z = Size(sl, m)
  BY SentIsSeq
<1>8. j \in 1 .. z /\ j <= k /\ \A i \in 1 .. z : k - j + i <= Len(r) => r[k - j + i] = <<m, i>>
  <2>1. StandsIn(r, k, m, j, z)
    BY <1>3, <1>5, <1>6, <1>7, FramedAt
  <2>. QED BY <2>1 DEF StandsIn
<1>9. \A i \in 1 .. z : k - j + i <= Len(s) => s[k - j + i] = <<m, i>>
  <2>1. SUFFICES ASSUME NEW i \in 1 .. z, k - j + i <= Len(s) PROVE s[k - j + i] = <<m, i>>
    OBVIOUS
  <2>2. PICK p \in 1 .. Len(s) : p = k - j + i
    BY <1>8, <2>1
  <2>3. r[p] = s[p] /\ p <= Len(r)
    BY <1>2
  <2>. QED BY <1>8, <2>2, <2>3
<1>. QED BY <1>6, <1>7, <1>8, <1>9

\* A stream without its first message is a stream.
LEMMA FramedRest ==
    ASSUME NEW sl \in BOOLEAN, NEW m \in Sizes, NEW t \in Seq(Bytes),
           Framed(sl, Sent(sl, m) \o t)
    PROVE  Framed(sl, t)
<1> DEFINE s == Sent(sl, m)
<1>0. s \in Seq(Bytes)
  BY SentIsSeq
<1>a. PICK y \in Nat \ {0} : y = Size(sl, m) /\ Len(s) = y
  BY SentIsSeq
<1>b. \A i \in 1 .. y : s[i] = <<m, i>>
  BY <1>a, SentIsSeq
<1>1. PICK r \in Seq(Bytes) : r = s \o t
  BY <1>0, ConcatProperties
<1>3. Framed(sl, r)
  BY <1>1
<1> HIDE DEF s
<1>2. /\ Len(r) = y + Len(t) /\ Len(t) \in Nat
      /\ \A i \in 1 .. y : r[i] = <<m, i>>
      /\ \A i \in 1 .. Len(t) : r[y + i] = t[i]
  <2>1. /\ Len(r) = Len(s) + Len(t)
        /\ \A i \in 1 .. Len(s) + Len(t) : r[i] = IF i <= Len(s) THEN s[i] ELSE t[i - Len(s)]
    BY <1>0, <1>1, ConcatProperties, Zenon
  <2>2. Len(t) \in Nat
    BY LenProperties
  <2>. QED BY <1>a, <1>b, <2>1, <2>2
<1>4. SUFFICES ASSUME NEW k \in 1 .. Len(t)
               PROVE  /\ t[k][2] \in 1 .. Size(sl, t[k][1]) /\ t[k][2] <= k
                      /\ \A i \in 1 .. Size(sl, t[k][1]) :
                             k - t[k][2] + i <= Len(t) => t[k - t[k][2] + i] = <<t[k][1], i>>
  BY DEF Framed
<1>5. y + k \in 1 .. Len(r) /\ r[y + k] = t[k]
  BY <1>2
<1>6. PICK n \in Sizes, j \in Nat : t[k] = <<n, j>> /\ r[y + k] = <<n, j>>
  BY <1>5, ByteIsPair
<1>7. PICK z \in Nat : z = Size(sl, n)
  BY SentIsSeq
<1>8. /\ j \in 1 .. z
      /\ \A i \in 1 .. z : (y + k) - j + i <= Len(r) => r[(y + k) - j + i] = <<n, i>>
      /\ j <= y + k
  <2>1. StandsIn(r, y + k, n, j, z)
    BY <1>3, <1>5, <1>6, <1>7, FramedAt
  <2>. QED BY <2>1 DEF StandsIn
<1>9. j <= k
  <2>1. SUFFICES ASSUME j > k PROVE FALSE
    BY <1>6
  <2>2. j - k \in 1 .. z /\ (y + k) - j + (j - k) = y
    BY <1>8, <2>1
  <2>3. r[y] = <<n, j - k>>
    BY <1>2, <1>8, <2>2
  <2>4. r[y] = <<m, y>>
    BY <1>2
  <2>5. n = m /\ j - k = y
    BY <2>3, <2>4
  <2>. QED BY <1>7, <1>8, <2>5, <1>a
<1>10. \A i \in 1 .. z : k - j + i <= Len(t) => t[k - j + i] = <<n, i>>
  <2>1. SUFFICES ASSUME NEW i \in 1 .. z, k - j + i <= Len(t) PROVE t[k - j + i] = <<n, i>>
    OBVIOUS
  <2>2. k - j + i \in 1 .. Len(t) /\ (y + k) - j + i = y + (k - j + i)
    BY <1>8, <1>9, <2>1
  <2>3. PICK p \in 1 .. Len(t) : p = k - j + i /\ (y + k) - j + i = y + p
    BY <2>2
  <2>4. y + p <= Len(r) /\ r[y + p] = t[p]
    BY <1>2
  <2>5. r[y + p] = <<n, i>>
    BY <1>8, <2>3, <2>4
  <2>. QED BY <2>3, <2>4, <2>5
<1>. QED BY <1>6, <1>7, <1>8, <1>9, <1>10

\* A message behind a stream that is not cut off makes a stream.
LEMMA FramedAppend ==
    ASSUME NEW sl \in BOOLEAN, NEW m \in Sizes, NEW s \in Seq(Bytes),
           Framed(sl, s), Complete(sl, s)
    PROVE  Framed(sl, s \o Sent(sl, m)) /\ Complete(sl, s \o Sent(sl, m))
<1> DEFINE t == Sent(sl, m)
<1>0. t \in Seq(Bytes)
  BY SentIsSeq
<1>a. PICK y \in Nat \ {0} : y = Size(sl, m) /\ Len(t) = y
  BY SentIsSeq
<1>b. \A i \in 1 .. y : t[i] = <<m, i>>
  BY <1>a, SentIsSeq
<1>1. PICK r \in Seq(Bytes) : r = s \o t
  BY <1>0, ConcatProperties
<1>c. SUFFICES Framed(sl, r) /\ Complete(sl, r)
  BY <1>1
<1> HIDE DEF t
<1>2. /\ Len(r) = Len(s) + y /\ Len(s) \in Nat
      /\ \A i \in 1 .. Len(s) : r[i] = s[i]
      /\ \A i \in 1 .. y : r[Len(s) + i] = <<m, i>>
  <2>1. /\ Len(r) = Len(s) + Len(t)
        /\ \A i \in 1 .. Len(s) + Len(t) : r[i] = IF i <= Len(s) THEN s[i] ELSE t[i - Len(s)]
    BY <1>0, <1>1, ConcatProperties, Zenon
  <2>2. Len(s) \in Nat
    BY LenProperties
  <2>. QED BY <1>a, <1>b, <2>1, <2>2
<1>3. Complete(sl, r)
  <2>1. r[Len(s) + y] = <<m, y>>
    BY <1>2
  <2>. QED BY <1>2, <1>a, <2>1 DEF Complete
<1>4. SUFFICES ASSUME NEW k \in 1 .. Len(r)
               PROVE  /\ r[k][2] \in 1 .. Size(sl, r[k][1]) /\ r[k][2] <= k
                      /\ \A i \in 1 .. Size(sl, r[k][1]) :
                             k - r[k][2] + i <= Len(r) => r[k - r[k][2] + i] = <<r[k][1], i>>
  BY <1>3 DEF Framed
<1>5. CASE k <= Len(s)
  <2>1. k \in 1 .. Len(s) /\ r[k] = s[k]
    BY <1>2, <1>5
  <2>2. PICK n \in Sizes, j \in Nat : s[k] = <<n, j>>
    BY <2>1, ByteIsPair
  <2>3. PICK z \in Nat : z = Size(sl, n)
    BY SentIsSeq
  <2>4. j \in 1 .. z /\ j <= k /\ \A i \in 1 .. z : k - j + i <= Len(s) => s[k - j + i] = <<n, i>>
    <3>1. StandsIn(s, k, n, j, z)
      BY <2>1, <2>2, <2>3, FramedAt
    <3>. QED BY <3>1 DEF StandsIn
  <2>5. k - j + z <= Len(s)
    <3>1. SUFFICES ASSUME k - j + z > Len(s) PROVE FALSE
      BY <1>2, <2>3, <2>4
    <3>2. PICK i \in 1 .. z : k - j + i = Len(s) /\ i < z
      <4>1. (Len(s) - k) + j \in 1 .. z /\ k - j + ((Len(s) - k) + j) = Len(s) /\ (Len(s) - k) + j < z
        BY <1>2, <2>1, <2>3, <2>4, <3>1
      <4>. QED BY <4>1
    <3>3. s[Len(s)] = <<n, i>>
      BY <1>2, <2>4, <3>2
    <3>4. s # <<>>
      BY <2>1
    <3>. QED BY <2>3, <3>2, <3>3, <3>4 DEF Complete
  <2>6. \A i \in 1 .. z : k - j + i <= Len(r) => r[k - j + i] = <<n, i>>
    <3>1. SUFFICES ASSUME NEW i \in 1 .. z PROVE r[k - j + i] = <<n, i>>
      OBVIOUS
    <3>2. k - j + i \in 1 .. Len(s)
      BY <1>2, <2>1, <2>4, <2>5
    <3>3. PICK p \in 1 .. Len(s) : p = k - j + i
      BY <3>2
    <3>4. r[p] = s[p] /\ p <= Len(s)
      BY <1>2
    <3>. QED BY <2>4, <3>3, <3>4
  <2>. QED BY <2>1, <2>2, <2>3, <2>4, <2>6
<1>6. CASE k > Len(s)
  <2>1. PICK j \in 1 .. y : k = Len(s) + j
    <3>1. k - Len(s) \in 1 .. y /\ k = Len(s) + (k - Len(s))
      BY <1>2, <1>6
    <3>. QED BY <3>1
  <2>2. r[k] = <<m, j>> /\ j <= k
    BY <1>2, <2>1
  <2>3. \A i \in 1 .. y : k - j + i = Len(s) + i
    BY <1>2, <2>1
  <2>4. \A i \in 1 .. y : r[k - j + i] = <<m, i>>
    BY <1>2, <2>3
  <2>. QED BY <1>a, <2>1, <2>2, <2>4
<1>. QED BY <1>2, <1>5, <1>6

\* What is behind in a stream that is not cut off is not cut off.
LEMMA CompleteRest ==
    ASSUME NEW sl \in BOOLEAN, NEW s \in Seq(Bytes), NEW t \in Seq(Bytes), Complete(sl, s \o t)
    PROVE  Complete(sl, t)
<1>1. PICK r \in Seq(Bytes) : r = s \o t
  BY ConcatProperties
<1>2. /\ Len(r) = Len(s) + Len(t) /\ Len(s) \in Nat /\ Len(t) \in Nat
      /\ \A i \in 1 .. Len(s) + Len(t) : r[i] = IF i <= Len(s) THEN s[i] ELSE t[i - Len(s)]
  <2>1. /\ Len(r) = Len(s) + Len(t)
        /\ \A i \in 1 .. Len(s) + Len(t) : r[i] = IF i <= Len(s) THEN s[i] ELSE t[i - Len(s)]
    BY <1>1, ConcatProperties, Zenon
  <2>. QED BY <2>1, LenProperties
<1>3. SUFFICES ASSUME t # <<>> PROVE t[Len(t)][2] = Size(sl, t[Len(t)][1])
  BY DEF Complete
<1>4. Len(t) > 0
  BY <1>3, EmptySeq
<1>5. r[Len(r)] = t[Len(t)] /\ r # <<>>
  <2>1. Len(r) \in 1 .. Len(s) + Len(t) /\ ~(Len(r) <= Len(s)) /\ Len(r) - Len(s) = Len(t)
    BY <1>2, <1>4
  <2>2. r[Len(r)] = t[Len(r) - Len(s)]
    BY <1>2, <2>1
  <2>. QED BY <2>1, <2>2, <1>2, <1>4
<1>. QED BY <1>1, <1>5 DEF Complete

\* A stream starts with the bytes of its first message.
LEMMA FramedStart ==
    ASSUME NEW sl \in BOOLEAN, NEW s \in Seq(Bytes), s # <<>>, Framed(sl, s)
    PROVE  /\ s[1][1] \in Sizes /\ s[1][2] = 1
           /\ \A i \in 1 .. Size(sl, s[1][1]) : i <= Len(s) => s[i] = <<s[1][1], i>>
<1>1. 1 \in 1 .. Len(s)
  BY EmptySeq
<1>2. PICK m \in Sizes, j \in Nat : s[1] = <<m, j>>
  BY <1>1, ByteIsPair
<1>3. PICK z \in Nat : z = Size(sl, m)
  BY SentIsSeq
<1>4. j \in 1 .. z /\ j <= 1 /\ \A i \in 1 .. z : 1 - j + i <= Len(s) => s[1 - j + i] = <<m, i>>
  <2>1. StandsIn(s, 1, m, j, z)
    BY <1>1, <1>2, <1>3, FramedAt
  <2>. QED BY <2>1 DEF StandsIn
<1>5. j = 1
  BY <1>4
<1>6. \A i \in 1 .. z : i <= Len(s) => s[i] = <<m, i>>
  BY <1>4, <1>5
<1>. QED BY <1>2, <1>3, <1>5, <1>6

-----------------------------------------------------------------------------
(* The least of a set, recv, and the next descriptor *)

LEMMA MinOf ==
    ASSUME NEW S, S \subseteq Nat, S # {}
    PROVE  Min(S) \in S /\ \A y \in S : Min(S) <= y
<1>1. PICK m \in S : \A j \in S : ~(<<j, m>> \in OpToRel(<, Nat))
  BY NatLessThanWellFounded, WFMin
<1>2. \A j \in S : ~(j < m)
  BY <1>1 DEF OpToRel
<1>3. \E x \in S : \A y \in S : x <= y
  BY <1>2
<1>. QED BY <1>3, Zenon DEF Min

LEMMA MinOfTwo ==
    ASSUME NEW a \in Nat, NEW b \in Nat
    PROVE  Min({a, b}) = IF a <= b THEN a ELSE b
<1>1. Min({a, b}) \in {a, b} /\ \A y \in {a, b} : Min({a, b}) <= y
  <2>1. {a, b} \subseteq Nat /\ {a, b} # {}
    OBVIOUS
  <2>. QED BY <2>1, MinOf
<1>. QED BY <1>1

LEMMA MaxOfTwo ==
    ASSUME NEW a \in Int, NEW b \in Int
    PROVE  Max({a, b}) = IF a <= b THEN b ELSE a
<1>1. \E x \in {a, b} : \A y \in {a, b} : x >= y
  OBVIOUS
<1>2. Max({a, b}) \in {a, b} /\ \A y \in {a, b} : Max({a, b}) >= y
  BY <1>1, Zenon DEF Max
<1>. QED BY <1>2

\* A sequence is cut in two.
LEMMA CutInTwo ==
    ASSUME NEW a \in Seq(Bytes), NEW n \in 1 .. Len(a)
    PROVE  /\ SubSeq(a, 1, n) \in Seq(Bytes) /\ Len(SubSeq(a, 1, n)) = n
           /\ SubSeq(a, n + 1, Len(a)) \in Seq(Bytes)
           /\ SubSeq(a, 1, n) \o SubSeq(a, n + 1, Len(a)) = a
<1>2. Len(a) \in Nat /\ \A i \in 1 .. Len(a) : a[i] \in Bytes
  BY LenProperties, ElementOfSeq
<1>4. SubSeq(a, 1, n) \in Seq(Bytes) /\ Len(SubSeq(a, 1, n)) = n
  <2>1. 1 \in Int /\ n \in Int /\ 1 <= n /\ \A i \in 1 .. n : a[i] \in Bytes
    <3>1. \A i \in 1 .. n : i \in 1 .. Len(a)
      BY <1>2
    <3>2. \A i \in 1 .. n : a[i] \in Bytes
      BY <1>2, <3>1, Zenon
    <3>3. {1, n, n + 1, Len(a)} \subseteq Int /\ 1 <= n
      BY <1>2
    <3>. QED BY <3>2, <3>3, Zenon
  <2>2. SubSeq(a, 1, n) \in Seq(Bytes) /\ Len(SubSeq(a, 1, n)) = IF 1 <= n THEN n - 1 + 1 ELSE 0
    BY <2>1, SubSeqProperties
  <2>. QED BY <2>1, <2>2
<1>5. SubSeq(a, n + 1, Len(a)) \in Seq(Bytes)
  <2>1. n + 1 \in Int /\ Len(a) \in Int /\ \A i \in n + 1 .. Len(a) : a[i] \in Bytes
    <3>1. \A i \in n + 1 .. Len(a) : i \in 1 .. Len(a)
      BY <1>2
    <3>2. \A i \in n + 1 .. Len(a) : a[i] \in Bytes
      BY <1>2, <3>1, Zenon
    <3>3. {1, n, n + 1, Len(a)} \subseteq Int /\ 1 <= n
      BY <1>2
    <3>. QED BY <3>2, <3>3, Zenon
  <2>. QED BY <2>1, SubSeqProperties
<1>6. SubSeq(a, 1, n) \o SubSeq(a, n + 1, Len(a)) = a
  <2>1. 1 \in 1 .. Len(a) + 1 /\ n \in 1 - 1 .. Len(a) /\ Len(a) \in n .. Len(a)
    BY <1>2
  <2>2. SubSeq(a, 1, n) \o SubSeq(a, n + 1, Len(a)) = SubSeq(a, 1, Len(a))
    BY <2>1, ConcatAdjacentSubSeq, Zenon
  <2>. QED BY <2>2, SubSeqFull
<1>. QED BY <1>4, <1>5, <1>6

\* recv takes bytes from the front of what can be read.
LEMMA RecvSplits ==
    ASSUME StateTyped, NEW fd \in Conns, NEW max \in Nat \ {0}
    PROVE  \E ret \in Int, b \in Seq(Bytes), rest \in Seq(Bytes) :
              /\ Recv(fd, max) = [ret |-> ret, bytes |-> b]
              /\ conn[fd].avail = b \o rest
              /\ SubSeq(conn[fd].avail, Len(b) + 1, Len(conn[fd].avail)) = rest
              /\ ret > 0 => Len(b) = ret /\ ret <= max /\ b # <<>>
              /\ ret <= 0 => b = <<>> /\ ret \in {0, -1} /\ conn[fd].avail = <<>>
<1>1. PICK a \in Seq(Bytes) : a = conn[fd].avail
  BY DEF StateTyped, Peers, Conns
<1>2. Len(a) \in Nat /\ \A i \in 1 .. Len(a) : a[i] \in Bytes
  BY LenProperties, ElementOfSeq
<1>3. CASE a # <<>>
  <2>1. Len(a) \in Nat \ {0}
    BY <1>3, EmptySeq
  <2>2. PICK n \in 1 .. Len(a) : n = Min({max, Len(a)}) /\ n <= max
    BY <2>1, MinOfTwo
  <2>3. Recv(fd, max) = [ret |-> n, bytes |-> SubSeq(a, 1, n)]
    BY <1>1, <1>3, <2>2 DEF Recv
  <2>4. SubSeq(a, 1, n) \in Seq(Bytes) /\ Len(SubSeq(a, 1, n)) = n
        /\ SubSeq(a, n + 1, Len(a)) \in Seq(Bytes)
        /\ SubSeq(a, 1, n) \o SubSeq(a, n + 1, Len(a)) = a
    BY CutInTwo
  <2>7. SubSeq(a, 1, n) # <<>>
    BY <2>2, <2>4
  <2>8. PICK b \in Seq(Bytes), rest \in Seq(Bytes) :
           b = SubSeq(a, 1, n) /\ rest = SubSeq(a, n + 1, Len(a))
    BY <2>4
  <2>9. /\ Recv(fd, max) = [ret |-> n, bytes |-> b] /\ conn[fd].avail = b \o rest
        /\ SubSeq(conn[fd].avail, Len(b) + 1, Len(conn[fd].avail)) = rest
        /\ Len(b) = n /\ b # <<>>
    BY <1>1, <2>3, <2>4, <2>7, <2>8
  <2>10. n \in Int /\ n > 0 /\ n <= max /\ ~(n <= 0)
    BY <2>2
  <2>. QED BY <2>8, <2>9, <2>10, Zenon
<1>4. CASE a = <<>>
  <2>1. PICK n \in {0, -1} : Recv(fd, max) = [ret |-> n, bytes |-> <<>>]
    BY <1>1, <1>4 DEF Recv
  <2>2. <<>> \in Seq(Bytes) /\ <<>> \o <<>> = a /\ SubSeq(a, Len(<<>>) + 1, Len(a)) = <<>>
    <3>1. <<>> \in Seq(Bytes)
      BY EmptySeq
    <3>2. <<>> \o <<>> = a
      BY <1>4, <3>1, ConcatEmptySeq
    <3>3. Len(<<>>) + 1 \in Int /\ Len(a) \in Int /\ Len(a) < Len(<<>>) + 1
      BY <1>4
    <3>. QED BY <3>1, <3>2, <3>3, SubSeqEmpty
  <2>3. n \in Int /\ ~(n > 0)
    OBVIOUS
  <2>. QED BY <1>1, <1>4, <2>1, <2>2, <2>3
<1>. QED BY <1>3, <1>4

LEMMA ConnsFinite ==
    /\ IsFiniteSet(Clients) /\ Cardinality(Clients) = MaxConns
    /\ \A S \in SUBSET Clients : IsFiniteSet(S) /\ Cardinality(S) \in Nat
<1>1. MaxConns \in Nat \ {0} /\ Server = 1
  BY ServerAssumption DEF Server
<1>2. IsFiniteSet(Clients) /\ Cardinality(Clients) = MaxConns
  <2>1. PICK a \in Int, b \in Int : a = Server + 1 /\ b = Server + MaxConns
    BY <1>1
  <2>2. IsFiniteSet(a .. b) /\ Cardinality(a .. b) = IF a > b THEN 0 ELSE b - a + 1
    BY FS_Interval
  <2>3. Clients = a .. b /\ a <= b /\ b - a + 1 = MaxConns
    BY <1>1, <2>1 DEF Clients
  <2>. QED BY <2>2, <2>3
<1>3. \A S \in SUBSET Clients : IsFiniteSet(S) /\ Cardinality(S) \in Nat
  BY <1>2, FS_Subset, FS_CardinalityType
<1>. QED BY <1>2, <1>3

\* There is a descriptor for a connection that waits.
LEMMA NewFdIsFree ==
    ASSUME TablePart, pending > 0
    PROVE  NewFd \in Clients \ Conns
<1> DEFINE All == Server + 1 .. Server + MaxConns + 1
<1>1. MaxConns \in Nat \ {0} /\ Server = 1 /\ Conns \subseteq Clients /\ pending \in Nat
  BY ServerAssumption DEF Server, TablePart, StateTyped
<1>2. Cardinality(Clients) = MaxConns
  BY ConnsFinite
<1>4. Clients \ Conns # {}
  <2>1. SUFFICES ASSUME Clients \ Conns = {} PROVE FALSE
    OBVIOUS
  <2>2. Conns = Clients
    BY <1>1, <2>1
  <2>3. Cardinality(Conns) = MaxConns
    BY <1>2, <2>2
  <2>. QED BY <1>1, <2>3 DEF TablePart, DescriptorsApart
<1>5. PICK c \in Clients : c \notin Conns
  BY <1>4
<1>6. All \ Conns \subseteq Nat /\ c \in All \ Conns
  BY <1>1, <1>5 DEF Clients
<1>7. Min(All \ Conns) \in All \ Conns /\ Min(All \ Conns) <= c
  <2> HIDE DEF All
  <2>. QED BY <1>6, MinOf
<1>8. NewFd = Min(All \ Conns)
  BY DEF NewFd
<1>9. NewFd \in All \ Conns /\ NewFd <= c
  <2> HIDE DEF All
  <2>. QED BY <1>7, <1>8
<1>. QED BY <1>1, <1>5, <1>9 DEF Clients

-----------------------------------------------------------------------------
(* The table of descriptors *)

\* What a step that opens and closes no connection has to leave right.
LEMMA TableKept ==
    ASSUME TablePart, conn' \in [Conns -> Peers], lastfd' \in Conns \cup {-1},
           UNCHANGED <<slip, pending, accepts, fds, maxfd, count, stale>>,
           uneven' \subseteq Clients, pc' \in {"out", "select", "loop", "more"},
           cur' \in [fd : Nat, remain : Int, bytes : Seq(Bytes)],
           nbytes' \in MsgTooLong - 1 .. MaxLen, todo' \subseteq Conns,
           pc' \in {"out", "select"} => todo' = {},
           pc' = "more" => cur'.fd \in Conns \ todo' /\ cur'.remain > 0
    PROVE  TablePart'
<1>1. Conns' = Conns
  BY DEF Conns
<1>2. StateTyped' /\ PlacesRight' /\ DescriptorsApart'
  <2>1. nbytes' \in Int
    BY ServerAssumption DEF MsgTooLong
  <2>. QED BY <1>1, <2>1 DEF TablePart, StateTyped, PlacesRight, DescriptorsApart, Clients
<1>3. ConnectionsKnown' /\ LastIsOpen'
  <2>1. Monitored' = Monitored
    BY DEF Monitored
  <2>. QED BY <1>1, <2>1 DEF TablePart, TableInv, ConnectionsKnown, LastIsOpen
<1>4. TypeOK'
  BY <1>1 DEF TablePart, TableInv, TypeOK
<1>. QED BY <1>2, <1>3, <1>4 DEF TablePart, TableInv

LEMMA ConnTyped ==
    ASSUME TablePart
    PROVE  /\ \A fd \in Conns : conn[fd] \in Peers /\ conn[fd].wire \in Seq(Bytes)
                                /\ conn[fd].avail \in Seq(Bytes)
           /\ conn \in [Conns -> Peers] /\ lastfd \in Conns \cup {-1}
           /\ uneven \subseteq Clients /\ cur \in [fd : Nat, remain : Int, bytes : Seq(Bytes)]
           /\ nbytes \in MsgTooLong - 1 .. MaxLen /\ todo \subseteq Conns
           /\ pc \in {"out", "select", "loop", "more"} /\ slip \in BOOLEAN
           /\ (pc \in {"out", "select"} => todo = {})
           /\ (pc = "more" => cur.fd \in Conns \ todo /\ cur.remain > 0)
           /\ Conns \subseteq Clients
  BY DEF TablePart, StateTyped, TableInv, TypeOK, LastIsOpen, PlacesRight, Peers

LEMMA NumbersTyped ==
    /\ Clients \subseteq Nat /\ -1 \notin Clients /\ Server \notin Clients
    /\ NoRead \in [fd : Nat, remain : Int, bytes : Seq(Bytes)]
    /\ {0, BadMsg, MsgTooLong} \subseteq MsgTooLong - 1 .. MaxLen
    /\ MaxLen \in Nat \ {0} /\ Prefix \in Nat \ {0}
<1>1. {MaxConns, MaxLen, Prefix} \subseteq Nat \ {0}
  BY ServerAssumption
<1>2. <<>> \in Seq(Bytes)
  BY EmptySeq
<1>3. NoRead \in [fd : Nat, remain : Int, bytes : Seq(Bytes)]
  BY <1>2 DEF NoRead
<1>. QED BY <1>1, <1>3 DEF Clients, Server, BadMsg, MsgTooLong

LEMMA TableSend ==
    ASSUME TablePart, NEW fd \in Conns, NEW m \in Sizes, SendMessage(fd, m)
    PROVE  TablePart'
<1>1. PICK w \in Seq(Bytes) : w = conn[fd].wire \o Message(m)
  <2>1. Message(m) = Sent(slip, m)
    BY DEF Message, Sent, Size
  <2>. QED BY <2>1, ConnTyped, SentIsSeq, ConcatProperties
<1>2. conn' \in [Conns -> Peers]
  <2>1. conn' = [conn EXCEPT ![fd] = [conn[fd] EXCEPT !.wire = w]]
    BY <1>1 DEF SendMessage
  <2>2. [conn[fd] EXCEPT !.wire = w] \in Peers
    BY ConnTyped DEF Peers
  <2>. QED BY <2>1, <2>2, ConnTyped
<1>. QED BY <1>2, ConnTyped, TableKept DEF SendMessage, table

LEMMA TableArrive ==
    ASSUME TablePart, NEW fd \in Conns, NEW n \in 1 .. Len(conn[fd].wire), Arrive(fd, n)
    PROVE  TablePart'
<1>1. PICK w \in Seq(Bytes) : w = conn[fd].wire
  BY ConnTyped
<1>2. PICK a \in Seq(Bytes) : a = conn[fd].avail \o SubSeq(w, 1, n)
  <2>1. SubSeq(w, 1, n) \in Seq(Bytes)
    BY <1>1, CutInTwo
  <2>. QED BY <2>1, ConnTyped, ConcatProperties
<1>3. PICK v \in Seq(Bytes) : v = SubSeq(w, n + 1, Len(w))
  BY <1>1, CutInTwo
<1>4. conn' \in [Conns -> Peers]
  <2>1. conn' = [conn EXCEPT ![fd] = [[conn[fd] EXCEPT !.avail = a] EXCEPT !.wire = v]]
    BY <1>1, <1>2, <1>3, ConnTyped DEF Arrive, Peers
  <2>2. [[conn[fd] EXCEPT !.avail = a] EXCEPT !.wire = v] \in Peers
    BY ConnTyped DEF Peers
  <2>. QED BY <2>1, <2>2, ConnTyped
<1>. QED BY <1>4, ConnTyped, TableKept DEF Arrive, table

LEMMA TableLeave ==
    ASSUME TablePart, NEW fd \in Conns, NEW how \in {"closed", "reset"}, Leave(fd, how)
    PROVE  TablePart'
<1>1. PICK c \in Peers : c = IF how = "reset" THEN [wire |-> <<>>, avail |-> <<>>, peer |-> how]
                             ELSE [conn[fd] EXCEPT !.peer = how]
  <2>1. [wire |-> <<>>, avail |-> <<>>, peer |-> how] \in Peers
    BY EmptySeq DEF Peers
  <2>2. [conn[fd] EXCEPT !.peer = how] \in Peers
    BY ConnTyped DEF Peers
  <2>. QED BY <2>1, <2>2
<1>2. conn' \in [Conns -> Peers]
  <2>1. conn' = [conn EXCEPT ![fd] = c]
    BY <1>1 DEF Leave
  <2>. QED BY <2>1, ConnTyped
<1>. QED BY <1>2, ConnTyped, TableKept DEF Leave, table

LEMMA TableCall ==
    ASSUME TablePart, Call \/ SelectFails \/ MoreMissing \/ LoopEnd
    PROVE  TablePart'
<1>1. UNCHANGED <<slip, peers, table, stale>> /\ conn' \in [Conns -> Peers]
      /\ lastfd' \in Conns \cup {-1}
  BY ConnTyped DEF Call, SelectFails, MoreMissing, LoopEnd, peers, table
<1>2. CASE Call
  BY <1>1, <1>2, ConnTyped, TableKept DEF Call, table, peers
<1>3. CASE SelectFails
  <2>1. pc' = "out" /\ todo' = {} /\ nbytes' = 0 /\ cur' = NoRead /\ uneven' = uneven
    BY <1>3 DEF SelectFails, Return
  <2>. QED BY <1>1, <2>1, ConnTyped, NumbersTyped, TableKept DEF table, peers
<1>4. CASE MoreMissing
  BY <1>1, <1>4, ConnTyped, NumbersTyped, TableKept DEF MoreMissing, Continue, table, peers
<1>5. CASE LoopEnd
  <2>1. pc' \in {"out", "select"} /\ todo' = {} /\ nbytes' \in {0, nbytes} /\ cur' = NoRead
        /\ uneven' = uneven
    BY <1>5 DEF LoopEnd, Return, Continue
  <2>. QED BY <1>1, <2>1, ConnTyped, NumbersTyped, TableKept DEF table, peers
<1>. QED BY <1>2, <1>3, <1>4, <1>5

\* What the first recv of a message leaves: f.n is a length or an error.
LEMMA FrameTyped ==
    ASSUME NEW ret \in Int, ret <= MaxLen, NEW b \in Seq(Bytes),
           NEW n \in PrefixValues(b), ret > 0 => ret = Len(b), slip \in BOOLEAN
    PROVE  /\ n \in Nat
           /\ Frame([ret |-> ret, bytes |-> b], n).n \in MsgTooLong - 1 .. MaxLen
           /\ Frame([ret |-> ret, bytes |-> b], n).remain \in Int
<1>1. n \in Nat
  <2>1. CASE slip
    BY <2>1 DEF PrefixValues
  <2>2. CASE ~slip /\ Len(b) >= Prefix /\ b[1][2] = 1
    <3>1. 1 \in 1 .. Len(b) /\ n = b[1][1]
      BY <2>2, NumbersTyped, LenProperties DEF PrefixValues
    <3>2. PICK m \in Sizes, j \in Nat : b[1] = <<m, j>>
      BY <3>1, ByteIsPair
    <3>. QED BY <3>1, <3>2, ServerAssumption
  <2>3. CASE ~slip /\ ~(Len(b) >= Prefix /\ b[1][2] = 1)
    <3>1. n \in Sizes \cup {0, MaxLen}
      BY <2>3 DEF PrefixValues
    <3>. QED BY <3>1, ServerAssumption
  <2>. QED BY <2>1, <2>2, <2>3
<1>2. MaxLen \in Nat \ {0} /\ Prefix \in Nat \ {0}
  BY NumbersTyped
<1>. QED BY <1>1, <1>2 DEF Frame, MsgTooLong

\* What recv leaves of a connection.
RecvLeaves(fd, ret, b, rest) ==
    \E c \in Peers :
        /\ c.wire = conn[fd].wire /\ c.avail = rest /\ (c.peer = "open" => conn[fd].peer = "open")
        /\ AfterRecv(fd, [ret |-> ret, bytes |-> b]) = [conn EXCEPT ![fd] = c]
        /\ [conn EXCEPT ![fd] = c] \in [Conns -> Peers]

LEMMA AfterRecvTyped ==
    ASSUME TablePart, NEW fd \in Conns, NEW ret \in Int, NEW b \in Seq(Bytes), NEW rest \in Seq(Bytes),
           SubSeq(conn[fd].avail, Len(b) + 1, Len(conn[fd].avail)) = rest
    PROVE  RecvLeaves(fd, ret, b, rest)
<1>1. conn[fd] \in Peers /\ conn \in [Conns -> Peers]
  BY ConnTyped
<1>2. PICK p \in {"open", "closed", "reset"} : p = IF conn[fd].peer = "reset" THEN "closed" ELSE conn[fd].peer
  BY <1>1 DEF Peers
<1>3. [ret |-> ret, bytes |-> b].bytes = b
  OBVIOUS
<1>4. PICK r : r = [ret |-> ret, bytes |-> b] /\ r.bytes = b
  BY <1>3, Zenon
<1>5. PICK c : c = [[conn[fd] EXCEPT !.avail = rest] EXCEPT !.peer = p]
  OBVIOUS
<1>6. AfterRecv(fd, r) = [conn EXCEPT ![fd] = c]
  BY <1>1, <1>2, <1>4, <1>5 DEF AfterRecv, Peers
<1>7. c \in Peers /\ c.wire = conn[fd].wire /\ c.avail = rest /\ c.peer = p
  BY <1>1, <1>5 DEF Peers
<1>8. p = "open" => conn[fd].peer = "open"
  BY <1>2
<1>9. [conn EXCEPT ![fd] = c] \in [Conns -> Peers]
  BY <1>1, <1>7
<1>. QED BY <1>4, <1>6, <1>7, <1>8, <1>9 DEF RecvLeaves

\* The loop reads from an open connection.
LEMMA FirstIsOpen ==
    ASSUME TablePart, todo # {}
    PROVE  First \in todo /\ First \in Conns /\ First \in Clients
<1>1. todo \subseteq Nat
  BY ConnTyped, NumbersTyped
<1>2. First \in todo
  BY <1>1, MinOf DEF First
<1>. QED BY <1>2, ConnTyped

LEMMA TableLoopRecv ==
    ASSUME TablePart, LoopRecv
    PROVE  TablePart'
<1>1. First \in todo /\ First \in Conns /\ First \in Clients /\ First \in Nat
  BY FirstIsOpen, NumbersTyped DEF LoopRecv
<1>2. PICK fd \in Conns : fd = First
  BY <1>1
<1>3. PICK ret \in Int, b \in Seq(Bytes), rest \in Seq(Bytes) :
         /\ Recv(fd, MaxLen) = [ret |-> ret, bytes |-> b]
         /\ SubSeq(conn[fd].avail, Len(b) + 1, Len(conn[fd].avail)) = rest
         /\ ret > 0 => Len(b) = ret /\ ret <= MaxLen
  <2>1. StateTyped /\ MaxLen \in Nat \ {0}
    BY NumbersTyped DEF TablePart
  <2>. QED BY <2>1, RecvSplits
<1>a. AfterRecv(fd, [ret |-> ret, bytes |-> b]) \in [Conns -> Peers]
  <2>0. SubSeq(conn[fd].avail, Len(b) + 1, Len(conn[fd].avail)) = rest
    BY <1>3
  <2>1. RecvLeaves(fd, ret, b, rest)
    BY <2>0, AfterRecvTyped
  <2>. QED BY <2>1, Zenon DEF RecvLeaves
<1>4. PICK r : r = [ret |-> ret, bytes |-> b]
  OBVIOUS
<1>5. PICK n \in PrefixValues(b) :
         /\ conn' = AfterRecv(fd, r) /\ lastfd' = fd
         /\ uneven' \in {uneven, uneven \cup {fd}}
         /\ IF Frame(r, n).remain > 0
            THEN Continue("more", todo \ {fd}, Frame(r, n).n,
                          [fd |-> fd, remain |-> Frame(r, n).remain, bytes |-> b])
            ELSE IF Frame(r, n).n > 0 THEN Return(Frame(r, n).n, fd, b)
            ELSE Continue("loop", todo \ {fd}, Frame(r, n).n, NoRead)
  BY <1>2, <1>3, <1>4 DEF LoopRecv
<1>6. conn' \in [Conns -> Peers]
  BY <1>a, <1>4, <1>5, Zenon
<1>7. Frame(r, n).n \in MsgTooLong - 1 .. MaxLen /\ Frame(r, n).remain \in Int
  <2>1. ret <= MaxLen
    BY <1>3, NumbersTyped
  <2>. QED BY <1>3, <1>4, <2>1, ConnTyped, FrameTyped
<1>8. /\ pc' \in {"out", "loop", "more"} /\ nbytes' \in MsgTooLong - 1 .. MaxLen
      /\ cur' \in [fd : Nat, remain : Int, bytes : Seq(Bytes)] /\ todo' \in {{}, todo \ {fd}}
      /\ (pc' = "out" => todo' = {}) /\ (pc' = "more" => cur'.fd = fd /\ cur'.remain > 0)
  <2>1. CASE Frame(r, n).remain > 0
    BY <1>1, <1>2, <1>5, <1>7, <2>1 DEF Continue
  <2>2. CASE ~(Frame(r, n).remain > 0) /\ Frame(r, n).n > 0
    BY <1>5, <2>2, NumbersTyped DEF Return
  <2>3. CASE ~(Frame(r, n).remain > 0) /\ ~(Frame(r, n).n > 0)
    BY <1>5, <1>7, <2>3, NumbersTyped DEF Continue
  <2>. QED BY <2>1, <2>2, <2>3
<1>9. uneven' \subseteq Clients /\ lastfd' \in Conns \cup {-1} /\ todo' \subseteq Conns
      /\ (pc' = "more" => cur'.fd \in Conns \ todo')
  BY <1>1, <1>2, <1>5, <1>8, ConnTyped
<1>10. UNCHANGED <<slip, pending, accepts, fds, maxfd, count, stale>>
  BY ConnTyped DEF LoopRecv
<1>. QED BY <1>6, <1>8, <1>9, <1>10, TableKept

LEMMA TableMoreRecv ==
    ASSUME TablePart, MoreRecv
    PROVE  TablePart'
<1>1. pc = "more" /\ cur.fd \in Conns \ todo /\ cur.remain > 0 /\ cur.remain \in Int
  BY ConnTyped DEF MoreRecv
<1>2. PICK fd \in Conns : fd = cur.fd /\ fd \notin todo /\ fd \in Nat /\ fd \in Clients
  BY <1>1, ConnTyped, NumbersTyped
<1>3. PICK max \in Nat \ {0} : max = cur.remain
  BY <1>1
<1>4. PICK ret \in Int, b \in Seq(Bytes), rest \in Seq(Bytes) :
         /\ Recv(fd, max) = [ret |-> ret, bytes |-> b]
         /\ SubSeq(conn[fd].avail, Len(b) + 1, Len(conn[fd].avail)) = rest
         /\ ret > 0 => Len(b) = ret /\ ret <= max
  BY RecvSplits DEF TablePart
<1>5. PICK r : r = [ret |-> ret, bytes |-> b]
  OBVIOUS
<1>6. PICK bytes \in Seq(Bytes) : bytes = cur.bytes \o b
  BY ConnTyped, ConcatProperties
<1>7. /\ conn' = AfterRecv(fd, r)
      /\ uneven' \in {uneven, uneven \cup {fd}}
      /\ IF slip /\ IsSlipMsg(b) THEN Return(Len(bytes), fd, bytes)
         ELSE IF max - ret > 0
         THEN Continue("more", todo, nbytes, [cur EXCEPT !.remain = max - ret, !.bytes = bytes])
         ELSE IF slip THEN Continue("loop", todo, MsgTooLong, NoRead)
         ELSE IF nbytes > 0 THEN Return(nbytes, fd, bytes)
         ELSE Continue("loop", todo, nbytes, NoRead)
  BY <1>2, <1>3, <1>4, <1>5, <1>6 DEF MoreRecv
<1>8. conn' \in [Conns -> Peers]
  <2>0. SubSeq(conn[fd].avail, Len(b) + 1, Len(conn[fd].avail)) = rest
    BY <1>4
  <2>1. RecvLeaves(fd, ret, b, rest)
    BY <2>0, AfterRecvTyped
  <2>. QED BY <1>5, <1>7, <2>1, Zenon DEF RecvLeaves
<1>9. /\ pc' \in {"out", "loop", "more"} /\ nbytes' \in MsgTooLong - 1 .. MaxLen
      /\ cur' \in [fd : Nat, remain : Int, bytes : Seq(Bytes)] /\ todo' \in {{}, todo}
      /\ (pc' = "out" => todo' = {}) /\ (pc' = "more" => cur'.fd = fd /\ cur'.remain > 0)
  <2>1. CASE slip /\ IsSlipMsg(b)
    BY <1>7, <2>1, NumbersTyped DEF Return
  <2>2. CASE ~(slip /\ IsSlipMsg(b)) /\ max - ret > 0
    <3>1. PICK d \in Int : d = max - ret
      OBVIOUS
    <3>2. PICK c : c = [cur EXCEPT !.remain = d, !.bytes = bytes]
      OBVIOUS
    <3>3. c \in [fd : Nat, remain : Int, bytes : Seq(Bytes)] /\ c.fd = fd /\ c.remain = d
      BY <1>2, <3>2, ConnTyped
    <3>4. pc' = "more" /\ todo' = todo /\ nbytes' = nbytes /\ cur' = c /\ d > 0
      BY <1>7, <2>2, <3>1, <3>2 DEF Continue
    <3>. QED BY <1>2, <3>3, <3>4, ConnTyped
  <2>3. CASE ~(slip /\ IsSlipMsg(b)) /\ ~(max - ret > 0)
    BY <1>7, <2>3, ConnTyped, NumbersTyped DEF Continue, Return
  <2>. QED BY <2>1, <2>2, <2>3
<1>10. uneven' \subseteq Clients /\ todo' \subseteq Conns /\ (pc' = "more" => cur'.fd \in Conns \ todo')
  BY <1>2, <1>7, <1>9, ConnTyped
<1>11. UNCHANGED <<slip, pending, accepts, fds, maxfd, count, stale>>
       /\ lastfd' \in Conns \cup {-1}
  BY ConnTyped DEF MoreRecv, table
<1>. QED BY <1>8, <1>9, <1>10, <1>11, TableKept

LEMMA TableConnect ==
    ASSUME TablePart, Connect
    PROVE  TablePart'
<1>1. UNCHANGED <<slip, conn, accepts, table, pc, todo, nbytes, cur, result, uneven, stale>>
      /\ pending' = pending + 1 /\ pending + Cardinality(Conns) < MaxConns
  BY DEF Connect
<1>2. Conns' = Conns /\ Monitored' = Monitored
  BY <1>1 DEF Conns, Monitored, table
<1>3. pending \in Nat /\ Cardinality(Conns) \in Nat /\ MaxConns \in Nat
  BY ConnsFinite, ServerAssumption DEF TablePart, StateTyped
<1>4. pending' \in Nat /\ pending' + Cardinality(Conns) <= MaxConns
  BY <1>1, <1>3
<1>5. StateTyped'
  BY <1>1, <1>2, <1>4 DEF TablePart, StateTyped
<1>6. TableInv' /\ PlacesRight' /\ DescriptorsApart'
  BY <1>1, <1>2, <1>4 DEF TablePart, TableInv, TypeOK, ConnectionsKnown, LastIsOpen, PlacesRight,
                          DescriptorsApart, table
<1>. QED BY <1>5, <1>6 DEF TablePart

LEMMA TableSelect ==
    ASSUME TablePart, Select
    PROVE  TablePart'
<1>1. /\ pc = "select" /\ todo' = Ready /\ pc' = "loop"
      /\ UNCHANGED <<slip, lastfd, nbytes, cur, result>>
  BY DEF Select
<1>2. Ready \subseteq Conns
  BY DEF Ready, Readable
<1>3. CASE ~(pending > 0)
  <2>1. UNCHANGED <<conn, pending, accepts, fds, count, maxfd, uneven, stale>>
    BY <1>3 DEF Select
  <2>. QED BY <1>1, <1>2, <2>1, ConnTyped, TableKept
<1>4. CASE pending > 0
  <2>1. PICK fd \in Clients \ Conns : fd = NewFd
    BY <1>4, NewFdIsFree
  <2>2. /\ fds' = fds \cup {fd} /\ count' = count + 1 /\ maxfd' = Max({maxfd, fd})
        /\ conn' = [x \in Conns \cup {fd} |->
                       IF x = fd THEN [wire |-> <<>>, avail |-> <<>>, peer |-> "open"] ELSE conn[x]]
        /\ pending' = pending - 1 /\ accepts' = accepts + 1
        /\ uneven' = uneven \ {fd} /\ stale' = stale \ {fd}
    BY <1>4, <2>1 DEF Select, Accept, MaxWith
  <2>3. Conns' = Conns \cup {fd}
    BY <2>2 DEF Conns
  <2>4. IsFiniteSet(Conns) /\ Cardinality(Conns) \in Nat /\ MaxConns \in Nat /\ Conns \subseteq Clients
    BY ConnsFinite, ServerAssumption, ConnTyped
  <2>5. Cardinality(Conns') = Cardinality(Conns) + 1
    BY <2>1, <2>3, <2>4, FS_AddElement
  <2>6. conn' \in [Conns' -> Peers]
    <3>1. [wire |-> <<>>, avail |-> <<>>, peer |-> "open"] \in Peers
      BY EmptySeq DEF Peers
    <3>. QED BY <2>2, <2>3, <3>1, ConnTyped
  <2>7. pending \in Nat /\ accepts \in Nat /\ pending + Cardinality(Conns) <= MaxConns
        /\ maxfd \in Server .. Server + MaxConns /\ count = Cardinality(Conns)
    BY DEF TablePart, StateTyped, DescriptorsApart, TableInv, TypeOK, ConnectionsKnown
  <2>8. StateTyped'
    BY <1>1, <1>4, <2>1, <2>2, <2>3, <2>4, <2>6, <2>7 DEF TablePart, StateTyped
  <2>9. PlacesRight' /\ DescriptorsApart'
    BY <1>1, <1>4, <2>1, <2>2, <2>3, <2>4, <2>5, <2>7 DEF TablePart, PlacesRight, DescriptorsApart
  <2>10. maxfd' \in Server .. Server + MaxConns /\ maxfd <= maxfd' /\ fd <= maxfd'
    <3>1. fd \in Int /\ maxfd \in Int /\ fd \in Server .. Server + MaxConns
      BY <2>1, <2>7, ServerAssumption DEF Clients, Server
    <3>. QED BY <2>2, <2>7, <3>1, MaxOfTwo
  <2>11. TypeOK'
    <3>1. fds' \subseteq Server .. Server + MaxConns + 1
      <4>1. fd \in Server .. Server + MaxConns + 1
        BY <2>1, <2>4 DEF Clients, Server
      <4>. QED BY <2>2, <4>1 DEF TablePart, TableInv, TypeOK
    <3>2. count' \in 0 .. MaxConns
      BY <1>4, <2>2, <2>4, <2>7
    <3>. QED BY <1>1, <1>2, <2>3, <2>10, <3>1, <3>2 DEF TablePart, TableInv, TypeOK
  <2>12. ConnectionsKnown'
    <3>1. count' = Cardinality(Conns') /\ fds' = Conns' \cup {Server} \cup stale'
      BY <2>2, <2>3, <2>5, <2>7 DEF TablePart, TableInv, ConnectionsKnown
    <3>2. \A x \in Conns : x <= maxfd /\ x \in fds /\ x \in Int
      BY <2>4 DEF TablePart, TableInv, ConnectionsKnown, Monitored, Clients
    <3>3. \A x \in Conns' : x <= maxfd' /\ x \in fds'
      BY <2>2, <2>3, <2>7, <2>10, <3>2
    <3>4. Conns' \subseteq Monitored'
      BY <3>3 DEF Monitored
    <3>. QED BY <3>1, <3>4 DEF ConnectionsKnown
  <2>13. LastIsOpen'
    BY <1>1, <2>3 DEF TablePart, TableInv, LastIsOpen
  <2>. QED BY <2>8, <2>9, <2>11, <2>12, <2>13 DEF TablePart, TableInv
<1>. QED BY <1>3, <1>4

\* The table after a connection is closed, when its descriptor is taken out
\* of the set and when it stays.
LEMMA TableClose ==
    ASSUME TablePart, NEW fd \in Conns, CloseSocket(fd),
           UNCHANGED <<slip, pending, accepts>>,
           \/ fds' = fds \ {fd} /\ stale' = stale
           \/ fds' = fds /\ stale' = stale \cup {fd},
           uneven' = uneven \ {fd}, pc' = "loop", todo' \subseteq todo \ {fd},
           cur' \in [fd : Nat, remain : Int, bytes : Seq(Bytes)],
           nbytes' \in MsgTooLong - 1 .. MaxLen
    PROVE  TablePart'
<1>1. /\ conn' = [x \in Conns \ {fd} |-> conn[x]] /\ lastfd' = (IF lastfd = fd THEN -1 ELSE lastfd)
      /\ count' = count - 1 /\ maxfd' = IF count = 1 THEN Server ELSE maxfd
  BY DEF CloseSocket, WithoutConn, LastWithout
<1>2. Conns' = Conns \ {fd}
  BY <1>1 DEF Conns
<1>3. IsFiniteSet(Conns) /\ Cardinality(Conns) \in Nat /\ Conns \subseteq Clients
      /\ MaxConns \in Nat /\ MaxLen \in Nat /\ fd \in Clients /\ fd # Server
  BY ConnsFinite, ConnTyped, ServerAssumption, NumbersTyped
<1>4. Cardinality(Conns') = Cardinality(Conns) - 1 /\ IsFiniteSet(Conns')
  BY <1>2, <1>3, FS_RemoveElement
<1>5. Cardinality(Conns') \in Nat
  BY <1>2, <1>3, ConnsFinite
<1>6. StateTyped'
  <2>1. conn' \in [Conns' -> Peers]
    BY <1>1, <1>2, ConnTyped
  <2>2. nbytes' \in Int
    BY <1>3 DEF MsgTooLong
  <2>. QED BY <1>2, <1>3, <2>1, <2>2 DEF TablePart, StateTyped
<1>7. PlacesRight'
  BY DEF PlacesRight
<1>8. pending \in Nat /\ pending + Cardinality(Conns) <= MaxConns /\ stale \subseteq Clients \ Conns
      /\ maxfd \in Server .. Server + MaxConns /\ count = Cardinality(Conns) /\ todo \subseteq Conns
      /\ fds = Conns \cup {Server} \cup stale /\ fds \subseteq Server .. Server + MaxConns + 1
  BY DEF TablePart, StateTyped, DescriptorsApart, TableInv, TypeOK, ConnectionsKnown
<1>9. DescriptorsApart'
  BY <1>2, <1>3, <1>4, <1>5, <1>8, SMTT(30) DEF DescriptorsApart
<1>10. TypeOK'
  <2>1. count' \in 0 .. MaxConns
    BY <1>1, <1>3, <1>4, <1>5, <1>8
  <2>2. maxfd' \in Server .. Server + MaxConns
    BY <1>1, <1>3, <1>8 DEF Server
  <2>3. fds' \subseteq Server .. Server + MaxConns + 1 /\ todo' \subseteq Conns'
    BY <1>2, <1>8
  <2>. QED BY <2>1, <2>2, <2>3 DEF TypeOK
<1>11. ConnectionsKnown'
  <2>1. count' = Cardinality(Conns') /\ fds' = Conns' \cup {Server} \cup stale'
    BY <1>1, <1>2, <1>3, <1>4, <1>8
  <2>2. \A x \in Conns : x <= maxfd /\ x \in fds
    BY DEF TablePart, TableInv, ConnectionsKnown, Monitored
  <2>3. \A x \in Conns' : x <= maxfd'
    <3>1. CASE count = 1
      <4>1. Conns' = {}
        BY <1>4, <1>8, <3>1, FS_EmptySet
      <4>. QED BY <4>1
    <3>2. CASE count # 1
      BY <1>1, <1>2, <2>2, <3>2
    <3>. QED BY <3>1, <3>2
  <2>4. Conns' \subseteq Monitored'
    BY <2>1, <2>3 DEF Monitored
  <2>. QED BY <2>1, <2>4 DEF ConnectionsKnown
<1>12. LastIsOpen'
  BY <1>1, <1>2 DEF TablePart, TableInv, LastIsOpen
<1>. QED BY <1>6, <1>7, <1>9, <1>10, <1>11, <1>12 DEF TablePart, TableInv

LEMMA TableLoopClose ==
    ASSUME TablePart, LoopClose
    PROVE  TablePart'
<1>1. PICK fd \in Conns : fd = First
  BY FirstIsOpen DEF LoopClose
<1>2. CloseSocket(fd) /\ fds' = fds \ {fd} /\ todo' \subseteq todo \ {fd} /\ uneven' = uneven \ {fd}
      /\ UNCHANGED <<slip, pending, accepts, pc, nbytes, cur, result, stale>> /\ pc = "loop"
  BY <1>1 DEF LoopClose
<1>. QED BY <1>2, ConnTyped, TableClose

LEMMA TableMoreClose ==
    ASSUME TablePart, MoreClose
    PROVE  TablePart'
<1>1. PICK fd \in Conns : fd = cur.fd /\ fd \notin todo
  BY ConnTyped DEF MoreClose
<1>2. CloseSocket(fd) /\ fds' = fds /\ stale' = stale \cup {fd} /\ todo' \subseteq todo \ {fd}
      /\ uneven' = uneven \ {fd} /\ UNCHANGED <<slip, pending, accepts>>
      /\ pc' = "loop" /\ nbytes' = BadMsg /\ cur' = NoRead
  BY <1>1 DEF MoreClose, Continue
<1>. QED BY <1>2, NumbersTyped, TableClose

LEMMA TableCloseAll ==
    ASSUME TablePart, CloseConnections
    PROVE  TablePart'
<1>1. /\ pc = "out" /\ conn' = [x \in {} |-> 0]
      /\ fds' = {Server} /\ maxfd' = Server /\ lastfd' = -1 /\ count' = 0
      /\ uneven' = {} /\ stale' = {}
      /\ UNCHANGED <<slip, pending, accepts, pc, todo, nbytes, cur, result>>
  BY DEF CloseConnections
<1>2. Conns' = {} /\ Cardinality(Conns') = 0
  BY <1>1, FS_EmptySet DEF Conns
<1>3. conn' \in [Conns' -> Peers]
  BY <1>1, <1>2
<1>4. todo = {} /\ pending \in Nat /\ MaxConns \in Nat /\ Cardinality(Conns) \in Nat
      /\ pending + Cardinality(Conns) <= MaxConns
  BY <1>1, ConnTyped, ServerAssumption, ConnsFinite DEF TablePart, StateTyped, DescriptorsApart
<1>5. StateTyped' /\ PlacesRight' /\ DescriptorsApart'
  BY <1>1, <1>2, <1>3, <1>4 DEF TablePart, StateTyped, PlacesRight, DescriptorsApart
<1>6. TypeOK'
  BY <1>1, <1>2, <1>4 DEF TablePart, TableInv, TypeOK, Server
<1>7. ConnectionsKnown' /\ LastIsOpen'
  BY <1>1, <1>2 DEF ConnectionsKnown, LastIsOpen, Monitored
<1>. QED BY <1>5, <1>6, <1>7 DEF TablePart, TableInv

LEMMA TableInit == Init => TablePart
<1>1. SUFFICES ASSUME Init PROVE TablePart
  OBVIOUS
<1>2. Conns = {} /\ Cardinality(Conns) = 0 /\ conn \in [Conns -> Peers]
  BY <1>1, FS_EmptySet DEF Init, Conns
<1>3. StateTyped /\ PlacesRight /\ DescriptorsApart
  BY <1>1, <1>2, NumbersTyped, ServerAssumption DEF Init, StateTyped, PlacesRight, DescriptorsApart
<1>4. TypeOK
  BY <1>1, <1>2, NumbersTyped, ServerAssumption DEF Init, TypeOK, Server
<1>5. ConnectionsKnown /\ LastIsOpen
  BY <1>1, <1>2 DEF Init, ConnectionsKnown, LastIsOpen, Monitored
<1>. QED BY <1>3, <1>4, <1>5 DEF TablePart, TableInv

LEMMA TableStep == TablePart /\ [Next]_vars => TablePart'
<1>1. SUFFICES ASSUME TablePart, [Next]_vars PROVE TablePart'
  OBVIOUS
<1>2. CASE UNCHANGED vars
  <2>1. Conns' = Conns /\ Monitored' = Monitored
    BY <1>2 DEF vars, peers, table, Conns, Monitored
  <2>. QED BY <1>1, <1>2, <2>1 DEF TablePart, StateTyped, TableInv, TypeOK, ConnectionsKnown, LastIsOpen,
                              PlacesRight, DescriptorsApart, vars, peers, table
<1>3. CASE Others
  BY <1>1, <1>3, TableConnect, TableSend, TableLeave, TableCloseAll DEF Others
<1>4. CASE Network
  BY <1>1, <1>4, TableArrive DEF Network
<1>5. CASE OscRecv
  BY <1>1, <1>5, TableCall, TableSelect, TableLoopClose, TableLoopRecv, TableMoreClose, TableMoreRecv
     DEF OscRecv
<1>. QED BY <1>1, <1>2, <1>3, <1>4, <1>5 DEF Next

\* The table of descriptors stays right, whatever the other sides do and
\* wherever osc_recv is: the number of connections, the set that select
\* monitors, its highest descriptor and the last descriptor read.
THEOREM TableCorrect == Spec => []TableInv
<1>1. TablePart => TableInv
  BY DEF TablePart
<1>. QED BY <1>1, TableInit, TableStep, PTL DEF Spec

-----------------------------------------------------------------------------
(* The first message of a stream *)

LEMMA MessageIsSent == ASSUME NEW m PROVE Message(m) = Sent(slip, m)
  BY DEF Message, Sent, Size

LEMMA FirstMessage ==
    ASSUME NEW sl \in BOOLEAN, NEW s \in Seq(Bytes), s # <<>>, Framed(sl, s)
    PROVE  /\ Len(s) >= Size(sl, s[1][1]) => SubSeq(s, 1, Size(sl, s[1][1])) = Sent(sl, s[1][1])
           /\ Len(s) <= Size(sl, s[1][1]) => IsPrefix(s, Sent(sl, s[1][1]))
<1>1. PICK m \in Sizes : m = s[1][1]
  BY FramedStart
<1>2. PICK z \in Nat \ {0} : z = Size(sl, m)
  BY SentIsSeq
<1>3. \A i \in 1 .. z : i <= Len(s) => s[i] = <<m, i>>
  BY <1>1, <1>2, FramedStart
<1>4. PICK t \in Seq(Bytes) : t = Sent(sl, m) /\ Len(t) = z /\ \A i \in 1 .. z : t[i] = <<m, i>>
  BY <1>2, SentIsSeq
<1>5. Len(s) \in Nat /\ Len(s) >= 1
  BY EmptySeq, LenProperties
<1>6. ASSUME Len(s) >= z PROVE SubSeq(s, 1, z) = t
  <2>1. z \in 1 .. Len(s)
    BY <1>5, <1>6
  <2>2. PICK u \in Seq(Bytes) : u = SubSeq(s, 1, z) /\ Len(u) = z
    BY <2>1, CutInTwo
  <2>3. \A i \in 1 .. z : u[i] = s[i]
    BY <2>1, <2>2
  <2>4. \A i \in 1 .. z : u[i] = t[i]
    <3>1. SUFFICES ASSUME NEW i \in 1 .. z PROVE u[i] = t[i]
      OBVIOUS
    <3>2. i <= Len(s)
      BY <1>5, <2>1
    <3>3. s[i] = <<m, i>> /\ t[i] = <<m, i>> /\ u[i] = s[i]
      BY <1>3, <1>4, <2>3, <3>2, Zenon
    <3>. QED BY <3>3, Zenon
  <2>5. u = t
    BY <1>4, <2>2, <2>4, SeqEqual
  <2>. QED BY <2>2, <2>5
<1>7. ASSUME Len(s) <= z PROVE IsPrefix(s, t)
  <2>1. Len(s) \in 1 .. Len(t)
    BY <1>4, <1>5, <1>7
  <2>2. PICK u \in Seq(Bytes) : u = SubSeq(t, 1, Len(s)) /\ Len(u) = Len(s)
    BY <2>1, CutInTwo
  <2>3. \A i \in 1 .. Len(s) : u[i] = t[i]
    BY <2>1, <2>2
  <2>4. \A i \in 1 .. Len(s) : u[i] = s[i]
    <3>1. SUFFICES ASSUME NEW i \in 1 .. Len(s) PROVE u[i] = s[i]
      OBVIOUS
    <3>2. i <= Len(s) /\ i \in 1 .. z
      BY <1>4, <1>5, <2>1
    <3>3. s[i] = <<m, i>> /\ t[i] = <<m, i>> /\ u[i] = t[i]
      BY <1>3, <1>4, <2>3, <3>1, <3>2, Zenon
    <3>. QED BY <3>3, Zenon
  <2>5. u = s
    BY <2>2, <2>4, SeqEqual
  <2>6. SubSeq(s, 1, Len(s)) = s
    BY SubSeqFull
  <2>. QED BY <2>1, <2>2, <2>5, <2>6 DEF IsPrefix
<1>. QED BY <1>1, <1>2, <1>4, <1>6, <1>7

\* The bytes of a message are a message.
LEMMA WholeIf ==
    ASSUME NEW m \in Sizes, slip \in BOOLEAN, NEW b, b = Sent(slip, m)
    PROVE  Whole(b)
<1>1. b \in Seq(Bytes) /\ Len(b) \in Nat \ {0} /\ b[1] = <<m, 1>>
  <2>1. PICK z \in Nat \ {0} : z = Size(slip, m)
    BY SentIsSeq
  <2>. QED BY <2>1, SentIsSeq
<1>2. b # <<>> /\ b[1][1] = m
  BY <1>1
<1>. QED BY <1>2, MessageIsSent DEF Whole

\* With the count prefix: the bytes that the count of the first message
\* covers.
LEMMA TakenCount ==
    ASSUME slip = FALSE, NEW b \in Seq(Bytes), b # <<>>, Framed(slip, b), NEW n, n = b[1][1],
           Len(b) >= n + Prefix
    PROVE  Whole(Taken(n, b))
<1>1. n \in Sizes /\ n \in Nat \ {0} /\ Prefix \in Nat \ {0} /\ slip \in BOOLEAN
  BY FramedStart, ServerAssumption
<1>2. Len(b) \in Nat
  BY LenProperties
<1>3. Min({n + Prefix, Len(b)}) = n + Prefix
  <2>1. PICK z \in Nat : z = n + Prefix /\ z <= Len(b)
    BY <1>1, <1>2
  <2>. QED BY <1>2, <2>1, MinOfTwo
<1>4. Taken(n, b) = SubSeq(b, 1, n + Prefix)
  <2>1. ~(n < 0) /\ ~slip
    BY <1>1
  <2>. QED BY <1>3, <2>1, Zenon DEF Taken
<1>5. Size(slip, n) = n + Prefix
  BY DEF Size
<1>6. Taken(n, b) = Sent(slip, n)
  BY <1>1, <1>4, <1>5, FirstMessage
<1>. QED BY <1>1, <1>6, WholeIf

\* With SLIP: the first END that is not the first byte ends the first
\* message.
LEMMA SlipEnds ==
    ASSUME NEW b \in Seq(Bytes), b # <<>>, Framed(TRUE, b), NEW m, m = b[1][1]
    PROVE  /\ \A k \in 2 .. Len(b) : k < m + 2 => ~IsEnd(b[k])
           /\ Len(b) >= m + 2 => IsEnd(b[m + 2])
           /\ m \in Sizes /\ m \in Nat \ {0} /\ Size(TRUE, m) = m + 2
<1>1. m \in Sizes /\ m \in Nat \ {0}
  BY FramedStart, ServerAssumption
<1>2. Size(TRUE, m) = m + 2
  BY DEF Size
<1>3. \A i \in 1 .. m + 2 : i <= Len(b) => b[i] = <<m, i>>
  BY <1>1, <1>2, FramedStart
<1>4. Len(b) \in Nat
  BY LenProperties
<1>5. ASSUME NEW k \in 2 .. Len(b), k < m + 2 PROVE ~IsEnd(b[k])
  <2>1. b[k] = <<m, k>>
    BY <1>1, <1>3, <1>4, <1>5
  <2>. QED BY <1>1, <1>5, <2>1 DEF IsEnd
<1>6. ASSUME Len(b) >= m + 2 PROVE IsEnd(b[m + 2])
  <2>1. b[m + 2] = <<m, m + 2>>
    BY <1>1, <1>3, <1>4, <1>6
  <2>. QED BY <1>1, <2>1 DEF IsEnd
<1>. QED BY <1>1, <1>2, <1>5, <1>6

LEMMA TakenSlip ==
    ASSUME slip = TRUE, NEW b \in Seq(Bytes), b # <<>>, Framed(slip, b), IsSlipMsg(b), NEW n \in Nat
    PROVE  Whole(Taken(n, b))
<1>a. PICK m : m = b[1][1]
  OBVIOUS
<1>b. Framed(TRUE, b)
  BY Zenon
<1>c. \A k \in 2 .. Len(b) : k < m + 2 => ~IsEnd(b[k])
  BY <1>a, <1>b, SlipEnds, Zenon
<1>d. Len(b) >= m + 2 => IsEnd(b[m + 2])
  BY <1>a, <1>b, SlipEnds, Zenon
<1>1. m = b[1][1] /\ m \in Sizes /\ m \in Nat \ {0} /\ Size(slip, m) = m + 2
  BY <1>a, <1>b, SlipEnds, Zenon
<1>2. PICK k \in 2 .. Len(b) : IsEnd(b[k])
  BY DEF IsSlipMsg
<1>3. Len(b) \in Nat /\ Len(b) >= m + 2
  <2>1. ~(k < m + 2)
    BY <1>2, <1>c
  <2>. QED BY <1>1, <2>1, LenProperties
<1> DEFINE S == {j \in 2 .. Len(b) : IsEnd(b[j])} \cup {Len(b)}
<1>4. S \subseteq Nat /\ S # {} /\ m + 2 \in S
  <2>1. m + 2 \in 2 .. Len(b) /\ IsEnd(b[m + 2])
    BY <1>1, <1>3, <1>d
  <2>2. m + 2 \in S
    BY <2>1, Zenon
  <2>. QED BY <1>3, <2>2
<1>5. \A j \in S : ~(j < m + 2)
  <2>1. ASSUME NEW j \in 2 .. Len(b), IsEnd(b[j]) PROVE ~(j < m + 2)
    BY <1>c, <2>1
  <2>. QED BY <1>1, <1>3, <2>1
<1>6. Min(S) = m + 2
  <2> HIDE DEF S
  <2>1. Min(S) \in S /\ Min(S) <= m + 2
    BY <1>4, MinOf
  <2>2. PICK x \in Nat : x = Min(S) /\ x <= m + 2 /\ ~(x < m + 2)
    BY <1>4, <1>5, <2>1, Zenon
  <2>. QED BY <1>1, <2>2
<1>7. Taken(n, b) = SubSeq(b, 1, Min(S))
  <2>1. ~(n < 0)
    OBVIOUS
  <2>. QED BY <2>1, Zenon DEF Taken, SlipDecode
<1>8. Taken(n, b) = Sent(slip, m)
  BY <1>1, <1>3, <1>6, <1>7, FirstMessage
<1>9. slip \in BOOLEAN
  OBVIOUS
<1>. QED BY <1>1, <1>8, <1>9, WholeIf

\* A SLIP message without its end.
LEMMA SlipCutOff ==
    ASSUME slip = TRUE, NEW b \in Seq(Bytes), b # <<>>, Framed(slip, b), ~IsSlipMsg(b)
    PROVE  InMessage(b)
<1>a. PICK m : m = b[1][1]
  OBVIOUS
<1>b. Framed(TRUE, b)
  BY Zenon
<1>c. \A k \in 2 .. Len(b) : k < m + 2 => ~IsEnd(b[k])
  BY <1>a, <1>b, SlipEnds, Zenon
<1>d. Len(b) >= m + 2 => IsEnd(b[m + 2])
  BY <1>a, <1>b, SlipEnds, Zenon
<1>1. m = b[1][1] /\ m \in Sizes /\ m \in Nat \ {0} /\ Size(slip, m) = m + 2
  BY <1>a, <1>b, SlipEnds, Zenon
<1>2. Len(b) \in Nat
  BY LenProperties
<1>3. Len(b) <= m + 2
  <2>1. SUFFICES ASSUME Len(b) > m + 2 PROVE FALSE
    BY <1>1, <1>2
  <2>2. IsEnd(b[m + 2]) /\ m + 2 \in 2 .. Len(b)
    BY <1>1, <1>2, <1>d, <2>1
  <2>. QED BY <2>2 DEF IsSlipMsg
<1>4. IsPrefix(b, Sent(slip, m))
  BY <1>1, <1>3, FirstMessage
<1>. QED BY <1>1, <1>4, MessageIsSent DEF InMessage

LEMMA Assoc ==
    ASSUME NEW x \in Seq(Bytes), NEW y \in Seq(Bytes), NEW z \in Seq(Bytes)
    PROVE  (x \o y) \o z = x \o (y \o z)
<1>1. PICK u \in Seq(Bytes) : u = x \o y
  BY ConcatProperties
<1>2. PICK v \in Seq(Bytes) : v = y \o z
  BY ConcatProperties
<1>3. PICK a \in Seq(Bytes) : a = u \o z
  BY ConcatProperties
<1>4. PICK b \in Seq(Bytes) : b = x \o v
  BY ConcatProperties
<1>5. Len(x) \in Nat /\ Len(y) \in Nat /\ Len(z) \in Nat
  BY LenProperties
<1>6. /\ Len(u) = Len(x) + Len(y)
      /\ \A i \in 1 .. Len(x) + Len(y) : u[i] = IF i <= Len(x) THEN x[i] ELSE y[i - Len(x)]
  BY <1>1, ConcatProperties, Zenon
<1>7. /\ Len(v) = Len(y) + Len(z)
      /\ \A i \in 1 .. Len(y) + Len(z) : v[i] = IF i <= Len(y) THEN y[i] ELSE z[i - Len(y)]
  BY <1>2, ConcatProperties, Zenon
<1>8. /\ Len(a) = Len(u) + Len(z)
      /\ \A i \in 1 .. Len(u) + Len(z) : a[i] = IF i <= Len(u) THEN u[i] ELSE z[i - Len(u)]
  BY <1>3, ConcatProperties, Zenon
<1>9. /\ Len(b) = Len(x) + Len(v)
      /\ \A i \in 1 .. Len(x) + Len(v) : b[i] = IF i <= Len(x) THEN x[i] ELSE v[i - Len(x)]
  BY <1>4, ConcatProperties, Zenon
<1>10. Len(a) = Len(b) /\ \A i \in 1 .. Len(a) : a[i] = b[i]
  <2>1. Len(a) = Len(b) /\ Len(a) = Len(x) + (Len(y) + Len(z))
    BY <1>5, <1>6, <1>7, <1>8, <1>9
  <2>2. ASSUME NEW i \in 1 .. Len(a), i <= Len(x) PROVE a[i] = x[i] /\ b[i] = x[i]
    <3>1. i \in 1 .. Len(u) + Len(z) /\ i \in 1 .. Len(x) + Len(y) /\ i \in 1 .. Len(x) + Len(v)
          /\ i <= Len(u)
      BY <1>5, <1>6, <1>7, <1>8, <2>1, <2>2
    <3>. QED BY <1>6, <1>8, <1>9, <2>2, <3>1, Zenon
  <2>3. ASSUME NEW i \in 1 .. Len(a), ~(i <= Len(x)), i - Len(x) <= Len(y)
        PROVE  a[i] = y[i - Len(x)] /\ b[i] = y[i - Len(x)]
    <3>1. i \in 1 .. Len(u) + Len(z) /\ i \in 1 .. Len(x) + Len(y) /\ i \in 1 .. Len(x) + Len(v)
          /\ i <= Len(u) /\ i - Len(x) \in 1 .. Len(y) + Len(z)
      BY <1>5, <1>6, <1>7, <1>8, <2>1, <2>3
    <3>. QED BY <1>6, <1>7, <1>8, <1>9, <2>3, <3>1, Zenon
  <2>4. ASSUME NEW i \in 1 .. Len(a), ~(i <= Len(x)), ~(i - Len(x) <= Len(y))
        PROVE  a[i] = z[i - Len(u)] /\ b[i] = z[(i - Len(x)) - Len(y)]
    <3>1. i \in 1 .. Len(u) + Len(z) /\ i \in 1 .. Len(x) + Len(v)
          /\ ~(i <= Len(u)) /\ i - Len(x) \in 1 .. Len(y) + Len(z)
      BY <1>5, <1>6, <1>7, <1>8, <2>1, <2>4
    <3>. QED BY <1>7, <1>8, <1>9, <2>4, <3>1, Zenon
  <2>5. \A i \in 1 .. Len(a) : (i - Len(x)) - Len(y) = i - Len(u)
    BY <1>5, <1>6
  <2>. QED BY <2>1, <2>2, <2>3, <2>4, <2>5
<1>11. a = b
  BY <1>10, SeqEqual
<1>. QED BY <1>1, <1>2, <1>3, <1>4, <1>11

-----------------------------------------------------------------------------
(* The streams *)

\* A stream that a step does not touch stays in step.
LEMMA InStepKept ==
    ASSUME NEW x, InStep(x), slip' = slip, conn'[x] = conn[x], InBuffer(x)' = InBuffer(x)
    PROVE  InStep(x)'
<1>1. Stream(x)' = Stream(x)
  BY DEF Stream
<1>. QED BY <1>1 DEF InStep

\* What osc_recv returns.
LEMMA Returned ==
    ASSUME NEW n, NEW fd, NEW b, Return(n, fd, b)
    PROVE  /\ pc' = "out" /\ result'.ret = n
           /\ fd \in uneven => result'.right
           /\ Whole(Taken(n, b)) => result'.right
           /\ (slip /\ n = MaxLen /\ InMessage(b)) => result'.right
  BY DEF Return

\* A step outside of osc_recv leaves the buffer and the result alone.
LEMMA OutsideStep ==
    ASSUME StreamPart, UNCHANGED <<slip, pc, cur, nbytes, result, uneven>>
    PROVE  /\ CountRight' /\ MessagesWhole'
           /\ \A x : InBuffer(x)' = InBuffer(x)
  BY DEF StreamPart, CountRight, MessagesWhole, InBuffer

LEMMA BufferTyped ==
    ASSUME TablePart, NEW fd \in Conns
    PROVE  InBuffer(fd) \in Seq(Bytes)
  BY ConnTyped, EmptySeq DEF InBuffer

LEMMA StreamConnect ==
    ASSUME StreamPart, Connect
    PROVE  StreamPart'
<1>1. UNCHANGED <<slip, pc, cur, nbytes, result, uneven, conn>>
  BY DEF Connect
<1>2. CountRight' /\ MessagesWhole' /\ \A x : InBuffer(x)' = InBuffer(x)
  BY <1>1, OutsideStep
<1>3. SUFFICES ASSUME NEW x \in Conns' \ uneven' PROVE InStep(x)'
  BY <1>2 DEF StreamPart, StreamsFramed
<1>4. InStep(x) /\ conn'[x] = conn[x]
  BY <1>1 DEF StreamPart, StreamsFramed, Conns
<1>. QED BY <1>1, <1>2, <1>4, InStepKept

LEMMA StreamSend ==
    ASSUME TablePart, StreamPart, NEW fd \in Conns, NEW m \in Sizes, SendMessage(fd, m)
    PROVE  StreamPart'
<1>1. UNCHANGED <<slip, pc, cur, nbytes, result, uneven>>
      /\ conn' = [conn EXCEPT ![fd].wire = @ \o Message(m)] /\ conn[fd].peer = "open"
  BY DEF SendMessage
<1>2. CountRight' /\ MessagesWhole' /\ \A x : InBuffer(x)' = InBuffer(x)
  BY <1>1, OutsideStep
<1>3. SUFFICES ASSUME NEW x \in Conns' \ uneven' PROVE InStep(x)'
  BY <1>2 DEF StreamPart, StreamsFramed
<1>4. x \in Conns /\ InStep(x)
  BY <1>1 DEF StreamPart, StreamsFramed, Conns
<1>5. CASE x # fd
  <2>1. conn'[x] = conn[x]
    BY <1>1, <1>4, <1>5 DEF Conns
  <2>. QED BY <1>1, <1>2, <1>4, <2>1, InStepKept
<1>6. CASE x = fd
  <2>1. PICK c \in Seq(Bytes), a \in Seq(Bytes), w \in Seq(Bytes), t \in Seq(Bytes) :
           c = InBuffer(fd) /\ a = conn[fd].avail /\ w = conn[fd].wire /\ t = Sent(slip, m)
    BY BufferTyped, ConnTyped, SentIsSeq
  <2>2. conn'[fd].avail = a /\ conn'[fd].wire = w \o t
    BY <1>1, <2>1, ConnTyped, MessageIsSent DEF Conns, Peers
  <2>a. PICK aw \in Seq(Bytes) : aw = a \o w
    BY ConcatProperties
  <2>3. PICK s \in Seq(Bytes) : s = c \o aw
    BY ConcatProperties
  <2>4. Framed(slip, s) /\ Complete(slip, s)
    BY <1>1, <1>4, <1>6, <2>1, <2>a, <2>3 DEF InStep, Stream
  <2>5. Framed(slip, s \o t) /\ Complete(slip, s \o t)
    BY <2>1, <2>4, ConnTyped, FramedAppend
  <2>6. Stream(fd)' = c \o (a \o (w \o t))
    BY <1>2, <2>1, <2>2 DEF Stream
  <2>7. s \o t = c \o (a \o (w \o t))
    <3>1. (c \o aw) \o t = c \o (aw \o t)
      BY Assoc, SMTT(30)
    <3>2. (a \o w) \o t = a \o (w \o t)
      BY Assoc, SMTT(30)
    <3>. QED BY <2>a, <2>3, <3>1, <3>2, Zenon
  <2>. QED BY <1>1, <1>6, <2>5, <2>6, <2>7 DEF InStep
<1>. QED BY <1>5, <1>6

LEMMA StreamArrive ==
    ASSUME TablePart, StreamPart, NEW fd \in Conns, NEW n \in 1 .. Len(conn[fd].wire), Arrive(fd, n)
    PROVE  StreamPart'
<1>1. UNCHANGED <<slip, pc, cur, nbytes, result, uneven>>
      /\ conn' = [conn EXCEPT ![fd].avail = @ \o SubSeq(conn[fd].wire, 1, n),
                              ![fd].wire = SubSeq(@, n + 1, Len(@))]
  BY DEF Arrive
<1>2. CountRight' /\ MessagesWhole' /\ \A x : InBuffer(x)' = InBuffer(x)
  BY <1>1, OutsideStep
<1>3. SUFFICES ASSUME NEW x \in Conns' \ uneven' PROVE InStep(x)'
  BY <1>2 DEF StreamPart, StreamsFramed
<1>4. x \in Conns /\ InStep(x)
  BY <1>1 DEF StreamPart, StreamsFramed, Conns
<1>5. CASE x # fd
  <2>1. conn'[x] = conn[x]
    BY <1>1, <1>4, <1>5 DEF Conns
  <2>. QED BY <1>1, <1>2, <1>4, <2>1, InStepKept
<1>6. CASE x = fd
  <2>1. PICK c \in Seq(Bytes), a \in Seq(Bytes), w \in Seq(Bytes) :
           c = InBuffer(fd) /\ a = conn[fd].avail /\ w = conn[fd].wire
    BY BufferTyped, ConnTyped
  <2>2. PICK u \in Seq(Bytes), v \in Seq(Bytes) :
           u = SubSeq(w, 1, n) /\ v = SubSeq(w, n + 1, Len(w)) /\ u \o v = w
    <3>1. n \in 1 .. Len(w)
      BY <2>1
    <3>2. SubSeq(w, 1, n) \in Seq(Bytes) /\ SubSeq(w, n + 1, Len(w)) \in Seq(Bytes)
          /\ SubSeq(w, 1, n) \o SubSeq(w, n + 1, Len(w)) = w
      BY <3>1, CutInTwo
    <3>. QED BY <3>2, Zenon
  <2>3. conn'[fd].avail = a \o u /\ conn'[fd].wire = v /\ conn'[fd].peer = conn[fd].peer
    BY <1>1, <2>1, <2>2, ConnTyped DEF Conns, Peers
  <2>4. Stream(fd)' = c \o ((a \o u) \o v)
    BY <1>2, <2>1, <2>3 DEF Stream
  <2>5. Stream(fd) = c \o (a \o (u \o v))
    BY <2>1, <2>2 DEF Stream
  <2>6. Stream(fd)' = Stream(fd)
    <3>1. (a \o u) \o v = a \o (u \o v)
      BY Assoc, ZenonT(30)
    <3>. QED BY <2>4, <2>5, <3>1, Zenon
  <2>. QED BY <1>1, <1>4, <1>6, <2>3, <2>6 DEF InStep
<1>. QED BY <1>5, <1>6

LEMMA StreamLeave ==
    ASSUME TablePart, StreamPart, NEW fd \in Conns, NEW how \in {"closed", "reset"}, Leave(fd, how)
    PROVE  StreamPart'
<1>1. UNCHANGED <<slip, pc, cur, nbytes, result, uneven>>
      /\ conn' = [conn EXCEPT ![fd] = IF how = "reset" THEN [wire |-> <<>>, avail |-> <<>>, peer |-> how]
                                      ELSE [conn[fd] EXCEPT !.peer = how]]
  BY DEF Leave
<1>2. CountRight' /\ MessagesWhole' /\ \A x : InBuffer(x)' = InBuffer(x)
  BY <1>1, OutsideStep
<1>3. SUFFICES ASSUME NEW x \in Conns' \ uneven' PROVE InStep(x)'
  BY <1>2 DEF StreamPart, StreamsFramed
<1>4. x \in Conns /\ InStep(x)
  BY <1>1 DEF StreamPart, StreamsFramed, Conns
<1>5. CASE x # fd
  <2>1. conn'[x] = conn[x]
    BY <1>1, <1>4, <1>5 DEF Conns
  <2>. QED BY <1>1, <1>2, <1>4, <2>1, InStepKept
<1>6. CASE x = fd
  <2>1. PICK c \in Seq(Bytes), a \in Seq(Bytes), w \in Seq(Bytes) :
           c = InBuffer(fd) /\ a = conn[fd].avail /\ w = conn[fd].wire
    BY BufferTyped, ConnTyped
  <2>2. CASE how = "reset"
    <3>1. conn'[fd].wire = <<>> /\ conn'[fd].avail = <<>> /\ conn'[fd].peer # "open"
      BY <1>1, <2>2, ConnTyped DEF Conns
    <3>2. Stream(fd)' = c
      <4>1. <<>> \o <<>> = <<>>
        OBVIOUS
      <4>2. c \o <<>> = c
        BY ConcatEmptySeq
      <4>. QED BY <1>2, <2>1, <3>1, <4>1, <4>2 DEF Stream
    <3>3. PICK t \in Seq(Bytes) : t = a \o w
      BY ConcatProperties
    <3>4. Framed(slip, c \o t)
      BY <1>4, <1>6, <2>1, <3>3 DEF InStep, Stream
    <3>5. Framed(slip, c)
      BY <3>4, ConnTyped, FramedPrefix
    <3>. QED BY <1>1, <1>6, <3>1, <3>2, <3>5 DEF InStep
  <2>3. CASE how = "closed"
    <3>1. conn'[fd].wire = w /\ conn'[fd].avail = a /\ conn'[fd].peer # "open"
      BY <1>1, <2>1, <2>3, ConnTyped DEF Conns, Peers
    <3>2. Stream(fd)' = Stream(fd)
      BY <1>2, <2>1, <3>1 DEF Stream
    <3>. QED BY <1>1, <1>4, <1>6, <3>1, <3>2 DEF InStep
  <2>. QED BY <2>2, <2>3
<1>. QED BY <1>5, <1>6

LEMMA StreamCall ==
    ASSUME TablePart, StreamPart, Call \/ SelectFails \/ MoreMissing \/ LoopEnd
    PROVE  StreamPart'
<1>1. slip' = slip /\ conn' = conn /\ pc' # "more"
      /\ (result' = result \/ (result'.ret \in Int /\ result'.ret <= 0))
  <2>1. CASE Call
    BY <2>1 DEF Call, NoResult, peers
  <2>2. CASE SelectFails
    BY <2>2 DEF SelectFails, Return, peers
  <2>3. CASE MoreMissing
    <3>1. slip' = slip /\ conn' = conn /\ result' = result /\ pc' # "more"
      BY <2>3 DEF MoreMissing, Continue, peers
    <3>. QED BY <3>1, Zenon
  <2>4. CASE LoopEnd
    <3>1. slip' = slip /\ conn' = conn
      BY <2>4 DEF LoopEnd, peers
    <3>2. CASE nbytes < 0
      <4>1. Return(nbytes, 0, <<>>)
        BY <2>4, <3>2 DEF LoopEnd
      <4>2. nbytes \in Int /\ nbytes <= 0
        BY <3>2 DEF TablePart, StateTyped
      <4>. QED BY <3>1, <4>1, <4>2, Returned
    <3>3. CASE ~(nbytes < 0)
      <4>1. result' = result /\ pc' # "more"
        BY <2>4, <3>3 DEF LoopEnd, Continue
      <4>. QED BY <3>1, <4>1, Zenon
    <3>. QED BY <3>2, <3>3
  <2>. QED BY <2>1, <2>2, <2>3, <2>4
<1>2. MessagesWhole' /\ CountRight'
  <2>1. result'.ret > 0 => result' = result
    BY <1>1, ConnTyped
  <2>. QED BY <1>1, <2>1 DEF StreamPart, MessagesWhole, CountRight
<1>3. SUFFICES ASSUME NEW x \in Conns' \ uneven' PROVE InStep(x)'
  BY <1>2 DEF StreamPart, StreamsFramed
<1>4. /\ x \in Conns \ uneven /\ conn'[x] = conn[x]
      /\ InBuffer(x) = <<>> /\ InBuffer(x)' = <<>>
  BY <1>1 DEF Call, SelectFails, MoreMissing, LoopEnd, InBuffer, Conns
<1>. QED BY <1>1, <1>4, InStepKept DEF StreamPart, StreamsFramed

LEMMA StreamClose ==
    ASSUME TablePart, StreamPart, LoopClose \/ MoreClose \/ CloseConnections
    PROVE  StreamPart'
<1>1. PICK gone : /\ conn' = [x \in Conns \ gone |-> conn[x]] /\ uneven' = uneven \ gone
                  /\ pc = "more" => cur.fd \in gone
  <2>1. CASE LoopClose
    <3>1. conn' = [x \in Conns \ {First} |-> conn[x]] /\ uneven' = uneven \ {First} /\ pc # "more"
      BY <2>1 DEF LoopClose, CloseSocket, WithoutConn
    <3>. QED BY <3>1, Zenon
  <2>2. CASE MoreClose
    <3>1. conn' = [x \in Conns \ {cur.fd} |-> conn[x]] /\ uneven' = uneven \ {cur.fd}
      BY <2>2 DEF MoreClose, CloseSocket, WithoutConn
    <3>. QED BY <3>1, Zenon
  <2>3. CASE CloseConnections
    <3>1. conn' = [x \in Conns \ (Conns \cup uneven) |-> conn[x]]
          /\ uneven' = uneven \ (Conns \cup uneven) /\ pc # "more"
      BY <2>3 DEF CloseConnections
    <3>. QED BY <3>1, Zenon
  <2>. QED BY <2>1, <2>2, <2>3
<1>2. UNCHANGED <<slip, result>> /\ pc' # "more"
  BY DEF LoopClose, MoreClose, CloseConnections, Continue
<1>3. MessagesWhole' /\ CountRight'
  BY <1>2 DEF StreamPart, MessagesWhole, CountRight
<1>4. SUFFICES ASSUME NEW x \in Conns' \ uneven' PROVE InStep(x)'
  BY <1>3 DEF StreamPart, StreamsFramed
<1>5. x \in Conns \ gone /\ x \notin uneven /\ conn'[x] = conn[x]
  BY <1>1 DEF Conns
<1>6. InBuffer(x) = <<>> /\ InBuffer(x)' = <<>>
  BY <1>1, <1>2, <1>5 DEF InBuffer
<1>. QED BY <1>2, <1>5, <1>6, InStepKept DEF StreamPart, StreamsFramed

LEMMA StreamSelect ==
    ASSUME TablePart, StreamPart, Select
    PROVE  StreamPart'
<1>1. UNCHANGED <<slip, result>> /\ pc = "select" /\ pc' = "loop"
  BY DEF Select
<1>2. MessagesWhole' /\ CountRight'
  BY <1>1 DEF StreamPart, MessagesWhole, CountRight
<1>3. SUFFICES ASSUME NEW x \in Conns' \ uneven' PROVE InStep(x)'
  BY <1>2 DEF StreamPart, StreamsFramed
<1>4. InBuffer(x) = <<>> /\ InBuffer(x)' = <<>>
  BY <1>1 DEF InBuffer
<1>5. CASE x \in Conns \ uneven /\ conn'[x] = conn[x]
  BY <1>1, <1>4, <1>5, InStepKept DEF StreamPart, StreamsFramed
<1>6. CASE ~(x \in Conns \ uneven /\ conn'[x] = conn[x])
  <2>1. pending > 0
    BY <1>6 DEF Select, Conns
  <2>2. NewFd \notin Conns
    BY <2>1, NewFdIsFree
  <2>3. x = NewFd /\ conn'[x].wire = <<>> /\ conn'[x].avail = <<>>
    BY <1>6, <2>1, <2>2 DEF Select, Accept, Conns
  <2>4. Stream(x)' = <<>> \o (<<>> \o <<>>)
    BY <1>4, <2>3 DEF Stream
  <2>5. Stream(x)' = <<>>
    BY <2>4
  <2>. QED BY <2>5 DEF InStep, Framed, Complete
<1>. QED BY <1>5, <1>6

\* What the first recv of a connection that is in step makes of it.
LEMMA StreamLoopRecv ==
    ASSUME TablePart, StreamPart, LoopRecv
    PROVE  StreamPart'
<1>1. First \in todo /\ First \in Conns /\ pc = "loop" /\ slip' = slip /\ slip \in BOOLEAN
  BY FirstIsOpen, ConnTyped DEF LoopRecv
<1>2. PICK fd \in Conns : fd = First
  BY <1>1
<1>3. PICK ret \in Int, b \in Seq(Bytes), rest \in Seq(Bytes) :
         /\ Recv(fd, MaxLen) = [ret |-> ret, bytes |-> b]
         /\ conn[fd].avail = b \o rest
         /\ SubSeq(conn[fd].avail, Len(b) + 1, Len(conn[fd].avail)) = rest
         /\ ret > 0 => Len(b) = ret /\ ret <= MaxLen /\ b # <<>>
         /\ ret <= 0 => b = <<>> /\ ret \in {0, -1} /\ conn[fd].avail = <<>>
  <2>1. StateTyped /\ MaxLen \in Nat \ {0}
    BY NumbersTyped DEF TablePart
  <2>. QED BY <2>1, RecvSplits, Zenon
<1>a. PICK c \in Peers :
         /\ c.wire = conn[fd].wire /\ c.avail = rest /\ (c.peer = "open" => conn[fd].peer = "open")
         /\ AfterRecv(fd, [ret |-> ret, bytes |-> b]) = [conn EXCEPT ![fd] = c]
  <2>0. SubSeq(conn[fd].avail, Len(b) + 1, Len(conn[fd].avail)) = rest
    BY <1>3
  <2>1. RecvLeaves(fd, ret, b, rest)
    BY <2>0, AfterRecvTyped
  <2>. QED BY <2>1, Zenon DEF RecvLeaves
<1>4. PICK r : r = [ret |-> ret, bytes |-> b]
  OBVIOUS
<1>5. PICK n \in PrefixValues(b) :
         /\ conn' = [conn EXCEPT ![fd] = c]
         /\ uneven' = IF Whole(b) \/ (Frame(r, n).remain > 0 /\ Frame(r, n).n > 0 /\ InMessage(b))
                      THEN uneven ELSE uneven \cup {fd}
         /\ IF Frame(r, n).remain > 0
            THEN Continue("more", todo \ {fd}, Frame(r, n).n,
                          [fd |-> fd, remain |-> Frame(r, n).remain, bytes |-> b])
            ELSE IF Frame(r, n).n > 0 THEN Return(Frame(r, n).n, fd, b)
            ELSE Continue("loop", todo \ {fd}, Frame(r, n).n, NoRead)
  BY <1>2, <1>3, <1>4, <1>a DEF LoopRecv
<1>6. PICK w \in Seq(Bytes), t \in Seq(Bytes) : w = conn[fd].wire /\ t = rest \o w
  <2>1. conn[fd].wire \in Seq(Bytes)
    BY ConnTyped
  <2>. QED BY <2>1, ConcatProperties
<1>7. Stream(fd) = b \o t
  <2>1. InBuffer(fd) = <<>>
    BY <1>1 DEF InBuffer
  <2>2. PICK s \in Seq(Bytes) : s = (b \o rest) \o w /\ s = b \o t
    <3>1. (b \o rest) \o w = b \o (rest \o w)
      BY Assoc
    <3>2. b \o t \in Seq(Bytes)
      BY ConcatProperties
    <3>. QED BY <1>6, <3>1, <3>2, Zenon
  <2>3. <<>> \o s = s
    BY ConcatEmptySeq
  <2>. QED BY <1>3, <1>6, <2>1, <2>2, <2>3 DEF Stream
<1>8. fd \notin uneven => /\ Framed(slip, b \o t) /\ Framed(slip, b)
                          /\ (conn[fd].peer = "open" => Complete(slip, b \o t))
  <2>1. SUFFICES ASSUME fd \notin uneven
                 PROVE  /\ Framed(slip, b \o t) /\ Framed(slip, b)
                        /\ (conn[fd].peer = "open" => Complete(slip, b \o t))
    OBVIOUS
  <2>2. Framed(slip, b \o t) /\ (conn[fd].peer = "open" => Complete(slip, b \o t))
    BY <1>7, <2>1 DEF StreamPart, StreamsFramed, InStep
  <2>. QED BY <1>1, <2>2, FramedPrefix
<1>9. fd \notin uneven /\ b # <<>> /\ ~slip /\ Len(b) >= Prefix =>
         /\ n = b[1][1] /\ n \in Sizes /\ n \in Nat \ {0}
         /\ Frame(r, n) = IF n > MaxLen - Prefix THEN [n |-> MsgTooLong, remain |-> MaxLen - ret]
                          ELSE [n |-> n, remain |-> n + Prefix - ret]
  <2>1. SUFFICES ASSUME fd \notin uneven, b # <<>>, ~slip, Len(b) >= Prefix
                 PROVE  /\ n = b[1][1] /\ n \in Sizes /\ n \in Nat \ {0}
                        /\ Frame(r, n) = IF n > MaxLen - Prefix
                                         THEN [n |-> MsgTooLong, remain |-> MaxLen - ret]
                                         ELSE [n |-> n, remain |-> n + Prefix - ret]
    OBVIOUS
  <2>2. b[1][2] = 1 /\ b[1][1] \in Sizes
    BY <1>1, <1>8, <2>1, FramedStart
  <2>3. n = b[1][1]
    BY <2>1, <2>2 DEF PrefixValues
  <2>. QED BY <1>4, <2>1, <2>2, <2>3, ServerAssumption DEF Frame
<1>10. CountRight'
  <2>1. SUFFICES ASSUME pc' = "more", cur'.fd \notin uneven'
                 PROVE  /\ cur'.bytes # <<>>
                        /\ ~slip => /\ nbytes' = cur'.bytes[1][1]
                                    /\ cur'.remain = (cur'.bytes[1][1] + Prefix) - Len(cur'.bytes)
    BY <1>1 DEF CountRight
  <2>2. Frame(r, n).remain > 0
    BY <1>5, <2>1 DEF Continue, Return
  <2>3. nbytes' = Frame(r, n).n /\ cur'.fd = fd /\ cur'.remain = Frame(r, n).remain /\ cur'.bytes = b
    BY <1>5, <2>2 DEF Continue
  <2>4. fd \notin uneven /\ (Whole(b) \/ (Frame(r, n).n > 0 /\ InMessage(b)))
    BY <1>5, <2>1, <2>3
  <2>5. b # <<>>
    BY <2>4 DEF Whole, InMessage
  <2>6. ASSUME ~slip PROVE Frame(r, n).n = b[1][1] /\ Frame(r, n).remain = (b[1][1] + Prefix) - Len(b)
    <3>1. ret > 0 /\ Len(b) = ret /\ ret <= MaxLen /\ Prefix \in Nat \ {0} /\ MaxLen \in Nat
      BY <1>3, <2>5, NumbersTyped
    <3>2. PICK m \in Sizes : m = b[1][1] /\ m \in Nat \ {0}
      BY <1>1, <1>8, <2>4, <2>5, FramedStart, ServerAssumption
    <3>3. Whole(b) => Len(b) = m + Prefix
      <4>1. SUFFICES ASSUME Whole(b) PROVE Len(b) = m + Prefix
        OBVIOUS
      <4>2. b = Sent(slip, m) /\ Size(slip, m) = m + Prefix
        BY <2>6, <3>2, <4>1, MessageIsSent DEF Whole, Size
      <4>. QED BY <1>1, <4>2, SentIsSeq
    <3>4. Len(b) >= Prefix
      BY <2>4, <2>6, <3>1, <3>2, <3>3 DEF InMessage
    <3>5. n = m /\ Frame(r, n) = IF n > MaxLen - Prefix THEN [n |-> MsgTooLong, remain |-> MaxLen - ret]
                                 ELSE [n |-> n, remain |-> n + Prefix - ret]
      BY <1>9, <2>4, <2>5, <2>6, <3>2, <3>4
    <3>6. ~(n > MaxLen - Prefix)
      <4>1. CASE Whole(b)
        BY <3>1, <3>2, <3>3, <3>5, <4>1
      <4>2. CASE Frame(r, n).n > 0
        BY <3>5, <4>2 DEF MsgTooLong
      <4>. QED BY <2>4, <4>1, <4>2
    <3>. QED BY <3>1, <3>2, <3>5, <3>6
  <2>. QED BY <2>3, <2>5, <2>6
<1>11. MessagesWhole'
  <2>1. SUFFICES ASSUME result'.ret > 0 PROVE result'.right
    BY DEF MessagesWhole
  <2>2. CASE Frame(r, n).remain > 0 \/ ~(Frame(r, n).n > 0)
    <3>1. result' = result
      BY <1>5, <2>2 DEF Continue
    <3>. QED BY <2>1, <3>1 DEF StreamPart, MessagesWhole
  <2>3. CASE ~(Frame(r, n).remain > 0) /\ Frame(r, n).n > 0
    <3>1. Return(Frame(r, n).n, fd, b)
      BY <1>5, <2>3
    <3>2. SUFFICES ASSUME fd \notin uneven
                   PROVE  \/ Whole(Taken(Frame(r, n).n, b))
                          \/ slip /\ Frame(r, n).n = MaxLen /\ InMessage(b)
      BY <3>1, Returned
    <3>3. Prefix \in Nat \ {0} /\ MaxLen \in Nat \ {0} /\ n \in Nat
      <4>1. ret <= MaxLen
        BY <1>3, NumbersTyped
      <4>. QED BY <1>1, <1>3, <4>1, NumbersTyped, FrameTyped
    <3>4. ret > 0 /\ b # <<>> /\ Len(b) = ret /\ ret <= MaxLen
      <4>1. SUFFICES ASSUME ~(ret > 0) PROVE FALSE
        BY <1>3
      <4>2. ret <= 0
        BY <4>1
      <4>. QED BY <1>3, <1>4, <2>3, <3>3, <4>2 DEF Frame, MsgTooLong
    <3>5. CASE slip
      <4>1. CASE IsSlipMsg(b)
        <5>1. Frame(r, n).n = ret
          BY <1>4, <3>4, <3>5, <4>1 DEF Frame
        <5>2. ret \in Nat
          BY <3>4
        <5>3. slip = TRUE /\ Framed(slip, b)
          BY <1>1, <1>8, <3>2, <3>5
        <5>. QED BY <3>4, <4>1, <5>1, <5>2, <5>3, TakenSlip
      <4>2. CASE ~IsSlipMsg(b)
        <5>1. Frame(r, n).n = MaxLen
          BY <1>4, <3>5, <4>2 DEF Frame
        <5>2. slip = TRUE /\ Framed(slip, b)
          BY <1>1, <1>8, <3>2, <3>5
        <5>3. InMessage(b)
          BY <3>4, <4>2, <5>2, SlipCutOff
        <5>. QED BY <3>5, <5>1, <5>3
      <4>. QED BY <4>1, <4>2
    <3>6. CASE ~slip
      <4>1. Frame(r, n) = IF n > MaxLen - Prefix THEN [n |-> MsgTooLong, remain |-> MaxLen - ret]
                          ELSE [n |-> n, remain |-> n + Prefix - ret]
        BY <1>4, <3>6 DEF Frame
      <4>2. ~(n > MaxLen - Prefix)
        BY <2>3, <4>1 DEF MsgTooLong
      <4>3. Frame(r, n).n = n /\ Len(b) >= n + Prefix /\ Len(b) >= Prefix
        BY <2>3, <3>3, <3>4, <4>1, <4>2
      <4>4. n = b[1][1] /\ slip = FALSE /\ Framed(slip, b)
        BY <1>1, <1>8, <1>9, <3>2, <3>4, <3>6, <4>3
      <4>5. Whole(Taken(n, b))
        BY <3>4, <4>3, <4>4, TakenCount
      <4>. QED BY <4>3, <4>5
    <3>. QED BY <3>5, <3>6
  <2>. QED BY <2>2, <2>3
<1>12. StreamsFramed'
  <2>1. SUFFICES ASSUME NEW x \in Conns' \ uneven' PROVE InStep(x)'
    BY DEF StreamsFramed
  <2>2. x \in Conns \ uneven /\ InStep(x)
    BY <1>5, <2>1, ConnTyped DEF Conns, StreamPart, StreamsFramed
  <2>3. CASE x # fd
    <3>1. conn'[x] = conn[x]
      BY <1>5, <2>2, <2>3 DEF Conns
    <3>2. InBuffer(x) = <<>> /\ InBuffer(x)' = <<>>
      <4>1. pc' = "more" => cur'.fd = fd
        BY <1>5 DEF Continue, Return
      <4>. QED BY <1>1, <2>3, <4>1 DEF InBuffer
    <3>. QED BY <1>1, <2>2, <3>1, <3>2, InStepKept
  <2>4. CASE x = fd
    <3>1. conn'[fd] = c
      BY <1>5, ConnTyped DEF Conns
    <3>2. Framed(slip, b \o t) /\ (conn'[fd].peer = "open" => Complete(slip, b \o t))
      BY <1>8, <1>a, <2>2, <2>4, <3>1
    <3>3. CASE Frame(r, n).remain > 0
      <4>1. InBuffer(fd)' = b
        BY <1>5, <3>3 DEF Continue, InBuffer
      <4>2. Stream(fd)' = b \o t
        BY <1>6, <1>a, <3>1, <4>1 DEF Stream
      <4>. QED BY <1>1, <2>4, <3>2, <4>2 DEF InStep
    <3>4. CASE ~(Frame(r, n).remain > 0)
      <4>1. InBuffer(fd)' = <<>>
        BY <1>5, <3>4 DEF Continue, Return, InBuffer
      <4>2. Stream(fd)' = t
        <5>1. <<>> \o t = t
          BY ConcatEmptySeq
        <5>. QED BY <1>6, <1>a, <3>1, <4>1, <5>1 DEF Stream
      <4>3. Whole(b)
        BY <1>5, <2>1, <2>4, <3>4
      <4>4. PICK m \in Sizes : b = Sent(slip, m)
        <5>1. b # <<>> /\ b = Sent(slip, b[1][1])
          BY <4>3, MessageIsSent DEF Whole
        <5>2. b[1][1] \in Sizes
          BY <1>1, <1>8, <2>2, <2>4, <5>1, FramedStart
        <5>. QED BY <5>1, <5>2, Zenon
      <4>5. Framed(slip, t)
        BY <1>1, <3>2, <4>4, FramedRest
      <4>6. conn'[fd].peer = "open" => Complete(slip, t)
        BY <1>1, <3>2, CompleteRest
      <4>. QED BY <1>1, <2>4, <4>2, <4>5, <4>6 DEF InStep
    <3>. QED BY <3>3, <3>4
  <2>. QED BY <2>3, <2>4
<1>. QED BY <1>10, <1>11, <1>12 DEF StreamPart

\* A piece of the bytes that holds an END beyond its first byte.
LEMMA SlipMsgBehind ==
    ASSUME NEW c \in Seq(Bytes), NEW b \in Seq(Bytes), IsSlipMsg(b), NEW s \in Seq(Bytes), s = c \o b
    PROVE  IsSlipMsg(s)
<1>1. PICK k \in 2 .. Len(b) : IsEnd(b[k])
  BY DEF IsSlipMsg
<1>2. /\ Len(s) = Len(c) + Len(b)
      /\ \A i \in 1 .. Len(c) + Len(b) : s[i] = IF i <= Len(c) THEN c[i] ELSE b[i - Len(c)]
  BY ConcatProperties, Zenon
<1>3. Len(c) \in Nat /\ Len(b) \in Nat
  BY LenProperties
<1>4. PICK j \in 2 .. Len(s) : j \in 1 .. Len(c) + Len(b) /\ ~(j <= Len(c)) /\ j - Len(c) = k
  <2>1. Len(c) + k \in 2 .. Len(s) /\ Len(c) + k \in 1 .. Len(c) + Len(b) /\ ~(Len(c) + k <= Len(c))
        /\ (Len(c) + k) - Len(c) = k
    BY <1>2, <1>3
  <2>. QED BY <2>1, Zenon
<1>5. s[j] = b[k]
  BY <1>2, <1>4, Zenon
<1>. QED BY <1>1, <1>4, <1>5 DEF IsSlipMsg

LEMMA StreamMoreRecv ==
    ASSUME TablePart, StreamPart, MoreRecv
    PROVE  StreamPart'
<1>1. pc = "more" /\ cur.fd \in Conns /\ cur.remain > 0 /\ cur.remain \in Int /\ slip' = slip
      /\ slip \in BOOLEAN /\ cur.bytes \in Seq(Bytes) /\ nbytes \in Int
  BY ConnTyped DEF MoreRecv, TablePart, StateTyped
<1>2. PICK fd \in Conns : fd = cur.fd
  BY <1>1
<1>3. PICK max \in Nat \ {0}, old \in Seq(Bytes) : max = cur.remain /\ old = cur.bytes
  BY <1>1
<1>4. PICK ret \in Int, b \in Seq(Bytes), rest \in Seq(Bytes) :
         /\ Recv(fd, max) = [ret |-> ret, bytes |-> b]
         /\ conn[fd].avail = b \o rest
         /\ SubSeq(conn[fd].avail, Len(b) + 1, Len(conn[fd].avail)) = rest
         /\ ret > 0 => Len(b) = ret /\ ret <= max /\ b # <<>>
         /\ ret <= 0 => b = <<>> /\ ret \in {0, -1} /\ conn[fd].avail = <<>>
  <2>1. StateTyped
    BY DEF TablePart
  <2>. QED BY <2>1, RecvSplits, Zenon
<1>a. PICK c \in Peers :
         /\ c.wire = conn[fd].wire /\ c.avail = rest /\ (c.peer = "open" => conn[fd].peer = "open")
         /\ AfterRecv(fd, [ret |-> ret, bytes |-> b]) = [conn EXCEPT ![fd] = c]
  <2>0. SubSeq(conn[fd].avail, Len(b) + 1, Len(conn[fd].avail)) = rest
    BY <1>4
  <2>1. RecvLeaves(fd, ret, b, rest)
    BY <2>0, AfterRecvTyped
  <2>. QED BY <2>1, Zenon DEF RecvLeaves
<1>5. PICK bytes \in Seq(Bytes) : bytes = old \o b
  BY ConcatProperties
<1>6. /\ conn' = [conn EXCEPT ![fd] = c] /\ ret > 0
      /\ uneven' = IF Whole(bytes) \/ (InMessage(bytes) /\ max - ret > 0 /\ ~(slip /\ IsSlipMsg(b)))
                   THEN uneven ELSE uneven \cup {fd}
      /\ IF slip /\ IsSlipMsg(b) THEN Return(Len(bytes), fd, bytes)
         ELSE IF max - ret > 0
         THEN Continue("more", todo, nbytes, [cur EXCEPT !.remain = max - ret, !.bytes = bytes])
         ELSE IF slip THEN Continue("loop", todo, MsgTooLong, NoRead)
         ELSE IF nbytes > 0 THEN Return(nbytes, fd, bytes)
         ELSE Continue("loop", todo, nbytes, NoRead)
  BY <1>2, <1>3, <1>4, <1>5, <1>a DEF MoreRecv
<1> DEFINE goesOn == ~(slip /\ IsSlipMsg(b)) /\ max - ret > 0
<1>7. /\ goesOn => /\ pc' = "more" /\ nbytes' = nbytes /\ cur'.fd = fd /\ cur'.remain = max - ret
                   /\ cur'.bytes = bytes /\ result' = result
      /\ ~goesOn => pc' # "more"
  <2>1. PICK d \in Int : d = max - ret
    OBVIOUS
  <2>2. PICK e : e = [cur EXCEPT !.remain = d, !.bytes = bytes]
    OBVIOUS
  <2>3. e.fd = fd /\ e.remain = d /\ e.bytes = bytes
    BY <1>2, <2>2, ConnTyped
  <2>4. goesOn => pc' = "more" /\ nbytes' = nbytes /\ cur' = e /\ result' = result
    BY <1>6, <2>1, <2>2 DEF Continue
  <2>5. ~goesOn => pc' # "more"
    BY <1>6 DEF Continue, Return
  <2>. QED BY <2>1, <2>3, <2>4, <2>5
<1>8. PICK w \in Seq(Bytes), t \in Seq(Bytes) : w = conn[fd].wire /\ t = rest \o w
  <2>1. conn[fd].wire \in Seq(Bytes)
    BY ConnTyped
  <2>. QED BY <2>1, ConcatProperties
<1>9. Stream(fd) = bytes \o t
  <2>1. InBuffer(fd) = old
    BY <1>1, <1>2, <1>3 DEF InBuffer
  <2>2. (b \o rest) \o w = b \o (rest \o w)
    BY Assoc, SMTT(30)
  <2>3. (old \o b) \o t = old \o (b \o t)
    BY Assoc, SMTT(30)
  <2>. QED BY <1>4, <1>5, <1>8, <2>1, <2>2, <2>3, Zenon DEF Stream
<1>10. fd \notin uneven => /\ Framed(slip, bytes \o t) /\ Framed(slip, bytes)
                           /\ (conn[fd].peer = "open" => Complete(slip, bytes \o t))
  <2>1. SUFFICES ASSUME fd \notin uneven
                 PROVE  /\ Framed(slip, bytes \o t) /\ Framed(slip, bytes)
                        /\ (conn[fd].peer = "open" => Complete(slip, bytes \o t))
    OBVIOUS
  <2>2. Framed(slip, bytes \o t) /\ (conn[fd].peer = "open" => Complete(slip, bytes \o t))
    BY <1>9, <2>1 DEF StreamPart, StreamsFramed, InStep
  <2>. QED BY <1>1, <2>2, FramedPrefix
<1>11. /\ Len(bytes) = Len(old) + Len(b) /\ Len(old) \in Nat /\ Len(b) = ret /\ bytes # <<>>
       /\ Len(bytes) \in Nat
  <2>1. Len(bytes) = Len(old) + Len(b)
    BY <1>5, ConcatProperties, Zenon
  <2>2. Len(old) \in Nat /\ Len(b) \in Nat
    BY LenProperties
  <2>. QED BY <1>4, <1>6, <2>1, <2>2
<1>12. fd \notin uneven =>
          /\ bytes[1][1] \in Sizes /\ bytes[1][1] \in Nat \ {0}
          /\ ~slip => nbytes = bytes[1][1] /\ max = (bytes[1][1] + Prefix) - Len(old)
  <2>1. SUFFICES ASSUME fd \notin uneven
                 PROVE  /\ bytes[1][1] \in Sizes /\ bytes[1][1] \in Nat \ {0}
                        /\ ~slip => nbytes = bytes[1][1] /\ max = (bytes[1][1] + Prefix) - Len(old)
    OBVIOUS
  <2>2. old # <<>> /\ (~slip => nbytes = old[1][1] /\ max = (old[1][1] + Prefix) - Len(old))
    BY <1>1, <1>2, <1>3, <2>1 DEF StreamPart, CountRight
  <2>3. bytes[1] = old[1]
    <3>1. \A i \in 1 .. Len(old) + Len(b) : bytes[i] = IF i <= Len(old) THEN old[i] ELSE b[i - Len(old)]
      BY <1>5, ConcatProperties, Zenon
    <3>2. 1 \in 1 .. Len(old) + Len(b) /\ 1 <= Len(old)
      BY <1>6, <1>11, <2>2, EmptySeq
    <3>. QED BY <3>1, <3>2
  <2>4. bytes[1][1] \in Sizes
    BY <1>1, <1>10, <1>11, <2>1, FramedStart
  <2>. QED BY <2>2, <2>3, <2>4, ServerAssumption
<1>13. CountRight'
  <2>1. SUFFICES ASSUME pc' = "more", cur'.fd \notin uneven'
                 PROVE  /\ cur'.bytes # <<>>
                        /\ ~slip => /\ nbytes' = cur'.bytes[1][1]
                                    /\ cur'.remain = (cur'.bytes[1][1] + Prefix) - Len(cur'.bytes)
    BY <1>1 DEF CountRight
  <2>2. goesOn
    BY <1>7, <2>1
  <2>3. fd \notin uneven
    BY <1>6, <1>7, <2>1, <2>2
  <2>4. ~slip => max - ret = (bytes[1][1] + Prefix) - Len(bytes)
    <3>1. SUFFICES ASSUME ~slip PROVE max - ret = (bytes[1][1] + Prefix) - Len(bytes)
      OBVIOUS
    <3>2. PICK m \in Nat, p \in Nat : m = bytes[1][1] /\ p = Prefix /\ max = (m + p) - Len(old)
      BY <1>12, <2>3, <3>1, NumbersTyped
    <3>3. max - ret = (m + p) - Len(bytes)
      <4>1. PICK x \in Nat, y \in Nat : x = Len(old) /\ y = Len(b)
        BY <1>11, LenProperties
      <4>2. max = (m + p) - x /\ ret = y /\ Len(bytes) = x + y
        BY <1>11, <3>2, <4>1, ZenonT(30)
      <4>3. ((m + p) - x) - y = (m + p) - (x + y)
        BY <4>1
      <4>. QED BY <4>2, <4>3, ZenonT(30)
    <3>. QED BY <3>2, <3>3
  <2> HIDE DEF goesOn
  <2>. QED BY <1>7, <1>11, <1>12, <2>2, <2>3, <2>4
<1>14. MessagesWhole'
  <2>1. SUFFICES ASSUME result'.ret > 0 PROVE result'.right
    BY DEF MessagesWhole
  <2>2. CASE slip /\ IsSlipMsg(b)
    <3>1. Return(Len(bytes), fd, bytes)
      BY <1>6, <2>2
    <3>2. SUFFICES ASSUME fd \notin uneven PROVE Whole(Taken(Len(bytes), bytes))
      BY <3>1, Returned
    <3>3. slip = TRUE /\ Framed(slip, bytes) /\ IsSlipMsg(bytes)
      BY <1>1, <1>5, <1>10, <2>2, <3>2, SlipMsgBehind
    <3>. QED BY <1>11, <3>3, TakenSlip
  <2>3. CASE ~slip /\ ~(max - ret > 0) /\ nbytes > 0
    <3>1. Return(nbytes, fd, bytes)
      BY <1>6, <2>3
    <3>2. SUFFICES ASSUME fd \notin uneven PROVE Whole(Taken(nbytes, bytes))
      BY <3>1, Returned
    <3>3. PICK n : n = nbytes
      OBVIOUS
    <3>4. slip = FALSE /\ Framed(slip, bytes) /\ n = bytes[1][1]
      BY <1>1, <1>10, <1>12, <2>3, <3>2, <3>3
    <3>5. Len(bytes) >= n + Prefix
      <4>1. PICK m \in Nat, p \in Nat : m = bytes[1][1] /\ p = Prefix /\ max = (m + p) - Len(old)
        BY <1>12, <2>3, <3>2, NumbersTyped
      <4>2. Len(bytes) >= m + p
        BY <1>11, <2>3, <4>1, SMTT(30)
      <4>. QED BY <3>4, <4>1, <4>2
    <3>6. Whole(Taken(n, bytes))
      BY <1>11, <3>4, <3>5, TakenCount
    <3>. QED BY <3>3, <3>6
  <2>4. CASE ~(slip /\ IsSlipMsg(b)) /\ ~(~slip /\ ~(max - ret > 0) /\ nbytes > 0)
    <3>1. result' = result
      BY <1>6, <2>4 DEF Continue
    <3>. QED BY <2>1, <3>1 DEF StreamPart, MessagesWhole
  <2>. QED BY <2>2, <2>3, <2>4
<1>15. StreamsFramed'
  <2>1. SUFFICES ASSUME NEW x \in Conns' \ uneven' PROVE InStep(x)'
    BY DEF StreamsFramed
  <2>2. x \in Conns \ uneven /\ InStep(x)
    BY <1>6, <2>1, ConnTyped DEF Conns, StreamPart, StreamsFramed
  <2>3. CASE x # fd
    <3>1. conn'[x] = conn[x]
      BY <1>6, <2>2, <2>3 DEF Conns
    <3>2. InBuffer(x) = <<>> /\ InBuffer(x)' = <<>>
      <4>1. pc' = "more" => cur'.fd = fd
        BY <1>7
      <4>. QED BY <1>1, <1>2, <2>3, <4>1 DEF InBuffer
    <3>. QED BY <1>1, <2>2, <3>1, <3>2, InStepKept
  <2>4. CASE x = fd
    <3>1. conn'[fd] = c
      BY <1>6, ConnTyped DEF Conns
    <3>2. Framed(slip, bytes \o t) /\ (conn'[fd].peer = "open" => Complete(slip, bytes \o t))
      BY <1>10, <1>a, <2>2, <2>4, <3>1
    <3>3. CASE goesOn
      <4>1. InBuffer(fd)' = bytes
        BY <1>7, <3>3 DEF InBuffer
      <4>2. Stream(fd)' = bytes \o t
        BY <1>8, <1>a, <3>1, <4>1 DEF Stream
      <4>. QED BY <1>1, <2>4, <3>2, <4>2 DEF InStep
    <3>4. CASE ~goesOn
      <4>1. InBuffer(fd)' = <<>>
        BY <1>7, <3>4 DEF InBuffer
      <4>2. Stream(fd)' = t
        <5>1. <<>> \o t = t
          BY ConcatEmptySeq
        <5>. QED BY <1>8, <1>a, <3>1, <4>1, <5>1 DEF Stream
      <4>3. Whole(bytes)
        BY <1>6, <2>1, <2>4, <3>4
      <4>4. PICK m \in Sizes : bytes = Sent(slip, m)
        <5>1. bytes = Sent(slip, bytes[1][1])
          BY <4>3, MessageIsSent DEF Whole
        <5>2. bytes[1][1] \in Sizes
          BY <1>12, <2>2, <2>4
        <5>. QED BY <5>1, <5>2, Zenon
      <4>5. Framed(slip, t)
        BY <1>1, <3>2, <4>4, FramedRest
      <4>6. conn'[fd].peer = "open" => Complete(slip, t)
        BY <1>1, <3>2, CompleteRest
      <4>. QED BY <1>1, <2>4, <4>2, <4>5, <4>6 DEF InStep
    <3>. QED BY <3>3, <3>4
  <2>. QED BY <2>3, <2>4
<1>. QED BY <1>13, <1>14, <1>15 DEF StreamPart

-----------------------------------------------------------------------------

LEMMA ServerInit == Init => ServerInv
<1>1. ASSUME Init PROVE StreamPart
  BY <1>1 DEF Init, StreamPart, StreamsFramed, CountRight, MessagesWhole, NoResult, Conns
<1>. QED BY <1>1, TableInit DEF ServerInv

LEMMA ServerStep == ServerInv /\ [Next]_vars => ServerInv'
<1>1. SUFFICES ASSUME TablePart, StreamPart, [Next]_vars PROVE StreamPart'
  BY TableStep DEF ServerInv
<1>2. CASE UNCHANGED vars
  <2>1. UNCHANGED <<slip, pc, cur, nbytes, result, uneven, conn>>
    BY <1>2 DEF vars, peers
  <2>2. CountRight' /\ MessagesWhole' /\ \A x : InBuffer(x)' = InBuffer(x)
    BY <1>1, <2>1, OutsideStep
  <2>3. SUFFICES ASSUME NEW x \in Conns' \ uneven' PROVE InStep(x)'
    BY <2>2 DEF StreamPart, StreamsFramed
  <2>4. InStep(x) /\ conn'[x] = conn[x]
    BY <1>1, <2>1 DEF StreamPart, StreamsFramed, Conns
  <2>. QED BY <2>1, <2>2, <2>4, InStepKept
<1>3. CASE Others
  BY <1>1, <1>3, StreamConnect, StreamSend, StreamLeave, StreamClose DEF Others
<1>4. CASE Network
  BY <1>1, <1>4, StreamArrive DEF Network
<1>5. CASE OscRecv
  BY <1>1, <1>5, StreamCall, StreamSelect, StreamClose, StreamLoopRecv, StreamMoreRecv DEF OscRecv
<1>. QED BY <1>1, <1>2, <1>3, <1>4, <1>5 DEF Next

\* A message that osc_recv returns from a connection that was always read at
\* the boundaries of messages is one message as it was sent, in whatever
\* pieces it arrived and whatever stood behind it.
THEOREM MessagesWholeCorrect == Spec => []MessagesWhole
<1>1. ServerInv => MessagesWhole
  BY DEF ServerInv, StreamPart
<1>. QED BY <1>1, ServerInit, ServerStep, PTL DEF Spec
=============================================================================
